------------------------------- MODULE Wizard -------------------------------
(***************************************************************************)
(* The steps of the onboarding wizard (org/new/page.tsx): business         *)
(* details, which also create the organization, the plan, and the phone    *)
(* number with its pretended payment.                                      *)
(***************************************************************************)
EXTENDS Pages

OnStep(t, n) == tab[t].page = "new" /\ tab[t].step = n /\ tab[t].busy = "none"

(* PhoneNumberStep mounts and asks for the number there is.                *)
ToPhoneNumber(t, v) ==
  /\ Post(session, t, Ask("me", "read"), TRUE)
  /\ Wait(t, [v EXCEPT !.step = 3, !.stage = "form", !.shown = None], "load")

HearStatus(t) ==
  \E r \in Heard(t) :
    LET v == [tab[t] EXCEPT !.hasOrg = TRUE, !.plan = req[r].arg, !.org = req[r].org,
                            !.step = NextStep(req[r]), !.busy = "none"]
    IN /\ tab[t].busy = "status"
       /\ \/ /\ req[r].answer = "ok" /\ Complete(req[r])
             /\ Enter(session, t)
          \/ /\ req[r].answer = "ok" /\ ~Complete(req[r])
             /\ IF v.step = 3 THEN ToPhoneNumber(t, v) ELSE Become(t, v) /\ req' = Unheard(t)
             /\ UNCHANGED session
          \/ /\ req[r].answer = "no-org"
             /\ Become(t, [tab[t] EXCEPT !.hasOrg = FALSE, !.step = 1, !.busy = "none"])
             /\ req' = Unheard(t)
             /\ UNCHANGED session
       /\ UNCHANGED <<left, faults, account, orgs, member, whole>>

(* Step 1.  The form may hold what the DTO does not admit.                 *)
Save(s, t, form) ==
  /\ \E admitted \in BOOLEAN : PostSave(s, t, Form(form, form, [d \in Days |-> form]), admitted)
  /\ tab' = WithTab(t, [tab[t] EXCEPT !.form = form, !.busy = "save", !.moved = FALSE], s)
  /\ session' = s

SubmitDetails(t) ==
  /\ OnStep(t, 1)
  /\ Spend
  /\ \E form \in Names :
       IF tab[t].hasOrg THEN Save(session, t, form)
       ELSE /\ Wait(t, [tab[t] EXCEPT !.form = form], "create")
            /\ UNCHANGED <<session, req, whole>>
  /\ UNCHANGED <<faults, account, orgs, member>>

(* organization.create: the slug must be free.  The new organization is    *)
(* active from then on.  A lost answer leaves the page with an error and   *)
(* without hasOrganization.                                                *)
CreateOrg(t) ==
  LET o == tab[t].form IN
  /\ tab[t].busy = "create"
  /\ \/ /\ ~session.signed \/ o \in orgs
        /\ Wait(t, tab[t], "none")
        /\ UNCHANGED <<session, faults, orgs, member>>
     \/ /\ session.signed /\ o \notin orgs
        /\ orgs' = orgs \cup {o} /\ member' = member \cup {o}
        /\ session' = SignedInto(o)
        /\ \/ tab' = WithTab(t, [tab[t] EXCEPT !.busy = "activate"], SignedInto(o)) /\ UNCHANGED faults
           \/ tab' = WithTab(t, [tab[t] EXCEPT !.busy = "none"], SignedInto(o)) /\ Fault
  /\ UNCHANGED <<req, left, account, whole>>

(* setActive, whose result is not looked at, then the profile.             *)
ActivateOrg(t) ==
  /\ tab[t].busy = "activate"
  /\ \/ /\ Save(IF session.signed THEN SignedInto(tab[t].form) ELSE session, t, tab[t].form)
        /\ UNCHANGED faults
     \/ Fault /\ Save(session, t, tab[t].form)
     \/ /\ Fault /\ Wait(t, tab[t], "none") \* the network fails: caught
        /\ UNCHANGED <<session, req, whole>>
  /\ UNCHANGED <<left, account, orgs, member>>

HearSave(t) ==
  \E r \in Heard(t) :
    /\ tab[t].busy = "save" /\ req[r].answer = "ok"
    /\ Become(t, [tab[t] EXCEPT !.hasOrg = TRUE, !.step = 2, !.org = req[r].org, !.busy = "none"])
    /\ req' = Unheard(t)
    /\ UNCHANGED <<session, left, faults, account, orgs, member, whole>>

(* Step 2.                                                                 *)
SubmitPlan(t) ==
  /\ OnStep(t, 2)
  /\ Spend
  /\ \E p \in Plans :
       /\ Post(session, t, [Ask("plan", "write") EXCEPT !.arg = p], TRUE)
       /\ Wait(t, [tab[t] EXCEPT !.form = p], "plan")
  /\ UNCHANGED <<session, faults, account, orgs, member, whole>>

HearPlan(t) ==
  \E r \in Heard(t) :
    /\ tab[t].busy = "plan" /\ req[r].answer = "ok"
    /\ ToPhoneNumber(t, [tab[t] EXCEPT !.plan = tab[t].form])
    /\ UNCHANGED <<session, left, faults, account, orgs, member, whole>>

(* Mutant: the loading ends only with a number.                            *)
FaultyHearLoad(t) ==
  \E r \in Heard(t) :
    /\ tab[t].busy = "load"
    /\ IF req[r].answer = "ok" THEN Wait(t, [tab[t] EXCEPT !.shown = req[r].arg], "none")
                               ELSE UNCHANGED tab
    /\ req' = Unheard(t)
    /\ UNCHANGED <<session, left, faults, account, orgs, member, whole>>

(* Step 3.  Any failure to load the number is taken for there being none.  *)
HearLoad(t) ==
  \E r \in Heard(t) :
    /\ tab[t].busy = "load"
    /\ Wait(t, [tab[t] EXCEPT !.shown = IF req[r].answer = "ok" THEN req[r].arg ELSE None], "none")
    /\ req' = Unheard(t)
    /\ UNCHANGED <<session, left, faults, account, orgs, member, whole>>

Settling == {"PURCHASED", "AWAITING_APPROVAL"}
OnStage(t, stage) == OnStep(t, 3) /\ tab[t].shown \notin Settling /\ tab[t].stage = stage

(* The form is complete: a type, and a number to forward in its format.    *)
ContinueForm(t) ==
  /\ OnStage(t, "form")
  /\ Become(t, [tab[t] EXCEPT !.stage = "paying"])
  /\ UNCHANGED <<session, req, left, faults, account, orgs, member, whole>>

Pay(t) ==
  /\ OnStage(t, "paying")
  /\ Wait(t, tab[t], "timer")
  /\ UNCHANGED <<session, req, left, faults, account, orgs, member, whole>>

Paid(t) ==
  /\ tab[t].busy = "timer"
  /\ Wait(t, [tab[t] EXCEPT !.stage = "paid"], "none")
  /\ UNCHANGED <<session, req, left, faults, account, orgs, member, whole>>

ConfirmRequest(t) ==
  /\ OnStage(t, "paid")
  /\ Spend
  /\ Post(session, t, Ask("provision", "find"), TRUE)
  /\ Wait(t, tab[t], "provision")
  /\ UNCHANGED <<session, faults, account, orgs, member, whole>>

HearProvision(t) ==
  \E r \in Heard(t) :
    /\ tab[t].busy = "provision" /\ req[r].answer = "ok"
    /\ Wait(t, [tab[t] EXCEPT !.shown = req[r].arg], "none")
    /\ req' = Unheard(t)
    /\ UNCHANGED <<session, left, faults, account, orgs, member, whole>>

GoToDashboard(t) ==
  /\ OnStep(t, 3) /\ tab[t].shown \in Settling
  /\ Spend
  /\ Enter(session, t)
  /\ UNCHANGED <<faults, account, orgs, member, whole>>

Back(t) ==
  /\ Spend
  /\ \/ OnStep(t, 2) /\ Become(t, [tab[t] EXCEPT !.step = 1])
     \/ OnStage(t, "form") /\ Become(t, [tab[t] EXCEPT !.step = 2])
     \/ OnStage(t, "paying") /\ Become(t, [tab[t] EXCEPT !.stage = "form"])
  /\ UNCHANGED <<session, req, faults, account, orgs, member, whole>>

(* A request for which the dashboard has no button: sent by hand.          *)
AskVerify(t) ==
  /\ tab[t].page = "dashboard" /\ tab[t].busy = "none"
  /\ Spend
  /\ Post(session, t, Ask("verify", "find"), TRUE)
  /\ Wait(t, tab[t], "verify")
  /\ UNCHANGED <<session, faults, account, orgs, member, whole>>

(* An answer that is an error (status without an organization, and the     *)
(* proxy's and the number's answers, have actions of their own), or an     *)
(* answer that is lost, while the request may be served all the same.      *)
HearError(t) ==
  /\ tab[t].busy \in Waits \ {"enter", "load"}
  /\ \/ /\ \E r \in Heard(t) : req[r].answer # "ok" /\ ~(req[r].answer = "no-org" /\ tab[t].busy = "status")
        /\ UNCHANGED faults
     \/ Fault
  /\ Wait(t, tab[t], "none")
  /\ req' = Unheard(t)
  /\ UNCHANGED <<session, left, account, orgs, member, whole>>

HearVerify(t) ==
  \E r \in Heard(t) :
    /\ tab[t].busy = "verify" /\ req[r].answer = "ok"
    /\ Wait(t, tab[t], "none")
    /\ req' = Unheard(t)
    /\ UNCHANGED <<session, left, faults, account, orgs, member, whole>>

Steps(t) ==
  \/ HearStatus(t)
  \/ SubmitDetails(t) \/ CreateOrg(t) \/ ActivateOrg(t) \/ HearSave(t)
  \/ SubmitPlan(t) \/ HearPlan(t)
  \/ HearLoad(t) \/ ContinueForm(t) \/ Pay(t) \/ Paid(t) \/ ConfirmRequest(t) \/ HearProvision(t)
  \/ GoToDashboard(t) \/ Back(t)
  \/ AskVerify(t) \/ HearVerify(t)
  \/ HearError(t)

-----------------------------------------------------------------------------
TabsTypeOK == tab \in [Tabs -> Tab] /\ left \in Nat

(* A tab that the proxy let into the dashboard is one whose organization   *)
(* had a profile, a plan and a purchased number, and still has, unless two *)
(* writers of the number overlapped.  (The status is read in three calls.) *)
DashboardMeansComplete ==
  \A t \in Tabs :
    LET o == tab[t].org IN
    tab[t].page = "dashboard" /\ o \notin overlapped =>
      /\ profile[o].name # None /\ plan[o] # None
      /\ \E i \in DOMAIN number[o] : number[o][i].status = "PURCHASED"

(* On a later step of the wizard the earlier ones are stored for the       *)
(* organization the tab is at: a profile from step 2 on; at the payment,   *)
(* the plan whose price the page adds up is one the organization was       *)
(* given, unless another tab changed the active organization meanwhile.    *)
StepsInOrder ==
  \A t \in Tabs :
    LET v == tab[t] IN
    v.page = "new" =>
      /\ v.step >= 2 => profile[v.org].name # None
      /\ v.step = 3 /\ ~v.moved => v.plan \in chosen[v.org]

(* A tab that shows it is waiting for the API has a request under way or   *)
(* answered: reloads, lost answers and other tabs' sign-outs leave no      *)
(* spinner without an answer to come.                                      *)
WaitingIsAnswered == \A t \in Tabs : tab[t].busy \in Waits => Listening(t)
=============================================================================
