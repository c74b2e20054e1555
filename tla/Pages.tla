-------------------------------- MODULE Pages --------------------------------
(***************************************************************************)
(* The browser: tabs on the sign-in and sign-up pages, in the onboarding   *)
(* wizard (org/new/page.tsx) and on the dashboard, which proxy.ts guards.  *)
(* A tab waits for at most one answer at a time (busy).  What a form holds *)
(* is chosen when it is submitted.                                         *)
(***************************************************************************)
EXTENDS Organization

VARIABLES
  tab,
  left         \* moves the user has left (a bound)

Waits == {"status", "enter", "save", "plan", "load", "provision", "verify"}
Tab ==
  [page : {"sign-in", "sign-up", "new", "entering", "dashboard"},
   step : 0 .. 3,               \* 0: checking the status, or it failed
   hasOrg : BOOLEAN, plan : Plans \cup {None},
   org : Org,                   \* history: the organization last heard of
   moved : BOOLEAN,             \* history: another tab has changed the active one since
   form : Org \cup Plans,       \* what was submitted
   stage : {"form", "paying", "paid"},
   shown : Status \cup {None},  \* provisioningStatus of the number shown
   busy : Waits \cup {"none", "create", "activate", "timer", "list", "choose", "stuck"}]

At(page) ==
  [page |-> page, step |-> 0, hasOrg |-> FALSE, plan |-> None, org |-> None, moved |-> FALSE,
   form |-> None, stage |-> "form", shown |-> None, busy |-> "none"]

Spend == left > 0 /\ left' = left - 1

(* Tab t becomes v; the other tabs may find the session's organization     *)
(* changed under them.                                                     *)
WithTab(t, v, s) ==
  [x \in Tabs |-> IF x = t THEN v ELSE [tab[x] EXCEPT !.moved = @ \/ s.active # session.active]]
Become(t, v) == tab' = [tab EXCEPT ![t] = v]
Wait(t, v, busy) == Become(t, [v EXCEPT !.busy = busy])

-----------------------------------------------------------------------------
(* Pages                                                                   *)

(* page.tsx mounts and asks for the status.                                *)
Visit(s, t) ==
  /\ session' = s
  /\ PostStatus(s, t)
  /\ tab' = WithTab(t, [At("new") EXCEPT !.busy = "status"], s)

(* proxy.ts: without a cookie to sign-in; otherwise it asks for the status.*)
Enter(s, t) ==
  /\ session' = s
  /\ IF s.signed THEN PostStatus(s, t) ELSE req' = Unheard(t)
  /\ tab' = WithTab(t, IF s.signed THEN [At("entering") EXCEPT !.busy = "enter"] ELSE At("sign-in"), s)

Open(t) ==
  /\ Spend
  /\ \/ Visit(session, t)
     \/ Enter(session, t)
     \/ \E page \in {"sign-in", "sign-up"} :
          Become(t, At(page)) /\ req' = Unheard(t) /\ UNCHANGED session
  /\ UNCHANGED <<faults, account, orgs, member>>

(* Mutant: a profile and a plan are enough for the dashboard.              *)
FaultyAdmitted(q) == q.answer = "ok" /\ {"profile", "plan"} \subseteq q.seen
(* proxy.ts fails closed.                                                  *)
Admitted(q) == q.answer = "ok" /\ Complete(q)

HearEnter(t) ==
  \E r \in Heard(t) :
    /\ tab[t].busy = "enter"
    /\ IF Admitted(req[r])
       THEN /\ Become(t, [At("dashboard") EXCEPT !.org = req[r].org])
            /\ req' = Unheard(t)
            /\ UNCHANGED session
       ELSE Visit(session, t)
    /\ UNCHANGED <<left, faults, account, orgs, member>>

SignOut(t) ==
  /\ tab[t].page = "dashboard" /\ tab[t].busy = "none"
  /\ Spend
  /\ session' = SignedOut
  /\ tab' = WithTab(t, At("sign-in"), SignedOut)
  /\ req' = Unheard(t)
  /\ UNCHANGED <<faults, account, orgs, member>>

SignUp(t) ==
  /\ tab[t].page = "sign-up" /\ tab[t].busy = "none"
  /\ ~account \* or the page shows the error
  /\ account' = TRUE
  /\ Visit(SignedInto(None), t)
  /\ UNCHANGED <<left, faults, orgs, member>>

(* A new session, with no active organization.                             *)
SignIn(t) ==
  /\ tab[t].page = "sign-in" /\ tab[t].busy = "none"
  /\ account
  /\ session' = SignedInto(None)
  /\ tab' = WithTab(t, [tab[t] EXCEPT !.busy = "list"], SignedInto(None))
  /\ UNCHANGED <<req, left, faults, account, orgs, member>>

(* No organizations, or the list could not be had: to the wizard.          *)
SignInList(t) ==
  /\ tab[t].busy = "list"
  /\ \/ /\ (member = {} \/ ~session.signed) /\ UNCHANGED faults
        /\ Visit(session, t)
     \/ /\ Fault
        /\ Visit(session, t)
     \/ /\ session.signed /\ UNCHANGED <<faults, session, req>>
        /\ \E o \in member : Become(t, [tab[t] EXCEPT !.busy = "choose", !.form = o])
  /\ UNCHANGED <<left, account, orgs, member>>

(* setActive's result is not looked at.                                    *)
SignInChoose(t) ==
  /\ tab[t].busy = "choose"
  /\ \/ /\ UNCHANGED faults
        /\ Enter(IF session.signed THEN SignedInto(tab[t].form) ELSE session, t)
     \/ Fault /\ Enter(session, t)
  /\ UNCHANGED <<left, account, orgs, member>>

(* Nothing catches a network failure on these pages: the button stays      *)
(* disabled until the page is reloaded.                                    *)
SignStuck(t) ==
  /\ \/ tab[t].busy \in {"list", "choose"}
     \/ tab[t].page \in {"sign-in", "sign-up"} /\ tab[t].busy = "none"
  /\ Fault
  /\ Wait(t, tab[t], "stuck")
  /\ UNCHANGED <<session, req, left, account, orgs, member>>

Pages(t) ==
  \/ Open(t)
  \/ HearEnter(t)
  \/ SignOut(t)
  \/ SignUp(t)
  \/ SignIn(t)
  \/ SignInList(t)
  \/ SignInChoose(t)
  \/ SignStuck(t)
=============================================================================
