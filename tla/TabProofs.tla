------------------------------ MODULE TabProofs ------------------------------
(***************************************************************************)
(* What the wizard's tabs count on, for any number of tabs, requests,      *)
(* forms, failures and runs of the scripts: an answer to come, a save that *)
(* is whole when it was answered, and edits that the seed keeps.           *)
(***************************************************************************)
EXTENDS NumberProofs

-----------------------------------------------------------------------------
(* What a move of the user does.                                           *)

TabFields == {"page", "step", "hasOrg", "plan", "org", "moved", "form", "stage", "shown", "busy"}
TabOK(v) == TabFields \subseteq DOMAIN v /\ (v.busy \in {"create", "activate"} => v.form # None)
TabsOK == DOMAIN tab = Tabs /\ \A t \in Tabs : TabOK(tab[t])

(* Tab t has changed, and the others have not begun or ended to wait.      *)
Changed(t) ==
  /\ DOMAIN tab' = Tabs /\ \A x \in Tabs : TabOK(tab'[x])
  /\ \A x \in Tabs \ {t} : tab'[x].busy = tab[x].busy

Moved(t) ==
  /\ Changed(t)
  /\ \/ tab'[t].busy \notin Waits /\ UNCHANGED <<req, whole>>
     \/ tab'[t].busy \notin Waits /\ req' = Unheard(t) /\ UNCHANGED whole
     \/ \E s, q, admitted :
          Unread(q) /\ q.kind \notin {"save", "free"} /\ Post(s, t, q, admitted) /\ UNCHANGED whole
     \/ \E s, form, admitted :
          form # None /\ PostSave(s, t, Form(form, form, [d \in Days |-> form]), admitted)

LEMMA BecomeChanges ==
  ASSUME TabsOK, NEW t \in Tabs, NEW v, TabOK(v), Become(t, v)
  PROVE  Changed(t) /\ tab'[t] = v
BY DEF TabsOK, Become, Changed

LEMMA WithTabChanges ==
  ASSUME TabsOK, NEW t \in Tabs, NEW v, NEW s, TabOK(v), tab' = WithTab(t, v, s)
  PROVE  Changed(t) /\ tab'[t] = v
<1> DEFINE m(x) == [tab[x] EXCEPT !.moved = @ \/ s.active # session.active]
<1>1. \A x \in Tabs : TabOK(m(x)) /\ m(x).busy = tab[x].busy
  BY DEF TabsOK, TabOK, TabFields
<1>2. \A x \in Tabs : tab'[x] = IF x = t THEN v ELSE m(x)
  BY DEF WithTab
<1>3. DOMAIN tab' = Tabs
  BY DEF WithTab
<1> HIDE DEF m
<1> QED BY <1>1, <1>2, <1>3 DEF Changed

LEMMA AtOK ==
  ASSUME NEW page
  PROVE  TabOK(At(page)) /\ At(page).busy = "none"
BY DEF At, TabOK, TabFields

LEMMA BusyOK ==
  ASSUME NEW v, TabFields \subseteq DOMAIN v, NEW busy, busy \notin {"create", "activate"}
  PROVE  TabOK([v EXCEPT !.busy = busy]) /\ [v EXCEPT !.busy = busy].busy = busy
BY DEF TabOK, TabFields

LEMMA WaitChanges ==
  ASSUME TabsOK, NEW t \in Tabs, NEW v, TabFields \subseteq DOMAIN v,
         NEW busy, busy \notin {"create", "activate"}, Wait(t, v, busy)
  PROVE  Changed(t) /\ tab'[t].busy = busy
<1>1. Become(t, [v EXCEPT !.busy = busy])
  BY DEF Wait
<1> QED BY <1>1, BusyOK, BecomeChanges

(* Sends what is no save.                                                  *)
Asks(t) ==
  \E s, q, admitted :
    Unread(q) /\ q.kind \notin {"save", "free"} /\ Post(s, t, q, admitted) /\ UNCHANGED whole

LEMMA StatusAsks ==
  ASSUME NEW s, NEW t, PostStatus(s, t), UNCHANGED whole
  PROVE  Asks(t)
<1> DEFINE q == [Ask("status", "read") EXCEPT !.todo = StatusReads]
<1>1. Unread(q) /\ q.kind = "status"
  BY AskUnread DEF Unread, RequestFields
<1>2. Post(s, t, q, TRUE)
  BY DEF PostStatus
<1> HIDE DEF q
<1> QED BY <1>1, <1>2 DEF Asks

LEMMA AskAsks ==
  ASSUME NEW s, NEW t, NEW kind \in {"me", "provision", "verify"}, NEW at,
         kind # "me" => at = "find", Post(s, t, Ask(kind, at), TRUE), UNCHANGED whole
  PROVE  Asks(t)
<1>1. Unread(Ask(kind, at)) /\ Ask(kind, at).kind = kind
  BY AskUnread
<1> QED BY <1>1 DEF Asks

LEMMA VisitMoves ==
  ASSUME TabsOK, NEW s, NEW t \in Tabs, Visit(s, t), UNCHANGED whole
  PROVE  Moved(t)
<1>1. TabOK([At("new") EXCEPT !.busy = "status"])
  BY AtOK, BusyOK DEF TabOK
<1>2. Changed(t)
  BY <1>1, WithTabChanges DEF Visit
<1>3. Asks(t)
  BY StatusAsks DEF Visit
<1> QED BY <1>2, <1>3 DEF Moved, Asks

LEMMA EnterMoves ==
  ASSUME TabsOK, NEW s, NEW t \in Tabs, Enter(s, t), UNCHANGED whole
  PROVE  Moved(t)
<1>1. TabOK([At("entering") EXCEPT !.busy = "enter"]) /\ TabOK(At("sign-in")) /\ At("sign-in").busy = "none"
  BY AtOK, BusyOK DEF TabOK
<1>2. CASE s.signed
  <2>1. Changed(t)
    BY <1>1, <1>2, WithTabChanges DEF Enter
  <2>2. Asks(t)
    BY <1>2, StatusAsks DEF Enter
  <2> QED BY <2>1, <2>2 DEF Moved, Asks
<1>3. CASE ~s.signed
  <2>1. Changed(t) /\ tab'[t].busy = "none"
    BY <1>1, <1>3, WithTabChanges DEF Enter
  <2> QED BY <1>3, <2>1 DEF Enter, Moved, Waits
<1> QED BY <1>2, <1>3

(* A tab that is to wait for nothing from the API.                         *)
LEMMA RestMoves ==
  ASSUME TabsOK, NEW t \in Tabs, Changed(t), tab'[t].busy \notin Waits, UNCHANGED whole,
         UNCHANGED req \/ req' = Unheard(t)
  PROVE  Moved(t)
BY DEF Moved

LEMMA PagesMove ==
  ASSUME TabsOK, NEW t \in Tabs, Pages(t), UNCHANGED whole
  PROVE  Moved(t)
<1>0. /\ TabOK(tab[t]) /\ TabFields \subseteq DOMAIN tab[t]
      /\ {"none", "list", "choose", "stuck", "timer"} \cap (Waits \cup {"create", "activate"}) = {}
  BY DEF TabsOK, TabOK, Waits
<1>1. CASE Open(t)
  <2>1. ASSUME NEW page, Become(t, At(page)) /\ req' = Unheard(t) PROVE Moved(t)
    <3>1. Changed(t) /\ tab'[t] = At(page)
      BY <2>1, AtOK, BecomeChanges
    <3> QED BY <1>0, <2>1, <3>1, AtOK, RestMoves
  <2> QED BY <1>1, <2>1, VisitMoves, EnterMoves DEF Open
<1>2. CASE HearEnter(t)
  <2>1. PICK r \in Heard(t) :
          IF Admitted(req[r])
          THEN Become(t, [At("dashboard") EXCEPT !.org = req[r].org]) /\ req' = Unheard(t) /\ UNCHANGED session
          ELSE Visit(session, t)
    BY <1>2 DEF HearEnter
  <2>2. CASE Admitted(req[r])
    <3> DEFINE v == [At("dashboard") EXCEPT !.org = req[r].org]
    <3>1. TabOK(v) /\ v.busy = "none"
      BY DEF At, TabOK, TabFields
    <3> HIDE DEF v
    <3>2. Changed(t) /\ tab'[t] = v
      BY <2>1, <2>2, <3>1, BecomeChanges DEF v
    <3> QED BY <1>0, <2>1, <2>2, <3>1, <3>2, RestMoves
  <2> QED BY <2>1, <2>2, VisitMoves
<1>3. CASE SignOut(t)
  <2>1. Changed(t) /\ tab'[t] = At("sign-in")
    BY <1>3, AtOK, WithTabChanges DEF SignOut
  <2> QED BY <1>0, <1>3, <2>1, AtOK, RestMoves DEF SignOut
<1>4. CASE SignUp(t)
  BY <1>4, VisitMoves DEF SignUp
<1>5. CASE SignIn(t)
  <2>1. TabOK([tab[t] EXCEPT !.busy = "list"]) /\ [tab[t] EXCEPT !.busy = "list"].busy = "list"
    BY <1>0, BusyOK
  <2>2. Changed(t) /\ tab'[t].busy = "list"
    BY <1>5, <2>1, WithTabChanges DEF SignIn
  <2> QED BY <1>0, <1>5, <2>2, RestMoves DEF SignIn
<1>6. CASE SignInList(t)
  <2>1. ASSUME NEW o \in member, Become(t, [tab[t] EXCEPT !.busy = "choose", !.form = o]), UNCHANGED req
        PROVE  Moved(t)
    <3> DEFINE v == [tab[t] EXCEPT !.busy = "choose", !.form = o]
    <3>1. TabOK(v) /\ v.busy = "choose"
      BY <1>0 DEF TabOK, TabFields
    <3> HIDE DEF v
    <3>2. Changed(t) /\ tab'[t] = v
      BY <2>1, <3>1, BecomeChanges DEF v
    <3> QED BY <1>0, <2>1, <3>1, <3>2, RestMoves
  <2> QED BY <1>6, <2>1, VisitMoves DEF SignInList
<1>7. CASE SignInChoose(t)
  BY <1>7, EnterMoves DEF SignInChoose
<1>8. CASE SignStuck(t)
  <2>1. Changed(t) /\ tab'[t].busy = "stuck"
    BY <1>0, <1>8, WaitChanges DEF SignStuck
  <2> QED BY <1>0, <1>8, <2>1, RestMoves DEF SignStuck
<1> QED BY <1>1, <1>2, <1>3, <1>4, <1>5, <1>6, <1>7, <1>8 DEF Pages

LEMMA ToPhoneNumberMoves ==
  ASSUME TabsOK, NEW t \in Tabs, NEW v, TabFields \subseteq DOMAIN v, ToPhoneNumber(t, v), UNCHANGED whole
  PROVE  Moved(t)
<1> DEFINE w == [v EXCEPT !.step = 3, !.stage = "form", !.shown = None]
<1>1. TabFields \subseteq DOMAIN w
  BY DEF TabFields
<1>2. Wait(t, w, "load") /\ Post(session, t, Ask("me", "read"), TRUE)
  BY DEF ToPhoneNumber
<1> HIDE DEF w
<1>3. Changed(t)
  BY <1>1, <1>2, WaitChanges
<1>4. Asks(t)
  BY <1>2, AskAsks
<1> QED BY <1>3, <1>4 DEF Moved, Asks

LEMMA SaveMoves ==
  ASSUME TabsOK, NEW t \in Tabs, NEW s, NEW form, form # None, Save(s, t, form)
  PROVE  Moved(t)
<1> DEFINE v == [tab[t] EXCEPT !.form = form, !.busy = "save", !.moved = FALSE]
<1>1. TabOK(v)
  BY DEF TabsOK, TabOK, TabFields
<1>2. tab' = WithTab(t, v, s)
      /\ \E admitted : PostSave(s, t, Form(form, form, [d \in Days |-> form]), admitted)
  BY DEF Save
<1> HIDE DEF v
<1>3. Changed(t)
  BY <1>1, <1>2, WithTabChanges
<1> QED BY <1>2, <1>3 DEF Moved

LEMMA StepsMove ==
  ASSUME TabsOK, NEW t \in Tabs, Steps(t)
  PROVE  Moved(t)
<1>0. /\ TabOK(tab[t]) /\ TabFields \subseteq DOMAIN tab[t]
      /\ {"none", "list", "choose", "stuck", "timer"} \cap (Waits \cup {"create", "activate"}) = {}
  BY DEF TabsOK, TabOK, Waits
<1>1. ASSUME NEW v, TabFields \subseteq DOMAIN v, NEW busy, busy \in {"none", "timer"}, Wait(t, v, busy),
             UNCHANGED whole, UNCHANGED req \/ req' = Unheard(t)
      PROVE  Moved(t)
  <2>1. busy \notin Waits \cup {"create", "activate"}
    BY <1>0, <1>1
  <2>2. Changed(t) /\ tab'[t].busy = busy
    BY <1>1, <2>1, WaitChanges
  <2> QED BY <1>1, <2>1, <2>2, RestMoves
<1>2. ASSUME NEW v, TabFields \subseteq DOMAIN v, v.busy = "none", Become(t, v),
             UNCHANGED whole, UNCHANGED req \/ req' = Unheard(t)
      PROVE  Moved(t)
  <2>1. TabOK(v) /\ "none" \notin Waits
    BY <1>0, <1>2 DEF TabOK
  <2>2. Changed(t) /\ tab'[t] = v
    BY <1>2, <2>1, BecomeChanges
  <2> QED BY <1>2, <2>1, <2>2, RestMoves
<1>3. CASE HearStatus(t)
  <2>1. PICK r \in Heard(t) :
          LET v == [tab[t] EXCEPT !.hasOrg = TRUE, !.plan = req[r].arg, !.org = req[r].org,
                                  !.step = NextStep(req[r]), !.busy = "none"]
          IN /\ \/ Enter(session, t)
                \/ IF v.step = 3 THEN ToPhoneNumber(t, v) ELSE Become(t, v) /\ req' = Unheard(t)
                \/ /\ Become(t, [tab[t] EXCEPT !.hasOrg = FALSE, !.step = 1, !.busy = "none"])
                   /\ req' = Unheard(t)
             /\ UNCHANGED whole
    BY <1>3 DEF HearStatus
  <2> DEFINE v == [tab[t] EXCEPT !.hasOrg = TRUE, !.plan = req[r].arg, !.org = req[r].org,
                                 !.step = NextStep(req[r]), !.busy = "none"]
             w == [tab[t] EXCEPT !.hasOrg = FALSE, !.step = 1, !.busy = "none"]
  <2>2. TabFields \subseteq DOMAIN v /\ v.busy = "none"
    BY <1>0 DEF TabFields
  <2>3. TabFields \subseteq DOMAIN w /\ w.busy = "none"
    BY <1>0 DEF TabFields
  <2>4. /\ Enter(session, t) \/ ToPhoneNumber(t, v) \/ (Become(t, v) /\ req' = Unheard(t))
             \/ (Become(t, w) /\ req' = Unheard(t))
        /\ UNCHANGED whole
    BY <2>1
  <2> HIDE DEF v, w
  <2> QED BY <1>2, <2>2, <2>3, <2>4, EnterMoves, ToPhoneNumberMoves
<1>4. CASE SubmitDetails(t)
  <2>1. PICK form \in Names :
          \/ Save(session, t, form)
          \/ Wait(t, [tab[t] EXCEPT !.form = form], "create") /\ UNCHANGED <<req, whole>>
    BY <1>4 DEF SubmitDetails
  <2>2. form # None
    BY NoneAssumption
  <2>3. ASSUME Wait(t, [tab[t] EXCEPT !.form = form], "create") /\ UNCHANGED <<req, whole>>
        PROVE  Moved(t)
    <3> DEFINE v == [[tab[t] EXCEPT !.form = form] EXCEPT !.busy = "create"]
    <3>1. TabOK(v) /\ v.busy = "create"
      BY <1>0, <2>2 DEF TabOK, TabFields
    <3> HIDE DEF v
    <3>2. Changed(t) /\ tab'[t] = v
      BY <2>3, <3>1, BecomeChanges DEF v, Wait
    <3> QED BY <2>3, <3>1, <3>2, RestMoves DEF Waits
  <2> QED BY <2>1, <2>2, <2>3, SaveMoves
<1>5. CASE CreateOrg(t)
  <2>1. UNCHANGED <<req, whole>> /\ tab[t].form # None
    BY <1>0, <1>5 DEF CreateOrg, TabOK
  <2>2. CASE Wait(t, tab[t], "none")
    BY <1>0, <1>1, <2>1, <2>2
  <2>3. ASSUME NEW busy \in {"activate", "none"}, tab' = WithTab(t, [tab[t] EXCEPT !.busy = busy], SignedInto(tab[t].form))
        PROVE  Moved(t)
    <3> DEFINE v == [tab[t] EXCEPT !.busy = busy]
    <3>1. TabOK(v) /\ v.busy = busy
      BY <1>0, <2>1 DEF TabOK, TabFields
    <3> HIDE DEF v
    <3>2. Changed(t) /\ tab'[t] = v
      BY <2>3, <3>1, WithTabChanges DEF v
    <3> QED BY <2>1, <3>1, <3>2, RestMoves DEF Waits
  <2> QED BY <1>5, <2>2, <2>3 DEF CreateOrg
<1>6. CASE ActivateOrg(t)
  <2>1. tab[t].form # None
    BY <1>0, <1>6 DEF ActivateOrg, TabOK
  <2> QED BY <1>0, <1>1, <1>6, <2>1, SaveMoves DEF ActivateOrg
<1>7. CASE HearSave(t)
  <2>1. PICK r \in Heard(t) :
          Become(t, [tab[t] EXCEPT !.hasOrg = TRUE, !.step = 2, !.org = req[r].org, !.busy = "none"])
    BY <1>7 DEF HearSave
  <2> DEFINE v == [tab[t] EXCEPT !.hasOrg = TRUE, !.step = 2, !.org = req[r].org, !.busy = "none"]
  <2>2. TabFields \subseteq DOMAIN v /\ v.busy = "none"
    BY <1>0 DEF TabFields
  <2> HIDE DEF v
  <2> QED BY <1>2, <1>7, <2>1, <2>2 DEF HearSave, v
<1>8. CASE SubmitPlan(t)
  <2>1. PICK p \in Plans :
          /\ Post(session, t, [Ask("plan", "write") EXCEPT !.arg = p], TRUE)
          /\ Wait(t, [tab[t] EXCEPT !.form = p], "plan")
    BY <1>8 DEF SubmitPlan
  <2> DEFINE q == [Ask("plan", "write") EXCEPT !.arg = p]
             v == [tab[t] EXCEPT !.form = p]
  <2>2. Unread(q) /\ q.kind = "plan"
    BY AskUnread DEF Unread, RequestFields
  <2>3. TabFields \subseteq DOMAIN v
    BY <1>0 DEF TabFields
  <2> HIDE DEF q, v
  <2>4. Changed(t)
    BY <2>1, <2>3, WaitChanges DEF v
  <2> QED BY <1>8, <2>1, <2>2, <2>4 DEF q, Moved, SubmitPlan
<1>9. CASE HearPlan(t)
  <2> DEFINE v == [tab[t] EXCEPT !.plan = tab[t].form]
  <2>1. TabFields \subseteq DOMAIN v
    BY <1>0 DEF TabFields
  <2>2. ToPhoneNumber(t, v) /\ UNCHANGED whole
    BY <1>9 DEF HearPlan
  <2> HIDE DEF v
  <2> QED BY <2>1, <2>2, ToPhoneNumberMoves
<1>10. CASE HearLoad(t)
  <2>1. PICK r \in Heard(t) :
          Wait(t, [tab[t] EXCEPT !.shown = IF req[r].answer = "ok" THEN req[r].arg ELSE None], "none")
    BY <1>10 DEF HearLoad
  <2> DEFINE v == [tab[t] EXCEPT !.shown = IF req[r].answer = "ok" THEN req[r].arg ELSE None]
  <2>2. TabFields \subseteq DOMAIN v
    BY <1>0 DEF TabFields
  <2> HIDE DEF v
  <2> QED BY <1>1, <1>10, <2>1, <2>2 DEF v, HearLoad
<1>11. CASE ContinueForm(t)
  <2> DEFINE v == [tab[t] EXCEPT !.stage = "paying"]
  <2>1. TabFields \subseteq DOMAIN v /\ v.busy = "none" /\ Become(t, v) /\ UNCHANGED <<req, whole>>
    BY <1>0, <1>11 DEF TabFields, ContinueForm, OnStage, OnStep
  <2> HIDE DEF v
  <2> QED BY <1>2, <2>1
<1>12. CASE Pay(t)
  BY <1>0, <1>1, <1>12 DEF Pay
<1>13. CASE Paid(t)
  <2> DEFINE v == [tab[t] EXCEPT !.stage = "paid"]
  <2>1. TabFields \subseteq DOMAIN v /\ Wait(t, v, "none") /\ UNCHANGED <<req, whole>>
    BY <1>0, <1>13 DEF TabFields, Paid
  <2> HIDE DEF v
  <2> QED BY <1>1, <2>1
<1>14. CASE ConfirmRequest(t) \/ AskVerify(t)
  <2>1. /\ Asks(t) /\ (Wait(t, tab[t], "provision") \/ Wait(t, tab[t], "verify"))
    BY <1>14, AskAsks DEF ConfirmRequest, AskVerify
  <2>2. Changed(t)
    BY <1>0, <2>1, WaitChanges
  <2> QED BY <2>1, <2>2 DEF Moved, Asks
<1>15. CASE HearProvision(t)
  <2>1. PICK r \in Heard(t) : Wait(t, [tab[t] EXCEPT !.shown = req[r].arg], "none")
    BY <1>15 DEF HearProvision
  <2> DEFINE v == [tab[t] EXCEPT !.shown = req[r].arg]
  <2>2. TabFields \subseteq DOMAIN v
    BY <1>0 DEF TabFields
  <2> HIDE DEF v
  <2> QED BY <1>1, <1>15, <2>1, <2>2 DEF v, HearProvision
<1>16. CASE GoToDashboard(t)
  BY <1>16, EnterMoves DEF GoToDashboard
<1>17. CASE Back(t)
  <2>1. /\ tab[t].busy = "none" /\ UNCHANGED <<req, whole>>
        /\ \E step, stage : \/ Become(t, [tab[t] EXCEPT !.step = step])
                            \/ Become(t, [tab[t] EXCEPT !.stage = stage])
    BY <1>17 DEF Back, OnStage, OnStep
  <2>2. PICK step, stage : \/ Become(t, [tab[t] EXCEPT !.step = step])
                           \/ Become(t, [tab[t] EXCEPT !.stage = stage])
    BY <2>1
  <2> DEFINE v == [tab[t] EXCEPT !.step = step]
             w == [tab[t] EXCEPT !.stage = stage]
  <2>3. TabFields \subseteq DOMAIN v /\ v.busy = "none" /\ TabFields \subseteq DOMAIN w /\ w.busy = "none"
    BY <1>0, <2>1 DEF TabFields
  <2> HIDE DEF v, w
  <2> QED BY <1>2, <2>1, <2>2, <2>3 DEF v, w
<1>18. CASE HearVerify(t) \/ HearError(t)
  BY <1>0, <1>1, <1>18 DEF HearVerify, HearError
<1> QED BY <1>3, <1>4, <1>5, <1>6, <1>7, <1>8, <1>9, <1>10, <1>11, <1>12, <1>13, <1>14, <1>15,
           <1>16, <1>17, <1>18 DEF Steps

-----------------------------------------------------------------------------
(* What becomes of the requests.                                           *)

Running(q) == q.kind = "save" /\ (q.answer = "none" \/ q.todo # {})

(* A free slot is nobody's.                                                *)
FreeIsNobodys == \A r \in Slots : req[r].kind = "free" => req[r].from = None

(* The save in u is the one in q, as far as that got.                      *)
SameSave(q, u) ==
  Running(u) =>
    /\ Running(q) /\ u.org = q.org /\ u.arg = q.arg /\ u.numbers = q.numbers /\ u.hours = q.hours
    /\ u.at = q.at /\ u.todo = q.todo /\ u.answer = q.answer

SavesSame ==
  /\ RequestsOK'
  /\ \A r \in Slots : SameSave(req[r], req'[r])

LEMMA FreeIs == RequestFields \subseteq DOMAIN Free /\ Free.kind = "free" /\ Free.from = None /\ ~Running(Free)
BY DEF Free, RequestFields, Running

LEMMA SettledIs ==
  ASSUME NEW u, RequestFields \subseteq DOMAIN u
  PROVE  /\ Settled(u) = u \/ (Settled(u) = Free /\ u.from = None /\ ~Running(u))
         /\ RequestFields \subseteq DOMAIN Settled(u) /\ Settled(u).from = u.from
BY FreeIs DEF Settled, Running

LEMMA UnheardIs ==
  ASSUME RequestsOK, FreeIsNobodys, NEW t, NEW x \in Slots
  PROVE  /\ RequestFields \subseteq DOMAIN Unheard(t)[x]
         /\ Unheard(t)[x].kind = "free" => Unheard(t)[x].from = None
         /\ req[x].from # t => Unheard(t)[x] = req[x]
         /\ SameSave(req[x], Unheard(t)[x])
         /\ Running(req[x]) => Running(Unheard(t)[x]) /\ Unheard(t)[x].org = req[x].org
<1> DEFINE u == [req[x] EXCEPT !.from = None]
<1>1. /\ RequestFields \subseteq DOMAIN u /\ u.from = None /\ u.kind = req[x].kind
      /\ SameSave(req[x], u) /\ (Running(req[x]) => Running(u) /\ u.org = req[x].org)
  BY DEF RequestsOK, RequestFields, Running, SameSave
<1> HIDE DEF u
<1>2. CASE req[x].from = t
  <2>1. Unheard(t)[x] = Settled(u)
    BY <1>2 DEF Unheard, u
  <2>2. Settled(u) = u \/ (Settled(u) = Free /\ ~Running(u))
    BY <1>1, SettledIs
  <2> QED BY <1>1, <1>2, <2>1, <2>2, FreeIs DEF SameSave
<1>3. CASE req[x].from # t
  <2>1. Unheard(t)[x] = req[x]
    BY <1>3 DEF Unheard
  <2> QED BY <2>1 DEF RequestsOK, FreeIsNobodys, SameSave
<1> QED BY <1>2, <1>3

(* What is sent to slot r.                                                 *)
SentIs(t, s, q, u) ==
  /\ RequestFields \subseteq DOMAIN u /\ u.from = t /\ u.kind = q.kind
  /\ u.answer = "none" =>
       /\ u.org = s.active /\ u.arg = q.arg /\ u.numbers = q.numbers /\ u.hours = q.hours
       /\ u.at = q.at /\ u.todo = q.todo /\ s.active # None
  /\ u.answer # "none" => u.todo = {}

LEMMA PostIs ==
  ASSUME RequestsOK, NEW s, NEW t, NEW q, NEW admitted, RequestFields \subseteq DOMAIN q, Post(s, t, q, admitted)
  PROVE  \E r \in Slots : \E u :
           /\ Unheard(t)[r].kind = "free" /\ SentIs(t, s, q, u)
           /\ DOMAIN req' = Slots /\ req'[r] = u /\ \A x \in Slots \ {r} : req'[x] = Unheard(t)[x]
<1> DEFINE answer == IF Guard(s) = "none" /\ ~admitted THEN "invalid" ELSE Guard(s)
           sent == IF answer = "none" THEN q ELSE Ask(q.kind, "end")
           u == [sent EXCEPT !.from = t, !.org = s.active, !.answer = answer]
<1>1. PICK r \in Slots : Unheard(t)[r].kind = "free" /\ req' = [Unheard(t) EXCEPT ![r] = u]
  BY DEF Post
<1>2. DOMAIN Unheard(t) = Slots
  BY DEF Unheard
<1>3. DOMAIN req' = Slots /\ req'[r] = u /\ \A x \in Slots \ {r} : req'[x] = Unheard(t)[x]
  BY <1>1, <1>2
<1>4. answer = "none" => s.active # None
  BY DEF Guard
<1>5. /\ RequestFields \subseteq DOMAIN Ask(q.kind, "end") /\ Ask(q.kind, "end").kind = q.kind
      /\ Ask(q.kind, "end").todo = {}
  BY DEF Ask, Free, RequestFields
<1>6. SentIs(t, s, q, u)
  BY <1>4, <1>5 DEF SentIs, RequestFields
<1> QED BY <1>1, <1>3, <1>6

(* Nobody else's request is lost when tab t sends one, or leaves.          *)
OthersStay(t) ==
  /\ RequestsOK' /\ FreeIsNobodys'
  /\ \A x \in Slots : req[x].from \in Tabs \ {t} => req'[x].from = req[x].from

LEMMA UnheardStays ==
  ASSUME RequestsOK, FreeIsNobodys, NEW t \in Tabs, req' = Unheard(t)
  PROVE  OthersStay(t) /\ SavesSame
<1>1. DOMAIN Unheard(t) = Slots
  BY DEF Unheard
<1> QED BY <1>1, UnheardIs DEF OthersStay, SavesSame, RequestsOK, FreeIsNobodys

LEMMA PostStays ==
  ASSUME RequestsOK, FreeIsNobodys, NEW s, NEW t \in Tabs, NEW q, NEW admitted,
         RequestFields \subseteq DOMAIN q, q.kind # "free", Post(s, t, q, admitted)
  PROVE  OthersStay(t) /\ Listening(t)' /\ (q.kind # "save" => SavesSame)
<1>1. PICK r \in Slots : \E u :
        /\ Unheard(t)[r].kind = "free" /\ SentIs(t, s, q, u)
        /\ DOMAIN req' = Slots /\ req'[r] = u /\ \A x \in Slots \ {r} : req'[x] = Unheard(t)[x]
  BY PostIs
<1>2. PICK u : /\ Unheard(t)[r].kind = "free" /\ SentIs(t, s, q, u)
               /\ DOMAIN req' = Slots /\ req'[r] = u /\ \A x \in Slots \ {r} : req'[x] = Unheard(t)[x]
  BY <1>1
<1>3. RequestsOK' /\ FreeIsNobodys'
  BY <1>2, UnheardIs DEF SentIs, RequestsOK, FreeIsNobodys
<1>4. \A x \in Slots : req[x].from \in Tabs \ {t} => x # r /\ req'[x].from = req[x].from
  BY <1>2, UnheardIs, NoneAssumption
<1>5. Listening(t)'
  BY <1>2 DEF Listening, SentIs
<1>6. ASSUME q.kind # "save" PROVE SavesSame
  <2>1. ~Running(req'[r])
    BY <1>2, <1>6 DEF SentIs, Running
  <2> QED BY <1>2, <1>3, <2>1, UnheardIs DEF SavesSame, SameSave
<1> QED BY <1>3, <1>4, <1>5, <1>6 DEF OthersStay

LEMMA SaveSent ==
  ASSUME NEW form
  PROVE  LET q == [Ask("save", "find") EXCEPT !.arg = form.details, !.numbers = form.numbers, !.hours = form.hours]
         IN /\ RequestFields \subseteq DOMAIN q /\ q.kind = "save" /\ q.at = "find" /\ q.todo = {}
            /\ q.arg = form.details
BY DEF Ask, Free, RequestFields

(* A step of one request, which answers or goes on.                        *)
OneSteps(r) ==
  \E w : /\ req' = [req EXCEPT ![r] = w] /\ RequestFields \subseteq DOMAIN w /\ w.from = req[r].from
         /\ (w.kind = "free" => w.from = None)

LEMMA OneStays ==
  ASSUME RequestsOK, FreeIsNobodys, NEW r \in Slots, OneSteps(r)
  PROVE  RequestsOK' /\ FreeIsNobodys' /\ \A t : Listening(t) => Listening(t)'
<1>1. PICK w : /\ req' = [req EXCEPT ![r] = w] /\ RequestFields \subseteq DOMAIN w /\ w.from = req[r].from
               /\ (w.kind = "free" => w.from = None)
  BY DEF OneSteps
<1>2. DOMAIN req' = Slots /\ req'[r] = w /\ \A x \in Slots \ {r} : req'[x] = req[x]
  BY <1>1 DEF RequestsOK
<1> QED BY <1>1, <1>2 DEF RequestsOK, FreeIsNobodys, Listening

-----------------------------------------------------------------------------
(* Services other than saves.                                              *)

LEMMA OtherServed ==
  ASSUME RequestsOK, FreeIsNobodys, NEW r \in Slots, req[r].kind \notin {"save", "free"}, NEW u,
         req' = [req EXCEPT ![r] = Settled(u)] \/ req' = [req EXCEPT ![r] = u],
         RequestFields \subseteq DOMAIN u, u.from = req[r].from, u.kind = req[r].kind
  PROVE  OneSteps(r) /\ SavesSame
<1>1. PICK w \in {u, Settled(u)} : req' = [req EXCEPT ![r] = w]
  OBVIOUS
<1>2. /\ RequestFields \subseteq DOMAIN w /\ w.from = req[r].from /\ (w.kind = "free" => w.from = None)
      /\ ~Running(w)
  BY <1>1, SettledIs, FreeIs DEF Running
<1>3. OneSteps(r)
  BY <1>1, <1>2 DEF OneSteps
<1>4. DOMAIN req' = Slots /\ req'[r] = w /\ \A x \in Slots \ {r} : req'[x] = req[x]
  BY <1>1 DEF RequestsOK
<1>5. SavesSame
  BY <1>2, <1>4 DEF SavesSame, SameSave, RequestsOK
<1> QED BY <1>3, <1>5

LEMMA OtherReplies ==
  ASSUME RequestsOK, FreeIsNobodys, NEW r \in Slots, req[r].kind \notin {"save", "free"},
         NEW answer, Reply(r, answer)
  PROVE  OneSteps(r) /\ SavesSame
<1> DEFINE u == [req[r] EXCEPT !.answer = answer, !.at = "end"]
<1>1. req' = [req EXCEPT ![r] = Settled(u)]
  BY DEF Reply, Answered
<1>2. RequestFields \subseteq DOMAIN u /\ u.from = req[r].from /\ u.kind = req[r].kind
  BY DEF RequestsOK, RequestFields
<1> HIDE DEF u
<1> QED BY <1>1, <1>2, OtherServed

LEMMA NumberServed ==
  ASSUME RequestsOK, FreeIsNobodys, NEW r \in Slots, ProvisionFind(r) \/ ProvisionWrite(r) \/ Me(r)
  PROVE  OneSteps(r) /\ SavesSame
<1> DEFINE q == req[r]
<1>1. RequestFields \subseteq DOMAIN q /\ DOMAIN req = Slots /\ q.kind \notin {"save", "free"}
  BY DEF RequestsOK, ProvisionFind, ProvisionWrite, Me, Serving
<1>2. CASE ProvisionFind(r)
  <2>1. PICK i : Reply(r, "conflict") \/ req' = [req EXCEPT ![r].at = "write", ![r].row = i]
    BY <1>2 DEF ProvisionFind
  <2> DEFINE u == [q EXCEPT !.at = "write", !.row = i]
  <2>2. Reply(r, "conflict") \/ req' = [req EXCEPT ![r] = u]
    BY <1>1, <2>1
  <2>3. RequestFields \subseteq DOMAIN u /\ u.from = q.from /\ u.kind = q.kind
    BY <1>1 DEF RequestFields
  <2> HIDE DEF u
  <2> QED BY <1>1, <2>2, <2>3, OtherServed, OtherReplies
<1>3. CASE ProvisionWrite(r)
  <2> DEFINE u == [q EXCEPT !.answer = "ok", !.at = "end", !.arg = "AWAITING_APPROVAL"]
  <2>1. req' = [req EXCEPT ![r] = Settled(u)]
    BY <1>1, <1>3 DEF ProvisionWrite, Requested
  <2>2. RequestFields \subseteq DOMAIN u /\ u.from = q.from /\ u.kind = q.kind
    BY <1>1 DEF RequestFields
  <2> HIDE DEF u
  <2> QED BY <1>1, <2>1, <2>2, OtherServed
<1>4. CASE Me(r)
  <2>1. PICK shown : \/ Reply(r, "missing")
                     \/ req' = [req EXCEPT ![r] = Settled([@ EXCEPT !.answer = "ok", !.at = "end", !.arg = shown])]
    BY <1>4 DEF Me
  <2> DEFINE u == [q EXCEPT !.answer = "ok", !.at = "end", !.arg = shown]
  <2>2. Reply(r, "missing") \/ req' = [req EXCEPT ![r] = Settled(u)]
    BY <1>1, <2>1
  <2>3. RequestFields \subseteq DOMAIN u /\ u.from = q.from /\ u.kind = q.kind
    BY <1>1 DEF RequestFields
  <2> HIDE DEF u
  <2> QED BY <1>1, <2>2, <2>3, OtherServed, OtherReplies
<1> QED BY <1>2, <1>3, <1>4

LEMMA VerifyServed ==
  ASSUME RequestsOK, FreeIsNobodys, NEW r \in Slots, ServeVerify(r)
  PROVE  OneSteps(r) /\ SavesSame
<1> DEFINE q == req[r]
<1>1. RequestFields \subseteq DOMAIN q /\ DOMAIN req = Slots /\ q.kind \notin {"save", "free"}
  BY DEF RequestsOK, ServeVerify, VerifyFind, VerifyProfile, VerifyStamp, VerifySearch, VerifyMark, Serving
<1>2. CASE \E answer : Reply(r, answer)
  BY <1>1, <1>2, OtherReplies
<1>3. CASE VerifyFind(r) /\ ~\E answer : Reply(r, answer)
  <2>1. PICK i : req' = [req EXCEPT ![r].at = "profile", ![r].row = i, ![r].asked = number[q.org][i].asked,
                              ![r].seen = IF number[q.org][i].verified THEN {"number"} ELSE {}]
    BY <1>3 DEF VerifyFind
  <2> DEFINE u == [q EXCEPT !.at = "profile", !.row = i, !.asked = number[q.org][i].asked,
                            !.seen = IF number[q.org][i].verified THEN {"number"} ELSE {}]
  <2>2. req' = [req EXCEPT ![r] = u]
    BY <1>1, <2>1
  <2>3. RequestFields \subseteq DOMAIN u /\ u.from = q.from /\ u.kind = q.kind
    BY <1>1 DEF RequestFields
  <2> HIDE DEF u
  <2> QED BY <1>1, <2>2, <2>3, OtherServed
<1>4. CASE (VerifyProfile(r) \/ VerifySearch(r)) /\ ~\E answer : Reply(r, answer)
  <2>1. PICK at : req' = [req EXCEPT ![r].at = at]
    BY <1>4 DEF VerifyProfile, VerifySearch
  <2> DEFINE u == [q EXCEPT !.at = at]
  <2>2. req' = [req EXCEPT ![r] = u]
    BY <1>1, <2>1
  <2>3. RequestFields \subseteq DOMAIN u /\ u.from = q.from /\ u.kind = q.kind
    BY <1>1 DEF RequestFields
  <2> HIDE DEF u
  <2> QED BY <1>1, <2>2, <2>3, OtherServed
<1>5. VerifyStamp(r) \/ VerifyMark(r) => Reply(r, "ok")
  BY DEF VerifyStamp, VerifyMark
<1> QED BY <1>2, <1>3, <1>4, <1>5 DEF ServeVerify

LEMMA OrganizationServed ==
  ASSUME RequestsOK, FreeIsNobodys, NEW r \in Slots, SetPlan(r) \/ StatusRead(r)
  PROVE  OneSteps(r) /\ SavesSame
<1> DEFINE q == req[r]
<1>1. RequestFields \subseteq DOMAIN q /\ DOMAIN req = Slots /\ q.kind \notin {"save", "free"}
  BY DEF RequestsOK, SetPlan, StatusRead, Serving
<1>2. CASE SetPlan(r)
  BY <1>1, <1>2, OtherReplies DEF SetPlan
<1>3. CASE StatusRead(r)
  <2> DEFINE u(seen, tier, part) ==
               [q EXCEPT !.seen = seen, !.arg = tier, !.todo = q.todo \ {part},
                         !.at = IF q.todo = {part} THEN "end" ELSE "read",
                         !.answer = IF q.todo = {part} THEN "ok" ELSE "none"]
             Step(seen, tier, part) == req' = [req EXCEPT ![r] = Settled(u(seen, tier, part))]
             With(part) == q.seen \cup {part}
  <2>1. \/ Step(q.seen, q.arg, "profile") \/ Step(With("profile"), q.arg, "profile")
        \/ Step(q.seen, plan[q.org], "plan") \/ Step(With("plan"), plan[q.org], "plan")
        \/ Step(q.seen, q.arg, "number") \/ Step(With("number"), q.arg, "number")
    BY <1>1, <1>3 DEF StatusRead
  <2>2. ASSUME NEW seen, NEW tier, NEW part, Step(seen, tier, part) PROVE OneSteps(r) /\ SavesSame
    <3>1. /\ RequestFields \subseteq DOMAIN u(seen, tier, part) /\ u(seen, tier, part).from = q.from
          /\ u(seen, tier, part).kind = q.kind
      BY <1>1 DEF RequestFields
    <3> QED BY <1>1, <2>2, <3>1, OtherServed
  <2> HIDE DEF Step
  <2> QED BY <2>1, <2>2
<1> QED BY <1>2, <1>3

-----------------------------------------------------------------------------
(* Saves.                                                                  *)

ProfilesOK ==
  /\ DOMAIN profile = Names /\ whole = [o \in Names |-> whole[o]]
  /\ \A o \in Names : {"name", "numbers", "hours"} \subseteq DOMAIN profile[o] /\ DOMAIN profile[o].hours = Days

(* How far a save that meets no other has got.                             *)
Progress(q, p) ==
  /\ q.at \in {"days", "numbers", "read"} =>
       p.name = q.arg /\ \A d \in HourDays(q.hours) \ q.todo : p.hours[d] = q.hours[d]
  /\ q.at = "read" => p.numbers = q.numbers

SaveOK(q) ==
  /\ q.arg # None
  /\ q.answer = "none" /\ q.at # "days" => q.todo = {}
  /\ q.org \in Names =>
       /\ whole[q.org] \in {NoForm, Mixed}
       /\ q.answer = "none" /\ whole[q.org] = NoForm => Progress(q, profile[q.org])

(* What a save that was answered well, and met no other, has left.         *)
WholeOK(w, p) ==
  w \notin {NoForm, Mixed} =>
    /\ w.details # None /\ p.name = w.details /\ p.numbers = w.numbers
    /\ \A d \in HourDays(w.hours) : p.hours[d] = w.hours[d]

SaveInv ==
  /\ RequestsOK /\ FreeIsNobodys /\ ProfilesOK
  /\ \A r \in Slots : Running(req[r]) => SaveOK(req[r])
  /\ \A r1, r2 \in Slots :
       r1 # r2 /\ Running(req[r1]) /\ Running(req[r2]) /\ req[r1].org = req[r2].org /\ req[r1].org \in Names
         => whole[req[r1].org] = Mixed
  /\ \A o \in Names : WholeOK(whole[o], profile[o])

(* A step that fills in what is not stored, and changes nothing else.      *)
Fills(p, p1) ==
  /\ p.name # None => p1.name = p.name
  /\ p1.numbers = p.numbers
  /\ \A d \in Days : p.hours[d] # None => p1.hours[d] = p.hours[d]

(* Of a step: it keeps the invariant, and what no save is about to change. *)
KeepsSaves == SaveInv' /\ SeedKeepsEdits

LEMMA DaysAre == ASSUME NEW hours PROVE HourDays(hours) \subseteq Days /\ \A d \in HourDays(hours) : hours[d] # None
BY DEF HourDays

LEMMA SaveFrame ==
  ASSUME SaveInv, SavesSame, FreeIsNobodys', ProfilesOK', UNCHANGED whole,
         \A o \in Names : Fills(profile[o], profile'[o])
  PROVE  KeepsSaves
<1>1. ASSUME NEW r \in Slots, Running(req'[r]) PROVE SaveOK(req[r])'
  <2> DEFINE q == req[r]
             u == req'[r]
             o == q.org
  <2>1. /\ Running(q) /\ u.org = o /\ u.arg = q.arg /\ u.numbers = q.numbers /\ u.hours = q.hours
        /\ u.at = q.at /\ u.todo = q.todo /\ u.answer = q.answer
    BY <1>1 DEF SavesSame, SameSave
  <2>2. SaveOK(q)
    BY <2>1 DEF SaveInv
  <2>3. ASSUME o \in Names, Progress(q, profile[o]) PROVE Progress(u, profile'[o])
    <3>1. Fills(profile[o], profile'[o]) /\ q.arg # None
      BY <2>2, <2>3 DEF SaveOK
    <3> QED BY <2>1, <2>3, <3>1, DaysAre DEF Progress, Fills
  <2> QED BY <2>1, <2>2, <2>3 DEF SaveOK
<1>2. ASSUME NEW o \in Names PROVE WholeOK(whole'[o], profile'[o])
  <2>1. WholeOK(whole[o], profile[o]) /\ Fills(profile[o], profile'[o])
    BY DEF SaveInv
  <2> QED BY <2>1, DaysAre DEF WholeOK, Fills
<1>3. SeedKeepsEdits
  BY DEF SeedKeepsEdits, Fills
<1>4. \A r1, r2 \in Slots :
        r1 # r2 /\ Running(req'[r1]) /\ Running(req'[r2]) /\ req'[r1].org = req'[r2].org /\ req'[r1].org \in Names
          => whole'[req'[r1].org] = Mixed
  BY DEF SavesSame, SameSave, SaveInv
<1> QED BY <1>1, <1>2, <1>3, <1>4 DEF SaveInv, SavesSame, KeepsSaves

(* A step of a save that is under way: it goes on as w, or ends.           *)
GoesOn(q, w) ==
  /\ RequestFields \subseteq DOMAIN w /\ w.from = q.from /\ w.kind = q.kind
  /\ Running(w) =>
       /\ w.org = q.org /\ w.arg = q.arg /\ w.numbers = q.numbers /\ w.hours = q.hours
       /\ w.answer = "none" => q.answer = "none"
       /\ w.answer = "none" /\ w.at # "days" => w.todo = {}

LEMMA SaveSteps ==
  ASSUME SaveInv, NEW r \in Slots, Running(req[r]), NEW w, GoesOn(req[r], w),
         req' = [req EXCEPT ![r] = Settled(w)] \/ req' = [req EXCEPT ![r] = w],
         UNCHANGED whole, ProfilesOK', \A x \in Names \ {req[r].org} : profile'[x] = profile[x],
         req[r].org \in Names /\ w.answer = "none" /\ Progress(req[r], profile[req[r].org])
           => Progress(w, profile'[req[r].org])
  PROVE  OneSteps(r) /\ KeepsSaves
<1> DEFINE q == req[r]
<1>1. PICK u \in {w, Settled(w)} : req' = [req EXCEPT ![r] = u]
  OBVIOUS
<1>2. /\ RequestFields \subseteq DOMAIN u /\ u.from = q.from /\ (u.kind = "free" => u.from = None)
      /\ Running(u) => u = w
  BY <1>1, SettledIs, FreeIs DEF GoesOn, Running
<1>3. OneSteps(r)
  BY <1>1, <1>2 DEF OneSteps
<1>4. DOMAIN req' = Slots /\ req'[r] = u /\ \A x \in Slots \ {r} : req'[x] = req[x]
  BY <1>1 DEF SaveInv, RequestsOK
<1>5. RequestsOK' /\ FreeIsNobodys'
  BY <1>2, <1>4 DEF SaveInv, RequestsOK, FreeIsNobodys
<1>6. SaveOK(q)
  BY DEF SaveInv
<1>7. ASSUME Running(req'[r]) PROVE SaveOK(req[r])'
  <2>1. req'[r] = w /\ Running(w)
    BY <1>2, <1>4, <1>7
  <2> QED BY <1>6, <2>1 DEF GoesOn, SaveOK
<1>8. ASSUME NEW x \in Slots \ {r}, Running(req'[x]) PROVE SaveOK(req[x])'
  <2>1. req'[x] = req[x] /\ SaveOK(req[x])
    BY <1>4, <1>8 DEF SaveInv
  <2>2. req[x].org = q.org /\ q.org \in Names => whole[q.org] = Mixed
    BY <1>8, <2>1 DEF SaveInv
  <2>3. NoForm # Mixed
    BY MixedAssumption DEF NoForm, Mixed, Form
  <2> QED BY <2>1, <2>2, <2>3 DEF SaveOK
<1>9. \A r1, r2 \in Slots :
        r1 # r2 /\ Running(req'[r1]) /\ Running(req'[r2]) /\ req'[r1].org = req'[r2].org /\ req'[r1].org \in Names
          => whole'[req'[r1].org] = Mixed
  BY <1>2, <1>4 DEF SaveInv, GoesOn
<1>10. ASSUME NEW o \in Names PROVE WholeOK(whole'[o], profile'[o])
  <2>1. CASE o = q.org
    BY <1>6, <2>1 DEF SaveOK, WholeOK
  <2>2. CASE o # q.org
    BY <2>2 DEF SaveInv
  <2> QED BY <2>1, <2>2
<1>11. SeedKeepsEdits
  <2>1. r \in Saving(q.org)
    BY DEF Saving, Running
  <2> QED BY <2>1 DEF SeedKeepsEdits
<1> QED BY <1>3, <1>5, <1>7, <1>8, <1>9, <1>10, <1>11 DEF SaveInv, KeepsSaves

LEMMA SaveFindKeeps ==
  ASSUME SaveInv, NEW r \in Slots, SaveFind(r)
  PROVE  OneSteps(r) /\ KeepsSaves
<1> DEFINE q == req[r]
           w == [q EXCEPT !.at = "write", !.row = IF profile[q.org].name = None THEN 0 ELSE 1]
<1>1. /\ RequestFields \subseteq DOMAIN q /\ DOMAIN req = Slots
      /\ q.kind = "save" /\ q.at = "find" /\ q.answer = "none"
  BY DEF SaveInv, RequestsOK, SaveFind, Serving
<1>2. Running(q) /\ q.todo = {}
  BY <1>1 DEF SaveInv, SaveOK, Running
<1>3. req' = [req EXCEPT ![r] = w] /\ UNCHANGED <<profile, whole>>
  BY <1>1 DEF SaveFind
<1>4. GoesOn(q, w) /\ w.at = "write"
  BY <1>1, <1>2 DEF GoesOn, RequestFields, Running
<1> HIDE DEF w
<1>5. ProfilesOK' /\ \A p : Progress(w, p)
  BY <1>3, <1>4 DEF SaveInv, ProfilesOK, Progress
<1> QED BY <1>2, <1>3, <1>4, <1>5, SaveSteps

LEMMA SaveWriteKeeps ==
  ASSUME SaveInv, NEW r \in Slots, SaveWrite(r)
  PROVE  OneSteps(r) /\ KeepsSaves
<1> DEFINE q == req[r]
<1>1. /\ RequestFields \subseteq DOMAIN q /\ DOMAIN req = Slots
      /\ q.kind = "save" /\ q.at = "write" /\ q.answer = "none" /\ UNCHANGED whole
  BY DEF SaveInv, RequestsOK, SaveWrite, Serving
<1>2. Running(q) /\ q.todo = {}
  BY <1>1 DEF SaveInv, SaveOK, Running
<1>3. CASE Reply(r, "error") /\ UNCHANGED profile
  <2> DEFINE w == [q EXCEPT !.answer = "error", !.at = "end"]
  <2>1. req' = [req EXCEPT ![r] = Settled(w)]
    BY <1>3 DEF Reply, Answered
  <2>2. GoesOn(q, w) /\ w.answer = "error"
    BY <1>1, <1>2 DEF GoesOn, RequestFields, Running
  <2> HIDE DEF w
  <2>3. ProfilesOK'
    BY <1>1, <1>3 DEF SaveInv, ProfilesOK
  <2> QED BY <1>1, <1>2, <1>3, <2>1, <2>2, <2>3, SaveSteps
<1>4. CASE ~(Reply(r, "error") /\ UNCHANGED profile)
  <2> DEFINE w == [q EXCEPT !.at = IF HourDays(q.hours) = {} THEN "numbers" ELSE "days",
                            !.todo = HourDays(q.hours)]
  <2>1. profile' = [profile EXCEPT ![q.org].name = q.arg] /\ req' = [req EXCEPT ![r] = w]
    BY <1>1, <1>4 DEF SaveWrite
  <2>2. /\ GoesOn(q, w) /\ w.at \in {"days", "numbers"} /\ w.todo = HourDays(q.hours)
        /\ w.arg = q.arg /\ w.hours = q.hours
    BY <1>1, <1>2 DEF GoesOn, RequestFields, Running
  <2> HIDE DEF w
  <2>3. ProfilesOK' /\ \A x \in Names \ {q.org} : profile'[x] = profile[x]
    BY <1>1, <2>1 DEF SaveInv, ProfilesOK
  <2>4. q.org \in Names => profile'[q.org].name = q.arg
    BY <2>1 DEF SaveInv, ProfilesOK
  <2>5. q.org \in Names => Progress(w, profile'[q.org])
    BY <2>2, <2>4 DEF Progress
  <2> QED BY <1>1, <1>2, <2>1, <2>2, <2>3, <2>5, SaveSteps
<1> QED BY <1>3, <1>4

LEMMA SaveDayKeeps ==
  ASSUME SaveInv, NEW r \in Slots, SaveDay(r)
  PROVE  OneSteps(r) /\ KeepsSaves
<1> DEFINE q == req[r]
<1>1. PICK d \in q.todo :
        /\ q.kind = "save"
        /\ profile' = [profile EXCEPT ![q.org].hours[d] = q.hours[d]]
        /\ req' = [req EXCEPT ![r] =
                     Settled([@ EXCEPT !.todo = q.todo \ {d},
                                       !.at = IF q.at = "days" /\ q.todo = {d} THEN "numbers" ELSE q.at])]
        /\ UNCHANGED whole
  BY DEF SaveDay
<1> DEFINE w == [q EXCEPT !.todo = q.todo \ {d},
                          !.at = IF q.at = "days" /\ q.todo = {d} THEN "numbers" ELSE q.at]
<1>2. RequestFields \subseteq DOMAIN q /\ DOMAIN req = Slots
  BY DEF SaveInv, RequestsOK
<1>3. Running(q) /\ (q.answer = "none" => q.at = "days")
  BY <1>1 DEF SaveInv, SaveOK, Running
<1>4. req' = [req EXCEPT ![r] = Settled(w)]
  BY <1>1, <1>2
<1>5. /\ GoesOn(q, w) /\ w.todo = q.todo \ {d} /\ w.arg = q.arg /\ w.hours = q.hours /\ w.answer = q.answer
      /\ q.answer = "none" => w.at # "read"
  BY <1>1, <1>2, <1>3 DEF GoesOn, RequestFields, Running
<1> HIDE DEF w
<1>6. ProfilesOK' /\ \A x \in Names \ {q.org} : profile'[x] = profile[x]
  BY <1>1 DEF SaveInv, ProfilesOK
<1>7. ASSUME q.org \in Names, w.answer = "none", Progress(q, profile[q.org])
      PROVE  Progress(w, profile'[q.org])
  <2>1. /\ profile'[q.org].name = profile[q.org].name
        /\ \A x \in Days : profile'[q.org].hours[x] = IF x = d THEN q.hours[d] ELSE profile[q.org].hours[x]
    BY <1>1, <1>7 DEF SaveInv, ProfilesOK
  <2> QED BY <1>3, <1>5, <1>7, <2>1, DaysAre DEF Progress
<1> QED BY <1>1, <1>3, <1>4, <1>5, <1>6, <1>7, SaveSteps

LEMMA SaveDayFailsKeeps ==
  ASSUME SaveInv, NEW r \in Slots, SaveDayFails(r)
  PROVE  OneSteps(r) /\ KeepsSaves
<1> DEFINE q == req[r]
<1>1. PICK d \in q.todo :
        /\ q.kind = "save"
        /\ req' = [req EXCEPT ![r] = Settled([@ EXCEPT !.todo = q.todo \ {d}, !.at = "end", !.answer = "error"])]
        /\ UNCHANGED <<profile, whole>>
  BY DEF SaveDayFails
<1> DEFINE w == [q EXCEPT !.todo = q.todo \ {d}, !.at = "end", !.answer = "error"]
<1>2. RequestFields \subseteq DOMAIN q /\ DOMAIN req = Slots
  BY DEF SaveInv, RequestsOK
<1>3. Running(q)
  BY <1>1 DEF Running
<1>4. req' = [req EXCEPT ![r] = Settled(w)]
  BY <1>1, <1>2
<1>5. GoesOn(q, w) /\ w.answer = "error"
  BY <1>2 DEF GoesOn, RequestFields
<1> HIDE DEF w
<1>6. ProfilesOK'
  BY <1>1 DEF SaveInv, ProfilesOK
<1> QED BY <1>1, <1>3, <1>4, <1>5, <1>6, SaveSteps

LEMMA SaveNumbersKeeps ==
  ASSUME SaveInv, NEW r \in Slots, SaveNumbers(r)
  PROVE  OneSteps(r) /\ KeepsSaves
<1> DEFINE q == req[r]
           w == [q EXCEPT !.at = "read"]
<1>1. /\ RequestFields \subseteq DOMAIN q /\ DOMAIN req = Slots
      /\ q.kind = "save" /\ q.at = "numbers" /\ q.answer = "none" /\ UNCHANGED whole
  BY DEF SaveInv, RequestsOK, SaveNumbers, Serving
<1>2. Running(q) /\ q.todo = {}
  BY <1>1 DEF SaveInv, SaveOK, Running
<1>3. req' = [req EXCEPT ![r] = w] /\ profile' = [profile EXCEPT ![q.org].numbers = q.numbers]
  BY <1>1 DEF SaveNumbers
<1>4. /\ GoesOn(q, w) /\ w.todo = {} /\ w.arg = q.arg /\ w.hours = q.hours /\ w.numbers = q.numbers
  BY <1>1, <1>2 DEF GoesOn, RequestFields, Running
<1> HIDE DEF w
<1>5. ProfilesOK' /\ \A x \in Names \ {q.org} : profile'[x] = profile[x]
  BY <1>1, <1>3 DEF SaveInv, ProfilesOK
<1>6. ASSUME q.org \in Names, Progress(q, profile[q.org]) PROVE Progress(w, profile'[q.org])
  <2>1. /\ profile'[q.org].name = profile[q.org].name /\ profile'[q.org].hours = profile[q.org].hours
        /\ profile'[q.org].numbers = q.numbers
    BY <1>3, <1>6 DEF SaveInv, ProfilesOK
  <2> QED BY <1>1, <1>2, <1>4, <1>6, <2>1 DEF Progress
<1> QED BY <1>1, <1>2, <1>3, <1>4, <1>5, <1>6, SaveSteps

LEMMA SaveAnswersKeeps ==
  ASSUME SaveInv, NEW r \in Slots, SaveAnswers(r)
  PROVE  OneSteps(r) /\ KeepsSaves
<1> DEFINE q == req[r]
           o == q.org
           w == [q EXCEPT !.answer = "ok", !.at = "end"]
           form == Form(q.arg, q.numbers, q.hours)
<1>1. /\ RequestFields \subseteq DOMAIN q /\ DOMAIN req = Slots
      /\ q.kind = "save" /\ q.at = "read" /\ q.answer = "none" /\ UNCHANGED profile
  BY DEF SaveInv, RequestsOK, SaveAnswers, Serving
<1>2. Running(q) /\ SaveOK(q) /\ q.todo = {}
  BY <1>1 DEF SaveInv, SaveOK, Running
<1>3. /\ req' = [req EXCEPT ![r] = Settled(w)]
      /\ whole' = [whole EXCEPT ![o] = IF @ = NoForm THEN form ELSE @]
  BY DEF SaveAnswers, Reply, Answered
<1>4. GoesOn(q, w) /\ w.answer = "ok" /\ w.todo = {} /\ w.kind = "save" /\ w.from = q.from
      /\ RequestFields \subseteq DOMAIN w
  BY <1>1, <1>2 DEF GoesOn, RequestFields, Running
<1>5. ProfilesOK' /\ \A x \in Names \ {o} : whole'[x] = whole[x]
  BY <1>1, <1>3 DEF SaveInv, ProfilesOK
<1>6. NoForm # Mixed
  BY MixedAssumption DEF NoForm, Mixed, Form
<1> HIDE DEF w
<1>7. CASE o \in Names /\ whole[o] = NoForm
  <2>1. /\ whole'[o] = form /\ Progress(q, profile[o])
        /\ q.arg # None
    BY <1>1, <1>2, <1>3, <1>7 DEF SaveInv, ProfilesOK, SaveOK
  <2>2. WholeOK(whole'[o], profile'[o])
    BY <1>1, <1>2, <2>1 DEF WholeOK, Progress, Form
  <2>3. ASSUME NEW x \in Names PROVE WholeOK(whole'[x], profile'[x])
    BY <1>1, <1>5, <2>2 DEF SaveInv
  <2>4. DOMAIN req' = Slots /\ req'[r] = Settled(w) /\ \A x \in Slots \ {r} : req'[x] = req[x]
    BY <1>1, <1>3
  <2>5. /\ RequestFields \subseteq DOMAIN Settled(w) /\ Settled(w).from = q.from
        /\ ~Running(Settled(w)) /\ (Settled(w).kind = "free" => Settled(w).from = None)
    BY <1>4, SettledIs, FreeIs DEF Running
  <2>6. RequestsOK' /\ FreeIsNobodys' /\ OneSteps(r)
    BY <1>1, <1>3, <2>4, <2>5 DEF SaveInv, RequestsOK, FreeIsNobodys, OneSteps
  <2>7. ASSUME NEW x \in Slots, Running(req'[x]) PROVE SaveOK(req[x])'
    <3>1. x # r /\ req'[x] = req[x] /\ SaveOK(req[x])
      BY <2>4, <2>5, <2>7 DEF SaveInv
    <3>2. req[x].org # o
      BY <1>2, <1>6, <1>7, <2>7, <3>1 DEF SaveInv
    <3> QED BY <1>1, <1>5, <3>1, <3>2 DEF SaveOK
  <2>8. \A r1, r2 \in Slots :
          r1 # r2 /\ Running(req'[r1]) /\ Running(req'[r2]) /\ req'[r1].org = req'[r2].org /\ req'[r1].org \in Names
            => whole'[req'[r1].org] = Mixed
    <3> SUFFICES ASSUME NEW r1 \in Slots, NEW r2 \in Slots, r1 # r2, Running(req'[r1]), Running(req'[r2]),
                        req'[r1].org = req'[r2].org, req'[r1].org \in Names
                 PROVE  whole'[req'[r1].org] = Mixed
      OBVIOUS
    <3>1. req'[r1] = req[r1] /\ req'[r2] = req[r2]
      BY <2>4, <2>5
    <3>2. whole[req[r1].org] = Mixed
      BY <3>1 DEF SaveInv
    <3> QED BY <1>5, <1>6, <1>7, <3>1, <3>2
  <2>9. SeedKeepsEdits
    BY <1>1 DEF SeedKeepsEdits
  <2> QED BY <1>5, <2>3, <2>6, <2>7, <2>8, <2>9 DEF SaveInv, KeepsSaves
<1>8. CASE ~(o \in Names /\ whole[o] = NoForm)
  <2>1. UNCHANGED whole
    BY <1>3, <1>8 DEF SaveInv, ProfilesOK
  <2> QED BY <1>1, <1>2, <1>3, <1>4, <1>5, <2>1, SaveSteps
<1> QED BY <1>7, <1>8

LEMMA CallFailsKeeps ==
  ASSUME SaveInv, NEW r \in Slots, CallFails(r), UNCHANGED <<profile, whole>>
  PROVE  OneSteps(r) /\ KeepsSaves
<1> DEFINE q == req[r]
           w == [q EXCEPT !.answer = "error", !.at = "end", !.todo = {}]
<1>1. RequestFields \subseteq DOMAIN q /\ DOMAIN req = Slots /\ q.kind # "free" /\ q.answer = "none"
  BY DEF SaveInv, RequestsOK, CallFails
<1>2. req' = [req EXCEPT ![r] = Settled(w)]
  BY <1>1 DEF CallFails
<1>3. /\ GoesOn(q, w) /\ w.answer = "error" /\ w.from = q.from /\ w.kind = q.kind
      /\ RequestFields \subseteq DOMAIN w
  BY <1>1 DEF GoesOn, RequestFields, Running
<1> HIDE DEF w
<1>4. ProfilesOK' /\ \A o \in Names : Fills(profile[o], profile'[o])
  BY DEF SaveInv, ProfilesOK, Fills
<1>5. CASE q.kind = "save"
  BY <1>1, <1>2, <1>3, <1>4, <1>5, SaveSteps DEF Running
<1>6. CASE q.kind # "save"
  <2>1. OneSteps(r) /\ SavesSame
    BY <1>1, <1>2, <1>3, <1>6, OtherServed DEF SaveInv
  <2>2. FreeIsNobodys'
    BY <2>1, OneStays DEF SaveInv
  <2> QED BY <1>4, <2>1, <2>2, SaveFrame
<1> QED BY <1>5, <1>6

(* Sending a save.                                                         *)
LEMMA PostSaveKeeps ==
  ASSUME SaveInv, NEW s, NEW t \in Tabs, NEW form, form.details # None, NEW admitted,
         PostSave(s, t, form, admitted), UNCHANGED profile
  PROVE  OthersStay(t) /\ Listening(t)' /\ KeepsSaves
<1> DEFINE q == [Ask("save", "find") EXCEPT !.arg = form.details, !.numbers = form.numbers, !.hours = form.hours]
<1>1. /\ RequestFields \subseteq DOMAIN q /\ q.kind = "save" /\ q.at = "find" /\ q.todo = {}
      /\ q.arg # None
  BY SaveSent
<1>2. /\ Post(s, t, q, admitted)
      /\ whole' = IF s.active = None THEN whole
                  ELSE [whole EXCEPT ![s.active] = IF Saving(s.active) = {} THEN NoForm ELSE Mixed]
  BY DEF PostSave
<1> HIDE DEF q
<1>3. OthersStay(t) /\ Listening(t)'
  BY <1>1, <1>2, PostStays DEF SaveInv
<1>4. PICK r \in Slots : \E u :
        /\ Unheard(t)[r].kind = "free" /\ SentIs(t, s, q, u)
        /\ DOMAIN req' = Slots /\ req'[r] = u /\ \A x \in Slots \ {r} : req'[x] = Unheard(t)[x]
  BY <1>1, <1>2, PostIs DEF SaveInv
<1>5. /\ SentIs(t, s, q, req'[r]) /\ \A x \in Slots \ {r} : req'[x] = Unheard(t)[x]
  BY <1>4
<1>6. ASSUME NEW x \in Slots \ {r} PROVE SameSave(req[x], req'[x])
  BY <1>5, UnheardIs DEF SaveInv
<1>7. Running(req'[r]) =>
        /\ req'[r].answer = "none" /\ req'[r].org = s.active /\ s.active # None
        /\ req'[r].arg # None /\ req'[r].at = "find" /\ req'[r].todo = {}
  BY <1>1, <1>5 DEF SentIs, Running
<1>8. /\ ProfilesOK' /\ NoForm # Mixed
      /\ \A o \in Names : whole'[o] = whole[o] \/ (o = s.active /\ whole'[o] \in {NoForm, Mixed})
  BY <1>2, MixedAssumption DEF SaveInv, ProfilesOK, NoForm, Mixed, Form
<1>9. ASSUME NEW x \in Slots, Running(req[x]), req[x].org = s.active, s.active \in Names
      PROVE  whole'[s.active] = Mixed
  <2>1. x \in Saving(s.active)
    BY <1>9 DEF Saving, Running
  <2>2. s.active # None
    BY <1>9, NoneAssumption
  <2> QED BY <1>2, <1>9, <2>1, <2>2 DEF SaveInv, ProfilesOK
<1>10. ASSUME NEW o \in Names PROVE WholeOK(whole'[o], profile'[o])
  BY <1>8 DEF SaveInv, WholeOK
<1>11. s.active \in Names => whole'[s.active] \in {NoForm, Mixed}
  BY <1>2, NoneAssumption DEF SaveInv, ProfilesOK
<1>12. ASSUME NEW x \in Slots, Running(req'[x]) PROVE SaveOK(req[x])'
  <2>1. CASE x = r
    BY <1>7, <1>11, <1>12, <2>1 DEF SaveOK, Progress
  <2>2. CASE x # r
    <3>1. /\ Running(req[x]) /\ req'[x].org = req[x].org /\ req'[x].arg = req[x].arg
          /\ req'[x].numbers = req[x].numbers /\ req'[x].hours = req[x].hours
          /\ req'[x].at = req[x].at /\ req'[x].todo = req[x].todo /\ req'[x].answer = req[x].answer
      BY <1>6, <1>12, <2>2 DEF SameSave
    <3>2. SaveOK(req[x])
      BY <3>1 DEF SaveInv
    <3>3. req[x].org \in Names => whole'[req[x].org] = whole[req[x].org] \/ whole'[req[x].org] = Mixed
      BY <1>8, <1>9, <3>1
    <3> QED BY <1>8, <3>1, <3>2, <3>3 DEF SaveOK, Progress
  <2> QED BY <2>1, <2>2
<1>13. ASSUME NEW r1 \in Slots, NEW r2 \in Slots \ {r}, r1 # r2, Running(req'[r1]), Running(req'[r2]),
              req'[r1].org = req'[r2].org, req'[r1].org \in Names
       PROVE  whole'[req'[r1].org] = Mixed
  <2>1. Running(req[r2]) /\ req[r2].org = req'[r2].org
    BY <1>6, <1>13 DEF SameSave
  <2>2. CASE req'[r1].org = s.active
    BY <1>9, <1>13, <2>1, <2>2
  <2>3. CASE req'[r1].org # s.active
    <3>1. r1 # r /\ Running(req[r1]) /\ req[r1].org = req'[r1].org
      BY <1>6, <1>7, <1>13, <2>3 DEF SameSave
    <3> QED BY <1>8, <1>13, <2>1, <2>3, <3>1 DEF SaveInv
  <2> QED BY <2>2, <2>3
<1>14. \A r1, r2 \in Slots :
        r1 # r2 /\ Running(req'[r1]) /\ Running(req'[r2]) /\ req'[r1].org = req'[r2].org /\ req'[r1].org \in Names
          => whole'[req'[r1].org] = Mixed
  BY <1>13
<1>15. SeedKeepsEdits
  BY DEF SeedKeepsEdits
<1> QED BY <1>3, <1>8, <1>10, <1>12, <1>14, <1>15 DEF OthersStay, SaveInv, KeepsSaves

-----------------------------------------------------------------------------
(* Every step.                                                             *)

TabInv == SaveInv /\ TabsOK /\ WaitingIsAnswered
TabsKept == TabInv' /\ SeedKeepsEdits

LEMMA RequestsUnchanged ==
  ASSUME SaveInv, UNCHANGED req
  PROVE  SavesSame /\ FreeIsNobodys' /\ (\A t : OthersStay(t)) /\ \A t : Listening(t) => Listening(t)'
BY DEF SaveInv, RequestsOK, FreeIsNobodys, SavesSame, SameSave, OthersStay, Listening

LEMMA SameProfile ==
  ASSUME SaveInv, UNCHANGED <<profile, whole>>
  PROVE  ProfilesOK' /\ \A o \in Names : Fills(profile[o], profile'[o])
BY DEF SaveInv, ProfilesOK, Fills

LEMMA MovesKeep ==
  ASSUME TabInv, NEW t \in Tabs, Moved(t), UNCHANGED profile
  PROVE  TabsKept
<1>1. OthersStay(t) /\ KeepsSaves /\ (tab'[t].busy \in Waits => Listening(t)')
  <2>1. ASSUME UNCHANGED whole, SavesSame, OthersStay(t) PROVE KeepsSaves
    BY <2>1, SameProfile, SaveFrame DEF OthersStay, TabInv
  <2>2. CASE tab'[t].busy \notin Waits /\ UNCHANGED <<req, whole>>
    BY <2>1, <2>2, RequestsUnchanged DEF TabInv
  <2>3. CASE tab'[t].busy \notin Waits /\ req' = Unheard(t) /\ UNCHANGED whole
    BY <2>1, <2>3, UnheardStays DEF TabInv, SaveInv
  <2>4. CASE Asks(t)
    <3>1. PICK s, q, admitted :
            Unread(q) /\ q.kind \notin {"save", "free"} /\ Post(s, t, q, admitted) /\ UNCHANGED whole
      BY <2>4 DEF Asks
    <3>2. OthersStay(t) /\ Listening(t)' /\ SavesSame
      BY <3>1, PostStays DEF TabInv, SaveInv, Unread
    <3> QED BY <2>1, <3>1, <3>2
  <2>5. ASSUME NEW s, NEW form, form # None, NEW admitted,
               PostSave(s, t, Form(form, form, [d \in Days |-> form]), admitted)
        PROVE  OthersStay(t) /\ KeepsSaves /\ Listening(t)'
    <3>1. Form(form, form, [d \in Days |-> form]).details # None
      BY <2>5 DEF Form
    <3> QED BY <2>5, <3>1, PostSaveKeeps DEF TabInv
  <2> QED BY <2>2, <2>3, <2>4, <2>5 DEF Moved, Asks
<1>2. Changed(t)
  BY DEF Moved
<1>3. TabsOK'
  BY <1>2 DEF Changed, TabsOK
<1>4. ASSUME NEW x \in Tabs \ {t}, tab'[x].busy \in Waits PROVE Listening(x)'
  <2>1. Listening(x)
    BY <1>2, <1>4 DEF Changed, TabInv, WaitingIsAnswered
  <2> QED BY <1>1, <2>1 DEF OthersStay, Listening
<1>5. WaitingIsAnswered'
  BY <1>1, <1>4 DEF WaitingIsAnswered
<1> QED BY <1>1, <1>3, <1>5 DEF KeepsSaves, TabsKept, TabInv

LEMMA UserKeeps ==
  ASSUME TabInv, UserMoves
  PROVE  TabsKept
<1>1. PICK t \in Tabs : (Pages(t) /\ UNCHANGED whole) \/ Steps(t)
  BY DEF UserMoves
<1>2. Moved(t)
  BY <1>1, PagesMove, StepsMove DEF TabInv
<1> QED BY <1>2, MovesKeep DEF UserMoves

LEMMA ServedKeeps ==
  ASSUME SaveInv, NEW r \in Slots, ServeRest(r)
  PROVE  OneSteps(r) /\ KeepsSaves
<1>1. CASE ServeProfile(r)
  BY <1>1, SaveFindKeeps, SaveWriteKeeps, SaveDayKeeps, SaveNumbersKeeps, SaveAnswersKeeps DEF ServeProfile
<1>2. CASE SaveDayFails(r)
  BY <1>2, SaveDayFailsKeeps
<1>3. CASE CallFails(r) /\ UNCHANGED <<profile, whole>>
  BY <1>3, CallFailsKeeps
<1>4. CASE /\ ProvisionFind(r) \/ ProvisionWrite(r) \/ Me(r) \/ ServeVerify(r) \/ SetPlan(r) \/ StatusRead(r)
           /\ UNCHANGED <<profile, whole>>
  <2>1. OneSteps(r) /\ SavesSame
    BY <1>4, NumberServed, VerifyServed, OrganizationServed DEF SaveInv
  <2>2. FreeIsNobodys'
    BY <2>1, OneStays DEF SaveInv
  <2> QED BY <1>4, <2>1, <2>2, SameProfile, SaveFrame
<1> QED BY <1>1, <1>2, <1>3, <1>4 DEF ServeRest

LEMMA ApiKeeps ==
  ASSUME TabInv, ApiServes
  PROVE  TabsKept
<1>1. PICK r \in Slots : ServeRest(r)
  BY DEF ApiServes
<1>2. UNCHANGED tab
  BY DEF ApiServes, browser
<1>3. OneSteps(r) /\ KeepsSaves
  BY <1>1, ServedKeeps DEF TabInv
<1>4. \A t : Listening(t) => Listening(t)'
  BY <1>3, OneStays DEF TabInv, SaveInv
<1>5. TabsOK' /\ WaitingIsAnswered'
  BY <1>2, <1>4 DEF TabInv, TabsOK, WaitingIsAnswered
<1> QED BY <1>3, <1>5 DEF KeepsSaves, TabsKept, TabInv

(* What neither a tab nor the API does.                                    *)
LEMMA AsideKeeps ==
  ASSUME TabInv, UNCHANGED <<req, whole, tab>>, ProfilesOK', \A o \in Names : Fills(profile[o], profile'[o])
  PROVE  TabsKept
<1>1. SavesSame /\ FreeIsNobodys' /\ \A t : Listening(t) => Listening(t)'
  BY RequestsUnchanged DEF TabInv
<1>2. KeepsSaves
  BY <1>1, SaveFrame DEF TabInv
<1>3. TabsOK' /\ WaitingIsAnswered'
  BY <1>1 DEF TabInv, TabsOK, WaitingIsAnswered
<1> QED BY <1>2, <1>3 DEF KeepsSaves, TabsKept, TabInv

LEMMA SeedFills ==
  ASSUME ProfilesOK, Seed, UNCHANGED whole
  PROVE  ProfilesOK' /\ \A o \in Names : Fills(profile[o], profile'[o])
<1>1. CASE UNCHANGED profile
  BY <1>1 DEF ProfilesOK, Fills
<1>2. CASE SeedBusiness
  BY <1>2 DEF ProfilesOK, Fills, SeedBusiness
<1>3. ASSUME NEW x, profile' = [profile EXCEPT ![Demo].hours[x] = IF @ = None THEN Seeded ELSE @]
      PROVE  ProfilesOK' /\ \A o \in Names : Fills(profile[o], profile'[o])
  BY <1>3 DEF ProfilesOK, Fills
<1> QED BY <1>1, <1>2, <1>3 DEF Seed, SeedOrg, SeedRow

LEMMA TabStep ==
  ASSUME TabInv, [Next]_vars
  PROVE  TabsKept
<1>1. CASE Fulfilment \/ UNCHANGED vars
  BY <1>1, SameProfile, AsideKeeps DEF TabInv, Fulfilment, vars, browser, stored
<1>2. CASE ScriptRuns
  <2>1. UNCHANGED <<req, whole, tab>> /\ (Seed \/ UNCHANGED profile)
    BY <1>2 DEF ScriptRuns, browser
  <2> QED BY <2>1, SeedFills, SameProfile, AsideKeeps DEF TabInv, SaveInv
<1> QED BY <1>1, <1>2, UserKeeps, ApiKeeps DEF Next

LEMMA StartOK ==
  ASSUME Starting
  PROVE  TabsOK /\ \A t \in Tabs : tab[t].busy \notin Waits
<1> DEFINE Idle(v) == TabOK(v) /\ v.busy \in {"none", "stuck"}
<1>1. \A page : Idle(At(page)) /\ TabFields \subseteq DOMAIN At(page)
  BY DEF At, TabOK, TabFields
<1>2. Idle(Unused) /\ Idle(Early) /\ Idle([At("dashboard") EXCEPT !.org = Demo])
  BY DEF At, TabOK, TabFields, Unused, Early
<1>3. \A shown : Idle(AtNumber(shown))
  BY DEF At, TabOK, TabFields, AtNumber
<1>4. \A shown, step : Idle([AtNumber(shown) EXCEPT !.step = step])
  BY DEF At, TabOK, TabFields, AtNumber
<1>5. \A v : Idle(v) /\ (OneTab(v) \/ EachTab(v)) => DOMAIN tab = Tabs /\ \A t \in Tabs : Idle(tab[t])
  BY <1>2 DEF OneTab, EachTab
<1> HIDE DEF Idle
<1>6. DOMAIN tab = Tabs /\ \A t \in Tabs : Idle(tab[t])
  <2>1. \/ \E page : OneTab(At(page))
        \/ \E shown : OneTab(AtNumber(shown)) \/ EachTab(AtNumber(shown))
        \/ \E t \in Tabs : tab = [x \in Tabs |-> IF x = t THEN Early ELSE [AtNumber(None) EXCEPT !.step = 2]]
        \/ EachTab([At("dashboard") EXCEPT !.org = Demo])
        \/ \E step : OneTab([AtNumber(None) EXCEPT !.step = step])
        \/ EachTab(Unused)
    BY DEF Starting
  <2>2. ASSUME NEW t \in Tabs, tab = [x \in Tabs |-> IF x = t THEN Early ELSE [AtNumber(None) EXCEPT !.step = 2]]
        PROVE  DOMAIN tab = Tabs /\ \A x \in Tabs : Idle(tab[x])
    BY <1>2, <1>4, <2>2
  <2>3. ASSUME NEW step, OneTab([AtNumber(None) EXCEPT !.step = step])
        PROVE  DOMAIN tab = Tabs /\ \A x \in Tabs : Idle(tab[x])
    BY <1>4, <1>5, <2>3
  <2>4. EachTab([At("dashboard") EXCEPT !.org = Demo]) => DOMAIN tab = Tabs /\ \A x \in Tabs : Idle(tab[x])
    BY <1>2, <1>5
  <2> QED BY <1>1, <1>2, <1>3, <1>5, <2>1, <2>2, <2>3, <2>4
<1> QED BY <1>6 DEF Idle, TabsOK, Waits

LEMMA TabInit == Init => TabInv
<1> SUFFICES ASSUME Init PROVE TabInv
  OBVIOUS
<1>1. TabsOK /\ WaitingIsAnswered
  BY StartOK DEF Init, WaitingIsAnswered
<1>2. RequestsOK /\ FreeIsNobodys /\ \A r \in Slots : ~Running(req[r])
  BY FreeIs DEF Init, RequestsOK, FreeIsNobodys
<1>3. ProfilesOK
  BY DEF Init, ProfilesOK, Filled, NoProfile, NoHours
<1>4. \A o \in Names : whole[o] = NoForm
  BY DEF Init
<1> QED BY <1>1, <1>2, <1>3, <1>4 DEF TabInv, SaveInv, WholeOK

LEMMA TabAlways == Spec => []TabInv /\ [][SeedKeepsEdits]_vars
<1>1. TabInv /\ [Next]_vars => TabInv' /\ SeedKeepsEdits
  BY TabStep DEF TabsKept
<1> QED BY TabInit, <1>1, PTL DEF Spec

-----------------------------------------------------------------------------

(* A tab that shows it is waiting for the API has a request under way or   *)
(* answered, whatever the other tabs, and the network, do meanwhile.       *)
THEOREM WaitingAnswered == Spec => []WaitingIsAnswered
<1>1. TabInv => WaitingIsAnswered
  BY DEF TabInv
<1> QED BY <1>1, TabAlways, PTL

(* A save of the business profile that met no other, and was answered      *)
(* well, left all of its form, although it is several statements without a *)
(* transaction and earlier saves may have failed half way.                 *)
THEOREM SavesWhole == Spec => []LoneSaveIsWhole
<1>1. TabInv => LoneSaveIsWhole
  BY DEF TabInv, SaveInv, WholeOK, LoneSaveIsWhole
<1> QED BY <1>1, TabAlways, PTL

(* Names and hours that are stored change only by a save, however often    *)
(* the seed is run, and killed, beside the tabs.                           *)
THEOREM SeedsKeepEdits == Spec => EditsStay
BY TabAlways, PTL DEF EditsStay
=============================================================================
