---------------------------- MODULE DashboardApi ----------------------------
(***************************************************************************)
(* Requests of the web client to the API.  A request is sent from a tab    *)
(* with the browser's session, passes SessionGuard and the ValidationPipe, *)
(* and is then served one awaited database call at a time.  What it is     *)
(* sent with and what it has read so far is a record in a slot of req.     *)
(*                                                                         *)
(* The tab may stop listening (it is reloaded, or the network fails): the  *)
(* request is served all the same, from nobody.                            *)
(***************************************************************************)
EXTENDS Naturals, FiniteSets, Sequences

CONSTANTS
  Tabs,        \* tabs of one browser, which share its session
  Slots,       \* requests that may be under way at once (a bound)
  Names,       \* organizations, named for their slug; also what a form holds
  Days,        \* weekdays
  Plans,       \* PlanTier
  None,
  MaxFaults    \* failures of the database or the network (a bound)

ASSUME NoneAssumption == None \notin Names \cup Tabs \cup Nat

VARIABLES
  session,     \* the browser's session and its activeOrganizationId
  req,
  faults

Org == Names \cup {None}
Status == {"AWAITING_APPROVAL", "PURCHASED", "FAILED"}
Session == [signed : BOOLEAN, active : Org]
SignedOut == [signed |-> FALSE, active |-> None]
SignedInto(o) == [signed |-> TRUE, active |-> o]

NoHours == [d \in Days |-> None]

Request ==
  [kind : {"free", "save", "plan", "status", "me", "provision", "verify"},
   from : Tabs \cup {None}, org : Org, arg : Org \cup Plans \cup Status,
   numbers : Org, hours : [Days -> Org],
   at : {"find", "write", "days", "numbers", "read", "profile", "search", "mark", "end"},
   row : Nat, asked : Nat \cup {None}, seen : SUBSET {"profile", "plan", "number"},
   todo : SUBSET (Days \cup {"profile", "plan", "number"}),
   answer : {"none", "ok", "error", "unsigned", "no-org", "invalid", "conflict", "missing"}]

Free ==
  [kind |-> "free", from |-> None, org |-> None, arg |-> None, numbers |-> None, hours |-> NoHours,
   at |-> "end", row |-> 0, asked |-> None, seen |-> {}, todo |-> {}, answer |-> "none"]

Ask(kind, at) == [Free EXCEPT !.kind = kind, !.at = at]

(* Once answered, and with no call of it still running, a request that     *)
(* nobody listens to is over.                                              *)
Settled(q) == IF q.from = None /\ q.answer # "none" /\ q.todo = {} THEN Free ELSE q

Unheard(t) ==
  [r \in Slots |-> IF req[r].from = t THEN Settled([req[r] EXCEPT !.from = None]) ELSE req[r]]

(* SessionGuard: 401 without a session, 403 without an active organization.*)
Guard(s) ==
  IF ~s.signed THEN "unsigned" ELSE IF s.active = None THEN "no-org" ELSE "none"

(* Tab t, with session s, sends request q, which the DTO admits or not.    *)
Post(s, t, q, admitted) ==
  LET answer == IF Guard(s) = "none" /\ ~admitted THEN "invalid" ELSE Guard(s)
      sent == IF answer = "none" THEN q ELSE Ask(q.kind, "end")
  IN  \E r \in Slots :
        /\ Unheard(t)[r].kind = "free"
        /\ req' = [Unheard(t) EXCEPT ![r] =
                     [sent EXCEPT !.from = t, !.org = s.active, !.answer = answer]]

Answered(r, answer) == Settled([req[r] EXCEPT !.answer = answer, !.at = "end"])
Reply(r, answer) == req' = [req EXCEPT ![r] = Answered(r, answer)]

Serving(r, kind, at) == req[r].kind = kind /\ req[r].at = at /\ req[r].answer = "none"

Fault == faults < MaxFaults /\ faults' = faults + 1

(* A database call is rejected: the handler throws and Nest answers 500.   *)
(* (Of the hours of a save, which run together, see SaveDayFails.)         *)
CallFails(r) ==
  /\ req[r].kind # "free" /\ req[r].answer = "none" /\ req[r].at # "days"
  /\ Fault
  /\ req' = [req EXCEPT ![r] = Settled([@ EXCEPT !.answer = "error", !.at = "end", !.todo = {}])]

(* What tab t hears.                                                       *)
Heard(t) == {r \in Slots : req[r].from = t /\ req[r].answer # "none"}
Listening(t) == \E r \in Slots : req[r].from = t
=============================================================================
