----------------------------- MODULE Onboarding -----------------------------
(***************************************************************************)
(* The way of an organization onto the system, composed: the browser's     *)
(* tabs, the API that serves their requests, staff and callers, and the    *)
(* scripts that set up a development database.                             *)
(***************************************************************************)
EXTENDS Wizard, Scripts

CONSTANTS Moves, Starts   \* bounds: moves of the user, starts and deaths of scripts

ASSUME BoundsAssumption == {Moves, Starts, MaxFaults, MaxCalls} \subseteq Nat

stored == <<profile, whole, number, calls, ringing, overlapped, plan, chosen>>
scripts == <<seed, sample, owner, setup, hand, ran, starts>>
browser == <<session, tab, left>>
vars == <<browser, req, faults, stored, staff, account, orgs, member, scripts>>

-----------------------------------------------------------------------------
(* Where the model starts: before an account; or with organization Demo,   *)
(* its profile and plan, at the phone number, waiting for it, back on the  *)
(* sign-in page or on the dashboard; with scripts run beside a tab of the  *)
(* wizard; or with an empty development database, for the scripts alone.   *)
(* A tab that is not used is on a page it may leave only by a reload.      *)
Unused == [At("sign-in") EXCEPT !.busy = "stuck"]
AtNumber(shown) ==
  [At("new") EXCEPT !.step = 3, !.hasOrg = TRUE, !.plan = Tier, !.org = Demo, !.shown = shown]
(* A tab of the wizard from before the organization was created elsewhere. *)
Early == [At("new") EXCEPT !.step = 1]
OneTab(v) == \E t \in Tabs : tab = [x \in Tabs |-> IF x = t THEN v ELSE Unused]
EachTab(v) == tab = [t \in Tabs |-> v]

Nobody ==
  /\ orgs = {} /\ account = FALSE /\ session = SignedOut
  /\ number = [o \in Names |-> <<>>]

Somebody(s, rows) ==
  /\ orgs = {Demo} /\ account = TRUE /\ session = s
  /\ number = [o \in Names |-> IF o = Demo THEN rows ELSE <<>>]

Starting ==
  \/ /\ Nobody /\ OneTab(At("sign-up"))
     /\ left = Moves + 1 /\ starts = 0 /\ faults = 0
  \/ /\ \E rows \in {<<>>, <<NewRow("FAILED")>>} : Somebody(SignedInto(Demo), rows)
     /\ EachTab(AtNumber(None))
     /\ left = Moves + 1 /\ starts = 0 /\ faults = 0
  \/ /\ Somebody(SignedInto(Demo), <<>>)
     /\ \E t \in Tabs : tab = [x \in Tabs |-> IF x = t THEN Early ELSE [AtNumber(None) EXCEPT !.step = 2]]
     /\ left = Moves /\ starts = 0 /\ faults = MaxFaults
  \/ /\ Somebody(SignedInto(Demo), <<NewRow("AWAITING_APPROVAL")>>)
     /\ OneTab(AtNumber("AWAITING_APPROVAL"))
     /\ left = Moves /\ starts = 0 /\ faults = 0
  \/ /\ Somebody(SignedOut, <<NewRow("PURCHASED")>>)
     /\ OneTab(At("sign-in"))
     /\ left = Moves /\ starts = 0 /\ faults = 0
  \/ /\ Somebody(SignedInto(Demo), <<NewRow("PURCHASED")>>)
     /\ EachTab([At("dashboard") EXCEPT !.org = Demo])
     /\ left = Moves /\ starts = 0 /\ faults = 0
  \/ /\ \E rows \in {<<>>, <<NewRow("FAILED")>>} : Somebody(SignedInto(Demo), rows)
     /\ \E step \in {1, 3} : OneTab([AtNumber(None) EXCEPT !.step = step])
     /\ left = 1 /\ starts = 2 /\ faults = MaxFaults
  \/ /\ Nobody /\ EachTab(Unused)
     /\ left = 0 /\ starts = Starts /\ faults = MaxFaults

Filled == [name |-> Demo, numbers |-> Demo, hours |-> [d \in Days |-> Demo]]

Init ==
  /\ Starting
  /\ member = orgs
  /\ profile = [o \in Names |-> IF o \in orgs THEN Filled ELSE NoProfile]
  /\ whole = [o \in Names |-> NoForm]
  /\ plan = [o \in Names |-> IF o \in orgs THEN Tier ELSE None]
  /\ chosen = [o \in Names |-> IF o \in orgs THEN {Tier} ELSE {}]
  /\ calls = [o \in Names |-> 0]
  /\ ringing = {} /\ staff = StaffIdle
  /\ hand = None /\ overlapped = {}
  /\ seed = SeedIdle /\ owner = "idle" /\ setup = "idle"
  /\ sample = [kind \in Kinds |-> {}] /\ ran = {}
  /\ req = [r \in Slots |-> Free]

-----------------------------------------------------------------------------
UserMoves ==
  /\ \E t \in Tabs : \/ Pages(t) /\ UNCHANGED whole
                     \/ Steps(t)
  /\ UNCHANGED <<profile, number, calls, ringing, overlapped, plan, chosen, staff, scripts>>

ServeRest(r) ==
  \/ /\ ServeProfile(r)
     /\ UNCHANGED <<number, overlapped, plan, chosen, faults>>
  \/ /\ SaveDayFails(r)
     /\ UNCHANGED <<number, overlapped, plan, chosen>>
  \/ /\ CallFails(r)
     /\ UNCHANGED <<profile, whole, number, overlapped, plan, chosen>>
  \/ /\ ProvisionFind(r) \/ ProvisionWrite(r) \/ Me(r)
     /\ UNCHANGED <<profile, whole, plan, chosen, faults>>
  \/ /\ ServeVerify(r)
     /\ UNCHANGED <<profile, whole, overlapped, plan, chosen, faults>>
  \/ /\ SetPlan(r) \/ StatusRead(r)
     /\ UNCHANGED <<profile, whole, number, overlapped, faults>>

ApiServes ==
  /\ \E r \in Slots : ServeRest(r)
  /\ UNCHANGED <<browser, calls, ringing, staff, account, orgs, member, scripts>>

Fulfilment ==
  /\ \/ Staff /\ UNCHANGED <<calls, ringing>>
     \/ Calls /\ UNCHANGED <<number, staff>>
  /\ UNCHANGED <<browser, req, faults, profile, whole, overlapped, plan, chosen,
                 account, orgs, member, scripts>>

ScriptRuns ==
  /\ \/ /\ Seed
        /\ UNCHANGED <<number, overlapped, plan, chosen, account, member, owner, setup, hand, starts>>
     \/ /\ Owner
        /\ UNCHANGED <<profile, number, overlapped, plan, chosen, orgs, seed, sample, setup, hand, starts>>
     \/ /\ Setup
        /\ UNCHANGED <<profile, account, orgs, member, seed, sample, owner, starts>>
     \/ /\ StartScript \/ ScriptDies
        /\ UNCHANGED <<profile, number, overlapped, plan, chosen, account, orgs, member, sample, ran>>
  /\ UNCHANGED <<browser, req, faults, whole, calls, ringing, staff>>

Next == UserMoves \/ ApiServes \/ Fulfilment \/ ScriptRuns

Spec == Init /\ [][Next]_vars

-----------------------------------------------------------------------------
TypeOK ==
  /\ session \in Session /\ req \in [Slots -> Request] /\ faults \in 0 .. MaxFaults
  /\ ProfileTypeOK /\ NumbersTypeOK /\ OrganizationTypeOK /\ TabsTypeOK /\ ScriptsTypeOK

(* PurchasedKept and SeedKeepsEdits, of every step.                        *)
PurchasesStay == [][PurchasedKept]_vars
EditsStay == [][SeedKeepsEdits]_vars
=============================================================================
