----------------------------- MODULE MCDashboard -----------------------------
(***************************************************************************)
(* A small instance of Dashboard for TLC: six appointments of which pages  *)
(* hold two, two weekdays, and ranges of one and two days.                 *)
(***************************************************************************)
EXTENDS Dashboard, TLC

(* Number 4 is today once midnight has passed; numbers 5 and 6 are of one  *)
(* time.                                                                   *)
MCScheduledAt == <<1, 3, 5, 6, 8, 8>>

(* Number 5 is cancelled, number 6 not made yet.                           *)
MCBooks ==
  {[i \in Ids |-> CASE i = 5 -> "CANCELLED" [] i = 6 -> None [] OTHER -> "CONFIRMED"]}

(* Saved whole, or, for the settings, with no hours, as by a save that     *)
(* failed half way.                                                        *)
Saved(hours) ==
  [o \in Names |-> [name |-> Home, numbers |-> Home, hours |-> [d \in Days |-> hours]]]
MCProfiles ==
  [page \in DashboardPages |-> {Saved(IF page = "settings" THEN None ELSE Home)}]

(* A form of other details, numbers and hours than those first stored.     *)
MCTheirs == {Form(Usual, Usual, [d \in Days |-> Usual])}

MCMoves ==
  [page \in DashboardPages |-> CASE page = "settings" -> 4 [] page = "bookings" -> 3 [] OTHER -> 2]

Symmetry == Permutations(Days) \cup Permutations(Slots)

(* From just before the two-day range to now.  Beside the settings nothing *)
(* more is logged or changed, and the clock stands still.                  *)
MCFirstTime == [page \in DashboardPages |-> IF page = "settings" THEN LastTime ELSE 5]
MCChanges == [page \in DashboardPages |-> IF page = "settings" THEN MaxChanges ELSE 0]
Call(kind, start) == [kind |-> kind, start |-> start]
MCLogged ==
  [page \in DashboardPages |->
     <<Call("other", 0), Call("booked", 1), Call("inquiry", 3), Call("other", 3)>>
       \o (IF page = "settings" THEN <<Call("other", 5)>> ELSE <<>>)]
=============================================================================
