-------------------------- MODULE AppointmentBook ---------------------------
(***************************************************************************)
(* What the booking API promises, with no request in flight: a book of     *)
(* appointments and what each caller was told about his own.               *)
(*                                                                         *)
(* An appointment enters the book whole, under a reference no other one    *)
(* has, at most once per booking request; after that only its status       *)
(* changes.  A caller who is told a reference has the appointment of that  *)
(* reference, a caller who is refused never gets one, and a caller who is  *)
(* told of a server error knows nothing either way.                        *)
(***************************************************************************)
CONSTANTS
  Id,      \* one per booking request
  Row,     \* records an appointment may be, with a "ref" and a "status"
  Status   \* AppointmentStatus of the schema, "CONFIRMED" among them

VARIABLES
  book,    \* the appointments, under the request that made each
  told     \* what the caller of each request knows

vars == <<book, told>>

Blank == [status |-> "ABSENT"]

Nothing == [kind |-> "nothing"]
Refused == [kind |-> "refused"]
Unknown == [kind |-> "unknown"]
Promise(ref) == [kind |-> "promised", ref |-> ref]

Init ==
  /\ book = [i \in Id |-> Blank]
  /\ told = [i \in Id |-> Nothing]

(* An appointment is entered under a fresh reference; its caller is told   *)
(* the reference, or the answer is lost and he knows nothing.              *)
Enter(i) ==
  LET row == book'[i]
  IN  /\ told[i] = Nothing
      /\ book[i] = Blank
      /\ row \in Row
      /\ row.status = "CONFIRMED"
      /\ \A j \in Id : book[j] # Blank => book[j].ref # row.ref
      /\ book' = [book EXCEPT ![i] = row]
      /\ \E a \in {Promise(row.ref), Unknown} :
           told' = [told EXCEPT ![i] = a]

(* A request ends without an appointment.                                  *)
TurnAway(i) ==
  /\ told[i] = Nothing
  /\ book[i] = Blank
  /\ \E a \in {Refused, Unknown} : told' = [told EXCEPT ![i] = a]
  /\ UNCHANGED book

(* Cancellation, or any other change of status.                            *)
ChangeStatus(i) ==
  /\ book[i] # Blank
  /\ \E s \in Status : book' = [book EXCEPT ![i].status = s]
  /\ UNCHANGED told

Next == \E i \in Id : Enter(i) \/ TurnAway(i) \/ ChangeStatus(i)

Spec == Init /\ [][Next]_vars
=============================================================================
