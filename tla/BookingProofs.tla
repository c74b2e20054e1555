--------------------------- MODULE BookingProofs ----------------------------
(***************************************************************************)
(* Booking, for any number of requests, businesses, services, dates and    *)
(* opening hours: its types, that successive bookings are kept apart, and  *)
(* that what the API has told its callers stays true: a booking reference  *)
(* finds the caller's own appointment, a cancellation hit an appointment   *)
(* of the caller's, on the day he named, and stays in force.  From there,  *)
(* Booking implements AppointmentBook.                                     *)
(***************************************************************************)
EXTENDS Booking, TLAPS

(* What a request holds on its way.  A slot is resolved to one service     *)
(* before its hours are read, and fits in its day once they have been; a   *)
(* row is its request's, which has ended; an update's row exists.          *)
SlotsResolved ==
  \A r \in Booker \cup Checker :
    pc[r] \in {"hours", "conflicts", "create"} => Resolved(dto[r])

FitsDay(d) == d.time + Duration[ServiceOf(d)] < MinutesPerDay

RowsTheirRequests ==
  \A r \in Booker : Exists(r) =>
    /\ pc[r] = "done"
    /\ Resolved(dto[r])
    /\ appointment[r].business = dto[r].business
    /\ appointment[r].service = ServiceOf(dto[r])
    /\ appointment[r].scheduledAt = StartOf(dto[r])

SlotsFitDay ==
  \A r \in Booker :
    pc[r] \in {"conflicts", "create"} \/ Exists(r) => FitsDay(dto[r])

TargetsExist ==
  \A r \in Canceller \cup Updater : pc[r] = "update" => Exists(target[r])

EarlierRowsExist == \A j \in Booker : \A i \in before[j] : Exists(i)

(* The query of conflicts missed no appointment of the slot's UTC day that *)
(* was there before and has not been out of the way since.                 *)
Clears(j, i) ==
  \/ ~Active(i)
  \/ i \in revived
  \/ appointment[i].business # dto[j].business
  \/ ~InUtcDayOf(appointment[i].scheduledAt, StartOf(dto[j]))
  \/ ~OverlapAt(i, StartOf(dto[j]), Duration[ServiceOf(dto[j])])

SlotsCleared ==
  \A j \in Booker : pc[j] = "create" \/ Exists(j) =>
    \A i \in before[j] : Clears(j, i)

Shape == SlotsResolved /\ RowsTheirRequests /\ TargetsExist

IInv == TypeOK /\ Shape /\ SlotsFitDay /\ EarlierRowsExist /\ SlotsCleared

-----------------------------------------------------------------------------
(* Operators.                                                              *)

LEMMA ServiceOfType ==
  ASSUME NEW d, Resolved(d)
  PROVE  ServiceOf(d) \in Service
BY DEF Resolved, ServiceOf

LEMMA SlotStartType ==
  ASSUME NEW date, NEW time, date \in Nat, time \in 0 .. 1439
  PROVE  SlotStart(date, time) \in Int
BY SMT DEF SlotStart, MinutesPerDay, UtcOffset

LEMMA TimeBound ==
  ASSUME NEW t, t \in Time
  PROVE  t \in 0 .. 1439
<1>1. t \in 0 .. MinutesPerDay - 1
  BY TimeAssumption, Zenon
<1> QED BY <1>1 DEF MinutesPerDay

(* The dates and times of a payload are numbers, a day's minutes at most.  *)
LEMMA SlotTimes ==
  ASSUME NEW d, d \in BookDto \/ d \in CheckDto
  PROVE  d.date \in Nat /\ d.time \in 0 .. 1439 /\ StartOf(d) \in Int
<1>1. d.date \in Date
  BY DEF BookDto, CheckDto
<1>2. d.time \in Time
  BY DEF BookDto, CheckDto
<1>3. d.date \in Nat
  BY <1>1, TimeAssumption
<1>4. d.time \in 0 .. 1439
  BY <1>2, TimeBound
<1>5. StartOf(d) \in Int
  <2> DEFINE date == d.date
             time == d.time
  <2>1. date \in Nat /\ time \in 0 .. 1439
    BY <1>3, <1>4
  <2> HIDE DEF date, time
  <2>2. SlotStart(date, time) \in Int
    BY <2>1, SlotStartType
  <2> QED BY <2>2 DEF StartOf, date, time
<1> QED BY <1>3, <1>4, <1>5

(* A row made of a resolved payload is a row.                              *)
LEMMA RowOfType ==
  ASSUME NEW d, d \in BookDto, Resolved(d), NEW ref \in Reference
  PROVE  RowOf(d, ref) \in Row
<1>1. ServiceOf(d) \in Service
  BY ServiceOfType
<1>2. StartOf(d) \in Int
  BY SlotTimes
<1>3. d.business \in Business /\ d.phone \in Phone
  BY DEF Resolved, BookDto
<1> QED BY <1>1, <1>2, <1>3 DEF RowOf, Row, Status

(* A slot that fits in its day overlaps another such slot only on the same *)
(* date, and then lies in the same UTC day unless 05:30 separates them.    *)
LEMMA OverlapSameDay ==
  ASSUME NEW d1, NEW t1, NEW m1, NEW d2, NEW t2, NEW m2,
         d1 \in Nat, t1 \in 0 .. 1439, m1 \in Nat, t1 + m1 < 1440,
         d2 \in Nat, t2 \in 0 .. 1439, m2 \in Nat, t2 + m2 < 1440,
         Overlaps(SlotStart(d2, t2), m2, SlotStart(d1, t1), m1),
         t1 < 330 <=> t2 < 330
  PROVE  InUtcDayOf(SlotStart(d1, t1), SlotStart(d2, t2))
<1>1. d1 = d2
  <2>1. d1 * 1440 + t1 < d2 * 1440 + t2 + m2
    BY SMT DEF Overlaps, SlotStart, MinutesPerDay, UtcOffset
  <2>2. d2 * 1440 + t2 < d1 * 1440 + t1 + m1
    BY SMT DEF Overlaps, SlotStart, MinutesPerDay, UtcOffset
  <2>3. d1 <= d2
    BY <2>1, SMT
  <2>4. d2 <= d1
    BY <2>2, SMT
  <2> QED BY <2>3, <2>4, SMT
<1>2. CASE t2 < 330
  <2>1. (d2 * 1440 + t2 - 330) % 1440 = t2 + 1110
    BY <1>2, SMT
  <2> QED BY <1>1, <1>2, <2>1, SMT
          DEF InUtcDayOf, UtcDayStart, SlotStart, MinutesPerDay, UtcOffset
<1>3. CASE ~(t2 < 330)
  <2>1. (d2 * 1440 + t2 - 330) % 1440 = t2 - 330
    BY <1>3, SMT
  <2> QED BY <1>1, <1>3, <2>1, SMT
          DEF InUtcDayOf, UtcDayStart, SlotStart, MinutesPerDay, UtcOffset
<1> QED BY <1>2, <1>3

LEMMA MinuteOfSlot ==
  ASSUME NEW d, NEW t, d \in Nat, t \in 0 .. 1439
  PROVE  MinuteOf(SlotStart(d, t)) = t
BY SMT DEF MinuteOf, SlotStart, MinutesPerDay, UtcOffset

-----------------------------------------------------------------------------
(* The inductive invariant.                                                *)

LEMMA InitInv == Init => IInv
<1> SUFFICES ASSUME Init PROVE IInv
  OBVIOUS
<1>1. VariableTypes
  BY ReferenceAssumption, SMT
     DEF Init, VariableTypes, Calls, Dtos, Answers, AnswerStatus, NoAnswer
<1>2. PayloadTypes /\ CallTypes
  BY DEF Init, PayloadTypes, CallTypes, Request
<1>3. \A r \in Booker : ~Exists(r) /\ pc[r] = "idle" /\ before[r] = {}
  BY DEF Init, Exists, NoRow, Request
<1>4. \A r \in Request : pc[r] = "idle"
  BY DEF Init
<1> QED
  BY <1>1, <1>2, <1>3, <1>4
     DEF IInv, TypeOK, Shape, SlotsResolved, RowsTheirRequests, TargetsExist,
         SlotsFitDay, EarlierRowsExist, SlotsCleared, Request

(* What a step that moves one request to its next call keeps, and what it  *)
(* has to bring along.                                                     *)
LEMMA MoveInv ==
  ASSUME IInv, NEW r \in Request, pc[r] # "done", NEW call, Await(r, call),
         UNCHANGED <<appointment, dto, before, revived>>,
         call \in {"hours", "conflicts", "create"} => Resolved(dto[r]),
         call \in {"conflicts", "create"} => FitsDay(dto[r]),
         call = "create" => \A i \in before[r] : Clears(r, i),
         \A s \in Canceller \cup Updater :
           pc[s] = "update" => target'[s] = target[s],
         call = "update" => Exists(target'[r])
  PROVE  Shape' /\ SlotsFitDay' /\ EarlierRowsExist' /\ SlotsCleared'
<1>1. /\ pc \in [Request -> Calls]
      /\ pc'[r] = call
      /\ \A s \in Request : s # r => pc'[s] = pc[s]
  BY DEF IInv, TypeOK, VariableTypes, Await
<1>2. \A i : Exists(i)' <=> Exists(i)
  BY DEF Exists
<1>3. \A j, i : Clears(j, i)' <=> Clears(j, i)
  BY DEF Clears, Active, OverlapAt
<1>4. SlotsResolved'
  BY <1>1 DEF IInv, Shape, SlotsResolved, Request
<1>5. RowsTheirRequests'
  BY <1>1, <1>2 DEF IInv, Shape, RowsTheirRequests, Request
<1>6. TargetsExist'
  BY <1>1, <1>2 DEF IInv, Shape, TargetsExist, Request
<1>7. SlotsFitDay'
  BY <1>1, <1>2 DEF IInv, SlotsFitDay, Request
<1>8. EarlierRowsExist'
  BY <1>2 DEF IInv, EarlierRowsExist
<1>9. SlotsCleared'
  BY <1>1, <1>2, <1>3 DEF IInv, SlotsCleared, Request
<1> QED BY <1>4, <1>5, <1>6, <1>7, <1>8, <1>9 DEF Shape

(* The same for the types of a request's payload and target.               *)
LEMMA MoveTypes ==
  ASSUME IInv, NEW r \in Request, pc[r] # "idle", NEW call, call # "candidates",
         Await(r, call), UNCHANGED dto,
         call \in {"hours", "conflicts"} => r \in Booker \cup Checker,
         call = "create" => r \in Booker,
         call \in {"lookup", "update"} =>
           r \in Canceller \cup Updater /\ target'[r] \in Booker,
         \A s \in Canceller \cup Updater : s # r => target'[s] = target[s]
  PROVE  PayloadTypes' /\ CallTypes'
<1>1. /\ pc \in [Request -> Calls]
      /\ pc'[r] = call
      /\ \A s \in Request : s # r => pc'[s] = pc[s]
  BY DEF IInv, TypeOK, VariableTypes, Await
<1>2. PayloadTypes'
  BY <1>1 DEF IInv, TypeOK, PayloadTypes
<1>3. CallTypes'
  BY <1>1 DEF IInv, TypeOK, CallTypes
<1> QED BY <1>2, <1>3

LEMMA AnswerTypes ==
  ASSUME VariableTypes, NEW r \in Request, NEW a \in Answers, Answer(r, a)
  PROVE  /\ pc' \in [Request -> Calls]
         /\ answer' \in [Request -> Answers]
         /\ Await(r, "done")
BY DEF VariableTypes, Answer, Await, Calls

LEMMA SaysType ==
  /\ \A s \in AnswerStatus : Says(s) \in Answers
  /\ \A s \in AnswerStatus, ref \in Reference : SaysRef(s, ref) \in Answers
BY DEF Says, SaysRef, Answers

(* A request that ends leaves the rest as it was.                          *)
LEMMA EndInv ==
  ASSUME IInv, NEW r \in Request, pc[r] \notin {"idle", "done"},
         NEW a \in Answers, Answer(r, a),
         UNCHANGED <<now, hours, appointment, dto, attempt, target,
                     before, arrival, revived>>
  PROVE  IInv'
<1>1. /\ pc' \in [Request -> Calls]
      /\ answer' \in [Request -> Answers]
      /\ Await(r, "done")
  BY AnswerTypes DEF IInv, TypeOK
<1>2. VariableTypes'
  BY <1>1 DEF IInv, TypeOK, VariableTypes
<1>3. PayloadTypes' /\ CallTypes'
  BY <1>1, MoveTypes
<1>4. Shape' /\ SlotsFitDay' /\ EarlierRowsExist' /\ SlotsCleared'
  BY <1>1, MoveInv
<1> QED BY <1>2, <1>3, <1>4 DEF IInv, TypeOK

LEMMA FailInv ==
  ASSUME IInv, NEW r \in Request, Fail(r)
  PROVE  IInv'
<1>1. Says("server_error") \in Answers
  BY SaysType DEF AnswerStatus
<1> QED BY <1>1, EndInv DEF Fail

LEMMA ReadHoursInv ==
  ASSUME IInv, NEW r \in Request, ReadHours(r)
  PROVE  IInv'
<1>1. CASE Answer(r, Says("unavailable"))
  <2>1. Says("unavailable") \in Answers
    BY SaysType DEF AnswerStatus, Refusals
  <2> QED BY <1>1, <2>1, EndInv DEF ReadHours
<1>2. CASE OpenFor(dto[r]) /\ Await(r, "conflicts") /\ UNCHANGED answer
  <2>1. r \in Booker \cup Checker /\ Resolved(dto[r])
    BY DEF ReadHours, IInv, TypeOK, CallTypes, Shape, SlotsResolved
  <2>2. VariableTypes'
    BY <1>2 DEF ReadHours, IInv, TypeOK, VariableTypes, Await, Calls
  <2>3. PayloadTypes' /\ CallTypes'
    BY <1>2, <2>1, MoveTypes DEF ReadHours
  <2>4. FitsDay(dto[r])
    <3>1. dto[r] \in BookDto \/ dto[r] \in CheckDto
      BY <2>1 DEF ReadHours, IInv, TypeOK, PayloadTypes, Request
    <3>2. PICK h \in hours :
            dto[r].time + Duration[ServiceOf(dto[r])] <= h.close
      BY <1>2 DEF OpenFor
    <3>3. h.close \in 0 .. MinutesPerDay - 1
      BY DEF IInv, TypeOK, VariableTypes, HoursRow
    <3>4. Duration[ServiceOf(dto[r])] \in Nat
      BY <2>1, ServiceOfType, CatalogAssumption
    <3>5. dto[r].time \in 0 .. 1439
      BY <3>1, SlotTimes
    <3> DEFINE t == dto[r].time
               m == Duration[ServiceOf(dto[r])]
               c == h.close
    <3>6. c \in 0 .. 1439 /\ m \in Nat /\ t \in 0 .. 1439 /\ t + m <= c
      BY <3>2, <3>3, <3>4, <3>5 DEF MinutesPerDay
    <3> HIDE DEF t, m, c
    <3>7. t + m < MinutesPerDay
      BY <3>6 DEF MinutesPerDay
    <3> QED BY <3>7 DEF FitsDay, t, m
  <2>5. Shape' /\ SlotsFitDay' /\ EarlierRowsExist' /\ SlotsCleared'
    BY <1>2, <2>1, <2>4, MoveInv DEF ReadHours
  <2> QED BY <2>2, <2>3, <2>5 DEF IInv, TypeOK
<1> QED BY <1>1, <1>2 DEF ReadHours

(* The query of conflicts clears the slot of every earlier appointment.    *)
LEMMA ReadConflictsInv ==
  ASSUME IInv, NEW r \in Request, ReadConflicts(r)
  PROVE  IInv'
<1>1. ASSUME NEW s \in AnswerStatus, Answer(r, Says(s))
      PROVE  IInv'
  BY <1>1, SaysType, EndInv DEF ReadConflicts
<1>2. "unavailable" \in AnswerStatus /\ "available" \in AnswerStatus
  BY DEF AnswerStatus, Refusals
<1>3. CASE /\ Conflicts(dto[r]) = {}
           /\ r \in Booker
           /\ Await(r, "create")
           /\ UNCHANGED answer
  <2>1. Resolved(dto[r]) /\ FitsDay(dto[r])
    BY <1>3 DEF ReadConflicts, IInv, Shape, SlotsResolved, SlotsFitDay
  <2>2. \A i \in before[r] : Clears(r, i)
    <3>1. \A i \in before[r] : i \in Booker
      BY <1>3 DEF IInv, TypeOK, VariableTypes
    <3> QED BY <1>3, <3>1 DEF Conflicts, Clears
  <2>3. VariableTypes'
    BY <1>3 DEF ReadConflicts, IInv, TypeOK, VariableTypes, Await, Calls
  <2>4. PayloadTypes' /\ CallTypes'
    BY <1>3, MoveTypes DEF ReadConflicts
  <2>5. Shape' /\ SlotsFitDay' /\ EarlierRowsExist' /\ SlotsCleared'
    BY <1>3, <2>1, <2>2, MoveInv DEF ReadConflicts
  <2> QED BY <2>3, <2>4, <2>5 DEF IInv, TypeOK
<1> QED BY <1>1, <1>2, <1>3 DEF ReadConflicts

(* The row inserted is no appointment of before, and its request ends.     *)
LEMMA InsertRowInv ==
  ASSUME IInv, NEW r \in Request, InsertRow(r)
  PROVE  IInv'
<1>1. PICK ref \in Reference :
        /\ appointment' = [appointment EXCEPT ![r] = RowOf(dto[r], ref)]
        /\ \/ Answer(r, SaysRef("confirmed", ref))
           \/ Answer(r, Says("server_error"))
  BY DEF InsertRow
<1>2. /\ r \in Booker
      /\ dto[r] \in BookDto
      /\ Resolved(dto[r])
      /\ FitsDay(dto[r])
      /\ \A i \in before[r] : Clears(r, i)
  BY DEF InsertRow, IInv, TypeOK, CallTypes, PayloadTypes, Shape,
         SlotsResolved, SlotsFitDay, SlotsCleared
<1>3. PICK a \in Answers : Answer(r, a)
  BY <1>1, SaysType DEF AnswerStatus
<1>4. /\ pc' \in [Request -> Calls]
      /\ answer' \in [Request -> Answers]
      /\ Await(r, "done")
  BY <1>3, AnswerTypes DEF IInv, TypeOK
<1>5. /\ pc'[r] = "done"
      /\ \A s \in Request : s # r => pc'[s] = pc[s]
      /\ pc[r] = "create"
      /\ UNCHANGED <<dto, before, revived, target>>
  BY <1>4 DEF InsertRow, Await, IInv, TypeOK, VariableTypes
<1>6. /\ appointment'[r] = RowOf(dto[r], ref)
      /\ \A i \in Booker : i # r => appointment'[i] = appointment[i]
  BY <1>1, <1>2 DEF IInv, TypeOK, VariableTypes
<1>7. Exists(r)' /\ \A i \in Booker : i # r => (Exists(i)' <=> Exists(i))
  BY <1>6 DEF Exists, RowOf
<1>8. ~Exists(r)
  BY <1>2, <1>5 DEF IInv, Shape, RowsTheirRequests
<1>9. VariableTypes'
  <2>1. RowOf(dto[r], ref) \in Row
    BY <1>2, RowOfType
  <2>2. appointment' \in [Booker -> Row \cup {NoRow}]
    BY <1>1, <1>2, <2>1 DEF IInv, TypeOK, VariableTypes
  <2> QED BY <1>4, <2>2 DEF InsertRow, IInv, TypeOK, VariableTypes
<1>10. PayloadTypes' /\ CallTypes'
  BY <1>4, <1>5, MoveTypes
<1>11. SlotsResolved'
  BY <1>5 DEF IInv, Shape, SlotsResolved, Request
<1>12. RowsTheirRequests'
  BY <1>2, <1>5, <1>6, <1>7
     DEF IInv, Shape, RowsTheirRequests, RowOf, Request
<1>13. TargetsExist'
  <2>1. \A s \in Canceller \cup Updater :
          pc[s] = "update" => target[s] \in Booker
    BY DEF IInv, TypeOK, CallTypes, Request
  <2> QED BY <1>5, <1>7, <1>8, <2>1 DEF IInv, Shape, TargetsExist, Request
<1>14. SlotsFitDay'
  BY <1>2, <1>5, <1>7 DEF IInv, SlotsFitDay, Request
<1>15. \A j \in Booker : \A i \in before[j] : i \in Booker /\ i # r
  BY <1>8 DEF IInv, TypeOK, VariableTypes, EarlierRowsExist
<1>16. EarlierRowsExist'
  BY <1>5, <1>7, <1>15 DEF IInv, EarlierRowsExist
<1>17. SlotsCleared'
  <2>1. \A j \in Booker : \A i \in before[j] : Clears(j, i) => Clears(j, i)'
    BY <1>5, <1>6, <1>15 DEF Clears, Active, OverlapAt
  <2>2. \A j \in Booker : pc'[j] = "create" \/ Exists(j)' =>
          pc[j] = "create" \/ Exists(j)
    BY <1>5, <1>7 DEF Request
  <2> QED BY <1>5, <2>1, <2>2 DEF IInv, SlotsCleared
<1> QED
  BY <1>9, <1>10, <1>11, <1>12, <1>13, <1>14, <1>16, <1>17
     DEF IInv, TypeOK, Shape

LEMMA CollideInv ==
  ASSUME IInv, NEW r \in Request, Collide(r)
  PROVE  IInv'
<1>1. CASE Answer(r, Says("server_error")) /\ UNCHANGED attempt
  <2>1. Says("server_error") \in Answers
    BY SaysType DEF AnswerStatus
  <2> QED BY <1>1, <2>1, EndInv DEF Collide
<1>2. CASE /\ attempt[r] < Attempts
           /\ attempt' = [attempt EXCEPT ![r] = @ + 1]
           /\ UNCHANGED <<pc, answer>>
  <2>1. r \in Booker
    BY DEF Collide, IInv, TypeOK, CallTypes
  <2>2. attempt' \in [Booker -> 1 .. Attempts]
    <3>1. attempt[r] \in 1 .. Attempts
      BY <2>1 DEF IInv, TypeOK, VariableTypes
    <3>2. attempt[r] + 1 \in 1 .. Attempts
      <4> DEFINE n == attempt[r]
      <4>1. n \in 1 .. Attempts /\ n < Attempts
        BY <1>2, <3>1
      <4> HIDE DEF n
      <4>2. n + 1 \in 1 .. Attempts
        BY <4>1, ReferenceAssumption
      <4> QED BY <4>2 DEF n
    <3> QED BY <1>2, <3>2 DEF IInv, TypeOK, VariableTypes
  <2>3. TypeOK'
    BY <1>2, <2>2
       DEF Collide, IInv, TypeOK, VariableTypes, PayloadTypes, CallTypes
  <2>4. (Shape /\ SlotsFitDay /\ EarlierRowsExist /\ SlotsCleared)'
    BY <1>2 DEF Collide, IInv, Shape, SlotsResolved, RowsTheirRequests,
                TargetsExist, SlotsFitDay, EarlierRowsExist, SlotsCleared,
                Clears, Active, Exists, OverlapAt
  <2> QED BY <2>3, <2>4 DEF IInv
<1> QED BY <1>1, <1>2 DEF Collide

LEMMA FindCandidatesInv ==
  ASSUME IInv, NEW r \in Request, FindCandidates(r)
  PROVE  IInv'
<1>1. ASSUME NEW s \in AnswerStatus, Answer(r, Says(s)), UNCHANGED target
      PROVE  IInv'
  BY <1>1, SaysType, EndInv DEF FindCandidates
<1>2. /\ "appointment_not_found" \in AnswerStatus
      /\ "ambiguous_appointment" \in AnswerStatus
  BY DEF AnswerStatus, Refusals
<1>3. ASSUME NEW i \in Booker, target' = [target EXCEPT ![r] = i],
             Await(r, "lookup"), UNCHANGED answer
      PROVE  IInv'
  <2>1. r \in Canceller \cup Updater
    BY DEF FindCandidates, IInv, TypeOK, CallTypes
  <2>2. /\ target' \in [Canceller \cup Updater -> Booker \cup {NoTarget}]
        /\ target'[r] = i
        /\ \A s \in Canceller \cup Updater : s # r => target'[s] = target[s]
    BY <1>3, <2>1 DEF IInv, TypeOK, VariableTypes
  <2>3. VariableTypes'
    BY <1>3, <2>2 DEF FindCandidates, IInv, TypeOK, VariableTypes, Await, Calls
  <2>4. PayloadTypes' /\ CallTypes'
    BY <1>3, <2>1, <2>2, MoveTypes DEF FindCandidates
  <2>5. Shape' /\ SlotsFitDay' /\ EarlierRowsExist' /\ SlotsCleared'
    BY <1>3, <2>2, MoveInv DEF FindCandidates
  <2> QED BY <2>3, <2>4, <2>5 DEF IInv, TypeOK
<1> QED BY <1>1, <1>2, <1>3 DEF FindCandidates, Candidates

LEMMA LookupRowInv ==
  ASSUME IInv, NEW r \in Request, LookupRow(r)
  PROVE  IInv'
<1>1. CASE Answer(r, Says("row_not_found"))
  <2>1. Says("row_not_found") \in Answers
    BY SaysType DEF AnswerStatus, Refusals
  <2> QED BY <1>1, <2>1, EndInv DEF LookupRow
<1>2. CASE Visible(r, target[r]) /\ Await(r, "update") /\ UNCHANGED answer
  <2>1. r \in Canceller \cup Updater /\ target[r] \in Booker
    BY DEF LookupRow, IInv, TypeOK, CallTypes
  <2>2. VariableTypes'
    BY <1>2 DEF LookupRow, IInv, TypeOK, VariableTypes, Await, Calls
  <2>3. PayloadTypes' /\ CallTypes'
    BY <1>2, <2>1, MoveTypes DEF LookupRow
  <2>4. Shape' /\ SlotsFitDay' /\ EarlierRowsExist' /\ SlotsCleared'
    BY <1>2, MoveInv DEF LookupRow, Visible
  <2> QED BY <2>2, <2>3, <2>4 DEF IInv, TypeOK
<1> QED BY <1>1, <1>2 DEF LookupRow

(* An update that brings an appointment back from CANCELLED is recorded in *)
(* revived; any other leaves active only what was active.                  *)
LEMMA UpdateRowInv ==
  ASSUME IInv, NEW r \in Request, UpdateRow(r)
  PROVE  IInv'
<1> DEFINE i == target[r]
<1>1. /\ r \in Canceller \cup Updater
      /\ i \in Booker
      /\ Exists(i)
      /\ pc[r] = "update"
      /\ NewStatus(r) \in Status
  BY DEF UpdateRow, IInv, TypeOK, CallTypes, PayloadTypes, Shape,
         TargetsExist, NewStatus, StatusDto, Status, Request
<1>2. appointment[i] \in Row
  BY <1>1 DEF IInv, TypeOK, VariableTypes, Exists, NoRow
<1>3. appointment' = [appointment EXCEPT
                        ![i] = [appointment[i] EXCEPT !.status = NewStatus(r)]]
  BY DEF UpdateRow
<1>4. [appointment[i] EXCEPT !.status = NewStatus(r)] \in Row
  BY <1>1, <1>2 DEF Row
<1>5. /\ appointment' \in [Booker -> Row \cup {NoRow}]
      /\ appointment'[i] = [appointment[i] EXCEPT !.status = NewStatus(r)]
      /\ \A k \in Booker : k # i => appointment'[k] = appointment[k]
  BY <1>1, <1>3, <1>4 DEF IInv, TypeOK, VariableTypes
<1>6. PICK a \in Answers : Answer(r, a)
  <2>1. appointment[i].ref \in Reference
    BY <1>2 DEF Row
  <2> QED BY <2>1, SaysType DEF UpdateRow, AnswerStatus
<1>7. /\ pc' \in [Request -> Calls]
      /\ answer' \in [Request -> Answers]
      /\ Await(r, "done")
  BY <1>6, AnswerTypes DEF IInv, TypeOK
<1>8. /\ pc'[r] = "done"
      /\ \A s \in Request : s # r => pc'[s] = pc[s]
      /\ UNCHANGED <<dto, before, target>>
  BY <1>7 DEF UpdateRow, Await, IInv, TypeOK, VariableTypes
<1>9. \A k \in Booker :
        /\ Exists(k)' <=> Exists(k)
        /\ appointment'[k].business = appointment[k].business
        /\ appointment'[k].service = appointment[k].service
        /\ appointment'[k].scheduledAt = appointment[k].scheduledAt
  BY <1>1, <1>2, <1>5 DEF Exists, Row, Status
<1>10. \A k \in Booker : Active(k)' /\ k \notin revived' => Active(k)
  BY <1>1, <1>2, <1>5 DEF UpdateRow, Active, Exists, Row
<1>11. revived \subseteq revived' /\ revived' \subseteq Booker
  BY <1>1 DEF UpdateRow, IInv, TypeOK, VariableTypes
<1>12. VariableTypes'
  BY <1>5, <1>7, <1>11 DEF UpdateRow, IInv, TypeOK, VariableTypes
<1>13. PayloadTypes' /\ CallTypes'
  BY <1>1, <1>7, <1>8, MoveTypes
<1>14. SlotsResolved'
  BY <1>8 DEF IInv, Shape, SlotsResolved, Request
<1>15. RowsTheirRequests'
  BY <1>8, <1>9 DEF IInv, Shape, RowsTheirRequests, Request
<1>16. TargetsExist'
  <2>1. \A s \in Canceller \cup Updater :
          pc[s] = "update" => target[s] \in Booker
    BY DEF IInv, TypeOK, CallTypes, Request
  <2> QED BY <1>8, <1>9, <2>1 DEF IInv, Shape, TargetsExist, Request
<1>17. SlotsFitDay'
  BY <1>8, <1>9 DEF IInv, SlotsFitDay, Request
<1>18. \A j \in Booker : \A k \in before[j] : k \in Booker
  BY DEF IInv, TypeOK, VariableTypes
<1>19. EarlierRowsExist'
  BY <1>8, <1>9, <1>18 DEF IInv, EarlierRowsExist
<1>20. SlotsCleared'
  <2>1. \A j \in Booker : \A k \in before[j] : Clears(j, k) => Clears(j, k)'
    BY <1>8, <1>9, <1>10, <1>11, <1>18 DEF Clears, OverlapAt
  <2>2. \A j \in Booker : pc'[j] = "create" \/ Exists(j)' =>
          pc[j] = "create" \/ Exists(j)
    BY <1>8, <1>9 DEF Request
  <2> QED BY <1>8, <2>1, <2>2 DEF IInv, SlotsCleared
<1> QED
  BY <1>12, <1>13, <1>14, <1>15, <1>16, <1>17, <1>19, <1>20
     DEF IInv, TypeOK, Shape

(* A request that arrives has no row yet, is nobody's, and remembers only  *)
(* rows that exist.                                                        *)
LEMMA ArriveInv ==
  ASSUME IInv, NEW r \in Request, NEW d, Arrive(r, d),
         r \in Booker => d \in BookDto,
         r \in Checker => d \in CheckDto,
         r \in Canceller => d \in CancelDto,
         r \in Updater => d \in StatusDto,
         NEW call, Await(r, call),
         call \in {"hours", "candidates", "lookup", "done"},
         call = "hours" => r \in Booker \cup Checker /\ Resolved(d),
         call = "candidates" => r \in Canceller,
         call = "lookup" =>
           r \in Canceller \cup Updater /\ target'[r] \in Booker,
         \A s \in Canceller \cup Updater : s # r => target'[s] = target[s],
         \/ UNCHANGED before
         \/ r \in Booker /\ before' = [before EXCEPT ![r] = Existing]
  PROVE  /\ pc' \in [Request -> Calls] /\ dto' \in [Request -> Dtos]
         /\ before' \in [Booker -> SUBSET Booker]
         /\ PayloadTypes' /\ CallTypes'
         /\ Shape' /\ SlotsFitDay' /\ EarlierRowsExist' /\ SlotsCleared'
<1>1. /\ pc[r] = "idle"
      /\ pc' \in [Request -> Calls]
      /\ pc'[r] = call
      /\ \A s \in Request : s # r => pc'[s] = pc[s]
  BY DEF Arrive, Await, IInv, TypeOK, VariableTypes, Calls
<1>2. /\ dto' \in [Request -> Dtos]
      /\ dto'[r] = d
      /\ \A s \in Request : s # r => dto'[s] = dto[s]
  <2>1. d \in Dtos
    BY DEF Dtos, Request
  <2> QED BY <2>1 DEF Arrive, IInv, TypeOK, VariableTypes
<1>3. /\ before' \in [Booker -> SUBSET Booker]
      /\ \A j \in Booker : j # r => before'[j] = before[j]
      /\ r \in Booker => before'[r] = before[r] \/ before'[r] = Existing
  BY DEF IInv, TypeOK, VariableTypes, Existing
<1>4. UNCHANGED <<appointment, revived>>
  BY DEF Arrive
<1>5. \A i : Exists(i)' <=> Exists(i)
  BY <1>4 DEF Exists
<1>6. r \in Booker => ~Exists(r)
  BY <1>1 DEF IInv, Shape, RowsTheirRequests
<1>7. PayloadTypes'
  BY <1>1, <1>2 DEF IInv, TypeOK, PayloadTypes
<1>8. CallTypes'
  BY <1>1 DEF IInv, TypeOK, CallTypes
<1>9. SlotsResolved'
  BY <1>1, <1>2 DEF IInv, Shape, SlotsResolved, Request
<1>10. RowsTheirRequests'
  BY <1>1, <1>2, <1>4, <1>5, <1>6 DEF IInv, Shape, RowsTheirRequests, Request
<1>11. TargetsExist'
  BY <1>1, <1>5 DEF IInv, Shape, TargetsExist, Request
<1>12. SlotsFitDay'
  BY <1>1, <1>2, <1>5, <1>6 DEF IInv, SlotsFitDay, Request
<1>13. EarlierRowsExist'
  BY <1>3, <1>5 DEF IInv, EarlierRowsExist, Existing
<1>14. SlotsCleared'
  <2>1. ASSUME NEW j \in Booker, pc'[j] = "create" \/ Exists(j)',
               NEW i \in before'[j]
        PROVE  Clears(j, i)'
    <3>1. j # r
      BY <1>1, <1>5, <1>6, <2>1
    <3>2. pc'[j] = pc[j] /\ dto'[j] = dto[j] /\ before'[j] = before[j]
      BY <1>1, <1>2, <1>3, <3>1 DEF Request
    <3>3. Clears(j, i)
      BY <1>5, <2>1, <3>2 DEF IInv, SlotsCleared
    <3> QED BY <1>4, <3>2, <3>3 DEF Clears, Active, OverlapAt
  <2> QED BY <2>1 DEF SlotsCleared
<1> QED
  BY <1>1, <1>2, <1>3, <1>7, <1>8, <1>9, <1>10, <1>11, <1>12, <1>13, <1>14
     DEF Shape

LEMMA ReceiveSlotInv ==
  ASSUME IInv, NEW r \in Booker \cup Checker, ReceiveSlot(r)
  PROVE  IInv'
<1>1. r \in Request /\ r \notin Canceller /\ r \notin Updater
  BY RequestAssumption DEF Request
<1>2. PICK d \in IF r \in Booker THEN BookDto ELSE CheckDto :
        /\ Arrive(r, d)
        /\ before' = IF r \in Booker THEN [before EXCEPT ![r] = Existing]
                                     ELSE before
        /\ UNCHANGED <<target, arrival>>
        /\ \/ Resolved(d) /\ Await(r, "hours") /\ UNCHANGED answer
           \/ ~Resolved(d) /\ Answer(r, Says(ResolveError(d)))
  BY DEF ReceiveSlot
<1>3. Says(ResolveError(d)) \in Answers
  BY SaysType DEF ResolveError, AnswerStatus, Refusals
<1>4. /\ r \in Booker => d \in BookDto
      /\ r \in Checker => d \in CheckDto
  BY <1>2, RequestAssumption
<1>5. PICK call \in {"hours", "done"} :
        Await(r, call) /\ (call = "hours" => Resolved(d))
  BY <1>2 DEF Await, Answer
<1>6. answer' \in [Request -> Answers]
  BY <1>1, <1>2, <1>3 DEF Answer, IInv, TypeOK, VariableTypes
<1>7. /\ pc' \in [Request -> Calls] /\ dto' \in [Request -> Dtos]
      /\ before' \in [Booker -> SUBSET Booker]
      /\ PayloadTypes' /\ CallTypes'
      /\ Shape' /\ SlotsFitDay' /\ EarlierRowsExist' /\ SlotsCleared'
  BY <1>1, <1>2, <1>4, <1>5, ArriveInv
<1>8. VariableTypes'
  BY <1>2, <1>6, <1>7 DEF Arrive, IInv, TypeOK, VariableTypes
<1> QED BY <1>7, <1>8 DEF IInv, TypeOK

LEMMA ReceiveCancelInv ==
  ASSUME IInv, NEW r \in Canceller, ReceiveCancel(r)
  PROVE  IInv'
<1>1. r \in Request /\ r \notin Booker /\ r \notin Checker /\ r \notin Updater
  BY RequestAssumption DEF Request
<1>2. PICK d \in CancelDto :
        /\ Arrive(r, d)
        /\ arrival' = [arrival EXCEPT ![r] = now]
        /\ UNCHANGED <<target, before>>
        /\ \/ Await(r, "candidates") /\ UNCHANGED answer
           \/ Answer(r, Says("business_not_found"))
  BY DEF ReceiveCancel
<1>3. Says("business_not_found") \in Answers
  BY SaysType DEF AnswerStatus, Refusals
<1>4. PICK call \in {"candidates", "done"} : Await(r, call)
  BY <1>2 DEF Await, Answer
<1>5. answer' \in [Request -> Answers]
  BY <1>1, <1>2, <1>3 DEF Answer, IInv, TypeOK, VariableTypes
<1>6. /\ pc' \in [Request -> Calls] /\ dto' \in [Request -> Dtos]
      /\ before' \in [Booker -> SUBSET Booker]
      /\ PayloadTypes' /\ CallTypes'
      /\ Shape' /\ SlotsFitDay' /\ EarlierRowsExist' /\ SlotsCleared'
  BY <1>1, <1>2, <1>4, ArriveInv
<1>7. arrival' \in [Canceller -> Instant]
  BY <1>2 DEF IInv, TypeOK, VariableTypes
<1>8. VariableTypes'
  BY <1>2, <1>5, <1>6, <1>7 DEF Arrive, IInv, TypeOK, VariableTypes
<1> QED BY <1>6, <1>8 DEF IInv, TypeOK

LEMMA ReceiveStatusInv ==
  ASSUME IInv, NEW r \in Updater, ReceiveStatus(r)
  PROVE  IInv'
<1>1. r \in Request /\ r \notin Booker /\ r \notin Checker /\ r \notin Canceller
  BY RequestAssumption DEF Request
<1>2. PICK d \in StatusDto :
        /\ Arrive(r, d)
        /\ target' = [target EXCEPT ![r] = d.id]
        /\ Await(r, "lookup")
        /\ UNCHANGED <<answer, before, arrival>>
  BY DEF ReceiveStatus
<1>3. /\ target' \in [Canceller \cup Updater -> Booker \cup {NoTarget}]
      /\ target'[r] \in Booker
      /\ \A s \in Canceller \cup Updater : s # r => target'[s] = target[s]
  BY <1>2 DEF StatusDto, IInv, TypeOK, VariableTypes
<1>4. /\ pc' \in [Request -> Calls] /\ dto' \in [Request -> Dtos]
      /\ before' \in [Booker -> SUBSET Booker]
      /\ PayloadTypes' /\ CallTypes'
      /\ Shape' /\ SlotsFitDay' /\ EarlierRowsExist' /\ SlotsCleared'
  BY <1>1, <1>2, <1>3, ArriveInv
<1>5. VariableTypes'
  BY <1>2, <1>3, <1>4 DEF Arrive, IInv, TypeOK, VariableTypes
<1> QED BY <1>4, <1>5 DEF IInv, TypeOK

LEMMA ServeInv ==
  ASSUME IInv, NEW r \in Request, Serve(r)
  PROVE  IInv'
BY ReadHoursInv, ReadConflictsInv, InsertRowInv, CollideInv,
   FindCandidatesInv, LookupRowInv, UpdateRowInv DEF Serve

(* The appointments' invariant does not look at the clock or the hours,    *)
(* which the remaining steps change.                                       *)
LEMMA AsideInv ==
  ASSUME IInv,
         UNCHANGED <<appointment, pc, dto, attempt, target, answer,
                     before, arrival, revived>>,
         now' \in Instant, hours' \subseteq HoursRow
  PROVE  IInv'
<1>1. TypeOK'
  BY DEF IInv, TypeOK, VariableTypes, PayloadTypes, CallTypes
<1>2. (Shape /\ SlotsFitDay /\ EarlierRowsExist /\ SlotsCleared)'
  BY DEF IInv, Shape, SlotsResolved, RowsTheirRequests, TargetsExist,
         SlotsFitDay, EarlierRowsExist, SlotsCleared,
         Clears, Active, Exists, OverlapAt
<1> QED BY <1>1, <1>2 DEF IInv

LEMMA NextInv == IInv /\ [Next]_vars => IInv'
<1> SUFFICES ASSUME IInv, [Next]_vars PROVE IInv'
  OBVIOUS
<1>1. ASSUME NEW r \in Booker \cup Checker, ReceiveSlot(r) PROVE IInv'
  BY <1>1, ReceiveSlotInv
<1>2. ASSUME NEW r \in Canceller, ReceiveCancel(r) PROVE IInv'
  BY <1>2, ReceiveCancelInv
<1>3. ASSUME NEW r \in Updater, ReceiveStatus(r) PROVE IInv'
  BY <1>3, ReceiveStatusInv
<1>4. ASSUME NEW r \in Request, Serve(r) \/ Fail(r) PROVE IInv'
  BY <1>4, ServeInv, FailInv
<1>5. ASSUME NEW b \in Business, NEW day \in OpeningDay, NEW o \in Opening,
             UpsertHours(b, day, o)
      PROVE  IInv'
  <2>1. [business |-> b, dayOfWeek |-> day,
         open |-> o.open, close |-> o.close] \in HoursRow
    <3>1. o \in [open : 0 .. MinutesPerDay - 1, close : 0 .. MinutesPerDay - 1]
      BY TimeAssumption
    <3>2. day \in 0 .. 6
      BY TimeAssumption
    <3> QED BY <3>1, <3>2 DEF HoursRow
  <2>2. hours' \subseteq HoursRow
    BY <1>5, <2>1 DEF UpsertHours, IInv, TypeOK, VariableTypes
  <2>3. now' \in Instant
    BY <1>5 DEF UpsertHours, IInv, TypeOK, VariableTypes
  <2> QED BY <1>5, <2>2, <2>3, AsideInv DEF UpsertHours
<1>6. CASE Tick
  BY <1>6, AsideInv DEF Tick, IInv, TypeOK, VariableTypes
<1>7. CASE UNCHANGED vars
  BY <1>7, AsideInv DEF vars, IInv, TypeOK, VariableTypes
<1> QED BY <1>1, <1>2, <1>3, <1>4, <1>5, <1>6, <1>7 DEF Next

THEOREM Inductive == Spec => []IInv
BY InitInv, NextInv, PTL DEF Spec

-----------------------------------------------------------------------------
(* Type correctness: every variable has its type and every request holds   *)
(* what its next call needs, for any number of concurrent requests.        *)
THEOREM TypeCorrect == Spec => []TypeOK
<1>1. IInv => TypeOK
  BY DEF IInv
<1> QED BY <1>1, Inductive, PTL

LEMMA ClearedKeepsApart == IInv => SuccessiveBookingsKeptApart
<1> SUFFICES ASSUME IInv, NEW j \in Booker, NEW i \in before[j],
                    Overlapping(i, j), i \notin revived,
                    ~AcrossUtcMidnight(i, j)
             PROVE  FALSE
  BY DEF SuccessiveBookingsKeptApart
<1>1. i \in Booker /\ Exists(i) /\ Exists(j)
  BY DEF IInv, TypeOK, VariableTypes, Overlapping, Active, Exists
<1> DEFINE Date1 == dto[i].date
           Time1 == dto[i].time
           Minutes1 == Duration[ServiceOf(dto[i])]
           Date2 == dto[j].date
           Time2 == dto[j].time
           Minutes2 == Duration[ServiceOf(dto[j])]
<1>2. /\ appointment[i].scheduledAt = SlotStart(Date1, Time1)
      /\ Duration[appointment[i].service] = Minutes1
      /\ appointment[j].scheduledAt = SlotStart(Date2, Time2)
      /\ Duration[appointment[j].service] = Minutes2
      /\ appointment[j].business = dto[j].business
  BY <1>1 DEF IInv, Shape, RowsTheirRequests, StartOf
<1>3. /\ dto[i] \in BookDto /\ dto[j] \in BookDto
      /\ Resolved(dto[i]) /\ Resolved(dto[j])
      /\ FitsDay(dto[i]) /\ FitsDay(dto[j])
  BY <1>1 DEF IInv, TypeOK, PayloadTypes, Shape, RowsTheirRequests,
              SlotsFitDay, Request
<1>4. /\ Date1 \in Nat /\ Time1 \in 0 .. 1439
      /\ Date2 \in Nat /\ Time2 \in 0 .. 1439
  BY <1>3, SlotTimes
<1>5. Minutes1 \in Nat /\ Minutes2 \in Nat
  BY <1>3, ServiceOfType, CatalogAssumption
<1>6. Time1 + Minutes1 < 1440 /\ Time2 + Minutes2 < 1440
  BY <1>3 DEF FitsDay, MinutesPerDay
<1>7. Overlaps(SlotStart(Date2, Time2), Minutes2,
               SlotStart(Date1, Time1), Minutes1)
  BY <1>2 DEF Overlapping, OverlapAt
<1>8. ~InUtcDayOf(SlotStart(Date1, Time1), SlotStart(Date2, Time2))
  BY <1>1, <1>2, <1>7
     DEF IInv, SlotsCleared, Clears, Overlapping, OverlapAt, StartOf
<1>9. MinuteOf(SlotStart(Date1, Time1)) = Time1
  BY <1>4, MinuteOfSlot
<1>10. MinuteOf(SlotStart(Date2, Time2)) = Time2
  BY <1>4, MinuteOfSlot
<1>11. Time1 < 330 <=> Time2 < 330
  BY <1>2, <1>9, <1>10 DEF AcrossUtcMidnight, Early, UtcOffset
<1> HIDE DEF Date1, Time1, Minutes1, Date2, Time2, Minutes2
<1> QED BY <1>4, <1>5, <1>6, <1>7, <1>8, <1>11, OverlapSameDay

(* A booking that arrives when an appointment is already in the table      *)
(* never ends up overlapping it, unless the dashboard brought that one     *)
(* back from CANCELLED or 05:30 separates their starts: for any opening    *)
(* hours, services and number of requests in flight.                       *)
THEOREM KeptApart == Spec => []SuccessiveBookingsKeptApart
BY Inductive, ClearedKeepsApart, PTL

-----------------------------------------------------------------------------
(* What the API has told its callers.                                      *)

Hinted(t, hint) ==
  hint # NoHint => SlotStart(hint, 0) <= t /\ t <= SlotStart(hint, 1439)

(* The appointment a cancellation works on is one it was asked to cancel.  *)
TargetFits(r) ==
  /\ target[r] \in Booker
  /\ Exists(target[r])
  /\ appointment[target[r]].business = dto[r].business
  /\ appointment[target[r]].phone = dto[r].phone
  /\ arrival[r] <= appointment[target[r]].scheduledAt
  /\ Hinted(appointment[target[r]].scheduledAt, dto[r].dateHint)

AnsweredAtEnd == \A r \in Request : pc[r] # "done" => answer[r] = NoAnswer

ArrivedBefore ==
  \A r \in Canceller : pc[r] = "candidates" => arrival[r] <= now

CancelsFit ==
  \A r \in Canceller :
    pc[r] \in {"lookup", "update"} \/ answer[r].status = "cancelled" =>
      TargetFits(r)

UpdatesFit ==
  \A r \in Updater : pc[r] = "update" =>
    appointment[target[r]].business = dto[r].org

PhonesTheirRequests ==
  \A r \in Booker : Exists(r) => appointment[r].phone = dto[r].phone

ReferencesUnique ==
  \A i, j \in Existing : appointment[i].ref = appointment[j].ref => i = j

ConfirmedExists ==
  \A r \in Booker : answer[r].status = "confirmed" =>
    Exists(r) /\ appointment[r].ref = answer[r].ref

AInv ==
  /\ AnsweredAtEnd /\ ArrivedBefore /\ CancelsFit /\ UpdatesFit
  /\ PhonesTheirRequests /\ ReferencesUnique /\ ConfirmedExists
  /\ CancelledStaysCancelled

-----------------------------------------------------------------------------
(* What steps may write.                                                   *)

Receive(r) ==
  \/ r \in Booker \cup Checker /\ ReceiveSlot(r)
  \/ r \in Canceller /\ ReceiveCancel(r)
  \/ r \in Updater /\ ReceiveStatus(r)

(* What request s has received, works on and was told.                     *)
Same(s) ==
  /\ pc'[s] = pc[s]
  /\ dto'[s] = dto[s]
  /\ answer'[s] = answer[s]
  /\ s \in Canceller \cup Updater => target'[s] = target[s]
  /\ s \in Canceller => arrival'[s] = arrival[s]

(* A step is one request's: it leaves every other request as it was.       *)
LEMMA OneMoves ==
  ASSUME IInv, [Next]_vars
  PROVE  \/ UNCHANGED <<pc, dto, answer, target, arrival>> /\ now <= now'
         \/ \E r \in Request :
              /\ Receive(r) \/ Serve(r) \/ Fail(r)
              /\ now' = now
              /\ \A s \in Request : s # r => Same(s)
<1>1. ASSUME NEW r \in Request, Receive(r)
      PROVE  now' = now /\ \A s \in Request : s # r => Same(s)
  BY <1>1 DEF Receive, ReceiveSlot, ReceiveCancel, ReceiveStatus, Arrive,
              Answer, Await, Same, IInv, TypeOK, VariableTypes
<1>2. ASSUME NEW r \in Request, Serve(r) \/ Fail(r)
      PROVE  now' = now /\ \A s \in Request : s # r => Same(s)
  BY <1>2 DEF Serve, Fail, ReadHours, ReadConflicts, InsertRow, Collide,
              FindCandidates, LookupRow, UpdateRow,
              Answer, Await, Same, IInv, TypeOK, VariableTypes
<1>3. now \in Nat
  BY TimeAssumption DEF IInv, TypeOK, VariableTypes
<1>4. ASSUME NEW b \in Business, NEW day \in OpeningDay, NEW o \in Opening,
             UpsertHours(b, day, o)
      PROVE  UNCHANGED <<pc, dto, answer, target, arrival>> /\ now <= now'
  BY <1>3, <1>4 DEF UpsertHours
<1>5. CASE Tick
  <2>1. now' \in Nat /\ now < now'
    BY <1>5, TimeAssumption DEF Tick
  <2> QED BY <1>3, <1>5, <2>1 DEF Tick
<1>6. CASE UNCHANGED vars
  BY <1>3, <1>6 DEF vars
<1> QED BY <1>1, <1>2, <1>4, <1>5, <1>6 DEF Next, Receive, Request

LEMMA RowWriters ==
  ASSUME [Next]_vars
  PROVE  \/ UNCHANGED <<appointment, revived>>
         \/ \E r \in Request : InsertRow(r) \/ UpdateRow(r)
BY DEF Next, ReceiveSlot, ReceiveCancel, ReceiveStatus, Arrive, Serve, Fail,
       ReadHours, ReadConflicts, Collide, FindCandidates, LookupRow,
       UpsertHours, Tick, vars

LEMMA UpdateWrites ==
  ASSUME IInv, NEW r \in Request, UpdateRow(r)
  PROVE  /\ r \in Canceller \cup Updater
         /\ pc[r] = "update"
         /\ target[r] \in Booker
         /\ Exists(target[r])
         /\ appointment[target[r]] \in Row
         /\ NewStatus(r) \in Status
         /\ appointment'[target[r]] =
              [appointment[target[r]] EXCEPT !.status = NewStatus(r)]
         /\ \A k \in Booker : k # target[r] => appointment'[k] = appointment[k]
<1>1. /\ r \in Canceller \cup Updater
      /\ target[r] \in Booker
      /\ Exists(target[r])
      /\ NewStatus(r) \in Status
  BY DEF UpdateRow, IInv, TypeOK, CallTypes, PayloadTypes, Shape,
         TargetsExist, NewStatus, StatusDto, Status, Request
<1>2. appointment[target[r]] \in Row
  BY <1>1 DEF IInv, TypeOK, VariableTypes, Exists, NoRow
<1>3. appointment' = [appointment EXCEPT ![target[r]] =
                        [appointment[target[r]] EXCEPT !.status = NewStatus(r)]]
  BY DEF UpdateRow
<1> QED BY <1>1, <1>2, <1>3 DEF UpdateRow, IInv, TypeOK, VariableTypes

LEMMA InsertWrites ==
  ASSUME IInv, NEW r \in Request, InsertRow(r)
  PROVE  /\ r \in Booker
         /\ ~Exists(r)
         /\ dto[r] \in BookDto
         /\ Resolved(dto[r])
         /\ \E ref \in Reference :
              /\ ~Taken(ref)
              /\ appointment'[r] = RowOf(dto[r], ref)
              /\ answer'[r] \in {SaysRef("confirmed", ref), Says("server_error")}
         /\ pc'[r] = "done"
         /\ \A k \in Booker : k # r => appointment'[k] = appointment[k]
         /\ UNCHANGED revived
<1>1. r \in Booker /\ dto[r] \in BookDto /\ Resolved(dto[r])
  BY DEF InsertRow, IInv, TypeOK, CallTypes, PayloadTypes, Shape, SlotsResolved
<1>2. ~Exists(r)
  BY <1>1 DEF InsertRow, IInv, Shape, RowsTheirRequests
<1> QED
  BY <1>1, <1>2 DEF InsertRow, Answer, IInv, TypeOK, VariableTypes

(* A row stays, changes in its status only, and leaves CANCELLED only for  *)
(* revived.                                                                *)
LEMMA RowsStay ==
  ASSUME IInv, [Next]_vars, NEW i \in Booker, Exists(i)
  PROVE  /\ Exists(i)'
         /\ appointment'[i].business = appointment[i].business
         /\ appointment'[i].phone = appointment[i].phone
         /\ appointment'[i].scheduledAt = appointment[i].scheduledAt
         /\ appointment'[i].ref = appointment[i].ref
         /\ appointment'[i] = [appointment[i] EXCEPT
                                 !.status = appointment'[i].status]
         /\ appointment[i].status = "CANCELLED" =>
              appointment'[i].status = "CANCELLED" \/ i \in revived'
<1>1. appointment[i] \in Row
  BY DEF IInv, TypeOK, VariableTypes, Exists, NoRow
<1>2. CASE appointment'[i] = appointment[i]
  BY <1>1, <1>2 DEF Exists, Row
<1>3. ASSUME NEW r \in Request, InsertRow(r)
      PROVE  appointment'[i] = appointment[i]
  BY <1>3, InsertWrites
<1>4. ASSUME NEW r \in Request, UpdateRow(r), i = target[r]
      PROVE  /\ NewStatus(r) \in Status
             /\ appointment'[i] = [appointment[i] EXCEPT !.status = NewStatus(r)]
             /\ appointment[i].status = "CANCELLED"
                  /\ NewStatus(r) # "CANCELLED" => i \in revived'
  BY <1>4, UpdateWrites DEF UpdateRow
<1>5. ASSUME NEW s \in Status,
             appointment'[i] = [appointment[i] EXCEPT !.status = s],
             appointment[i].status = "CANCELLED" /\ s # "CANCELLED" =>
               i \in revived'
      PROVE  /\ Exists(i)'
             /\ appointment'[i].business = appointment[i].business
             /\ appointment'[i].phone = appointment[i].phone
             /\ appointment'[i].scheduledAt = appointment[i].scheduledAt
             /\ appointment'[i].ref = appointment[i].ref
             /\ appointment'[i] = [appointment[i] EXCEPT
                                     !.status = appointment'[i].status]
             /\ appointment[i].status = "CANCELLED" =>
                  appointment'[i].status = "CANCELLED" \/ i \in revived'
  BY <1>1, <1>5 DEF Exists, Row, Status
<1>6. ASSUME NEW r \in Request, UpdateRow(r), i # target[r]
      PROVE  appointment'[i] = appointment[i]
  BY <1>6, UpdateWrites
<1> QED BY <1>2, <1>3, <1>4, <1>5, <1>6, RowWriters

LEMMA RevivedStays ==
  ASSUME [Next]_vars
  PROVE  revived \subseteq revived'
BY RowWriters DEF InsertRow, UpdateRow

LEMMA NewRow ==
  ASSUME IInv, [Next]_vars, NEW r \in Booker, ~Exists(r), Exists(r)'
  PROVE  InsertRow(r)
<1>1. appointment'[r] # appointment[r]
  BY DEF Exists
<1>2. ASSUME NEW q \in Request, UpdateRow(q) PROVE FALSE
  BY <1>1, <1>2, UpdateWrites
<1>3. ASSUME NEW q \in Request, InsertRow(q) PROVE q = r
  BY <1>1, <1>3, InsertWrites
<1> QED BY <1>1, <1>2, <1>3, RowWriters

(* The moving request was not answered yet, and keeps what it was sent.    *)
LEMMA Mover ==
  ASSUME IInv, NEW r \in Request, Receive(r) \/ Serve(r) \/ Fail(r)
  PROVE  /\ pc[r] # "done"
         /\ pc'[r] = "done" \/ answer'[r] = answer[r]
         /\ pc[r] # "idle" => dto'[r] = dto[r]
<1>1. CASE Receive(r)
  BY <1>1 DEF Receive, ReceiveSlot, ReceiveCancel, ReceiveStatus, Arrive,
              Answer, IInv, TypeOK, VariableTypes
<1>2. CASE Serve(r) \/ Fail(r)
  BY <1>2 DEF Serve, Fail, ReadHours, ReadConflicts, InsertRow, Collide,
              FindCandidates, LookupRow, UpdateRow, Answer,
              IInv, TypeOK, VariableTypes
<1> QED BY <1>1, <1>2

(* What a step of a cancellation may have been.                            *)
LEMMA CancellerMoves ==
  ASSUME IInv, AnsweredAtEnd, NEW r \in Canceller,
         Receive(r) \/ Serve(r) \/ Fail(r)
  PROVE  \/ /\ pc'[r] \notin {"candidates", "lookup", "update"}
            /\ answer'[r].status # "cancelled"
         \/ /\ pc'[r] = "candidates"
            /\ arrival'[r] = now
            /\ answer'[r].status # "cancelled"
         \/ FindCandidates(r)
         \/ LookupRow(r)
         \/ UpdateRow(r)
<1>1. r \in Request /\ r \notin Booker /\ r \notin Checker /\ r \notin Updater
  BY RequestAssumption DEF Request
<1>2. pc[r] # "done" /\ answer[r] = NoAnswer
  BY <1>1, Mover DEF AnsweredAtEnd
<1>3. CASE Receive(r)
  BY <1>1, <1>2, <1>3
     DEF Receive, ReceiveCancel, Arrive, Answer, Await, Says, NoAnswer,
         IInv, TypeOK, VariableTypes
<1>4. CASE Fail(r)
  BY <1>1, <1>4 DEF Fail, Answer, Says, IInv, TypeOK, VariableTypes
<1>5. CASE Serve(r)
  <2>1. pc[r] \notin {"hours", "conflicts", "create"}
    BY <1>1 DEF IInv, TypeOK, CallTypes
  <2> QED BY <1>5, <2>1 DEF Serve, ReadHours, ReadConflicts, InsertRow, Collide
<1> QED BY <1>3, <1>4, <1>5

LEMMA FitsStays ==
  ASSUME IInv, [Next]_vars, NEW r \in Canceller, TargetFits(r),
         target'[r] = target[r], dto'[r] = dto[r], arrival'[r] = arrival[r]
  PROVE  TargetFits(r)'
<1>1. Hinted(appointment[target[r]].scheduledAt, dto[r].dateHint)'
  <2> DEFINE t == appointment[target[r]].scheduledAt
             h == dto[r].dateHint
  <2>1. t' = t /\ h' = h
    BY RowsStay DEF TargetFits
  <2>2. Hinted(t, h)
    BY DEF TargetFits
  <2> QED BY <2>1, <2>2 DEF Hinted, SlotStart, MinutesPerDay, UtcOffset
<1> QED BY <1>1, RowsStay DEF TargetFits

(* The query of candidates answers what the caller asked for.              *)
LEMMA CandidatesFit ==
  ASSUME IInv, ArrivedBefore, NEW r \in Canceller, pc[r] = "candidates",
         NEW i \in Candidates(dto[r])
  PROVE  /\ arrival[r] <= appointment[i].scheduledAt
         /\ Hinted(appointment[i].scheduledAt, dto[r].dateHint)
<1> DEFINE t == appointment[i].scheduledAt
           a == arrival[r]
           hint == dto[r].dateHint
<1>1. now \in Nat /\ a \in Nat /\ a <= now
  BY TimeAssumption DEF IInv, TypeOK, VariableTypes, ArrivedBefore
<1>2. i \in Booker /\ Exists(i)
  BY DEF Candidates, Active, Exists
<1>3. t \in Int
  BY <1>2 DEF IInv, TypeOK, VariableTypes, Exists, NoRow, Row
<1>4. InRange(t, hint)
  BY DEF Candidates
<1>5. CASE hint = NoHint
  <2>1. now <= t
    BY <1>4, <1>5 DEF InRange
  <2>2. a <= t
    <3> HIDE DEF a, t
    <3> QED BY <1>1, <1>3, <2>1
  <2> QED BY <1>5, <2>2 DEF Hinted
<1>6. CASE hint # NoHint
  <2>1. hint \in Nat
    <3>1. dto[r] \in CancelDto
      BY DEF IInv, TypeOK, PayloadTypes, Request
    <3> QED BY <1>6, <3>1, TimeAssumption DEF CancelDto
  <2>2. /\ (IF SlotStart(hint, 0) > now THEN SlotStart(hint, 0) ELSE now) <= t
        /\ t <= SlotStart(hint, 1439)
    BY <1>4, <1>6 DEF InRange, DayRangeFrom, MinutesPerDay
  <2>3. SlotStart(hint, 0) \in Int
    BY <2>1, SlotStartType
  <2> DEFINE s == SlotStart(hint, 0)
  <2>4. a <= t /\ s <= t
    <3>1. (IF s > now THEN s ELSE now) <= t /\ s \in Int
      BY <2>2, <2>3
    <3> HIDE DEF a, t, s
    <3> QED BY <1>1, <1>3, <3>1
  <2> QED BY <2>2, <2>4 DEF Hinted
<1> QED BY <1>5, <1>6

LEMMA AInitInv == Init => AInv
<1> SUFFICES ASSUME Init PROVE AInv
  OBVIOUS
<1>1. \A r \in Request : pc[r] = "idle" /\ answer[r] = NoAnswer
  BY DEF Init
<1>2. \A i \in Booker : ~Exists(i)
  BY DEF Init, Exists, NoRow
<1> QED
  BY <1>1, <1>2
     DEF AInv, AnsweredAtEnd, ArrivedBefore, CancelsFit, UpdatesFit,
         PhonesTheirRequests, ReferencesUnique, ConfirmedExists, Existing,
         CancelledStaysCancelled, NoAnswer, Request

(* Every step keeps what callers were told true.                           *)
LEMMA ANextInv == IInv /\ AInv /\ [Next]_vars => AInv'
<1> SUFFICES ASSUME IInv, AInv, [Next]_vars PROVE AInv'
  OBVIOUS
<1>1. \A r \in Canceller \cup Updater : r \in Request
  BY DEF Request
<1>2. IInv'
  BY NextInv
<1>3. AnsweredAtEnd'
  BY OneMoves, Mover DEF AInv, AnsweredAtEnd, Same
<1>4. ArrivedBefore'
  <2> SUFFICES ASSUME NEW r \in Canceller, pc'[r] = "candidates"
               PROVE  arrival'[r] <= now'
    BY DEF ArrivedBefore
  <2>1. now \in Nat /\ arrival[r] \in Nat /\ now' \in Nat
    BY <1>2, TimeAssumption DEF IInv, TypeOK, VariableTypes
  <2>2. CASE pc[r] = "candidates" /\ arrival'[r] = arrival[r] /\ now <= now'
    <3>1. arrival[r] <= now
      BY <2>2 DEF AInv, ArrivedBefore
    <3> DEFINE a == arrival[r]
    <3>2. a <= now /\ a \in Nat /\ now <= now'
      BY <2>1, <2>2, <3>1
    <3> HIDE DEF a
    <3>3. a <= now'
      BY <2>1, <3>2
    <3> QED BY <2>2, <3>3 DEF a
  <2>3. CASE arrival'[r] = now /\ now' = now
    BY <2>1, <2>3
  <2>4. ASSUME Receive(r) \/ Serve(r) \/ Fail(r), now' = now
        PROVE  arrival'[r] = now
    BY <1>1, <2>4, CancellerMoves
       DEF AInv, FindCandidates, LookupRow, UpdateRow, Answer, Await,
           IInv, TypeOK, VariableTypes
  <2>5. now <= now
    BY <2>1
  <2> QED BY <1>1, <2>2, <2>3, <2>4, <2>5, OneMoves DEF Same
<1>5. CancelsFit'
  <2> SUFFICES ASSUME NEW r \in Canceller,
                      \/ pc'[r] \in {"lookup", "update"}
                      \/ answer'[r].status = "cancelled"
               PROVE  TargetFits(r)'
    BY DEF CancelsFit
  <2>1. CASE Same(r) \/ UNCHANGED <<pc, dto, answer, target, arrival>>
    BY <2>1, FitsStays DEF Same, AInv, CancelsFit
  <2>2. CASE FindCandidates(r)
    <3>1. PICK i \in Candidates(dto[r]) : target'[r] = i
      BY <1>1, <2>2 DEF FindCandidates, Answer, Says, IInv, TypeOK, VariableTypes
    <3>2. /\ i \in Booker
          /\ Exists(i)
          /\ appointment[i].business = dto[r].business
          /\ appointment[i].phone = dto[r].phone
      BY DEF Candidates, Active, Exists
    <3>3. /\ arrival[r] <= appointment[i].scheduledAt
          /\ Hinted(appointment[i].scheduledAt, dto[r].dateHint)
      BY <2>2, CandidatesFit DEF FindCandidates, AInv
    <3>4. UNCHANGED <<appointment, dto, arrival>>
      BY <2>2 DEF FindCandidates
    <3>5. Hinted(appointment'[i].scheduledAt, dto'[r].dateHint)
      BY <3>3, <3>4
    <3> QED BY <3>1, <3>2, <3>3, <3>4, <3>5 DEF TargetFits, Exists
  <2>3. CASE LookupRow(r) \/ UpdateRow(r)
    <3>1. TargetFits(r)
      BY <2>3 DEF LookupRow, UpdateRow, AInv, CancelsFit
    <3> QED BY <2>3, <3>1, FitsStays DEF LookupRow, UpdateRow
  <2> QED BY <1>1, <2>1, <2>2, <2>3, OneMoves, CancellerMoves DEF AInv
<1>6. UpdatesFit'
  <2> SUFFICES ASSUME NEW r \in Updater, pc'[r] = "update"
               PROVE  appointment'[target'[r]].business = dto'[r].org
    BY DEF UpdatesFit
  <2>1. CASE pc[r] = "update" /\ target'[r] = target[r] /\ dto'[r] = dto[r]
    <3>1. target[r] \in Booker /\ Exists(target[r])
      BY <1>1, <2>1 DEF IInv, TypeOK, CallTypes, Shape, TargetsExist
    <3>2. appointment'[target[r]].business = appointment[target[r]].business
      BY <3>1, RowsStay
    <3>3. appointment[target[r]].business = dto[r].org
      BY <2>1 DEF AInv, UpdatesFit
    <3> QED BY <2>1, <3>2, <3>3
  <2>2. CASE LookupRow(r)
    <3>1. r \notin Canceller
      BY RequestAssumption
    <3> QED BY <1>1, <2>2, <3>1
            DEF LookupRow, Visible, Answer, IInv, TypeOK, VariableTypes
  <2>3. ASSUME Receive(r) \/ Serve(r) \/ Fail(r)
        PROVE  LookupRow(r)
    <3>1. r \notin Canceller /\ r \notin Booker /\ r \notin Checker
      BY RequestAssumption
    <3>2. pc[r] \notin {"hours", "conflicts", "create", "candidates"}
      BY <1>1, <3>1 DEF IInv, TypeOK, CallTypes
    <3> QED BY <1>1, <2>3, <3>1, <3>2
            DEF Receive, ReceiveStatus, Serve, Fail, ReadHours, ReadConflicts,
                InsertRow, Collide, FindCandidates, UpdateRow, Answer, Await,
                IInv, TypeOK, VariableTypes
  <2> QED BY <1>1, <2>1, <2>2, <2>3, OneMoves DEF Same
<1>7. PhonesTheirRequests'
  <2> SUFFICES ASSUME NEW r \in Booker, Exists(r)'
               PROVE  appointment'[r].phone = dto'[r].phone
    BY DEF PhonesTheirRequests
  <2>1. CASE Exists(r)
    <3>1. r \in Request /\ pc[r] = "done"
      BY <2>1 DEF IInv, Shape, RowsTheirRequests, Request
    <3>2. dto'[r] = dto[r]
      BY <3>1, OneMoves, Mover DEF Same
    <3> QED BY <2>1, <3>2, RowsStay DEF AInv, PhonesTheirRequests
  <2>2. CASE ~Exists(r)
    <3>1. InsertRow(r)
      BY <2>2, NewRow
    <3>2. r \in Request
      BY DEF Request
    <3>3. PICK ref : appointment'[r] = RowOf(dto[r], ref)
      BY <3>1, <3>2, InsertWrites
    <3>4. dto'[r] = dto[r]
      BY <3>1 DEF InsertRow
    <3> QED BY <3>3, <3>4 DEF RowOf
  <2> QED BY <2>1, <2>2
<1>8. ReferencesUnique'
  <2>1. ASSUME NEW i \in Booker, ~Exists(i), Exists(i)',
               NEW j \in Booker, Exists(j)', j # i
        PROVE  appointment'[i].ref # appointment'[j].ref
    <3>1. InsertRow(i)
      BY <2>1, NewRow
    <3>2. appointment'[j] = appointment[j]
      BY <2>1, <3>1, InsertWrites DEF Request
    <3>3. Exists(j)
      BY <2>1, <3>2 DEF Exists
    <3>4. PICK ref : ~Taken(ref) /\ appointment'[i] = RowOf(dto[i], ref)
      BY <3>1, InsertWrites DEF Request
    <3> QED BY <3>2, <3>3, <3>4 DEF Taken, RowOf
  <2>2. ASSUME NEW i \in Booker, Exists(i), NEW j \in Booker, Exists(j),
               appointment'[i].ref = appointment'[j].ref
        PROVE  i = j
    BY <2>2, RowsStay DEF AInv, ReferencesUnique, Existing
  <2> QED BY <2>1, <2>2 DEF ReferencesUnique, Existing
<1>9. ConfirmedExists'
  <2> SUFFICES ASSUME NEW r \in Booker, answer'[r].status = "confirmed"
               PROVE  Exists(r)' /\ appointment'[r].ref = answer'[r].ref
    BY DEF ConfirmedExists
  <2>1. CASE answer'[r] = answer[r]
    BY <2>1, RowsStay DEF AInv, ConfirmedExists
  <2>2. CASE InsertRow(r)
    <3>1. PICK ref : /\ appointment'[r] = RowOf(dto[r], ref)
                     /\ answer'[r] \in {SaysRef("confirmed", ref),
                                       Says("server_error")}
      BY <2>2, InsertWrites DEF Request
    <3>2. answer'[r] = SaysRef("confirmed", ref)
      BY <3>1 DEF Says
    <3> QED BY <3>1, <3>2 DEF Exists, RowOf, SaysRef
  <2>3. ASSUME Receive(r) \/ Serve(r) \/ Fail(r)
        PROVE  answer'[r] = answer[r] \/ InsertRow(r)
    <3>1. r \in Request /\ r \notin Canceller /\ r \notin Updater
      BY RequestAssumption DEF Request
    <3>2. CASE Receive(r)
      BY <3>1, <3>2 DEF Receive, ReceiveSlot, ResolveError, Answer, Says,
                        IInv, TypeOK, VariableTypes
    <3>3. CASE Fail(r)
      BY <3>1, <3>3 DEF Fail, Answer, Says, IInv, TypeOK, VariableTypes
    <3>4. CASE Serve(r)
      <4>1. pc[r] \notin {"candidates", "lookup", "update"}
        BY <3>1 DEF IInv, TypeOK, CallTypes
      <4> QED BY <3>1, <3>4, <4>1
              DEF Serve, ReadHours, ReadConflicts, Collide, FindCandidates,
                  LookupRow, UpdateRow, Answer, Says, IInv, TypeOK, VariableTypes
    <3> QED BY <2>3, <3>2, <3>3, <3>4
  <2>4. r \in Request
    BY DEF Request
  <2> QED BY <2>1, <2>2, <2>3, <2>4, OneMoves DEF Same
<1>10. CancelledStaysCancelled'
  <2> SUFFICES ASSUME NEW r \in Canceller, answer'[r].status = "cancelled"
               PROVE  \/ appointment'[target'[r]].status = "CANCELLED"
                      \/ target'[r] \in revived'
    BY DEF CancelledStaysCancelled
  <2>1. CASE answer'[r] = answer[r] /\ target'[r] = target[r]
    <3>1. target[r] \in Booker /\ Exists(target[r])
      BY <2>1 DEF AInv, CancelsFit, TargetFits
    <3> QED BY <2>1, <3>1, RowsStay, RevivedStays
            DEF AInv, CancelledStaysCancelled
  <2>2. CASE UpdateRow(r)
    <3>1. appointment'[target[r]].status = "CANCELLED"
      BY <1>1, <2>2, UpdateWrites DEF NewStatus, Row
    <3> QED BY <2>2, <3>1 DEF UpdateRow
  <2>3. CASE FindCandidates(r) \/ LookupRow(r)
    <3>1. answer[r].status # "cancelled"
      BY <1>1, <2>3 DEF FindCandidates, LookupRow, AInv, AnsweredAtEnd, NoAnswer
    <3> QED BY <1>1, <2>3, <3>1
            DEF FindCandidates, LookupRow, Answer, Says, IInv, TypeOK, VariableTypes
  <2> QED BY <1>1, <2>1, <2>2, <2>3, OneMoves, CancellerMoves DEF AInv, Same
<1> QED
  BY <1>3, <1>4, <1>5, <1>6, <1>7, <1>8, <1>9, <1>10 DEF AInv

THEOREM AnswersInductive == Spec => [](IInv /\ AInv)
<1>1. Init => IInv /\ AInv
  BY InitInv, AInitInv
<1>2. IInv /\ AInv /\ [Next]_vars => (IInv /\ AInv)'
  BY NextInv, ANextInv
<1> QED BY <1>1, <1>2, PTL DEF Spec

-----------------------------------------------------------------------------

LEMMA RowAsAsked ==
  ASSUME IInv, AInv, NEW r \in Booker, Exists(r)
  PROVE  appointment[r] = [RowOf(dto[r], appointment[r].ref)
                             EXCEPT !.status = appointment[r].status]
<1>1. appointment[r] \in Row
  BY DEF IInv, TypeOK, VariableTypes, Exists, NoRow
<1>2. /\ appointment[r].business = dto[r].business
      /\ appointment[r].service = ServiceOf(dto[r])
      /\ appointment[r].phone = dto[r].phone
      /\ appointment[r].scheduledAt = StartOf(dto[r])
  BY DEF IInv, AInv, Shape, RowsTheirRequests, PhonesTheirRequests
<1> QED BY <1>1, <1>2 DEF Row, RowOf

(* The reference a caller is told finds one appointment, his own, as he    *)
(* asked for it, however many draws collided and whatever came later.      *)
THEOREM ReferenceCorrect == Spec => []ReferenceFindsBooking
<1>1. IInv /\ AInv => ReferenceFindsBooking
  <2> SUFFICES ASSUME IInv, AInv,
                      NEW r \in Booker, answer[r].status = "confirmed"
               PROVE  /\ {i \in Existing : appointment[i].ref = answer[r].ref}
                            = {r}
                      /\ appointment[r] = [RowOf(dto[r], answer[r].ref)
                                             EXCEPT !.status = appointment[r].status]
    BY DEF ReferenceFindsBooking
  <2>1. Exists(r) /\ appointment[r].ref = answer[r].ref
    BY DEF AInv, ConfirmedExists
  <2>2. \A i \in Existing : appointment[i].ref = answer[r].ref => i = r
    BY <2>1 DEF AInv, ReferencesUnique, Existing
  <2> QED BY <2>1, <2>2, RowAsAsked DEF Existing
<1> QED BY <1>1, AnswersInductive, PTL

(* An appointment a caller was told is cancelled is cancelled, unless the  *)
(* dashboard has brought it back.                                          *)
THEOREM CancellationLasts == Spec => []CancelledStaysCancelled
<1>1. IInv /\ AInv => CancelledStaysCancelled
  BY DEF AInv
<1> QED BY <1>1, AnswersInductive, PTL

LEMMA DateOfHinted ==
  ASSUME NEW t, t \in Int, NEW d, d \in Nat,
         SlotStart(d, 0) <= t, t <= SlotStart(d, 1439)
  PROVE  DateOf(t) = d
BY SMT DEF DateOf, SlotStart, MinutesPerDay, UtcOffset

(* What a cancellation cancels is an appointment of that caller with that  *)
(* business, not past when he asked, and on the day he named.              *)
THEOREM CancelCorrect == Spec => []CancelHitsCallersUpcoming
<1>1. IInv /\ AInv => CancelHitsCallersUpcoming
  <2> SUFFICES ASSUME IInv, AInv,
                      NEW r \in Canceller, answer[r].status = "cancelled"
               PROVE  /\ appointment[target[r]].business = dto[r].business
                      /\ appointment[target[r]].phone = dto[r].phone
                      /\ arrival[r] <= appointment[target[r]].scheduledAt
                      /\ dto[r].dateHint # NoHint =>
                           DateOf(appointment[target[r]].scheduledAt)
                             = dto[r].dateHint
    BY DEF CancelHitsCallersUpcoming
  <2>1. TargetFits(r)
    BY DEF AInv, CancelsFit
  <2> DEFINE t == appointment[target[r]].scheduledAt
             hint == dto[r].dateHint
  <2>2. ASSUME hint # NoHint PROVE DateOf(t) = hint
    <3>1. SlotStart(hint, 0) <= t /\ t <= SlotStart(hint, 1439)
      BY <2>1, <2>2 DEF TargetFits, Hinted
    <3>2. t \in Int
      BY <2>1 DEF TargetFits, IInv, TypeOK, VariableTypes, Exists, NoRow, Row
    <3>3. dto[r] \in CancelDto
      <4>1. r \in Request /\ pc[r] # "idle"
        BY DEF AInv, AnsweredAtEnd, NoAnswer, Request
      <4> QED BY <4>1 DEF IInv, TypeOK, PayloadTypes
    <3>4. hint \in Nat
      BY <2>2, <3>3, TimeAssumption DEF CancelDto
    <3> HIDE DEF t, hint
    <3> QED BY <3>1, <3>2, <3>4, DateOfHinted
  <2> QED BY <2>1, <2>2 DEF TargetFits
<1> QED BY <1>1, AnswersInductive, PTL

(* An appointment changes in its status only, and only by a request of its *)
(* own customer or its own organization.                                   *)
THEOREM OwnersOnly == Spec => OnlyOwnerMovesStatus
<1> DEFINE Owned ==
      \A i \in Booker : Exists(i) /\ appointment'[i] # appointment[i] =>
        /\ appointment'[i] = [appointment[i] EXCEPT
                                !.status = appointment'[i].status]
        /\ \E r \in Canceller \cup Updater :
             target[r] = i /\ pc[r] = "update" /\ Owns(r, i)
<1>1. IInv /\ AInv /\ [Next]_vars => [Owned]_vars
  <2> SUFFICES ASSUME IInv, AInv, [Next]_vars, NEW i \in Booker, Exists(i),
                      appointment'[i] # appointment[i]
               PROVE  \E r \in Canceller \cup Updater :
                        target[r] = i /\ pc[r] = "update" /\ Owns(r, i)
    BY RowsStay
  <2>1. ASSUME NEW r \in Request, InsertRow(r) PROVE FALSE
    BY <2>1, InsertWrites
  <2>2. PICK r \in Request : UpdateRow(r)
    BY <2>1, RowWriters
  <2>3. target[r] = i /\ pc[r] = "update" /\ r \in Canceller \cup Updater
    BY <2>2, UpdateWrites
  <2>4. Owns(r, i)
    BY <2>3 DEF Owns, AInv, CancelsFit, UpdatesFit, TargetFits
  <2> QED BY <2>3, <2>4
<1> QED BY <1>1, AnswersInductive, PTL DEF Spec, OnlyOwnerMovesStatus

-----------------------------------------------------------------------------
(* A request is served by a bounded number of calls.                       *)

LEMMA CallsLeftType ==
  ASSUME IInv, NEW r \in Request
  PROVE  /\ CallsLeft(r) \in Nat
         /\ pc[r] \notin {"idle", "done"} => CallsLeft(r) > 0
<1>1. Attempts \in Nat \ {0} /\ pc[r] \in Calls
  BY ReferenceAssumption DEF IInv, TypeOK, VariableTypes
<1>2. pc[r] = "create" => attempt[r] \in 1 .. Attempts
  BY DEF IInv, TypeOK, VariableTypes, CallTypes
<1> QED BY <1>1, <1>2 DEF CallsLeft, Calls

LEMMA ServeLeavesFewer ==
  ASSUME IInv, IInv', NEW r \in Request, Serve(r) \/ Fail(r)
  PROVE  CallsLeft(r)' < CallsLeft(r)
<1>1. /\ CallsLeft(r) \in Nat /\ (pc[r] \notin {"idle", "done"} => CallsLeft(r) > 0)
      /\ Attempts \in Nat \ {0} /\ pc \in [Request -> Calls]
  BY CallsLeftType, ReferenceAssumption DEF IInv, TypeOK, VariableTypes
<1>2. pc[r] \notin {"idle", "done"}
  BY DEF Serve, Fail, ReadHours, ReadConflicts, InsertRow, Collide, FindCandidates,
         LookupRow, UpdateRow
<1>3. ASSUME NEW a, Answer(r, a) PROVE CallsLeft(r)' < CallsLeft(r)
  <2>1. pc'[r] = "done"
    BY <1>1, <1>3 DEF Answer
  <2> QED BY <1>1, <1>2, <2>1 DEF CallsLeft
<1>4. CASE ReadHours(r) /\ Await(r, "conflicts")
  BY <1>1, <1>4 DEF ReadHours, Await, CallsLeft
<1>5. CASE ReadConflicts(r) /\ Await(r, "create")
  <2>1. attempt'[r] \in 1 .. Attempts
    <3>1. pc'[r] = "create"
      BY <1>1, <1>5 DEF Await
    <3> QED BY <3>1 DEF IInv, TypeOK, VariableTypes, CallTypes
  <2> QED BY <1>1, <1>5, <2>1 DEF ReadConflicts, Await, CallsLeft
<1>6. CASE Collide(r) /\ attempt' = [attempt EXCEPT ![r] = @ + 1] /\ UNCHANGED pc
  <2>1. pc[r] = "create" /\ pc'[r] = "create"
    BY <1>6 DEF Collide
  <2>2. attempt \in [Booker -> 1 .. Attempts] /\ r \in Booker
    BY <2>1 DEF IInv, TypeOK, VariableTypes, CallTypes
  <2>3. attempt[r] \in Nat /\ attempt'[r] = attempt[r] + 1
    BY <1>1, <1>6, <2>2
  <2> QED BY <1>1, <2>1, <2>3 DEF CallsLeft
<1>7. CASE FindCandidates(r) /\ Await(r, "lookup")
  BY <1>1, <1>7 DEF FindCandidates, Await, CallsLeft
<1>8. CASE LookupRow(r) /\ Await(r, "update")
  BY <1>1, <1>8 DEF LookupRow, Await, CallsLeft
<1> QED BY <1>3, <1>4, <1>5, <1>6, <1>7, <1>8
        DEF Serve, Fail, ReadHours, ReadConflicts, InsertRow, Collide, FindCandidates,
            LookupRow, UpdateRow

(* A step of another request leaves its attempts alone.                    *)
LEMMA AttemptsStay ==
  ASSUME IInv, [Next]_vars, NEW r \in Request, pc'[r] = pc[r], ~(Serve(r) \/ Fail(r))
  PROVE  pc[r] = "create" => attempt'[r] = attempt[r]
<1> SUFFICES ASSUME pc[r] = "create" PROVE attempt'[r] = attempt[r]
  OBVIOUS
<1>1. attempt \in [Booker -> 1 .. Attempts] /\ r \in Booker
  BY DEF IInv, TypeOK, VariableTypes, CallTypes
<1>2. \/ UNCHANGED attempt
      \/ \E s \in Request : Collide(s)
  BY DEF Next, ReceiveSlot, ReceiveCancel, ReceiveStatus, Arrive, Serve, Fail, ReadHours,
         ReadConflicts, InsertRow, FindCandidates, LookupRow, UpdateRow, UpsertHours, Tick, vars
<1>3. ASSUME NEW s \in Request, Collide(s) PROVE attempt'[r] = attempt[r]
  <2>1. s # r
    BY <1>3 DEF Serve
  <2> QED BY <1>1, <1>3, <2>1 DEF Collide
<1> QED BY <1>2, <1>3

(* No request is served for ever, and its answer is final (ServiceEnds).   *)
THEOREM ServiceIsBounded == Spec => ServiceEnds
<1> DEFINE Ends ==
      \A r \in Request :
        /\ Serve(r) \/ Fail(r) => CallsLeft(r)' < CallsLeft(r)
        /\ pc[r] # "idle" => 0 <= CallsLeft(r)' /\ CallsLeft(r)' <= CallsLeft(r)
        /\ pc[r] = "done" => pc'[r] = "done" /\ answer'[r] = answer[r]
<1>1. IInv /\ [Next]_vars => [Ends]_vars
  <2> SUFFICES ASSUME IInv, [Next]_vars, NEW r \in Request
               PROVE  /\ Serve(r) \/ Fail(r) => CallsLeft(r)' < CallsLeft(r)
                      /\ pc[r] # "idle" => 0 <= CallsLeft(r)' /\ CallsLeft(r)' <= CallsLeft(r)
                      /\ pc[r] = "done" => pc'[r] = "done" /\ answer'[r] = answer[r]
    OBVIOUS
  <2>0. IInv'
    BY NextInv
  <2>1. CallsLeft(r) \in Nat /\ CallsLeft(r)' \in Nat
    <3>1. Attempts \in Nat \ {0} /\ pc'[r] \in Calls
      BY <2>0, ReferenceAssumption DEF IInv, TypeOK, VariableTypes
    <3>2. pc'[r] = "create" => attempt'[r] \in 1 .. Attempts
      BY <2>0 DEF IInv, TypeOK, VariableTypes, CallTypes
    <3>3. CallsLeft(r)' \in Nat
      BY <3>1, <3>2 DEF CallsLeft, Calls
    <3> QED BY <3>3, CallsLeftType
  <2>2. CASE Serve(r) \/ Fail(r)
    <3>1. pc[r] # "done" /\ CallsLeft(r)' < CallsLeft(r)
      BY <2>0, <2>2, Mover, ServeLeavesFewer
    <3> QED BY <2>1, <3>1
  <2>3. CASE ~(Serve(r) \/ Fail(r)) /\ pc[r] # "idle"
    <3>1. pc'[r] = pc[r] /\ answer'[r] = answer[r]
      <4>1. ~Receive(r)
        BY <2>3 DEF Receive, ReceiveSlot, ReceiveCancel, ReceiveStatus, Arrive
      <4> QED BY <2>3, <4>1, OneMoves DEF Same
    <3>2. CallsLeft(r)' = CallsLeft(r)
      <4>1. pc[r] = "create" => attempt'[r] = attempt[r]
        BY <2>3, <3>1, AttemptsStay
      <4> QED BY <3>1, <4>1 DEF CallsLeft
    <3> QED BY <2>1, <2>3, <3>1, <3>2
  <2> QED BY <2>2, <2>3
<1> QED BY <1>1, Inductive, PTL DEF Spec, ServiceEnds

-----------------------------------------------------------------------------
(* Booking implements AppointmentBook.                                     *)

LEMMA ToldOfAnswer ==
  ASSUME NEW a
  PROVE  /\ a = NoAnswer => ToldOf(a) = Book!Nothing
         /\ a.status = "server_error" => ToldOf(a) = Book!Unknown
         /\ \A ref : a = SaysRef("confirmed", ref) => ToldOf(a) = Book!Promise(ref)
         /\ a.status \notin {"none", "confirmed", "server_error"} =>
              ToldOf(a) = Book!Refused
BY DEF ToldOf, NoAnswer, SaysRef, Book!Nothing, Book!Unknown, Book!Promise,
       Book!Refused

LEMMA BookInit == Init => Book!Init
<1> SUFFICES ASSUME Init PROVE Book!Init
  OBVIOUS
<1>1. appointment = [i \in Booker |-> Book!Blank]
  BY DEF Init, NoRow, Book!Blank
<1>2. \A r \in Booker : ToldOf(answer[r]) = Book!Nothing
  BY ToldOfAnswer DEF Init, Request
<1>3. told = [i \in Booker |-> Book!Nothing]
  BY <1>2 DEF told
<1> QED BY <1>1, <1>3 DEF Book!Init

(* A booking under way is blank to the book, and told nothing.             *)
LEMMA UnderWay ==
  ASSUME IInv, AInv, NEW r \in Booker, pc[r] # "done"
  PROVE  appointment[r] = Book!Blank /\ told[r] = Book!Nothing
<1>1. ~Exists(r)
  BY DEF IInv, Shape, RowsTheirRequests
<1>2. appointment[r] \in Row \cup {NoRow}
  BY DEF IInv, TypeOK, VariableTypes
<1>3. appointment[r] = Book!Blank
  BY <1>1, <1>2 DEF Exists, Row, Status, NoRow, Book!Blank
<1>4. answer[r] = NoAnswer
  BY DEF AInv, AnsweredAtEnd, Request
<1> QED BY <1>3, <1>4, ToldOfAnswer DEF told

(* Only the moving booker learns something.                                *)
LEMMA ToldMoves ==
  ASSUME IInv, NEW r \in Request, \A s \in Request : s # r => Same(s)
  PROVE  told' = IF r \in Booker
                   THEN [told EXCEPT ![r] = ToldOf(answer'[r])]
                   ELSE told
BY DEF told, Same, Request

LEMMA InsertEnters ==
  ASSUME IInv, AInv, [Next]_vars, NEW r \in Request, InsertRow(r)
  PROVE  Book!Next
<1>1. PICK ref : /\ ~Taken(ref)
                 /\ appointment'[r] = RowOf(dto[r], ref)
                 /\ answer'[r] \in {SaysRef("confirmed", ref),
                                   Says("server_error")}
  BY InsertWrites
<1>2. r \in Booker /\ pc[r] = "create"
  BY InsertWrites DEF InsertRow
<1>3. appointment[r] = Book!Blank /\ told[r] = Book!Nothing
  BY <1>2, UnderWay
<1>4. appointment'[r] \in Row /\ appointment'[r].status = "CONFIRMED"
      /\ appointment'[r].ref = ref
  <2>1. appointment'[r] \in Row \cup {NoRow}
    BY <1>2, NextInv DEF IInv, TypeOK, VariableTypes
  <2> QED BY <1>1, <2>1 DEF RowOf, NoRow
<1>5. \A j \in Booker : appointment[j] # Book!Blank => appointment[j].ref # ref
  <2> SUFFICES ASSUME NEW j \in Booker, appointment[j] # Book!Blank
               PROVE  appointment[j].ref # ref
    OBVIOUS
  <2>1. Exists(j)
    BY DEF IInv, TypeOK, VariableTypes, Exists, Row, Status, NoRow, Book!Blank
  <2> QED BY <1>1, <2>1 DEF Taken
<1>6. appointment' = [appointment EXCEPT ![r] = appointment'[r]]
  BY <1>2 DEF InsertRow, IInv, TypeOK, VariableTypes
<1>7. ToldOf(answer'[r]) \in {Book!Promise(ref), Book!Unknown}
  BY <1>1, ToldOfAnswer DEF Says
<1>8. told' = [told EXCEPT ![r] = ToldOf(answer'[r])]
  BY <1>2, ToldMoves DEF InsertRow, Answer, Same, IInv, TypeOK, VariableTypes
<1>9. Book!Enter(r)
  BY <1>3, <1>4, <1>5, <1>6, <1>7, <1>8 DEF Book!Enter
<1> QED BY <1>2, <1>9 DEF Book!Next

LEMMA UpdateChanges ==
  ASSUME IInv, AInv, NEW r \in Request, UpdateRow(r)
  PROVE  Book!Next
<1>1. /\ target[r] \in Booker
      /\ Exists(target[r])
      /\ NewStatus(r) \in Status
      /\ r \notin Booker
  BY UpdateWrites, RequestAssumption
<1>2. appointment[target[r]] # Book!Blank
  BY <1>1 DEF Exists, Book!Blank
<1>3. appointment' = [appointment EXCEPT ![target[r]].status = NewStatus(r)]
  BY DEF UpdateRow
<1>4. told' = told
  BY <1>1, ToldMoves DEF UpdateRow, Answer, Same, IInv, TypeOK, VariableTypes
<1>5. Book!ChangeStatus(target[r])
  BY <1>1, <1>2, <1>3, <1>4 DEF Book!ChangeStatus
<1> QED BY <1>1, <1>5 DEF Book!Next

LEMMA OthersTurnAway ==
  ASSUME IInv, AInv, NEW r \in Request, Receive(r) \/ Serve(r) \/ Fail(r),
         \A s \in Request : s # r => Same(s), UNCHANGED appointment
  PROVE  [Book!Next]_(Book!vars)
<1>1. CASE r \notin Booker
  <2>1. told' = told
    BY <1>1, ToldMoves
  <2> QED BY <2>1 DEF Book!vars
<1>2. CASE r \in Booker
  <2>1. /\ pc[r] # "done"
        /\ r \notin Canceller /\ r \notin Updater
    BY <1>2, Mover, RequestAssumption
  <2>2. /\ appointment[r] = Book!Blank
        /\ told[r] = Book!Nothing
        /\ told' = [told EXCEPT ![r] = ToldOf(answer'[r])]
        /\ answer[r] = NoAnswer
    BY <1>2, <2>1, UnderWay, ToldMoves DEF AInv, AnsweredAtEnd
  <2>3. CASE answer'[r] = NoAnswer
    <3>1. ToldOf(answer'[r]) = told[r]
      BY <2>2, <2>3, ToldOfAnswer
    <3>2. told' = told
      BY <2>2, <3>1 DEF told
    <3> QED BY <3>2 DEF Book!vars
  <2>4. CASE answer'[r].status \notin {"none", "confirmed"}
    <3>1. ToldOf(answer'[r]) \in {Book!Refused, Book!Unknown}
      BY <2>4, ToldOfAnswer
    <3>2. Book!TurnAway(r)
      BY <2>2, <3>1 DEF Book!TurnAway
    <3> QED BY <1>2, <3>2 DEF Book!Next
  <2>5. ~InsertRow(r)
    <3> SUFFICES ASSUME InsertRow(r) PROVE FALSE
      OBVIOUS
    <3>1. PICK ref : appointment'[r] = RowOf(dto[r], ref)
      BY InsertWrites
    <3>2. appointment'[r].status = "CONFIRMED"
      BY <3>1 DEF RowOf
    <3>3. appointment[r].status = "ABSENT"
      BY InsertWrites DEF Exists
    <3> QED BY <3>2, <3>3
  <2>6. CASE Receive(r)
    <3>1. answer'[r] = NoAnswer \/ answer'[r].status \notin {"none", "confirmed"}
      BY <2>1, <2>2, <2>6
         DEF Receive, ReceiveSlot, ResolveError, Answer, Says,
             IInv, TypeOK, VariableTypes
    <3> QED BY <2>3, <2>4, <3>1
  <2>7. CASE Fail(r)
    <3>1. answer'[r].status = "server_error"
      BY <2>7 DEF Fail, Answer, Says, IInv, TypeOK, VariableTypes
    <3> QED BY <2>4, <3>1
  <2>8. CASE Serve(r)
    <3>1. pc[r] \notin {"candidates", "lookup", "update"}
      BY <2>1 DEF IInv, TypeOK, CallTypes
    <3>2. answer'[r] = NoAnswer \/ answer'[r].status \notin {"none", "confirmed"}
      BY <2>2, <2>5, <2>8, <3>1
         DEF Serve, ReadHours, ReadConflicts, Collide, FindCandidates,
             LookupRow, UpdateRow, Answer, Says, IInv, TypeOK, VariableTypes
    <3> QED BY <2>3, <2>4, <3>2
  <2> QED BY <2>6, <2>7, <2>8
<1> QED BY <1>1, <1>2

LEMMA BookNext == IInv /\ AInv /\ [Next]_vars => [Book!Next]_(Book!vars)
<1> SUFFICES ASSUME IInv, AInv, [Next]_vars PROVE [Book!Next]_(Book!vars)
  OBVIOUS
<1>1. CASE \E r \in Request : InsertRow(r)
  BY <1>1, InsertEnters
<1>2. CASE \E r \in Request : UpdateRow(r)
  BY <1>2, UpdateChanges
<1>3. CASE UNCHANGED appointment
  <2>1. CASE UNCHANGED <<pc, dto, answer, target, arrival>>
    BY <1>3, <2>1 DEF Book!vars, told
  <2> QED BY <1>3, <2>1, OneMoves, OthersTurnAway
<1> QED BY <1>1, <1>2, <1>3, RowWriters

(* The API implements the book of appointments: whatever the number of     *)
(* requests, their interleaving and their failures, a refused booking      *)
(* leaves no row and a confirmed one its own.                              *)
THEOREM BookImplemented == Spec => ImplementsBook
<1>1. Spec => Book!Init /\ [][Book!Next]_(Book!vars)
  BY BookInit, BookNext, AnswersInductive, PTL DEF Spec
<1> QED BY <1>1 DEF ImplementsBook, Book!Spec
=============================================================================
