------------------------------- MODULE Booking -------------------------------
(***************************************************************************)
(* The appointment book of the API as its requests see it: availability    *)
(* checks, bookings and cancellations from the voice agent                 *)
(* (booking.service.ts), status changes from the dashboard                 *)
(* (appointments.service.ts) and the opening hours it saves                *)
(* (business-hours.service.ts).                                            *)
(*                                                                         *)
(* Every request is a process and every awaited database call a step of    *)
(* it: the API runs no transaction and takes no lock around them, so the   *)
(* steps of concurrent requests interleave freely.  A database statement   *)
(* is atomic.  A Booker inserts at most one appointment, which is kept     *)
(* under its name: the name stands for the row's uuid.                     *)
(***************************************************************************)
EXTENDS Integers, Calendar

CONSTANTS
  Booker,      \* POST /booking/book-appointment requests
  Checker,     \* POST /booking/check-availability requests
  Canceller,   \* POST /booking/cancel requests
  Updater,     \* PATCH of an appointment's status, from the dashboard
  Failing,     \* requests a database or process failure may hit (a bound)
  Business,    \* businesses that exist, each of an organization of its own
  BusinessId,  \* businesses a request may name
  Service,     \* services of the businesses
  Duration,    \* Service.durationMinutes
  ServiceText, \* what a caller may call a service
  Matching,    \* the services of a business whose names contain a text
  Phone,       \* callers' phone numbers
  Date,        \* dates callers ask for
  Time,        \* times callers ask for
  HintDate,    \* dates they name in a cancellation
  NoHint,      \* an absent dateHint
  Opening,     \* pairs openTime, closeTime the dashboard saves
  OpeningDay,  \* weekdays it saves them for
  Reference,   \* booking references randomBytes(4) may draw
  NoReference,
  NoTarget,
  Instant,     \* readings of the server's clock
  Attempts     \* BOOKING_REFERENCE_ATTEMPTS

Status == {"CONFIRMED", "CANCELLED", "COMPLETED", "NO_SHOW"}
Request == Booker \cup Checker \cup Canceller \cup Updater

ASSUME RequestAssumption ==
  /\ Booker \cap Checker = {}
  /\ (Booker \cup Checker) \cap (Canceller \cup Updater) = {}
  /\ Canceller \cap Updater = {}
  /\ Failing \subseteq Request

ASSUME CatalogAssumption ==
  /\ Business \subseteq BusinessId
  /\ Duration \in [Service -> Nat \ {0}]
  /\ Matching \in [Business -> [ServiceText -> SUBSET Service]]

(* The DTOs admit times 00:00 to 23:59 and hours 0 to 1439.                *)
ASSUME TimeAssumption ==
  /\ Date \subseteq Nat
  /\ HintDate \subseteq Nat
  /\ Time \subseteq 0 .. MinutesPerDay - 1
  /\ Opening \subseteq [open : 0 .. MinutesPerDay - 1,
                        close : 0 .. MinutesPerDay - 1]
  /\ OpeningDay \subseteq 0 .. 6
  /\ Instant \subseteq Nat
  /\ NoHint \notin HintDate

ASSUME ReferenceAssumption ==
  /\ NoReference \notin Reference
  /\ NoTarget \notin Booker
  /\ Attempts \in Nat \ {0}

VARIABLES
  now,          \* the server's clock
  hours,        \* rows of business_hours
  appointment,  \* rows of appointments
  pc,           \* the call each request awaits
  dto,          \* the payload of each request
  attempt,      \* createAppointmentWithRetry's counter
  target,       \* the appointment id a cancellation or an update works on
  answer,       \* the response of each request
  (* History, read by the properties only. *)
  before,       \* the appointments there were when a booking arrived
  arrival,      \* the clock when a cancellation arrived
  revived       \* appointments the dashboard brought back from CANCELLED

vars == <<now, hours, appointment, pc, dto, attempt, target, answer,
          before, arrival, revived>>

NoDto == [kind |-> "none"]
BookDto == [business : BusinessId, service : ServiceText, phone : Phone,
            date : Date, time : Time]
CheckDto == [business : BusinessId, service : ServiceText,
             date : Date, time : Time]
CancelDto == [business : BusinessId, phone : Phone,
              dateHint : HintDate \cup {NoHint}]
StatusDto == [org : Business, id : Booker, status : Status]

NoRow == [status |-> "ABSENT"]
Row == [business : Business, service : Service, phone : Phone,
        scheduledAt : Int, ref : Reference, status : Status]
HoursRow == [business : Business, dayOfWeek : 0 .. 6,
             open : 0 .. MinutesPerDay - 1, close : 0 .. MinutesPerDay - 1]

Refusals == {"business_not_found", "service_not_found", "ambiguous_service",
             "unavailable", "appointment_not_found",
             "ambiguous_appointment", "row_not_found"}
AnswerStatus == Refusals \cup {"none", "available", "confirmed", "cancelled",
                               "updated", "server_error"}
NoAnswer == [status |-> "none", ref |-> NoReference]
Says(status) == [status |-> status, ref |-> NoReference]
SaysRef(status, ref) == [status |-> status, ref |-> ref]

Exists(i) == appointment[i].status # "ABSENT"
Active(i) == appointment[i].status \notin {"ABSENT", "CANCELLED"}
Existing  == {i \in Booker : Exists(i)}
EndOf(i)  == appointment[i].scheduledAt + Duration[appointment[i].service]

OverlapAt(i, start, minutes) ==
  Overlaps(start, minutes,
           appointment[i].scheduledAt, Duration[appointment[i].service])

Init ==
  /\ now \in Instant
  /\ hours = {}
  /\ appointment = [i \in Booker |-> NoRow]
  /\ pc = [r \in Request |-> "idle"]
  /\ dto = [r \in Request |-> NoDto]
  /\ attempt = [r \in Booker |-> 1]
  /\ target = [r \in Canceller \cup Updater |-> NoTarget]
  /\ answer = [r \in Request |-> NoAnswer]
  /\ before = [r \in Booker |-> {}]
  /\ arrival = [r \in Canceller |-> now]
  /\ revived = {}

-----------------------------------------------------------------------------
(* Steps every request shares.                                             *)

Await(r, call) == pc' = [pc EXCEPT ![r] = call]

Answer(r, a) ==
  /\ pc' = [pc EXCEPT ![r] = "done"]
  /\ answer' = [answer EXCEPT ![r] = a]

(* The controller hands the payload to the service.                        *)
Arrive(r, d) ==
  /\ pc[r] = "idle"
  /\ dto' = [dto EXCEPT ![r] = d]
  /\ UNCHANGED <<now, hours, appointment, attempt, revived>>

(* The database, or the process, fails before the awaited statement takes  *)
(* effect: the caller gets a 500 or nothing.                               *)
Fail(r) ==
  /\ r \in Failing
  /\ pc[r] \notin {"idle", "done"}
  /\ Answer(r, Says("server_error"))
  /\ UNCHANGED <<now, hours, appointment, dto, attempt, target,
                 before, arrival, revived>>

-----------------------------------------------------------------------------
(* check-availability and book-appointment.                                *)

Resolved(d) ==
  /\ d.business \in Business
  /\ \E s \in Service : Matching[d.business][d.service] = {s}

ServiceOf(d) == CHOOSE s \in Service : Matching[d.business][d.service] = {s}

ResolveError(d) ==
  IF d.business \notin Business THEN "business_not_found"
  ELSE IF Matching[d.business][d.service] = {} THEN "service_not_found"
  ELSE "ambiguous_service"

StartOf(d) == SlotStart(d.date, d.time)

(* resolveBusinessAndService: nothing in the API changes a business's id   *)
(* or its services, so its two reads are one step.                         *)
ReceiveSlot(r) ==
  \E d \in IF r \in Booker THEN BookDto ELSE CheckDto :
    /\ Arrive(r, d)
    /\ before' = IF r \in Booker THEN [before EXCEPT ![r] = Existing]
                                 ELSE before
    /\ UNCHANGED <<target, arrival>>
    /\ \/ Resolved(d) /\ Await(r, "hours") /\ UNCHANGED answer
       \/ ~Resolved(d) /\ Answer(r, Says(ResolveError(d)))

(* Whether the business's hours row for the weekday, if any, holds the     *)
(* whole slot.                                                             *)
OpenFor(d) ==
  \E h \in hours :
    /\ h.business = d.business
    /\ h.dayOfWeek = Weekday(d.date)
    /\ h.open <= d.time
    /\ d.time + Duration[ServiceOf(d)] <= h.close

(* checkSlotAvailable up to its query of the day's appointments.           *)
ReadHours(r) ==
  /\ pc[r] = "hours"
  /\ \/ OpenFor(dto[r]) /\ Await(r, "conflicts") /\ UNCHANGED answer
     \/ ~OpenFor(dto[r]) /\ Answer(r, Says("unavailable"))
  /\ UNCHANGED <<now, hours, appointment, dto, attempt, target,
                 before, arrival, revived>>

(* A filter on the initial status: completed appointments no longer count. *)
FaultyConflicts(d) ==
  {i \in Booker :
     /\ appointment[i].status = "CONFIRMED"
     /\ appointment[i].business = d.business
     /\ InUtcDayOf(appointment[i].scheduledAt, StartOf(d))
     /\ OverlapAt(i, StartOf(d), Duration[ServiceOf(d)])}

(* The appointments of the slot's UTC day that overlap it.                 *)
Conflicts(d) ==
  {i \in Booker :
     /\ Active(i)
     /\ appointment[i].business = d.business
     /\ InUtcDayOf(appointment[i].scheduledAt, StartOf(d))
     /\ OverlapAt(i, StartOf(d), Duration[ServiceOf(d)])}

(* checkSlotAvailable's query and verdict.                                 *)
ReadConflicts(r) ==
  /\ pc[r] = "conflicts"
  /\ \/ /\ Conflicts(dto[r]) # {}
        /\ Answer(r, Says("unavailable"))
     \/ /\ Conflicts(dto[r]) = {}
        /\ r \in Checker
        /\ Answer(r, Says("available"))
     \/ /\ Conflicts(dto[r]) = {}
        /\ r \in Booker
        /\ Await(r, "create")
        /\ UNCHANGED answer
  /\ UNCHANGED <<now, hours, appointment, dto, attempt, target,
                 before, arrival, revived>>

RowOf(d, ref) ==
  [business |-> d.business, service |-> ServiceOf(d), phone |-> d.phone,
   scheduledAt |-> StartOf(d), ref |-> ref, status |-> "CONFIRMED"]

(* No unique constraint on bookingReference: any reference goes.           *)
FaultyTaken(ref) == FALSE

Taken(ref) == \E i \in Booker : Exists(i) /\ appointment[i].ref = ref

(* The create not awaited: its failure goes unnoticed.                     *)
FaultyInsertRow(r) ==
  /\ pc[r] = "create"
  /\ \E ref \in Reference :
       /\ ~Taken(ref)
       /\ Answer(r, SaysRef("confirmed", ref))
       /\ \/ appointment' = [appointment EXCEPT ![r] = RowOf(dto[r], ref)]
          \/ r \in Failing /\ UNCHANGED appointment
  /\ UNCHANGED <<now, hours, dto, attempt, target, before, arrival, revived>>

(* appointments.create with a fresh reference.  Once the row is committed  *)
(* the answer may still be lost to a failure.                              *)
InsertRow(r) ==
  /\ pc[r] = "create"
  /\ \E ref \in Reference :
       /\ ~Taken(ref)
       /\ appointment' = [appointment EXCEPT ![r] = RowOf(dto[r], ref)]
       /\ \/ Answer(r, SaysRef("confirmed", ref))
          \/ r \in Failing /\ Answer(r, Says("server_error"))
  /\ UNCHANGED <<now, hours, dto, attempt, target, before, arrival, revived>>

(* The loop's bound forgotten.                                             *)
EndlessCollide(r) ==
  /\ pc[r] = "create"
  /\ \E ref \in Reference : Taken(ref)
  /\ attempt' = [attempt EXCEPT ![r] = IF @ < Attempts THEN @ + 1 ELSE 1]
  /\ UNCHANGED <<now, hours, appointment, pc, answer, dto, target,
                 before, arrival, revived>>

(* One attempt too many: attempt > BOOKING_REFERENCE_ATTEMPTS gives up.    *)
LateCollide(r) ==
  /\ pc[r] = "create"
  /\ \E ref \in Reference : Taken(ref)
  /\ \/ /\ attempt[r] <= Attempts
        /\ attempt' = [attempt EXCEPT ![r] = @ + 1]
        /\ UNCHANGED <<pc, answer>>
     \/ /\ attempt[r] > Attempts
        /\ Answer(r, Says("server_error"))
        /\ UNCHANGED attempt
  /\ UNCHANGED <<now, hours, appointment, dto, target,
                 before, arrival, revived>>

(* P2002 on bookingReference: createAppointmentWithRetry draws again, and  *)
(* gives up after the last attempt.                                        *)
Collide(r) ==
  /\ pc[r] = "create"
  /\ \E ref \in Reference : Taken(ref)
  /\ \/ /\ attempt[r] < Attempts
        /\ attempt' = [attempt EXCEPT ![r] = @ + 1]
        /\ UNCHANGED <<pc, answer>>
     \/ /\ attempt[r] = Attempts
        /\ Answer(r, Says("server_error"))
        /\ UNCHANGED attempt
  /\ UNCHANGED <<now, hours, appointment, dto, target,
                 before, arrival, revived>>

-----------------------------------------------------------------------------
(* cancel, and the dashboard's change of status.                           *)

ReceiveCancel(r) ==
  \E d \in CancelDto :
    /\ Arrive(r, d)
    /\ arrival' = [arrival EXCEPT ![r] = now]
    /\ UNCHANGED <<target, before>>
    /\ \/ d.business \in Business /\ Await(r, "candidates") /\ UNCHANGED answer
       \/ d.business \notin Business /\ Answer(r, Says("business_not_found"))

(* cancelBooking's range: the hinted day, or everything from now on.       *)
InRange(t, hint) ==
  IF hint = NoHint
    THEN now <= t
    ELSE LET range == DayRangeFrom(hint, now)
         IN  range.from <= t /\ t <= range.to

(* findActiveByPhone.                                                      *)
Candidates(d) ==
  {i \in Booker :
     /\ Active(i)
     /\ appointment[i].business = d.business
     /\ appointment[i].phone = d.phone
     /\ InRange(appointment[i].scheduledAt, d.dateHint)}

FindCandidates(r) ==
  /\ pc[r] = "candidates"
  /\ LET found == Candidates(dto[r])
     IN  \/ /\ found = {}
            /\ Answer(r, Says("appointment_not_found"))
            /\ UNCHANGED target
         \/ \E i, j \in found :
              /\ i # j
              /\ Answer(r, Says("ambiguous_appointment"))
              /\ UNCHANGED target
         \/ \E i \in found :
              /\ found = {i}
              /\ target' = [target EXCEPT ![r] = i]
              /\ Await(r, "lookup")
              /\ UNCHANGED answer
  /\ UNCHANGED <<now, hours, appointment, dto, attempt,
                 before, arrival, revived>>

ReceiveStatus(r) ==
  \E d \in StatusDto :
    /\ Arrive(r, d)
    /\ target' = [target EXCEPT ![r] = d.id]
    /\ Await(r, "lookup")
    /\ UNCHANGED <<answer, before, arrival>>

(* The lookup finds a row by its id alone.                                 *)
FaultyVisible(r, i) == Exists(i)

(* The rows the lookup before an update may find: a cancellation's by id,  *)
(* business and phone, the dashboard's by id and organization.             *)
Visible(r, i) ==
  /\ Exists(i)
  /\ IF r \in Canceller
       THEN /\ appointment[i].business = dto[r].business
            /\ appointment[i].phone = dto[r].phone
       ELSE appointment[i].business = dto[r].org

LookupRow(r) ==
  /\ pc[r] = "lookup"
  /\ \/ Visible(r, target[r]) /\ Await(r, "update") /\ UNCHANGED answer
     \/ ~Visible(r, target[r]) /\ Answer(r, Says("row_not_found"))
  /\ UNCHANGED <<now, hours, appointment, dto, attempt, target,
                 before, arrival, revived>>

NewStatus(r) == IF r \in Canceller THEN "CANCELLED" ELSE dto[r].status

(* An update that spares the rows no longer CONFIRMED, answered as if it   *)
(* had not.                                                                *)
FaultyUpdateRow(r) ==
  LET i == target[r]
  IN  /\ pc[r] = "update"
      /\ appointment' = IF appointment[i].status = "CONFIRMED"
                          THEN [appointment EXCEPT ![i].status = NewStatus(r)]
                          ELSE appointment
      /\ Answer(r, SaysRef(IF r \in Canceller THEN "cancelled"
                                              ELSE "updated",
                           appointment[i].ref))
      /\ UNCHANGED <<now, hours, dto, attempt, target, before, arrival,
                     revived>>

(* The update names the row by its id only, whatever its status is by now. *)
UpdateRow(r) ==
  LET i == target[r]
  IN  /\ pc[r] = "update"
      /\ appointment' = [appointment EXCEPT ![i].status = NewStatus(r)]
      /\ revived' = IF appointment[i].status = "CANCELLED"
                       /\ NewStatus(r) # "CANCELLED"
                      THEN revived \cup {i} ELSE revived
      /\ \/ Answer(r, SaysRef(IF r \in Canceller THEN "cancelled"
                                                ELSE "updated",
                              appointment[i].ref))
         \/ r \in Failing /\ Answer(r, Says("server_error"))
      /\ UNCHANGED <<now, hours, dto, attempt, target, before, arrival>>

-----------------------------------------------------------------------------
(* The rest of the API and the passing of time.                            *)

(* upsertForDay, one of the statements of a business-profile save.         *)
UpsertHours(b, day, o) ==
  /\ hours' = {h \in hours : h.business # b \/ h.dayOfWeek # day}
                \cup {[business |-> b, dayOfWeek |-> day,
                       open |-> o.open, close |-> o.close]}
  /\ UNCHANGED <<now, appointment, pc, dto, attempt, target, answer,
                 before, arrival, revived>>

Tick ==
  /\ \E t \in Instant : now < t /\ now' = t
  /\ UNCHANGED <<hours, appointment, pc, dto, attempt, target, answer,
                 before, arrival, revived>>

(* What the server does of a request once it has arrived.                  *)
Serve(r) ==
  \/ ReadHours(r)
  \/ ReadConflicts(r)
  \/ InsertRow(r)
  \/ Collide(r)
  \/ FindCandidates(r)
  \/ LookupRow(r)
  \/ UpdateRow(r)

Next ==
  \/ \E r \in Booker \cup Checker : ReceiveSlot(r)
  \/ \E r \in Canceller : ReceiveCancel(r)
  \/ \E r \in Updater : ReceiveStatus(r)
  \/ \E r \in Request : Serve(r) \/ Fail(r)
  \/ \E b \in Business, day \in OpeningDay, o \in Opening :
         UpsertHours(b, day, o)
  \/ Tick

Spec == Init /\ [][Next]_vars

(* Every awaited call returns or throws, so the server goes on with a      *)
(* request it has; nothing obliges a request to come.                      *)
FairSpec == Spec /\ \A r \in Request : WF_vars(Serve(r))

-----------------------------------------------------------------------------
(* Properties.                                                             *)

Calls == {"idle", "hours", "conflicts", "create", "candidates", "lookup",
          "update", "done"}

Answers == [status : AnswerStatus, ref : Reference \cup {NoReference}]
Dtos == BookDto \cup CheckDto \cup CancelDto \cup StatusDto \cup {NoDto}

VariableTypes ==
  /\ now \in Instant
  /\ hours \subseteq HoursRow
  /\ appointment \in [Booker -> Row \cup {NoRow}]
  /\ pc \in [Request -> Calls]
  /\ dto \in [Request -> Dtos]
  /\ attempt \in [Booker -> 1 .. Attempts]
  /\ target \in [Canceller \cup Updater -> Booker \cup {NoTarget}]
  /\ answer \in [Request -> Answers]
  /\ before \in [Booker -> SUBSET Booker]
  /\ arrival \in [Canceller -> Instant]
  /\ revived \subseteq Booker

PayloadTypes ==
  \A r \in Request : pc[r] # "idle" =>
    /\ r \in Booker => dto[r] \in BookDto
    /\ r \in Checker => dto[r] \in CheckDto
    /\ r \in Canceller => dto[r] \in CancelDto
    /\ r \in Updater => dto[r] \in StatusDto

CallTypes ==
  \A r \in Request :
    /\ pc[r] \in {"hours", "conflicts"} => r \in Booker \cup Checker
    /\ pc[r] = "create" => r \in Booker
    /\ pc[r] = "candidates" => r \in Canceller
    /\ pc[r] \in {"lookup", "update"} =>
         r \in Canceller \cup Updater /\ target[r] \in Booker

(* Every variable has its type, and what a request holds is what its next  *)
(* call needs: a payload once it has arrived, an id before it is looked up.*)
TypeOK == VariableTypes /\ PayloadTypes /\ CallTypes

Early(t) == MinuteOf(t) < UtcOffset

(* One of the two starts before 05:30 on the Indian clock, where a UTC day *)
(* begins, and the other does not.                                         *)
AcrossUtcMidnight(i, j) ==
  Early(appointment[i].scheduledAt) # Early(appointment[j].scheduledAt)

Overlapping(i, j) ==
  /\ Active(i)
  /\ Active(j)
  /\ appointment[i].business = appointment[j].business
  /\ OverlapAt(i, appointment[j].scheduledAt,
               Duration[appointment[j].service])

(* A booking that arrives when an appointment is already in the table      *)
(* never ends up overlapping it, with two exceptions: the dashboard        *)
(* brought the appointment back from CANCELLED, or the two lie on either   *)
(* side of 05:30.  So checkSlotAvailable keeps successive bookings apart,  *)
(* whatever happens between its reads, and a business that opens at 05:30  *)
(* or later can be double-booked only by simultaneous bookings or by its   *)
(* own dashboard.                                                          *)
SuccessiveBookingsKeptApart ==
  \A j \in Booker : \A i \in before[j] :
    Overlapping(i, j) => i \in revived \/ AcrossUtcMidnight(i, j)

(* The reference a caller is told is that of one appointment, his own, for *)
(* the service, phone and slot he asked for, however many draws collided   *)
(* and whatever has been cancelled or updated since (createAppointment-    *)
(* WithRetry, bookAppointment).                                            *)
ReferenceFindsBooking ==
  \A r \in Booker : answer[r].status = "confirmed" =>
    /\ {i \in Existing : appointment[i].ref = answer[r].ref} = {r}
    /\ appointment[r] = [RowOf(dto[r], answer[r].ref)
                           EXCEPT !.status = appointment[r].status]

(* An appointment a caller was told is cancelled is cancelled, unless the  *)
(* dashboard has brought it back: no request that was in flight meanwhile  *)
(* undoes the cancellation (cancel, updateStatusForOrg).                   *)
CancelledStaysCancelled ==
  \A r \in Canceller : answer[r].status = "cancelled" =>
    \/ appointment[target[r]].status = "CANCELLED"
    \/ target[r] \in revived

(* What a cancellation cancels is an appointment of that caller with that  *)
(* business, not yet past when he asked, and on the day he named if he     *)
(* named one (cancelBooking, dayRangeFrom, findActiveByPhone).             *)
CancelHitsCallersUpcoming ==
  \A r \in Canceller : answer[r].status = "cancelled" =>
    LET row == appointment[target[r]]
    IN  /\ row.business = dto[r].business
        /\ row.phone = dto[r].phone
        /\ arrival[r] <= row.scheduledAt
        /\ dto[r].dateHint # NoHint =>
             DateOf(row.scheduledAt) = dto[r].dateHint

(* Whether request r may change the status of appointment i.               *)
Owns(r, i) ==
  IF r \in Canceller
    THEN /\ appointment[i].business = dto[r].business
         /\ appointment[i].phone = dto[r].phone
    ELSE appointment[i].business = dto[r].org

(* An appointment in the table changes in its status only, and only by a   *)
(* request of its own customer or its own organization, although the       *)
(* update's where clause names nothing but the id (cancel,                 *)
(* updateStatusForOrg).                                                    *)
OnlyOwnerMovesStatus ==
  [][\A i \in Booker : Exists(i) /\ appointment'[i] # appointment[i] =>
       /\ appointment'[i] = [appointment[i] EXCEPT
                               !.status = appointment'[i].status]
       /\ \E r \in Canceller \cup Updater :
            target[r] = i /\ pc[r] = "update" /\ Owns(r, i)]_vars

(* What a caller was told, as AppointmentBook sees it.                     *)
ToldOf(a) ==
  CASE a.status = "none" -> [kind |-> "nothing"]
    [] a.status = "confirmed" -> [kind |-> "promised", ref |-> a.ref]
    [] a.status = "server_error" -> [kind |-> "unknown"]
    [] OTHER -> [kind |-> "refused"]

told == [r \in Booker |-> ToldOf(answer[r])]

Book == INSTANCE AppointmentBook WITH Id <- Booker, book <- appointment

(* The API implements the book of appointments: a refused booking leaves   *)
(* no row, a confirmed one its own, nothing else ever enters the table.    *)
ImplementsBook == Book!Spec

(* The calls a request may still await, at most.                           *)
CallsLeft(r) ==
  CASE pc[r] = "hours" -> Attempts + 2
    [] pc[r] = "conflicts" -> Attempts + 1
    [] pc[r] = "create" -> Attempts + 1 - attempt[r]
    [] pc[r] = "candidates" -> 3
    [] pc[r] = "lookup" -> 2
    [] pc[r] = "update" -> 1
    [] OTHER -> 0

(* No request is served for ever: each call leaves it fewer to await, also *)
(* each draw of a booking reference, and no step of another request gives  *)
(* it more; once it has none left its answer is final (createAppointment-  *)
(* WithRetry and the handlers of the API).                                 *)
ServiceEnds ==
  [][\A r \in Request :
       /\ Serve(r) \/ Fail(r) => CallsLeft(r)' < CallsLeft(r)
       /\ pc[r] # "idle" => 0 <= CallsLeft(r)' /\ CallsLeft(r)' <= CallsLeft(r)
       /\ pc[r] = "done" => pc'[r] = "done" /\ answer'[r] = answer[r]]_vars

(* Every request that arrives is answered: the retry loop on the booking   *)
(* reference is bounded even when every draw collides.                     *)
EveryRequestAnswered ==
  \A r \in Request : pc[r] # "idle" ~> pc[r] = "done"

-----------------------------------------------------------------------------
(* What tests and messages of the repository say, and the code does not    *)
(* always do.                                                              *)

(* booking.service.spec.ts: a slot "is unavailable when it overlaps an     *)
(* existing appointment".                                                  *)
UnavailableWhenOverlapping ==
  [][\A r \in Checker :
       pc[r] = "conflicts" /\ answer'[r].status = "available" =>
         \A i \in Booker :
           Active(i) /\ appointment[i].business = dto[r].business =>
             ~OverlapAt(i, StartOf(dto[r]),
                        Duration[ServiceOf(dto[r])])]_vars

(* booking.service.spec.ts: bookAppointment ends "without creating an      *)
(* appointment when the slot is unavailable".                              *)
NoBookingWhenUnavailable ==
  [][\A r \in Booker : appointment[r] = NoRow /\ appointment'[r] # NoRow =>
       Conflicts(dto[r]) = {}]_vars

(* booking.service.ts, the message of ambiguous_appointment: "ask the      *)
(* caller which date, then retry with dateHint".                           *)
HintResolvesAmbiguity ==
  \A r \in Canceller : answer[r].status = "ambiguous_appointment" =>
    dto[r].dateHint = NoHint
=============================================================================
