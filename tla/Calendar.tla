------------------------------ MODULE Calendar ------------------------------
(***************************************************************************)
(* The time arithmetic of the booking API.                                 *)
(*                                                                         *)
(* An instant is a number of minutes since the UTC epoch, the precision of *)
(* the API's HH:mm times; a date is a number of days since 1970-01-01 and  *)
(* a time a number of minutes since midnight, both as the caller says      *)
(* them, on the Indian wall clock.                                         *)
(***************************************************************************)
EXTENDS Integers

MinutesPerDay == 1440

(* BUSINESS_UTC_OFFSET, "+05:30". *)
UtcOffset == 330

(* computeSlot's scheduledAt: new Date(`${date}T${time}:00+05:30`). *)
SlotStart(date, time) == date * MinutesPerDay + time - UtcOffset

(* computeSlot's dayOfWeek: getUTCDay() of the calendar date; 0 is Sunday, *)
(* and 1970-01-01 was a Thursday.                                          *)
Weekday(date) == (date + 4) % 7

(* checkSlotAvailable's dayStart: the instant with its UTC hours cleared.  *)
UtcDayStart(t) == t - (t % MinutesPerDay)

(* The rows checkSlotAvailable fetches: scheduledAt in [dayStart, dayEnd), *)
(* the UTC day of the requested start.                                     *)
InUtcDayOf(t, start) ==
  /\ UtcDayStart(start) <= t
  /\ t < UtcDayStart(start) + MinutesPerDay

(* A slot that starts with another is missed.                              *)
FaultyOverlaps(start1, minutes1, start2, minutes2) ==
  \/ start2 < start1 /\ start1 < start2 + minutes2
  \/ start1 < start2 /\ start2 < start1 + minutes1

(* checkSlotAvailable's test on two half-open intervals.                   *)
Overlaps(start1, minutes1, start2, minutes2) ==
  /\ start1 < start2 + minutes2
  /\ start2 < start1 + minutes1

(* A clamp forgotten: today's hint reaches back to this morning.           *)
FaultyDayRangeFrom(date, now) ==
  [from |-> SlotStart(date, 0), to |-> SlotStart(date, MinutesPerDay - 1)]

(* dayRangeFrom: the Indian calendar day of a dateHint, its start clamped  *)
(* to the present; T23:59:59 is its last minute.                           *)
DayRangeFrom(date, now) ==
  LET dayStart == SlotStart(date, 0)
  IN  [from |-> IF dayStart > now THEN dayStart ELSE now,
       to   |-> SlotStart(date, MinutesPerDay - 1)]

(* The Indian calendar date and the wall-clock minute of an instant.       *)
DateOf(t)   == (t + UtcOffset) \div MinutesPerDay
MinuteOf(t) == (t + UtcOffset) % MinutesPerDay
=============================================================================
