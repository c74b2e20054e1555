-------------------------------- MODULE Clock --------------------------------
(***************************************************************************)
(* The clock that the API and the pages of the dashboard read, in half     *)
(* days, which is close to the 5:30 h of India.                            *)
(***************************************************************************)
EXTENDS Naturals

CONSTANT LastTime   \* the clock stops there (a bound)
VARIABLE now

(* Days of the API, whose process sets no time zone, and of the browser.   *)
UtcDay(t) == t \div 2
LocalDay(t) == (t + 1) \div 2
=============================================================================
