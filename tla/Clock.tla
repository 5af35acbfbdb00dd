------------------------------- MODULE Clock --------------------------------
(***************************************************************************)
(* The clock that the rate limiter and the OAuth states are both read by.  *)
(***************************************************************************)
EXTENDS Integers

CONSTANT MaxTime    \* bound of the clock

ASSUME ClockAssumption == MaxTime \in Nat

VARIABLE now    \* time.monotonic() and datetime.now(), in ticks

Times == 0..MaxTime
=============================================================================
