------------------------------ MODULE TimeTypes ------------------------------
(***************************************************************************)
(* Time, Duration, WireTimestamp and TimeInterval (statime/src/time/,      *)
(* datastructures/common/): fixed point numbers, scaled down.  A Time or   *)
(* Duration counts units of 1/SubUnits nanosecond (the code has 2^-32 ns); *)
(* a second has NanosPerSecond of them.  A correction field is coarser by  *)
(* the factor CorrectionUnit (2^16 in the code).                           *)
(***************************************************************************)
EXTENDS Integers

CONSTANTS
    SubUnits,        \* 2^32
    NanosPerSecond,  \* 1_000_000_000
    CorrectionUnit,  \* 2^16
    Seconds          \* 2^48, the seconds a WireTimestamp has room for

ASSUME TimeTypesAssumption ==
    /\ {SubUnits, NanosPerSecond, CorrectionUnit, Seconds} \subseteq Nat \ {0}
    /\ SubUnits % CorrectionUnit = 0

(* From<Time> for WireTimestamp: secs() and subsec_nanos(), and what its   *)
(* serialize keeps of the seconds.                                         *)
WireTimestamp(time) ==
    LET nanos == time \div SubUnits
    IN  [seconds |-> (nanos \div NanosPerSecond) % Seconds, nanos |-> nanos % NanosPerSecond]

(* From<WireTimestamp> for Time *)
TimeOf(timestamp) ==
    (timestamp.seconds * NanosPerSecond + timestamp.nanos) * SubUnits

(* Time::subnano: the fraction of a nanosecond, cut off to a TimeInterval. *)
Subnano(time) == (time % SubUnits) \div CorrectionUnit

(* From<TimeInterval> for Duration *)
DurationOf(interval) == interval * CorrectionUnit

(* Duration / 2: the quotient of two fixed point numbers, towards zero. *)
Half(duration) == IF duration >= 0 THEN duration \div 2 ELSE -((-duration) \div 2)
==============================================================================
