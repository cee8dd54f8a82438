---------------------------- MODULE OverlayClock ----------------------------
(***************************************************************************)
(* The overlay clock (statime/src/overlay_clock.rs): a clock that is       *)
(* steered in software, on top of one that is only read.                   *)
(*                                                                         *)
(* Frequencies are in parts of Scale (the code has parts per million); the *)
(* inputs tried are values for which the divisions are exact.  roclock is  *)
(* the time of the underlying clock.                                       *)
(***************************************************************************)
LOCAL INSTANCE Integers

CONSTANT Scale  \* 1_000_000

ASSUME ScaleAssumption == Scale \in Nat \ {0}

(* OverlayClock::new *)
NewOverlay(roclock) == [last_sync |-> roclock, shift |-> 0, freq_scale_ppm_diff |-> 0]

TimeFromUnderlying(clock, roclock) ==
    LET elapsed == roclock - clock.last_sync
        corr == (elapsed * clock.freq_scale_ppm_diff) \div Scale
    IN  roclock + clock.shift + corr

SetFrequencyBeforeShift(clock, roclock, ppm) ==
    LET changed == [clock EXCEPT !.freq_scale_ppm_diff = ppm]
    IN  [changed EXCEPT !.shift = TimeFromUnderlying(changed, roclock) - roclock,
                        !.last_sync = roclock]

SetFrequency(clock, roclock, ppm) ==
    [clock EXCEPT !.shift = TimeFromUnderlying(clock, roclock) - roclock,
                  !.last_sync = roclock,
                  !.freq_scale_ppm_diff = ppm]

(* The offset times the reciprocal of the frequency. *)
Scaled(clock, offset) == (offset * Scale) \div (Scale + clock.freq_scale_ppm_diff)

StepClock(clock, roclock, offset) ==
    [clock EXCEPT !.last_sync = roclock, !.shift = @ + Scaled(clock, offset)]
=============================================================================
