-------------------------- MODULE MCClockSteering --------------------------
EXTENDS ClockSteering, TLC

CONSTANTS a, b, c, hw1, hw2, m1, m2

(* Two ports with hardware clocks, the third has the system clock. *)
TwoHardwareClocks == (a :> hw1) @@ (b :> hw2) @@ (c :> System)
=============================================================================
