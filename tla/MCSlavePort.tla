---------------------------- MODULE MCSlavePort ----------------------------
EXTENDS SlavePort, TLC

CONSTANTS a, b

(* No master is special. *)
Permuted == Permutations({a, b})
=============================================================================
