---------------------------- MODULE MCPeerDelay ----------------------------
EXTENDS PeerDelay, TLC

CONSTANTS a, b

(* No device is special. *)
Permuted == Permutations({a, b})
=============================================================================
