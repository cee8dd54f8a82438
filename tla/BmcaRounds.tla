----------------------------- MODULE BmcaRounds -----------------------------
(***************************************************************************)
(* What the daemon promises to the library: time is divided into rounds by *)
(* the runs of instance.bmca().  In every round each port is run by its    *)
(* own task once, from end_bmca to start_bmca, while the other ports are   *)
(* run, have been run or have yet to be run; and bmca() is a single step   *)
(* between the rounds, at which no port is running.  PtpInstance takes     *)
(* this for granted.                                                       *)
(***************************************************************************)
CONSTANT Ports

VARIABLE turn  \* "before", "running" or "after" its turn, for each port

Init == turn = [k \in Ports |-> "before"]

(* end_bmca: from here on the handlers of port k may be called. *)
Start(k) ==
    /\ turn[k] = "before"
    /\ turn' = [turn EXCEPT ![k] = "running"]

(* start_bmca *)
Stop(k) ==
    /\ turn[k] = "running"
    /\ turn' = [turn EXCEPT ![k] = "after"]

(* instance.bmca() on all the ports *)
Bmca ==
    /\ \A k \in Ports : turn[k] = "after"
    /\ turn' = [k \in Ports |-> "before"]

Next == Bmca \/ \E k \in Ports : Start(k) \/ Stop(k)

Spec == Init /\ [][Next]_turn
=============================================================================
