------------------------------- MODULE Servo -------------------------------
(***************************************************************************)
(* What a port expects of its filter (the trait Filter in                  *)
(* statime/src/filters/mod.rs, as port/mod.rs and port/slave.rs use it):   *)
(* when the clock may be touched at all, and how.                          *)
(*                                                                         *)
(* A filter that has not been given an offset from a master leaves the     *)
(* clock alone: ports in every state have a filter, and with the peer      *)
(* delay mechanism every port feeds it.  The clock is stepped for a        *)
(* measurement only, never when a timer or the loss of the master calls    *)
(* the filter, and its frequency is set to one the configuration allows.   *)
(***************************************************************************)
CONSTANTS
    Frequencies,  \* the frequency offsets a filter may ask for
    Phases        \* the steps of the clock, summed up

VARIABLES
    engaged,  \* whether the filter has been given an offset
    freq,     \* the frequency offset of the clock
    phase     \* the sum of the steps made

vars == <<engaged, freq, phase>>

Init == engaged = FALSE /\ phase \in Phases

(* A measurement with an offset, or with a peer delay for a filter that    *)
(* knows an offset: Filter::measurement                                    *)
Measurement ==
    /\ engaged' \in {engaged, TRUE}
    /\ engaged' \/ UNCHANGED <<freq, phase>>
    /\ freq' \in {freq} \union Frequencies
    /\ phase' \in Phases

(* Filter::update *)
Update ==
    /\ engaged
    /\ freq' \in Frequencies
    /\ UNCHANGED <<engaged, phase>>

(* Filter::demobilize, and a new filter in its place *)
Demobilize ==
    /\ engaged' = FALSE
    /\ freq' \in {freq} \union (IF engaged THEN Frequencies ELSE {})
    /\ UNCHANGED phase

Next == Measurement \/ Update \/ Demobilize

Spec == Init /\ [][Next]_vars
=============================================================================
