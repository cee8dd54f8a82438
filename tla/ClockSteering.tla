--------------------------- MODULE ClockSteering ---------------------------
(***************************************************************************)
(* Who steers which clock in the Linux daemon (statime-linux/src/main.rs). *)
(*                                                                         *)
(* Every port has a filter, which steers the clock of the port while the   *)
(* port is a slave.  Every hardware clock has a task of its own with a     *)
(* filter that makes it follow the system clock (FromSystem), or the       *)
(* system clock follow it (ToSystem).  After each BMCA run() sends the     *)
(* tasks their modes through watch channels, of which a task sees the      *)
(* latest value, some time later; meanwhile the ports run again.           *)
(*                                                                         *)
(* The filters are servos in the sense of Servo, with the frequency they   *)
(* take their clock to have, from which they compute the next one.  Every  *)
(* operation on a clock is atomic (SharedClock locks, the others are       *)
(* system calls).                                                          *)
(***************************************************************************)
EXTENDS Integers, FiniteSets

CONSTANTS
    Ports,
    System,       \* the system clock
    Masters,      \* remote masters: a port that is a slave has one
    ClockOf,      \* the clock of each port; ports may share one
    Frequencies,  \* the frequencies filters choose
    MaxBmca,      \* bound: runs of the BMCA that are followed
    None

ASSUME ClockSteeringAssumption ==
    /\ DOMAIN ClockOf = Ports /\ IsFiniteSet(Ports)
    /\ None \notin Frequencies /\ MaxBmca \in Nat
    /\ Masters \intersect {"faulty", "other"} = {}

(* One task per hardware clock: clock_name_map, internal_sync_senders *)
Hardware == {ClockOf[p] : p \in Ports} \ {System}
Clocks == Hardware \union {System}

Modes == {"FromSystem", "ToSystem"}

VARIABLES
    state,       \* port_state: the master of a slave, "faulty" or "other"
    cur,         \* cur_frequency of the filter of each port
    port_timer,  \* whether the filter update timer of each port runs
    main,        \* "ports run", or "bmca": the modes are not sent yet
    bmcas,       \* number of runs of the BMCA
    mode,        \* the watch channels
    current_mode,
    task_cur,    \* cur_frequency of the filter of each clock task
    task_timer,  \* update_timer of each clock task
    freq         \* the frequency of each clock

vars == <<state, cur, port_timer, main, bmcas, mode, current_mode, task_cur,
          task_timer, freq>>
tasks == <<mode, current_mode, task_cur, task_timer>>

Init ==
    /\ state = [p \in Ports |-> "other"]
    /\ cur = [p \in Ports |-> None]
    /\ port_timer = [p \in Ports |-> FALSE]
    /\ main = "ports run" /\ bmcas = 0
    /\ mode = [c \in Hardware |-> "FromSystem"]
    /\ current_mode = [c \in Hardware |-> "FromSystem"]
    /\ task_cur = [c \in Hardware |-> None]
    /\ task_timer = [c \in Hardware |-> FALSE]
    /\ freq \in [Clocks -> Frequencies]

-----------------------------------------------------------------------------
(* Ports *)

IsSteering(p) == state[p] \in Masters

(* A measurement of a slave: its filter sets the frequency, and asks to be *)
(* called again.                                                           *)
PortMeasurement(p, f) ==
    /\ main = "ports run" /\ IsSteering(p)
    /\ cur' = [cur EXCEPT ![p] = f]
    /\ freq' = [freq EXCEPT ![ClockOf[p]] = f]
    /\ port_timer' = [port_timer EXCEPT ![p] = TRUE]
    /\ UNCHANGED <<state, main, bmcas, tasks>>

(* handle_filter_update_timer, whatever the state of the port: a filter    *)
(* that has not set a frequency before leaves the clock alone.             *)
FilterUpdateTimer(p, f) ==
    /\ main = "ports run" /\ port_timer[p]
    /\ port_timer' = [port_timer EXCEPT ![p] = FALSE]
    /\ \/ cur[p] = None /\ UNCHANGED <<cur, freq>>
       \/ /\ cur[p] # None
          /\ cur' = [cur EXCEPT ![p] = f]
          /\ freq' = [freq EXCEPT ![ClockOf[p]] = f]
    /\ UNCHANGED <<state, main, bmcas, tasks>>

(* set_forced_port_state: a port that is no slave of this master any more, *)
(* or that becomes or was faulty, gets a new filter; the old one is        *)
(* demobilized, and sets the frequency a last time.                        *)
KeptFilter(p, new) == FALSE

NewFilter(p, new) ==
    state[p] # new /\ (IsSteering(p) \/ state[p] = "faulty" \/ new = "faulty")

ForcedStates(new, f) ==
    LET renewed == {p \in Ports : NewFilter(p, new[p])} IN
    /\ state' = new
    /\ cur' = [p \in Ports |-> IF p \in renewed THEN None ELSE cur[p]]
    /\ freq' = [c \in Clocks |->
                    IF \E p \in renewed : ClockOf[p] = c /\ cur[p] # None
                    THEN f ELSE freq[c]]

(* A port changes its state while it runs: the announce receipt timer, an  *)
(* announce message of another port of this instance, or a second peer     *)
(* make it master, passive or faulty; with one peer again it recovers.     *)
LeavesState(p, new, f) ==
    /\ main = "ports run" /\ state[p] # new
    /\ bmcas < MaxBmca
    /\ ForcedStates([state EXCEPT ![p] = new], f)
    /\ UNCHANGED <<port_timer, main, bmcas, tasks>>

-----------------------------------------------------------------------------
(* The main task *)

(* instance.bmca(): at most one port becomes or stays the slave            *)
(* (AtMostOneSlave of PtpInstance), faulty ports stay as they are.         *)
Bmca(slaves, master, f) ==
    /\ main = "ports run" /\ bmcas < MaxBmca
    /\ Cardinality(slaves) <= 1
    /\ \A p \in slaves : state[p] # "faulty"
    /\ ForcedStates([p \in Ports |-> IF p \in slaves THEN master
                                     ELSE IF state[p] = "faulty" THEN "faulty"
                                     ELSE "other"], f)
    /\ main' = "bmca" /\ bmcas' = bmcas + 1
    /\ UNCHANGED <<port_timer, tasks>>

ClockStatesOnly(c) ==
    IF \E p \in Ports : IsSteering(p) /\ ClockOf[p] = c
    THEN "ToSystem" ELSE mode[c]

(* clock_states: is_steering of each port *)
ClockStates(c) ==
    IF \E p \in Ports : IsSteering(p) /\ ClockOf[p] = c
    THEN "ToSystem" ELSE "FromSystem"

SendModes ==
    /\ main = "bmca"
    /\ mode' = [c \in Hardware |-> ClockStates(c)]
    /\ main' = "ports run"
    /\ UNCHANGED <<state, cur, port_timer, bmcas, current_mode, task_cur,
                   task_timer, freq>>

-----------------------------------------------------------------------------
(* clock_task *)

Steered(c) == IF current_mode[c] = "FromSystem" THEN c ELSE System

TaskMeasurement(c, f) ==
    /\ task_cur' = [task_cur EXCEPT ![c] = f]
    /\ freq' = [freq EXCEPT ![Steered(c)] = f]
    /\ task_timer' = [task_timer EXCEPT ![c] = TRUE]
    /\ UNCHANGED <<state, cur, port_timer, main, bmcas, mode, current_mode>>

TaskUpdateTimer(c, f) ==
    /\ task_timer[c]
    /\ task_timer' = [task_timer EXCEPT ![c] = FALSE]
    /\ \/ task_cur[c] = None /\ UNCHANGED <<task_cur, freq>>
       \/ /\ task_cur[c] # None
          /\ task_cur' = [task_cur EXCEPT ![c] = f]
          /\ freq' = [freq EXCEPT ![Steered(c)] = f]
    /\ UNCHANGED <<state, cur, port_timer, main, bmcas, mode, current_mode>>

NewModeDefault(c) == mode[c] # "FromSystem"

NewMode(c) == mode[c] # current_mode[c]

(* mode_receiver.changed(): the filter is demobilized on the clock that it *)
(* steered so far, which a port may steer already.                         *)
ModeChanged(c, f) ==
    /\ NewMode(c)
    /\ freq' = IF task_cur[c] = None THEN freq
               ELSE [freq EXCEPT ![Steered(c)] = f]
    /\ task_cur' = [task_cur EXCEPT ![c] = None]
    /\ current_mode' = [current_mode EXCEPT ![c] = mode[c]]
    /\ UNCHANGED <<state, cur, port_timer, main, bmcas, mode, task_timer>>

-----------------------------------------------------------------------------
Next ==
    \/ \E p \in Ports, f \in Frequencies :
         \/ PortMeasurement(p, f) \/ FilterUpdateTimer(p, f)
         \/ \E new \in {"faulty", "other"} : LeavesState(p, new, f)
    \/ \E slaves \in SUBSET Ports, master \in Masters, f \in Frequencies :
         Bmca(slaves, master, f)
    \/ SendModes
    \/ \E c \in Hardware, f \in Frequencies :
         TaskMeasurement(c, f) \/ TaskUpdateTimer(c, f) \/ ModeChanged(c, f)

(* The tasks run, and a slave gets measurements as long as its master is   *)
(* there.                                                                  *)
Fairness ==
    /\ WF_vars(SendModes)
    /\ \A p \in Ports : WF_vars(\E f \in Frequencies : PortMeasurement(p, f))
    /\ \A c \in Hardware :
         /\ WF_vars(\E f \in Frequencies : TaskMeasurement(c, f))
         /\ WF_vars(\E f \in Frequencies : ModeChanged(c, f))

Spec == Init /\ [][Next]_vars /\ Fairness

-----------------------------------------------------------------------------
TypeOK ==
    /\ state \in [Ports -> Masters \union {"faulty", "other"}]
    /\ cur \in [Ports -> Frequencies \union {None}]
    /\ port_timer \in [Ports -> BOOLEAN]
    /\ main \in {"ports run", "bmca"} /\ bmcas \in 0..MaxBmca
    /\ mode \in [Hardware -> Modes] /\ current_mode \in [Hardware -> Modes]
    /\ task_cur \in [Hardware -> Frequencies \union {None}]
    /\ task_timer \in [Hardware -> BOOLEAN]
    /\ freq \in [Clocks -> Frequencies]

(* The filters that change the frequency of clock c. *)
Steerers(c) ==
    {p \in Ports : ClockOf[p] = c /\ cur[p] # None}
    \union {t \in Hardware : Steered(t) = c /\ task_cur[t] # None}

(* A port that is no slave has a filter that does not know a frequency and *)
(* so leaves the clock alone, also when the update timer its predecessor   *)
(* started fires late: set_forced_port_state has renewed it.               *)
OnlySlavesSteer == \A p \in Ports : cur[p] # None => IsSteering(p)

(* Every clock task has seen its mode. *)
Settled == main = "ports run" /\ \A c \in Hardware : current_mode[c] = mode[c]

(* After each BMCA, once all clock tasks have seen the modes that run()    *)
(* derived from the new port states, every clock has at most one filter    *)
(* that steers it: that of the slave port, or that of one task.            *)
OneSteerer == Settled => \A c \in Clocks : Cardinality(Steerers(c)) <= 1

(* The frequency that the filter of clock c computes from is its own. *)
Agrees(c) ==
    /\ \A p \in Ports : ClockOf[p] = c /\ cur[p] # None => cur[p] = freq[c]
    /\ \A t \in Hardware : Steered(t) = c /\ task_cur[t] # None => task_cur[t] = freq[c]

(* After a change of modes two filters steer one clock for a while, and a  *)
(* filter that is demobilized late overwrites the frequency of the next:   *)
(* each then computes from a frequency its clock does not have.  Once the  *)
(* BMCA is stable this ends, and every filter has its clock for itself.    *)
FrequenciesAgree == <>[](\A c \in Clocks : Agrees(c))
=============================================================================
