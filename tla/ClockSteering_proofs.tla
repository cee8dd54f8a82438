----------------------- MODULE ClockSteering_proofs -----------------------
(***************************************************************************)
(* Proofs about ClockSteering, for any ports, clocks and masters and any   *)
(* number of runs of the BMCA: which filters steer; and about the overlay  *)
(* clock (OverlayClock), for any numbers: what steering does to its time.  *)
(***************************************************************************)
EXTENDS ClockSteering, MCAlgorithms, FiniteSetTheorems, TLAPS

States == Masters \union {"faulty", "other"}

(* bmca makes one slave at most, and no port becomes one by itself. *)
OneSlave == \A p, q \in Ports : IsSteering(p) /\ IsSteering(q) => p = q

(* The modes as run() sent them: one clock at most steers the system       *)
(* clock, and while a port is a slave it is the clock of that port, unless *)
(* that is the system clock itself.                                        *)
ModesFit ==
    /\ \A c, d \in Hardware : mode[c] = "ToSystem" /\ mode[d] = "ToSystem" => c = d
    /\ \A p \in Ports : IsSteering(p) =>
          /\ ClockOf[p] # System => mode[ClockOf[p]] = "ToSystem"
          /\ \A c \in Hardware : mode[c] = "ToSystem" => ClockOf[p] = c

IInv ==
    /\ TypeOK /\ OnlySlavesSteer /\ OneSlave
    /\ main = "ports run" => ModesFit

-----------------------------------------------------------------------------
(* The clock of a port is the system clock or has a task. *)
LEMMA ClocksOfPorts ==
    /\ System \notin Hardware /\ System \in Clocks /\ Hardware \subseteq Clocks
    /\ \A p \in Ports : ClockOf[p] \in Clocks
    /\ \A p \in Ports : ClockOf[p] # System => ClockOf[p] \in Hardware
BY ClockSteeringAssumption DEF Hardware, Clocks

(* At the start nobody steers and all tasks follow the system clock. *)
LEMMA InitIInv == ASSUME Init, 0 \in 0..MaxBmca PROVE IInv
<1>1. TypeOK
  BY DEF Init, TypeOK, Modes
<1>2. \A p \in Ports : ~IsSteering(p)
  BY ClockSteeringAssumption DEF Init, IsSteering
<1>3. OnlySlavesSteer /\ OneSlave
  BY <1>2 DEF Init, OnlySlavesSteer, OneSlave
<1>4. ModesFit
  BY <1>2 DEF Init, ModesFit
<1> QED
  BY <1>1, <1>3, <1>4 DEF IInv

(* A step of a filter or of a clock task, which changes neither the states *)
(* of ports nor the modes, and lets only slaves steer.                     *)
LEMMA SteeringKeeps ==
    ASSUME IInv, TypeOK', UNCHANGED <<state, main, mode>>,
           \A p \in Ports : cur'[p] # None => cur[p] # None \/ IsSteering(p)
    PROVE  IInv'
BY DEF IInv, OnlySlavesSteer, OneSlave, ModesFit, IsSteering

(* set_forced_port_state: a port that is a slave no more has a new filter. *)
LEMMA ForcedStatesKeep ==
    ASSUME IInv, NEW new \in [Ports -> States], NEW f \in Frequencies,
           ForcedStates(new, f)
    PROVE  /\ state' \in [Ports -> States]
           /\ cur' \in [Ports -> Frequencies \union {None}]
           /\ freq' \in [Clocks -> Frequencies]
           /\ OnlySlavesSteer'
<1>1. /\ state \in [Ports -> States] /\ cur \in [Ports -> Frequencies \union {None}]
      /\ freq \in [Clocks -> Frequencies]
  BY DEF IInv, TypeOK, States
<1>2. /\ state' \in [Ports -> States]
      /\ cur' \in [Ports -> Frequencies \union {None}]
      /\ freq' \in [Clocks -> Frequencies]
  BY <1>1 DEF ForcedStates
<1>3. ASSUME NEW p \in Ports, cur'[p] # None
      PROVE  state'[p] \in Masters
  <2>1. ~NewFilter(p, new[p]) /\ cur[p] # None
    BY <1>3 DEF ForcedStates
  <2>2. IsSteering(p) /\ state[p] = new[p]
    BY <2>1 DEF NewFilter, IInv, OnlySlavesSteer
  <2> QED
    BY <2>2 DEF ForcedStates, IsSteering
<1> QED
  BY <1>2, <1>3 DEF OnlySlavesSteer, IsSteering

(* Every step keeps the invariant. *)
LEMMA NextKeeps == IInv /\ [Next]_vars => IInv'
<1> SUFFICES ASSUME IInv, [Next]_vars PROVE IInv'
  OBVIOUS
<1>t. /\ state \in [Ports -> States] /\ cur \in [Ports -> Frequencies \union {None}]
      /\ port_timer \in [Ports -> BOOLEAN]
      /\ main \in {"ports run", "bmca"} /\ bmcas \in 0..MaxBmca
      /\ mode \in [Hardware -> Modes] /\ current_mode \in [Hardware -> Modes]
      /\ task_cur \in [Hardware -> Frequencies \union {None}]
      /\ task_timer \in [Hardware -> BOOLEAN]
      /\ freq \in [Clocks -> Frequencies]
  BY DEF IInv, TypeOK, States
<1>1. ASSUME NEW p \in Ports, NEW f \in Frequencies, PortMeasurement(p, f)
      PROVE  IInv'
  <2>1. TypeOK'
    BY <1>t, <1>1 DEF PortMeasurement, TypeOK, tasks, States
  <2> QED
    BY <1>t, <1>1, <2>1, SteeringKeeps DEF PortMeasurement, tasks
<1>2. ASSUME NEW p \in Ports, NEW f \in Frequencies, FilterUpdateTimer(p, f)
      PROVE  IInv'
  <2>1. TypeOK'
    BY <1>t, <1>2 DEF FilterUpdateTimer, TypeOK, tasks, States
  <2> QED
    BY <1>t, <1>2, <2>1, SteeringKeeps DEF FilterUpdateTimer, tasks
<1>3. ASSUME NEW p \in Ports, NEW new \in {"faulty", "other"}, NEW f \in Frequencies,
             LeavesState(p, new, f)
      PROVE  IInv'
  <2> DEFINE next == [state EXCEPT ![p] = new]
  <2>1. next \in [Ports -> States] /\ ForcedStates(next, f)
    BY <1>t, <1>3 DEF LeavesState, States
  <2>2. /\ state' \in [Ports -> States]
        /\ cur' \in [Ports -> Frequencies \union {None}]
        /\ freq' \in [Clocks -> Frequencies]
        /\ OnlySlavesSteer'
    BY <2>1, ForcedStatesKeep
  <2>3. UNCHANGED <<port_timer, main, bmcas, mode, current_mode, task_cur, task_timer>>
    BY <1>3 DEF LeavesState, tasks
  <2>4. TypeOK'
    BY <1>t, <2>2, <2>3 DEF TypeOK, States
  <2>5. \A q \in Ports : IsSteering(q)' => IsSteering(q)
    BY <1>t, <2>1, ClockSteeringAssumption DEF ForcedStates, IsSteering
  <2>6. OneSlave' /\ (main' = "ports run" => ModesFit')
    BY <2>3, <2>5 DEF IInv, OneSlave, ModesFit
  <2> QED
    BY <2>2, <2>4, <2>6 DEF IInv
<1>4. ASSUME NEW slaves \in SUBSET Ports, NEW master \in Masters, NEW f \in Frequencies,
             Bmca(slaves, master, f)
      PROVE  IInv'
  <2> DEFINE next == [p \in Ports |-> IF p \in slaves THEN master
                                      ELSE IF state[p] = "faulty" THEN "faulty"
                                      ELSE "other"]
  <2>1. next \in [Ports -> States] /\ ForcedStates(next, f)
    BY <1>4 DEF Bmca, States
  <2>2. /\ state' \in [Ports -> States]
        /\ cur' \in [Ports -> Frequencies \union {None}]
        /\ freq' \in [Clocks -> Frequencies]
        /\ OnlySlavesSteer'
    BY <2>1, ForcedStatesKeep
  <2>3. /\ UNCHANGED <<port_timer, mode, current_mode, task_cur, task_timer>>
        /\ main' = "bmca" /\ bmcas' = bmcas + 1 /\ bmcas < MaxBmca
    BY <1>4 DEF Bmca, tasks
  <2>4. bmcas' \in 0..MaxBmca
    <3>1. bmcas \in 0..MaxBmca /\ MaxBmca \in Nat
      BY <1>t, ClockSteeringAssumption
    <3> QED
      BY <2>3, <3>1
  <2>5. TypeOK'
    BY <1>t, <2>2, <2>3, <2>4 DEF TypeOK, States
  <2>6. \A p \in Ports : IsSteering(p)' => p \in slaves
    BY <2>1, ClockSteeringAssumption DEF ForcedStates, IsSteering
  <2>7. \A p, q \in slaves : p = q
    <3>1. IsFiniteSet(slaves) /\ Cardinality(slaves) \in Nat
      BY ClockSteeringAssumption, FS_Subset, FS_CardinalityType
    <3>2. Cardinality(slaves) = 0 \/ Cardinality(slaves) = 1
      <4>1. Cardinality(slaves) <= 1
        BY <1>4 DEF Bmca
      <4> QED
        BY <3>1, <4>1
    <3>3. CASE Cardinality(slaves) = 0
      BY <3>1, <3>3, FS_EmptySet
    <3>4. CASE Cardinality(slaves) = 1
      BY <3>1, <3>4, FS_Singleton
    <3> QED
      BY <3>2, <3>3, <3>4
  <2>8. OneSlave'
    BY <2>6, <2>7 DEF OneSlave
  <2> QED
    BY <2>2, <2>3, <2>5, <2>8 DEF IInv
<1>5. CASE SendModes
  <2>1. /\ mode' = [c \in Hardware |-> ClockStates(c)]
        /\ main' = "ports run"
        /\ UNCHANGED <<state, cur, port_timer, bmcas, current_mode, task_cur, task_timer, freq>>
    BY <1>5 DEF SendModes
  <2>2. mode' \in [Hardware -> Modes]
    BY <2>1 DEF ClockStates, Modes
  <2>3. TypeOK'
    BY <1>t, <2>1, <2>2 DEF TypeOK, States
  <2>4. OnlySlavesSteer' /\ OneSlave'
    BY <2>1 DEF IInv, OnlySlavesSteer, OneSlave, IsSteering
  <2>5. \A c \in Hardware : mode'[c] = "ToSystem" <=>
            \E p \in Ports : IsSteering(p) /\ ClockOf[p] = c
    BY <2>1 DEF ClockStates
  <2>6. ModesFit'
    <3>1. \A p, q \in Ports : IsSteering(p) /\ IsSteering(q) => p = q
      BY DEF IInv, OneSlave
    <3>2. \A p \in Ports : IsSteering(p)' <=> IsSteering(p)
      BY <2>1 DEF IsSteering
    <3>3. ASSUME NEW c \in Hardware, NEW d \in Hardware,
                 mode'[c] = "ToSystem", mode'[d] = "ToSystem"
          PROVE  c = d
      BY <2>5, <3>1, <3>3
    <3>4. ASSUME NEW p \in Ports, IsSteering(p)
          PROVE  /\ ClockOf[p] # System => mode'[ClockOf[p]] = "ToSystem"
                 /\ \A c \in Hardware : mode'[c] = "ToSystem" => ClockOf[p] = c
      BY <2>5, <3>1, <3>4, ClocksOfPorts
    <3> QED
      BY <3>2, <3>3, <3>4 DEF ModesFit
  <2> QED
    BY <2>3, <2>4, <2>6 DEF IInv
<1>6. ASSUME NEW c \in Hardware, NEW f \in Frequencies,
             TaskMeasurement(c, f) \/ TaskUpdateTimer(c, f) \/ ModeChanged(c, f)
      PROVE  IInv'
  <2>1. Steered(c) \in Clocks
    BY ClocksOfPorts DEF Steered
  <2>2. TypeOK'
    <3>1. CASE TaskMeasurement(c, f)
      BY <1>t, <2>1, <3>1 DEF TaskMeasurement, TypeOK, States
    <3>2. CASE TaskUpdateTimer(c, f)
      BY <1>t, <2>1, <3>2 DEF TaskUpdateTimer, TypeOK, States
    <3>3. CASE ModeChanged(c, f)
      BY <1>t, <2>1, <3>3 DEF ModeChanged, TypeOK, States
    <3> QED
      BY <1>6, <3>1, <3>2, <3>3
  <2>3. UNCHANGED <<state, cur, main, mode>>
    BY <1>6 DEF TaskMeasurement, TaskUpdateTimer, ModeChanged
  <2> QED
    BY <2>2, <2>3, SteeringKeeps
<1>7. CASE UNCHANGED vars
  <2>1. UNCHANGED <<state, cur, port_timer, main, bmcas, mode, current_mode, task_cur,
                    task_timer, freq>>
    BY <1>7 DEF vars
  <2>2. TypeOK'
    BY <1>t, <2>1 DEF TypeOK, States
  <2> QED
    BY <2>1, <2>2, SteeringKeeps
<1> QED
  BY <1>1, <1>2, <1>3, <1>4, <1>5, <1>6, <1>7 DEF Next

-----------------------------------------------------------------------------
(* The invariant is enough for one steerer of each clock. *)
LEMMA SettledHasOne == IInv => OneSteerer
<1> SUFFICES ASSUME IInv, Settled, NEW c \in Clocks
             PROVE  Cardinality(Steerers(c)) <= 1
  BY DEF OneSteerer
<1>1. /\ ModesFit /\ OneSlave /\ OnlySlavesSteer
      /\ \A t \in Hardware : current_mode[t] = mode[t] /\ mode[t] \in Modes
  BY DEF IInv, Settled, TypeOK
<1>2. \A t \in Hardware : /\ Steered(t) = t => mode[t] = "FromSystem"
                          /\ Steered(t) # t => Steered(t) = System /\ mode[t] = "ToSystem"
  BY <1>1, ClocksOfPorts DEF Steered, Modes
<1>3. \A x, y \in Steerers(c) : x = y
  <2>1. \A p, q \in Ports : cur[p] # None /\ cur[q] # None => p = q
    BY <1>1 DEF OnlySlavesSteer, OneSlave
  <2>2. \A t, u \in Hardware : Steered(t) = c /\ Steered(u) = c => t = u
    BY <1>1, <1>2, ClocksOfPorts DEF ModesFit
  <2>3. \A p \in Ports, t \in Hardware :
            ~(ClockOf[p] = c /\ cur[p] # None /\ Steered(t) = c)
    BY <1>1, <1>2, ClocksOfPorts DEF ModesFit, OnlySlavesSteer
  <2> QED
    BY <2>1, <2>2, <2>3 DEF Steerers
<1>4. CASE Steerers(c) = {}
  BY <1>4, FS_EmptySet
<1>5. CASE Steerers(c) # {}
  <2>1. PICK x : x \in Steerers(c)
    BY <1>5
  <2>2. Steerers(c) = {x}
    BY <1>3, <2>1
  <2>3. Cardinality({x}) = 1
    BY FS_Singleton
  <2> QED
    BY <2>2, <2>3
<1> QED
  BY <1>4, <1>5

(* IInv holds always. *)
LEMMA Invariance == Spec => []IInv
<1>1. Init => IInv
  BY InitIInv, ClockSteeringAssumption
<1> QED
  BY <1>1, NextKeeps, PTL DEF Spec

(* No port that is no slave steers its clock, for any ports and clocks,    *)
(* however late its update timer fires.                                    *)
THEOREM SlavesAloneSteer == Spec => []OnlySlavesSteer
<1>1. IInv => OnlySlavesSteer
  BY DEF IInv
<1> QED
  BY <1>1, Invariance, PTL

(* Once every clock task has seen its mode, every clock has one steerer at *)
(* most, for any ports that share any clocks.                              *)
THEOREM OneSteererEach == Spec => []OneSteerer
BY SettledHasOne, Invariance, PTL

-----------------------------------------------------------------------------
(* The overlay clock *)

(* An overlay clock in any state, read and set to any frequency at any    *)
(* time.                                                                   *)
OverlayInputs ==
    [of : {"overlay"},
     clock : [last_sync : Int, shift : Int, freq_scale_ppm_diff : Int],
     roclock : Int, ppm : Int]

(* For an overlay clock in any state and any numbers, rounding included:   *)
(* set_frequency leaves the time shown as it is, and the clock goes on     *)
(* from there at the new speed.                                            *)
THEOREM OverlayKeepsTime ==
    ASSUME input.of = "overlay" => input \in OverlayInputs
    PROVE  FrequencyKeepsTime
<1>1. SUFFICES ASSUME input.of = "overlay" PROVE FrequencyKeepsTime
  BY DEF FrequencyKeepsTime
<1>2. PICK clock, now, ppm :
         clock = input.clock /\ now = input.roclock /\ ppm = input.ppm
  OBVIOUS
<1>3. /\ clock \in [last_sync : Int, shift : Int, freq_scale_ppm_diff : Int]
      /\ now \in Int /\ ppm \in Int
  BY <1>1, <1>2 DEF OverlayInputs
<1>4. PICK shown : shown = TimeFromUnderlying(clock, now)
  OBVIOUS
<1>5. shown \in Int
  <2>1. (now - clock.last_sync) * clock.freq_scale_ppm_diff \in Int
    BY <1>3
  <2>2. ((now - clock.last_sync) * clock.freq_scale_ppm_diff) \div Scale \in Int
    BY <2>1, ScaleAssumption
  <2> QED BY <1>3, <1>4, <2>2 DEF TimeFromUnderlying
<1>6. PICK changed : changed = SetFrequency(clock, now, ppm)
  OBVIOUS
<1>7. changed = [last_sync |-> now, shift |-> shown - now, freq_scale_ppm_diff |-> ppm]
  BY <1>3, <1>4, <1>6 DEF SetFrequency
<1>8. TimeFromUnderlying(changed, now) = shown
  <2>1. (now - now) * ppm = 0 /\ 0 \div Scale = 0
    BY <1>3, ScaleAssumption
  <2> QED BY <1>3, <1>5, <1>7, <2>1 DEF TimeFromUnderlying
<1>9. TimeFromUnderlying(changed, now + 2) - shown = 2 + (2 * ppm) \div Scale
  <2>1. now + 2 - now = 2
    BY <1>3
  <2>2. (2 * ppm) \div Scale \in Int
    BY <1>3, ScaleAssumption
  <2>3. TimeFromUnderlying(changed, now + 2) = now + 2 + (shown - now) + (2 * ppm) \div Scale
    BY <1>3, <1>7, <2>1, <2>2 DEF TimeFromUnderlying
  <2> QED BY <1>3, <1>5, <2>2, <2>3
<1> QED
  BY <1>2, <1>4, <1>6, <1>8, <1>9, Zenon DEF FrequencyKeepsTime
=============================================================================
