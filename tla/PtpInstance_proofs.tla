------------------------- MODULE PtpInstance_proofs -------------------------
(***************************************************************************)
(* Proofs about PtpInstance, for any number of ports, any set of announce  *)
(* messages and any acceptable master list.                                *)
(***************************************************************************)
EXTENDS PtpInstance, TLAPS

(* remote_master is a field of the slave state: other states have none. *)
RemoteOfSlave ==
    \A p \in Ports : port_state[p] # "Slave" => remote_master[p] = None

(* The foreign master lists hold acceptable masters only, and never one    *)
(* with our own clock identity.                                            *)
ForeignIsAcceptable ==
    \A p \in Ports, a \in Announces : foreign[p][a] # None =>
        /\ a.source_port_identity.clock_identity \in Acceptable
        /\ a.source_port_identity.clock_identity # OwnClock

(* The inductive invariant: the safety properties need each other, and the *)
(* two facts above.                                                        *)
IInv ==
    /\ TypeOK
    /\ RemoteOfSlave
    /\ ForeignIsAcceptable
    /\ AtMostOneSlave
    /\ SlaveFollowsParent
    /\ MasterOnlyNeverSlave
    /\ TimersRun
    /\ ParentIsAcceptable

-----------------------------------------------------------------------------
RecommendedStates == {"None", "M1", "M2", "M3", "P1", "P2", "S1"}

(* The state decision recommends one of the known states. *)
LEMMA RecommendedType ==
    ASSUME NEW lb, NEW ebest, NEW p
    PROVE  Recommended(lb, ebest, p) \in RecommendedStates
BY DEF Recommended, RecommendedStates

(* No recommendation is given only to a listening port. *)
LEMMA RecommendedNone ==
    ASSUME NEW lb, NEW ebest, NEW p, Recommended(lb, ebest, p) = "None"
    PROVE  port_state[p] = "Listening"
BY DEF Recommended

(* S1 is recommended only to the port that received the ebest, and that    *)
(* port was eligible for it.                                               *)
LEMMA RecommendedSlave ==
    ASSUME NEW lb, NEW ebest \in Ebest(lb), NEW p \in Ports,
           Recommended(lb, ebest, p) = "S1"
    PROVE  /\ p = ebest
           /\ OwnIsWorse(lb, ebest)
           /\ default_ds.attributes[2] \notin 1..127
           /\ p \in Eligible(lb)
<1>1. p = ebest /\ OwnIsWorse(lb, ebest) /\ default_ds.attributes[2] \notin 1..127
  BY DEF Recommended
<1>2. None \notin Ports
  BY PtpInstanceAssumption
<1>3. p \in Eligible(lb)
  BY <1>1, <1>2 DEF Ebest, Winners
<1> QED
  BY <1>1, <1>3

(* S1 never goes together with M1 or M2: what the data sets are made of    *)
(* after bmca() does not depend on the order of the ports.                 *)
LEMMA NoSlaveWithOwn ==
    ASSUME NEW lb, NEW ebest \in Ebest(lb), NEW p \in Ports, NEW q \in Ports,
           Recommended(lb, ebest, p) = "S1"
    PROVE  Recommended(lb, ebest, q) \notin {"M1", "M2"}
<1>1. OwnIsWorse(lb, ebest) /\ default_ds.attributes[2] \notin 1..127
  BY RecommendedSlave
<1> QED
  BY <1>1 DEF Recommended

(* A port becomes or stays a slave in bmca() only by an S1. *)
LEMMA NextSlave ==
    ASSUME NEW lb, NEW ebest, NEW p \in Ports,
           NextPortState(p, Recommended(lb, ebest, p)) = "Slave"
    PROVE  Recommended(lb, ebest, p) = "S1" /\ port_state[p] # "Faulty"
<1> DEFINE r == Recommended(lb, ebest, p)
<1>1. r \in RecommendedStates
  BY RecommendedType
<1>2. r = "None" => port_state[p] = "Listening"
  BY RecommendedNone
<1> HIDE DEF r
<1>3. NextPortState(p, r) = "Slave" => r = "S1" /\ port_state[p] # "Faulty"
  BY <1>1, <1>2 DEF NextPortState, RecommendedStates, Masterly
<1> QED
  BY <1>3 DEF r

(* The ports configured as master-only are ports of the instance.          *)
LEMMA MasterOnlyPorts == MasterOnly \subseteq Ports
BY PtpInstanceAssumption

(* The data sets made from an announce message or from default_ds have     *)
(* their type.                                                             *)
LEMMA DatasetTypes ==
    /\ \A a \in Announces : FromAnnounce(a) \in DatasetType
    /\ TypeOK => FromDefaultDs(default_ds) \in DatasetType
<1>1. ASSUME NEW a \in Announces PROVE FromAnnounce(a) \in DatasetType
  <2>1. a \in Announce
    BY PtpInstanceAssumption
  <2>2. /\ a.source_port_identity \in PortIdentity
        /\ a.grandmaster_identity \in Nat
        /\ a.grandmaster_attributes \in [1..5 -> Nat]
        /\ a.steps_removed \in Nat
    BY <2>1 DEF Announce
  <2>3. NextStep(a.steps_removed) \in Nat
    BY <2>2 DEF NextStep
  <2> QED
    BY <2>2, <2>3 DEF FromAnnounce, DatasetType
<1>2. ASSUME TypeOK PROVE FromDefaultDs(default_ds) \in DatasetType
  <2>1. default_ds.clock_identity \in Nat /\ default_ds.attributes \in [1..5 -> Nat]
    BY <1>2, PtpInstanceAssumption DEF TypeOK, DefaultDS
  <2>2. OwnIdentity(0) \in PortIdentity
    BY PtpInstanceAssumption DEF OwnIdentity, PortIdentity
  <2> QED
    BY <2>1, <2>2 DEF FromDefaultDs, DatasetType
<1> QED
  BY <1>1, <1>2

-----------------------------------------------------------------------------
(* The initial states satisfy the invariant. *)
LEMMA InitIInv == Init => IInv
<1> SUFFICES ASSUME Init PROVE IInv
  OBVIOUS
<1> USE PtpInstanceAssumption
<1>1. TypeOK
  <2>1. datasets \in DatasetType
    BY DEF Init, FromDefaultDs, DatasetType, DefaultDS, OwnIdentity, PortIdentity
  <2> QED
    BY <2>1 DEF Init, TypeOK, PortStates, Timers, MessageAge
<1>2. RemoteOfSlave /\ ForeignIsAcceptable /\ AtMostOneSlave /\ SlaveFollowsParent
      /\ MasterOnlyNeverSlave /\ TimersRun
  BY DEF Init, RemoteOfSlave, ForeignIsAcceptable, AtMostOneSlave,
         SlaveFollowsParent, MasterOnlyNeverSlave, TimersRun
<1>3. ParentIsAcceptable
  BY DEF Init, ParentIsAcceptable, FromDefaultDs
<1> QED
  BY <1>1, <1>2, <1>3 DEF IInv

(* The announce receipt timer preserves the invariant: the port leaves the *)
(* slave state and starts the timers of the state it enters.               *)
LEMMA ReceiptTimerStep ==
    ASSUME IInv, NEW p \in Ports, HandleAnnounceReceiptTimer(p)
    PROVE  IInv'
<1> USE DEF IInv, HandleAnnounceReceiptTimer
<1>1. TypeOK'
  <2>1. port_state' \in [Ports -> PortStates]
    BY DEF TypeOK, PortStates
  <2>2. timers' \in [Ports -> SUBSET Timers]
    <3>1. ((timers[p] \ {"announce_receipt"}) \union {"announce", "sync"}) \in SUBSET Timers
      BY DEF TypeOK, Timers
    <3> QED
      BY <3>1 DEF TypeOK
  <2>3. remote_master' \in [Ports -> PortIdentity \union {None}]
    BY DEF TypeOK
  <2> QED
    BY <2>1, <2>2, <2>3 DEF TypeOK
<1>2. RemoteOfSlave' /\ AtMostOneSlave' /\ SlaveFollowsParent' /\ MasterOnlyNeverSlave'
  BY MasterOnlyPorts
     DEF TypeOK, RemoteOfSlave, AtMostOneSlave, SlaveFollowsParent,
         MasterOnlyNeverSlave
<1>3. TimersRun'
  BY DEF TypeOK, TimersRun
<1>4. ForeignIsAcceptable' /\ ParentIsAcceptable'
  BY DEF ForeignIsAcceptable, ParentIsAcceptable
<1> QED
  BY <1>1, <1>2, <1>3, <1>4

(* The other timers preserve the invariant: each of them is started again  *)
(* in the state that needs it.                                             *)
LEMMA FireTimerStep ==
    ASSUME IInv, NEW p \in Ports,
           HandleAnnounceTimer(p) \/ HandleSyncTimer(p) \/ HandleDelayRequestTimer(p)
    PROVE  IInv'
<1> USE DEF IInv, HandleAnnounceTimer, HandleSyncTimer, HandleDelayRequestTimer, FireTimer
<1>1. TypeOK'
  BY DEF TypeOK, Timers
<1>2. RemoteOfSlave' /\ AtMostOneSlave' /\ SlaveFollowsParent' /\ MasterOnlyNeverSlave'
      /\ ForeignIsAcceptable' /\ ParentIsAcceptable'
  BY DEF RemoteOfSlave, AtMostOneSlave, SlaveFollowsParent, MasterOnlyNeverSlave,
         ForeignIsAcceptable, ParentIsAcceptable
<1>3. TimersRun'
  <2>1. PICK t \in Timers :
          /\ timers' = timers \/ timers' = [timers EXCEPT ![p] = @ \ {t}]
          /\ timers' = timers \/ t # "announce_receipt"
          /\ timers' = timers \/ port_state[p] # "Master" \/ t = "delay_request"
          /\ timers' = timers \/ port_state[p] # "Slave" \/ t # "delay_request"
    BY DEF Timers
  <2>2. port_state' = port_state
    OBVIOUS
  <2>3. CASE timers' = timers
    BY <2>2, <2>3 DEF TimersRun
  <2>4. CASE timers' = [timers EXCEPT ![p] = @ \ {t}] /\ timers' # timers
    <3>1. \A q \in Ports \ {p} : timers'[q] = timers[q]
      BY <2>4 DEF TypeOK
    <3>2. timers'[p] = timers[p] \ {t}
      BY <2>4 DEF TypeOK
    <3> QED
      BY <2>1, <2>2, <2>4, <3>1, <3>2 DEF TimersRun
  <2> QED
    BY <2>1, <2>3, <2>4
<1> QED
  BY <1>1, <1>2, <1>3

(* Faults and recoveries preserve the invariant: they only end the slave   *)
(* state.                                                                  *)
LEMMA FaultStep ==
    ASSUME IInv, NEW p \in Ports, MultiplePeerResponses(p) \/ RecoverPort(p)
    PROVE  IInv'
<1> USE DEF IInv, MultiplePeerResponses, RecoverPort
<1>1. TypeOK'
  BY DEF TypeOK, PortStates
<1>2. /\ port_state'[p] # "Slave"
      /\ remote_master'[p] = None
      /\ \A q \in Ports \ {p} : /\ port_state'[q] = port_state[q]
                                /\ remote_master'[q] = remote_master[q]
      /\ UNCHANGED <<datasets, failed>>
  BY DEF TypeOK, RemoteOfSlave
<1>5. RemoteOfSlave' /\ AtMostOneSlave' /\ SlaveFollowsParent' /\ MasterOnlyNeverSlave'
  BY <1>2, MasterOnlyPorts
     DEF RemoteOfSlave, AtMostOneSlave, SlaveFollowsParent, MasterOnlyNeverSlave
<1>4. TimersRun'
  BY DEF TypeOK, TimersRun
<1>3. ForeignIsAcceptable' /\ ParentIsAcceptable'
  BY DEF ForeignIsAcceptable, ParentIsAcceptable
<1> QED
  BY <1>1, <1>3, <1>4, <1>5

(* An announce message preserves the invariant: it changes the data sets   *)
(* only if it comes from the parent they name already.                     *)
LEMMA HandleAnnounceStep ==
    ASSUME IInv, NEW p \in Ports, NEW a \in Announces, NEW stored \in BOOLEAN,
           HandleAnnounce(p, a, stored)
    PROVE  IInv'
<1> USE DEF IInv
<1>1. /\ datasets' = IF FromParent(p, a) THEN FromAnnounce(a) ELSE datasets
      /\ \/ path_trace_ds' = path_trace_ds
         \/ path_trace_ds' = a.path_trace /\ a.path_trace # None
      /\ foreign' = IF stored THEN [foreign EXCEPT ![p][a] = 0] ELSE foreign
      /\ stored => /\ a.source_port_identity.clock_identity \in Acceptable
                   /\ a.source_port_identity.clock_identity # OwnClock
      /\ \/ timers' = timers
         \/ timers' = [timers EXCEPT ![p] = @ \union {"announce_receipt"}]
      /\ UNCHANGED <<default_ds, failed>>
  BY DEF HandleAnnounce, Registers
<1>2. \/ UNCHANGED <<port_state, remote_master, multiport_disable>>
      \/ /\ multiport_disable' = [multiport_disable EXCEPT ![p] = 0]
         /\ port_state' = [port_state EXCEPT ![p] = "Passive"]
         /\ remote_master' = [remote_master EXCEPT ![p] = None]
  BY DEF HandleAnnounce
<1>3. datasets'.parent_port_identity = datasets.parent_port_identity
  BY <1>1 DEF FromParent, FromAnnounce
<1>4. TypeOK'
  <2>1. port_state' \in [Ports -> PortStates]
    BY <1>2 DEF TypeOK, PortStates
  <2>2. remote_master' \in [Ports -> PortIdentity \union {None}]
    BY <1>2 DEF TypeOK
  <2>7. multiport_disable' \in [Ports -> Nat \union {None}]
    <3>1. 0 \in Nat \union {None}
      OBVIOUS
    <3> DEFINE Ages == Nat \union {None}
    <3> HIDE DEF Ages
    <3>2. multiport_disable \in [Ports -> Ages]
      BY DEF TypeOK, Ages
    <3>3. multiport_disable' \in [Ports -> Ages]
      BY <1>2, <3>1, <3>2 DEF Ages
    <3> QED
      BY <3>3 DEF Ages
  <2>3. foreign' \in [Ports -> [Announces -> MessageAge]]
    <3>1. 0 \in MessageAge
      BY PtpInstanceAssumption DEF MessageAge
    <3> QED
      BY <1>1, <3>1 DEF TypeOK
  <2>4. timers' \in [Ports -> SUBSET Timers]
    BY <1>1 DEF TypeOK, Timers
  <2>5. datasets' \in DatasetType
    BY <1>1, DatasetTypes DEF TypeOK
  <2>6. path_trace_ds' \in SUBSET Nat
    <3>1. a.path_trace \in (SUBSET Nat) \union {None}
      BY PtpInstanceAssumption DEF Announce
    <3>2. CASE path_trace_ds' = path_trace_ds
      BY <3>2 DEF TypeOK
    <3>3. CASE path_trace_ds' = a.path_trace /\ a.path_trace # None
      BY <3>1, <3>3
    <3> QED
      BY <1>1, <3>2, <3>3
  <2> QED
    BY <1>1, <2>1, <2>2, <2>3, <2>4, <2>5, <2>6, <2>7 DEF TypeOK
<1>5. RemoteOfSlave' /\ AtMostOneSlave' /\ SlaveFollowsParent' /\ MasterOnlyNeverSlave'
  BY <1>1, <1>2, <1>3, MasterOnlyPorts
     DEF TypeOK, RemoteOfSlave, AtMostOneSlave, SlaveFollowsParent,
         MasterOnlyNeverSlave
<1>6. TimersRun'
  BY <1>1, <1>2 DEF TypeOK, TimersRun
<1>7. ForeignIsAcceptable'
  BY <1>1 DEF TypeOK, ForeignIsAcceptable
<1>8. ParentIsAcceptable'
  BY <1>3 DEF ParentIsAcceptable
<1> QED
  BY <1>4, <1>5, <1>6, <1>7, <1>8

(* bmca() preserves the invariant: every port but the one that received    *)
(* the ebest leaves the slave state, and that one follows the new parent.  *)
LEMMA BmcaStep ==
    ASSUME IInv, Bmca
    PROVE  IInv'
<1> USE DEF IInv
<1>1. PICK lb \in LocalBests : \E ebest \in Ebest(lb) : BmcaWith(lb, ebest)
  BY DEF Bmca
<1>2. PICK ebest \in Ebest(lb) : BmcaWith(lb, ebest)
  BY <1>1
<1> DEFINE r(p) == Recommended(lb, ebest, p)
           own == \E p \in Ports : r(p) \in {"M1", "M2"}
<1>3. ASSUME NEW p \in Ports
      PROVE  /\ port_state'[p] = NextPortState(p, r(p))
             /\ NextPortState(p, r(p)) # "Slave" => remote_master'[p] = None
             /\ NextPortState(p, r(p)) = "Slave" /\ r(p) = "S1" =>
                   remote_master'[p] = lb[p].source_port_identity
             /\ timers'[p] = timers[p] \union PendingTimers(lb, p, r(p))
  BY <1>2 DEF BmcaWith
<1>4. ASSUME NEW p \in Ports
      PROVE  r(p) \in RecommendedStates /\ (r(p) = "None" => port_state[p] = "Listening")
  BY RecommendedType, RecommendedNone
<1>5. ASSUME NEW p \in Ports, r(p) = "S1"
      PROVE  /\ p = ebest
             /\ p \notin MasterOnly
             /\ port_state[p] # "Faulty"
             /\ lb[p] \in Announces
             /\ foreign[p][lb[p]] # None
             /\ ~own
             /\ datasets' = FromAnnounce(lb[p])
  <2>1. p = ebest /\ p \in Eligible(lb)
    BY <1>5, RecommendedSlave
  <2>2. p \notin MasterOnly /\ port_state[p] # "Faulty" /\ lb[p] # None
    BY <2>1 DEF Eligible
  <2>3. lb[p] \in Announces /\ foreign[p][lb[p]] # None
    BY <2>2 DEF LocalBests
  <2>4. ~own
    BY <1>5, NoSlaveWithOwn
  <2>5. datasets' = FromAnnounce(lb[ebest])
    BY <1>2, <1>5, <2>4 DEF BmcaWith
  <2> QED
    BY <2>1, <2>2, <2>3, <2>4, <2>5
<1>6. ASSUME NEW p \in Ports, port_state'[p] = "Slave"
      PROVE  r(p) = "S1"
  BY <1>3, <1>6, NextSlave
<1>7. \/ datasets' = datasets
      \/ datasets' = FromDefaultDs(default_ds)
      \/ \E p \in Ports : r(p) = "S1"
  BY <1>2 DEF BmcaWith
<1>8. /\ failed' \subseteq failed \union {"slave_only", "master_only"}
      /\ "master_only" \in failed' => \/ "master_only" \in failed
                                      \/ \E p \in MasterOnly : r(p) = "S1"
  BY <1>2 DEF BmcaWith
<1> HIDE DEF r, own
<1>9. RemoteOfSlave'
  BY <1>3 DEF RemoteOfSlave
<1>10. AtMostOneSlave'
  BY <1>5, <1>6 DEF AtMostOneSlave
<1>11. SlaveFollowsParent'
  <2> SUFFICES ASSUME NEW p \in Ports, port_state'[p] = "Slave"
               PROVE  remote_master'[p] = datasets'.parent_port_identity
    BY DEF SlaveFollowsParent
  <2>1. remote_master'[p] = lb[p].source_port_identity
    BY <1>3, <1>6
  <2>2. datasets' = FromAnnounce(lb[p])
    BY <1>5, <1>6
  <2> QED
    BY <2>1, <2>2 DEF FromAnnounce
<1>12. MasterOnlyNeverSlave'
  BY <1>5, <1>6, <1>8, MasterOnlyPorts DEF MasterOnlyNeverSlave
<1>13. TimersRun'
  <2>1. ASSUME NEW p \in Ports, port_state'[p] = "Slave"
        PROVE  {"announce_receipt", "delay_request"} \subseteq timers'[p]
    <3>1. r(p) = "S1" /\ port_state[p] # "Faulty"
      BY <1>5, <1>6, <2>1
    <3>2. CASE remote_master[p] = lb[p].source_port_identity
      <4>1. lb[p].source_port_identity # None
        BY <1>5, <3>1, PtpInstanceAssumption DEF Announce
      <4>2. port_state[p] = "Slave"
        BY <3>2, <4>1 DEF RemoteOfSlave
      <4> QED
        BY <1>3, <4>2 DEF TimersRun
    <3>3. CASE remote_master[p] # lb[p].source_port_identity
      <4>1. PendingTimers(lb, p, r(p)) = {"announce_receipt", "delay_request"}
        BY <3>1, <3>3 DEF PendingTimers, Masterly
      <4> QED
        BY <1>3, <4>1
    <3> QED
      BY <3>2, <3>3
  <2>2. ASSUME NEW p \in Ports, port_state'[p] = "Master"
        PROVE  {"announce", "sync"} \subseteq timers'[p]
    <3>1. /\ r(p) \in Masterly
          /\ port_state[p] # "Faulty"
          /\ ~default_ds.slave_only
          /\ multiport_disable[p] = None
      BY <1>3, <1>4, <2>2 DEF NextPortState, RecommendedStates, Masterly
    <3>2. CASE port_state[p] = "Master"
      BY <1>3, <3>2 DEF TimersRun
    <3>3. CASE port_state[p] # "Master"
      <4>1. PendingTimers(lb, p, r(p)) = {"announce", "sync"}
        BY <3>1, <3>3 DEF PendingTimers, Masterly
      <4> QED
        BY <1>3, <4>1
    <3> QED
      BY <3>2, <3>3
  <2> QED
    BY <2>1, <2>2 DEF TimersRun
<1>14. ForeignIsAcceptable'
  BY <1>2 DEF BmcaWith, StepAge, TypeOK, ForeignIsAcceptable
<1>15. ParentIsAcceptable'
  <2>1. CASE datasets' = datasets
    BY <2>1 DEF ParentIsAcceptable
  <2>2. CASE datasets' = FromDefaultDs(default_ds)
    BY <2>2 DEF ParentIsAcceptable, FromDefaultDs
  <2>3. ASSUME NEW p \in Ports, r(p) = "S1"
        PROVE  ParentIsAcceptable'
    BY <1>5, <2>3 DEF ParentIsAcceptable, FromAnnounce, ForeignIsAcceptable
  <2> QED
    BY <1>7, <2>1, <2>2, <2>3
<1>16. TypeOK'
  <2>1. port_state' \in [Ports -> PortStates]
    <3>1. port_state' = [p \in Ports |-> NextPortState(p, r(p))]
      BY <1>2 DEF BmcaWith, r
    <3>2. ASSUME NEW p \in Ports PROVE NextPortState(p, r(p)) \in PortStates
      <4>1. port_state[p] \in PortStates /\ default_ds.slave_only \in BOOLEAN
        BY DEF TypeOK, DefaultDS
      <4> QED
        BY <1>4, <4>1 DEF NextPortState, RecommendedStates, Masterly, PortStates
    <3> QED
      BY <3>1, <3>2
  <2>2. remote_master' \in [Ports -> PortIdentity \union {None}]
    <3>1. \E f : remote_master' = [p \in Ports |-> f[p]]
      <4> DEFINE f == [p \in Ports |->
              CASE NextPortState(p, r(p)) # "Slave" -> None
                [] NextPortState(p, r(p)) = "Slave" /\ r(p) = "S1" ->
                      lb[p].source_port_identity
                [] NextPortState(p, r(p)) = "Slave" /\ r(p) # "S1" -> remote_master[p]]
      <4>1. remote_master' = f
        BY <1>2 DEF BmcaWith, r
      <4>2. f = [p \in Ports |-> f[p]]
        OBVIOUS
      <4> QED
        BY <4>1, <4>2
    <3>2. ASSUME NEW p \in Ports PROVE remote_master'[p] \in PortIdentity \union {None}
      <4>1. CASE NextPortState(p, r(p)) # "Slave"
        BY <1>3, <4>1
      <4>2. CASE NextPortState(p, r(p)) = "Slave"
        <5>1. port_state'[p] = "Slave"
          BY <1>3, <4>2
        <5>2. r(p) = "S1" /\ lb[p] \in Announces
          BY <1>5, <1>6, <5>1
        <5>3. lb[p].source_port_identity \in PortIdentity
          BY <5>2, PtpInstanceAssumption DEF Announce
        <5> QED
          BY <1>3, <4>2, <5>2, <5>3
      <4> QED
        BY <4>1, <4>2
    <3> QED
      BY <3>1, <3>2
  <2>3. multiport_disable' \in [Ports -> Nat \union {None}]
    <3>1. multiport_disable' = [p \in Ports |->
            IF multiport_disable[p] # None /\ multiport_disable[p] + 1 < AnnounceRounds[p]
            THEN multiport_disable[p] + 1 ELSE None]
      BY <1>2 DEF BmcaWith
    <3>2. ASSUME NEW p \in Ports, multiport_disable[p] # None
          PROVE  multiport_disable[p] + 1 \in Nat
      <4>1. multiport_disable[p] \in Nat
        BY <3>2 DEF TypeOK
      <4> QED
        BY <4>1
    <3> QED
      BY <3>1, <3>2
  <2>4. foreign' \in [Ports -> [Announces -> MessageAge]]
    <3>1. ASSUME NEW n \in MessageAge PROVE StepAge(n) \in MessageAge
      BY PtpInstanceAssumption DEF StepAge, MessageAge
    <3>2. foreign' = [p \in Ports |-> [a \in Announces |-> StepAge(foreign[p][a])]]
      BY <1>2 DEF BmcaWith
    <3>3. ASSUME NEW p \in Ports, NEW a \in Announces
          PROVE  foreign[p][a] \in MessageAge
      BY DEF TypeOK
    <3> QED
      BY <3>1, <3>2, <3>3
  <2>5. timers' \in [Ports -> SUBSET Timers]
    <3>1. timers' = [p \in Ports |-> timers[p] \union PendingTimers(lb, p, r(p))]
      BY <1>2 DEF BmcaWith, r
    <3>2. ASSUME NEW p \in Ports PROVE PendingTimers(lb, p, r(p)) \in SUBSET Timers
      BY DEF PendingTimers, Timers
    <3>3. ASSUME NEW p \in Ports PROVE timers[p] \in SUBSET Timers
      BY DEF TypeOK
    <3> QED
      BY <3>1, <3>2, <3>3
  <2>6. datasets' \in DatasetType
    BY <1>5, <1>7, DatasetTypes DEF TypeOK
  <2>7. /\ path_trace_ds' \in SUBSET Nat
        /\ default_ds' \in DefaultDS
        /\ failed' \subseteq {"slave_only", "master_only"}
    <3>1. path_trace_ds' = {} \/ path_trace_ds' = path_trace_ds
      BY <1>2 DEF BmcaWith
    <3>2. default_ds' = default_ds
      BY <1>2 DEF BmcaWith
    <3> QED
      BY <1>8, <3>1, <3>2 DEF TypeOK
  <2> QED
    BY <2>1, <2>2, <2>3, <2>4, <2>5, <2>6, <2>7 DEF TypeOK
<1> QED
  BY <1>9, <1>10, <1>11, <1>12, <1>13, <1>14, <1>15, <1>16

(* Changing the configuration preserves the invariant. *)
LEMMA ConfigStep ==
    ASSUME IInv,
           \/ \E q \in Qualities : SetClockQuality(q)
           \/ \E b \in BOOLEAN : SetSlaveOnly(b)
    PROVE  IInv'
<1> USE DEF IInv, SetClockQuality, SetSlaveOnly
<1>1. default_ds' \in DefaultDS
  BY DEF TypeOK, DefaultDS
<1>2. UNCHANGED <<port_state, remote_master, multiport_disable, foreign, timers,
                  datasets, path_trace_ds, failed>>
  OBVIOUS
<1> QED
  BY <1>1, <1>2
     DEF TypeOK, RemoteOfSlave, ForeignIsAcceptable, AtMostOneSlave,
         SlaveFollowsParent, MasterOnlyNeverSlave, TimersRun, ParentIsAcceptable

(* Every step preserves the invariant. *)
LEMMA NextIInv == IInv /\ [Next]_vars => IInv'
<1> SUFFICES ASSUME IInv, [Next]_vars PROVE IInv'
  OBVIOUS
<1>1. CASE UNCHANGED vars
  BY <1>1 DEF vars, IInv, TypeOK, RemoteOfSlave, ForeignIsAcceptable, AtMostOneSlave,
              SlaveFollowsParent, MasterOnlyNeverSlave, TimersRun, ParentIsAcceptable
<1>2. ASSUME NEW p \in Ports, HandleAnnounceReceiptTimer(p) PROVE IInv'
  BY <1>2, ReceiptTimerStep
<1>3. ASSUME NEW p \in Ports,
             HandleAnnounceTimer(p) \/ HandleSyncTimer(p) \/ HandleDelayRequestTimer(p)
      PROVE  IInv'
  BY <1>3, FireTimerStep
<1>4. ASSUME NEW p \in Ports, MultiplePeerResponses(p) \/ RecoverPort(p) PROVE IInv'
  BY <1>4, FaultStep
<1>5. ASSUME NEW p \in Ports, NEW a \in Announces, NEW stored \in BOOLEAN,
             HandleAnnounce(p, a, stored)
      PROVE  IInv'
  BY <1>5, HandleAnnounceStep
<1>6. CASE Bmca
  BY <1>6, BmcaStep
<1>7. CASE \/ \E q \in Qualities : SetClockQuality(q)
           \/ \E b \in BOOLEAN : SetSlaveOnly(b)
  BY <1>7, ConfigStep
<1> QED
  BY <1>1, <1>2, <1>3, <1>4, <1>5, <1>6, <1>7 DEF Next

(* The inductive invariant holds in every reachable state. *)
THEOREM Invariance == Spec => []IInv
BY InitIInv, NextIInv, PTL DEF Spec

(* Type correctness of the port states, the data sets and the timers. *)
THEOREM TypeCorrect == Spec => []TypeOK
BY Invariance, PTL DEF IInv

(* Two ports of an instance are never slaves at the same time. *)
THEOREM OneSlave == Spec => []AtMostOneSlave
BY Invariance, PTL DEF IInv

(* A slave measures against the master the shared data sets call parent. *)
THEOREM SlaveAndParentAgree == Spec => []SlaveFollowsParent
BY Invariance, PTL DEF IInv

(* No master-only port is ever a slave, or recommended to be one. *)
THEOREM MasterOnlyRespected == Spec => []MasterOnlyNeverSlave
BY Invariance, PTL DEF IInv

(* Slaves and masters always have the timers running that they depend on. *)
THEOREM TimersAlwaysRun == Spec => []TimersRun
BY Invariance, PTL DEF IInv

(* Every parent was on the acceptable master list. *)
THEOREM AcceptableParent == Spec => []ParentIsAcceptable
BY Invariance, PTL DEF IInv

-----------------------------------------------------------------------------
(* After bmca() a slave follows a master that its own port heard within    *)
(* the time window, and the data sets are those of that master's message.  *)
THEOREM HeardMasterOnly == Spec => SlaveIsHeard
<1> DEFINE SlavesHeard ==
      \A p \in Ports : port_state'[p] = "Slave" =>
         \/ \E a \in Announces :
               /\ foreign[p][a] # None
               /\ remote_master'[p] = a.source_port_identity
               /\ datasets' = FromAnnounce(a)
         \/ ~Bmca
<1>1. ASSUME Bmca, NEW p \in Ports, port_state'[p] = "Slave"
      PROVE  \E a \in Announces :
               /\ foreign[p][a] # None
               /\ remote_master'[p] = a.source_port_identity
               /\ datasets' = FromAnnounce(a)
  <2>1. PICK lb \in LocalBests : \E ebest \in Ebest(lb) : BmcaWith(lb, ebest)
    BY <1>1 DEF Bmca
  <2>2. PICK ebest \in Ebest(lb) : BmcaWith(lb, ebest)
    BY <2>1
  <2>3. port_state'[p] = NextPortState(p, Recommended(lb, ebest, p))
    BY <2>2 DEF BmcaWith
  <2>4. /\ Recommended(lb, ebest, p) = "S1"
        /\ remote_master'[p] = lb[p].source_port_identity
    <3>1. Recommended(lb, ebest, p) = "S1"
      BY <1>1, <2>3, NextSlave
    <3> QED
      BY <1>1, <2>2, <2>3, <3>1 DEF BmcaWith
  <2>5. p = ebest /\ p \in Eligible(lb)
    BY <2>4, RecommendedSlave
  <2>6. lb[p] \in Announces /\ foreign[p][lb[p]] # None
    BY <2>5 DEF Eligible, LocalBests
  <2>7. ~\E q \in Ports : Recommended(lb, ebest, q) \in {"M1", "M2"}
    BY <2>4, NoSlaveWithOwn
  <2>8. datasets' = FromAnnounce(lb[p])
    BY <2>2, <2>4, <2>5, <2>7 DEF BmcaWith
  <2> QED
    BY <2>4, <2>6, <2>8
<1>2. [Next]_vars => [SlavesHeard]_vars
  BY <1>1
<1> QED
  BY <1>2, PTL DEF Spec, SlaveIsHeard

(* A slave-only instance gets no new master, and bmca() leaves it none. *)
THEOREM SlaveOnlyRespected == Spec => SlaveOnlyNoMaster
<1> DEFINE NoNewMaster ==
      default_ds.slave_only =>
        \A p \in Ports : port_state'[p] = "Master" => port_state[p] = "Master" /\ ~Bmca
<1>1. ASSUME Bmca, default_ds.slave_only, NEW p \in Ports
      PROVE  port_state'[p] # "Master"
  <2>1. PICK lb \in LocalBests : \E ebest \in Ebest(lb) : BmcaWith(lb, ebest)
    BY <1>1 DEF Bmca
  <2>2. PICK ebest \in Ebest(lb) : BmcaWith(lb, ebest)
    BY <2>1
  <2> DEFINE r == Recommended(lb, ebest, p)
  <2>3. port_state'[p] = NextPortState(p, r)
    BY <2>2 DEF BmcaWith
  <2>4. r \in RecommendedStates /\ (r = "None" => port_state[p] = "Listening")
    BY RecommendedType, RecommendedNone
  <2> HIDE DEF r
  <2> QED
    BY <1>1, <2>3, <2>4 DEF NextPortState, RecommendedStates, Masterly
<1>2. TypeOK /\ [Next]_vars => [NoNewMaster]_vars
  <2> SUFFICES ASSUME TypeOK, Next, default_ds.slave_only, NEW p \in Ports,
                      port_state'[p] = "Master"
               PROVE  port_state[p] = "Master" /\ ~Bmca
    OBVIOUS
  <2>1. ~Bmca
    BY <1>1
  <2>2. ASSUME NEW q \in Ports, HandleAnnounceReceiptTimer(q)
        PROVE  port_state[p] = "Master"
    BY <2>2 DEF HandleAnnounceReceiptTimer, TypeOK
  <2>3. ASSUME NEW q \in Ports, MultiplePeerResponses(q) \/ RecoverPort(q)
        PROVE  port_state[p] = "Master"
    BY <2>3 DEF MultiplePeerResponses, RecoverPort, TypeOK
  <2>4. ASSUME NEW q \in Ports, NEW a \in Announces, NEW stored \in BOOLEAN,
               HandleAnnounce(q, a, stored)
        PROVE  port_state[p] = "Master"
    <3>1. port_state' = port_state \/ port_state' = [port_state EXCEPT ![q] = "Passive"]
      BY <2>4 DEF HandleAnnounce
    <3> QED
      BY <3>1 DEF TypeOK
  <2>5. \/ port_state' = port_state
        \/ \E q \in Ports : \/ HandleAnnounceReceiptTimer(q)
                            \/ MultiplePeerResponses(q) \/ RecoverPort(q)
                            \/ \E a \in Announces, stored \in BOOLEAN :
                                   HandleAnnounce(q, a, stored)
    BY <2>1 DEF Next, HandleAnnounceTimer, HandleSyncTimer, HandleDelayRequestTimer,
                FireTimer, SetClockQuality, SetSlaveOnly
  <2> QED
    BY <2>1, <2>2, <2>3, <2>4, <2>5
<1> QED
  BY <1>2, TypeCorrect, PTL DEF Spec, SlaveOnlyNoMaster
=============================================================================
