---------------------------- MODULE PtpInstance ----------------------------
(***************************************************************************)
(* A PTP instance and its ports: the port state machine, the state        *)
(* decision of the best master clock algorithm (BMCA) over all ports, the  *)
(* data sets the ports share, and the timers the ports ask their caller to *)
(* run.  From statime/src/ptp_instance.rs, port/mod.rs, port/bmca.rs,      *)
(* port/master.rs, port/slave.rs and bmc/bmca.rs.                          *)
(*                                                                         *)
(* Handlers of one port run one at a time (they take &mut self), handlers  *)
(* of different ports interleave, and bmca() runs when every port has been *)
(* handed over to it (module BmcaRendezvous); so each handler is an action *)
(* and so is bmca().                                                       *)
(*                                                                         *)
(* What is abstracted.  A timer is only running or not: it may fire at any *)
(* moment while it runs.  Of the foreign master list of a port (module     *)
(* ForeignMaster) only the messages it may hold and their ages, in runs of *)
(* bmca(), are kept; whether a message is stored, and which of the stored  *)
(* ones is the erbest, is left open, because both depend on sequence ids   *)
(* and on how often each master was heard.  The measurements (module       *)
(* SlavePort) matter here only where they move a port into or out of the   *)
(* faulty state.                                                           *)
(***************************************************************************)
EXTENDS DatasetComparison, FiniteSets

CONSTANTS
    Ports,          \* port numbers of this instance
    OwnClock,       \* its clock identity
    Qualities,      \* the attribute sequences set_clock_quality may choose
    MasterOnly,     \* ports configured master_only
    P2P,            \* ports with the peer delay mechanism, the others use E2E
    Announces,      \* announce messages that may arrive
    Acceptable,     \* clock identities on the acceptable master list
    TimeWindow,     \* age, in runs of bmca(), at which a message is dropped
    AnnounceRounds, \* bmca() runs in the announce interval of each port
    PathTrace,      \* path_trace_ds.enable
    None            \* Option::None

(* An announce message: its sender, what it says of the grandmaster, and   *)
(* the clock identities in its PATH_TRACE TLV (None without such a TLV).   *)
Announce ==
    [source_port_identity   : PortIdentity,
     grandmaster_identity   : Nat,
     grandmaster_attributes : [1..5 -> Nat],
     steps_removed          : Nat,
     path_trace             : (SUBSET Nat) \union {None}]

ASSUME PtpInstanceAssumption ==
    /\ Ports \subseteq Nat \ {0}
    /\ OwnClock \in Nat
    /\ Qualities \subseteq [1..5 -> Nat] /\ Qualities # {}
    /\ MasterOnly \subseteq Ports
    /\ P2P \subseteq Ports
    /\ Announces \subseteq Announce
    /\ None \notin Announces
    /\ None \notin PortIdentity
    /\ None \notin Nat
    /\ TimeWindow \in Nat \ {0}
    /\ AnnounceRounds \in [Ports -> Nat \ {0}]
    /\ PathTrace \in BOOLEAN

VARIABLES
    port_state,        \* PortState of each port
    remote_master,     \* SlaveState.remote_master of a port that is a slave
    multiport_disable, \* age of the message that disabled the port, or None
    foreign,           \* foreign[p][a]: age of message a on port p, or None
    timers,            \* the timers that are running, for each port
    default_ds,        \* clock_identity, attributes (quality), slave_only
    datasets,          \* parent_ds, current_ds and time_properties_ds
    path_trace_ds,     \* path_trace_ds.list
    failed             \* the debug_assert!s that have failed

vars == <<port_state, remote_master, multiport_disable, foreign, timers,
          default_ds, datasets, path_trace_ds, failed>>

PortStates == {"Faulty", "Listening", "Master", "Passive", "Slave"}
Timers == {"announce_receipt", "announce", "sync", "delay_request"}

OwnIdentity(p) == [clock_identity |-> OwnClock, port_number |-> p]

(* One more than a u16, in a release build. *)
NextStep(steps) == IF steps = 65535 THEN 0 ELSE steps + 1

FromAnnounceOfGrandmaster(a) ==
    [parent_port_identity   |-> [clock_identity |-> a.grandmaster_identity,
                                 port_number    |-> a.source_port_identity.port_number],
     grandmaster_identity   |-> a.grandmaster_identity,
     grandmaster_attributes |-> a.grandmaster_attributes,
     steps_removed          |-> NextStep(a.steps_removed)]

(* parent_ds, current_ds and time_properties_ds are always written         *)
(* together, either from an announce message or from default_ds.           *)
FromAnnounce(a) ==
    [parent_port_identity   |-> a.source_port_identity,
     grandmaster_identity   |-> a.grandmaster_identity,
     grandmaster_attributes |-> a.grandmaster_attributes,
     steps_removed          |-> NextStep(a.steps_removed)]

FromDefaultDs(d) ==
    [parent_port_identity   |-> OwnIdentity(0),
     grandmaster_identity   |-> d.clock_identity,
     grandmaster_attributes |-> d.attributes,
     steps_removed          |-> 0]

(* What of InternalDefaultDS the decisions depend on. *)
DefaultDS ==
    [clock_identity : {OwnClock}, attributes : Qualities, slave_only : BOOLEAN]

(* PtpInstance::new and Port::new: a port starts listening, with the       *)
(* announce receipt timer as its only pending action.                      *)
Init ==
    /\ port_state = [p \in Ports |-> "Listening"]
    /\ remote_master = [p \in Ports |-> None]
    /\ multiport_disable = [p \in Ports |-> None]
    /\ foreign = [p \in Ports |-> [a \in Announces |-> None]]
    /\ timers = [p \in Ports |-> {"announce_receipt"}]
    /\ default_ds \in DefaultDS
    /\ datasets = FromDefaultDs(default_ds)
    /\ path_trace_ds = {}
    /\ failed = {}

-----------------------------------------------------------------------------
(* The announce receipt timer goes off. *)
HandleAnnounceReceiptTimer(p) ==
    /\ "announce_receipt" \in timers[p]
    /\ IF default_ds.slave_only
       THEN /\ port_state' = [port_state EXCEPT ![p] = "Listening"]
            /\ UNCHANGED timers
       ELSE /\ port_state' = [port_state EXCEPT ![p] = "Master"]
            /\ timers' = [timers EXCEPT ![p] =
                             (@ \ {"announce_receipt"}) \union {"announce", "sync"}]
    /\ remote_master' = [remote_master EXCEPT ![p] = None]
    /\ UNCHANGED <<multiport_disable, foreign, default_ds, datasets,
                   path_trace_ds, failed>>

(* A timer that restarts itself while the port is in the state it serves,  *)
(* and is not started again otherwise: send_announce, send_sync,           *)
(* send_delay_request.                                                     *)
FireTimer(p, timer, restarts) ==
    /\ timer \in timers[p]
    /\ timers' = IF restarts THEN timers ELSE [timers EXCEPT ![p] = @ \ {timer}]
    /\ UNCHANGED <<port_state, remote_master, multiport_disable, foreign,
                   default_ds, datasets, path_trace_ds, failed>>

HandleAnnounceTimer(p) == FireTimer(p, "announce", port_state[p] = "Master")

HandleSyncTimer(p) == FireTimer(p, "sync", port_state[p] = "Master")

HandleDelayRequestTimer(p) ==
    FireTimer(p, "delay_request", p \in P2P \/ port_state[p] = "Slave")

(* handle_peer_delay_response(_follow_up): two devices answered the same   *)
(* peer delay request.  A port that sends peer delay requests never stops: *)
(* its timer runs.                                                         *)
MultiplePeerResponses(p) ==
    /\ p \in P2P /\ "delay_request" \in timers[p]
    /\ port_state' = [port_state EXCEPT ![p] = "Faulty"]
    /\ remote_master' = [remote_master EXCEPT ![p] = None]
    /\ UNCHANGED <<multiport_disable, foreign, timers, default_ds, datasets,
                   path_trace_ds, failed>>

(* extract_measurement: a peer delay measurement of a faulty port is       *)
(* complete.                                                               *)
RecoverPort(p) ==
    /\ port_state[p] = "Faulty"
    /\ port_state' = [port_state EXCEPT ![p] = "Listening"]
    /\ UNCHANGED <<remote_master, multiport_disable, foreign, timers, default_ds,
                   datasets, path_trace_ds, failed>>

-----------------------------------------------------------------------------
(* Port p is a slave of the sender of a. *)
FromParent(p, a) ==
    /\ port_state[p] = "Slave"
    /\ a.source_port_identity = datasets.parent_port_identity

RegistersAny(p, a) == a.source_port_identity # OwnIdentity(p)

(* Bmca::register_announce_message accepts message a on port p. *)
Registers(p, a) ==
    /\ a.source_port_identity # OwnIdentity(p)
    /\ a.source_port_identity.clock_identity \in Acceptable

(* handle_announce: first the data sets, if the message is from the parent *)
(* of a slave; then, unless the path trace shows a loop, the message is    *)
(* registered, and one from a lower port of this same clock disables the   *)
(* port.  stored: the foreign master list keeps the message.               *)
HandleAnnounce(p, a, stored) ==
    LET traced   == FromParent(p, a) /\ PathTrace /\ a.path_trace # None
        loop     == traced /\ OwnClock \in a.path_trace
        accepted == ~loop /\ Registers(p, a)
        ownClock == a.source_port_identity.clock_identity = OwnClock
        disables == accepted /\ ownClock /\ p > a.source_port_identity.port_number
    IN  /\ stored => accepted /\ ~ownClock /\ a.steps_removed < 255
        /\ datasets' = IF FromParent(p, a) THEN FromAnnounce(a) ELSE datasets
        /\ path_trace_ds' = IF traced /\ ~loop THEN a.path_trace ELSE path_trace_ds
        /\ foreign' = IF stored THEN [foreign EXCEPT ![p][a] = 0] ELSE foreign
        /\ timers' = IF accepted
                     THEN [timers EXCEPT ![p] = @ \union {"announce_receipt"}]
                     ELSE timers
        /\ IF disables
           THEN /\ multiport_disable' = [multiport_disable EXCEPT ![p] = 0]
                /\ port_state' = [port_state EXCEPT ![p] = "Passive"]
                /\ remote_master' = [remote_master EXCEPT ![p] = None]
           ELSE UNCHANGED <<multiport_disable, port_state, remote_master>>
        /\ UNCHANGED <<default_ds, failed>>

-----------------------------------------------------------------------------
(* The state decision.  local_best[p] is the erbest of port p. *)

LocalBests ==
    {lb \in [Ports -> Announces \union {None}] :
        \A p \in Ports : lb[p] # None => foreign[p][lb[p]] # None}

EligibleMasterOnly(lb) == {p \in Ports : port_state[p] # "Faulty" /\ lb[p] # None}

(* best_local_announce_message_for_bmca *)
Eligible(lb) ==
    {p \in Ports \ MasterOnly : port_state[p] # "Faulty" /\ lb[p] # None}

CompareErbest(lb, p, q) ==
    Compare(FromAnnounceMessage(lb[p], OwnIdentity(p)),
            FromAnnounceMessage(lb[q], OwnIdentity(q)))

(* The ports whose erbest is better than that of every other port.  Two    *)
(* ports never tie, their numbers differ; but three may go round in a      *)
(* circle, when messages disagree on the attributes of one grandmaster     *)
(* (module FindBest), and then there is no such port.                      *)
Winners(lb) ==
    {p \in Eligible(lb) : \A q \in Eligible(lb) \ {p} :
        AsOrdering(CompareErbest(lb, p, q)) = 1}

(* The port that received the ebest: max_by over the erbests of the ports. *)
(* It always returns one of them; which one of a circle depends on the     *)
(* order of the ports, and is left open.                                   *)
Ebest(lb) ==
    CASE Eligible(lb) = {} -> {None}
      [] Eligible(lb) # {} /\ Winners(lb) # {} -> Winners(lb)
      [] Eligible(lb) # {} /\ Winners(lb) = {} -> Eligible(lb)

(* compare_d0_best: the erbest of port p is better than our own clock. *)
OwnIsWorse(lb, p) ==
    /\ p # None
    /\ lb[p] # None
    /\ AsOrdering(Compare(FromOwnData(default_ds),
                          FromAnnounceMessage(lb[p], OwnIdentity(p)))) = -1

RecommendedOnlyIfHeard(lb, ebest, p) ==
    CASE lb[p] = None /\ port_state[p] # "Slave" -> "None"
      [] lb[p] # None \/ port_state[p] = "Slave" ->
         IF ~OwnIsWorse(lb, ebest) THEN "M2" ELSE IF ebest = p THEN "S1" ELSE "M3"

RecommendedKeepsSilent(lb, ebest, p) ==
    CASE lb[p] = None /\ port_state[p] \in {"Listening", "Slave"} -> "None"
      [] lb[p] # None \/ port_state[p] \notin {"Listening", "Slave"} ->
         IF ~OwnIsWorse(lb, ebest) THEN "M2" ELSE IF ebest = p THEN "S1" ELSE "M3"

(* calculate_recommended_state *)
Recommended(lb, ebest, p) ==
    CASE lb[p] = None /\ port_state[p] = "Listening" -> "None"
      [] OTHER ->
         IF default_ds.attributes[2] \in 1..127
         THEN IF OwnIsWorse(lb, p) THEN "P1" ELSE "M1"
         ELSE CASE ~OwnIsWorse(lb, ebest) -> "M2"
                [] OTHER ->
                   CASE lb[p] = None -> "M3"
                     [] ebest = p    -> "S1"
                     [] OTHER        ->
                        IF CompareErbest(lb, ebest, p) = "BetterByTopology"
                        THEN "P2" ELSE "M3"

Masterly == {"M1", "M2", "M3"}

NextPortStateKeepsSlave(p, r) ==
    CASE r = "None" -> port_state[p]
      [] r = "S1" -> "Slave"
      [] r \in {"P1", "P2"} -> IF port_state[p] = "Slave" THEN "Slave" ELSE "Passive"
      [] r \in Masterly -> IF port_state[p] = "Faulty" THEN "Faulty"
                           ELSE IF default_ds.slave_only THEN "Listening" ELSE "Master"

NextPortStateAnyMaster(p, r) ==
    CASE r = "None" -> port_state[p]
      [] r = "S1" -> "Slave"
      [] r \in {"P1", "P2"} -> "Passive"
      [] r \in Masterly -> "Master"

(* set_recommended_port_state: the state that recommendation r leads to. *)
NextPortState(p, r) ==
    CASE r = "None" -> port_state[p]
      [] r = "S1" -> IF port_state[p] = "Faulty" THEN "Faulty" ELSE "Slave"
      [] r \in {"P1", "P2"} -> IF port_state[p] = "Faulty" THEN "Faulty" ELSE "Passive"
      [] r \in Masterly ->
         CASE default_ds.slave_only ->
                 IF port_state[p] = "Faulty" THEN "Faulty" ELSE "Listening"
           [] ~default_ds.slave_only /\ multiport_disable[p] # None -> "Passive"
           [] ~default_ds.slave_only /\ multiport_disable[p] = None ->
                 IF port_state[p] = "Faulty" THEN "Faulty" ELSE "Master"

PendingTimersNoDelay(lb, p, r) ==
    CASE r = "S1" -> {"announce_receipt"}
      [] r \in Masterly -> {"announce", "sync"}
      [] OTHER -> {}

(* ... and its pending actions: the timers that end_bmca() starts. *)
PendingTimers(lb, p, r) ==
    LET st == port_state[p] IN
    CASE r = "S1" /\ st # "Faulty" /\ remote_master[p] # lb[p].source_port_identity ->
            {"announce_receipt", "delay_request"}
      [] r \in Masterly /\ default_ds.slave_only /\ st \notin {"Faulty", "Listening"} ->
            {"announce_receipt"}
      [] r \in Masterly /\ ~default_ds.slave_only /\ multiport_disable[p] = None
            /\ st \notin {"Faulty", "Master"} ->
            {"announce", "sync"}
      [] OTHER -> {}

StepAgeWithoutPurge(age) == IF age = None THEN None ELSE age + 1

(* ForeignMaster::step_age: every message gets older by the interval of    *)
(* bmca(), and purge_old_messages retains those below the time window.     *)
StepAge(age) ==
    IF age # None /\ age + 1 < TimeWindow THEN age + 1 ELSE None

(* PtpInstanceState::bmca: the decision for every port, the data sets of   *)
(* the instance, and the ages of the announce messages.                    *)
BmcaWith(lb, ebest) ==
    LET r == [p \in Ports |-> Recommended(lb, ebest, p)]
        own == \E p \in Ports : r[p] \in {"M1", "M2"}
        slaves == {p \in Ports : r[p] = "S1"}
    IN  /\ port_state' = [p \in Ports |-> NextPortState(p, r[p])]
        /\ remote_master' = [p \in Ports |->
              CASE NextPortState(p, r[p]) # "Slave" -> None
                [] NextPortState(p, r[p]) = "Slave" /\ r[p] = "S1" ->
                      lb[p].source_port_identity
                [] NextPortState(p, r[p]) = "Slave" /\ r[p] # "S1" -> remote_master[p]]
        /\ timers' = [p \in Ports |-> timers[p] \union PendingTimers(lb, p, r[p])]
        /\ datasets' = CASE own -> FromDefaultDs(default_ds)
                         [] ~own /\ slaves # {} -> FromAnnounce(lb[ebest])
                         [] OTHER -> datasets
        /\ path_trace_ds' = IF own THEN {} ELSE path_trace_ds
        /\ failed' = failed
              \union {x \in {"slave_only"} : own /\ default_ds.slave_only}
              \union {x \in {"master_only"} : slaves \cap MasterOnly # {}}
        /\ multiport_disable' = [p \in Ports |->
              IF multiport_disable[p] # None /\ multiport_disable[p] + 1 < AnnounceRounds[p]
              THEN multiport_disable[p] + 1 ELSE None]
        /\ foreign' = [p \in Ports |-> [a \in Announces |-> StepAge(foreign[p][a])]]
        /\ UNCHANGED default_ds

Bmca == \E lb \in LocalBests : \E ebest \in Ebest(lb) : BmcaWith(lb, ebest)

-----------------------------------------------------------------------------
SetClockQuality(q) ==
    /\ default_ds' = [default_ds EXCEPT !.attributes = q]
    /\ UNCHANGED <<port_state, remote_master, multiport_disable, foreign, timers,
                   datasets, path_trace_ds, failed>>

SetSlaveOnly(b) ==
    /\ default_ds' = [default_ds EXCEPT !.slave_only = b]
    /\ UNCHANGED <<port_state, remote_master, multiport_disable, foreign, timers,
                   datasets, path_trace_ds, failed>>

Next ==
    \/ \E p \in Ports :
          \/ HandleAnnounceReceiptTimer(p)
          \/ HandleAnnounceTimer(p)
          \/ HandleSyncTimer(p)
          \/ HandleDelayRequestTimer(p)
          \/ MultiplePeerResponses(p)
          \/ RecoverPort(p)
          \/ \E a \in Announces, stored \in BOOLEAN : HandleAnnounce(p, a, stored)
    \/ Bmca
    \/ \E q \in Qualities : SetClockQuality(q)
    \/ \E b \in BOOLEAN : SetSlaveOnly(b)

Spec == Init /\ [][Next]_vars

(* The caller runs the timers it was asked to run and calls bmca() at      *)
(* every bmca_interval().                                                  *)
Fairness ==
    /\ WF_vars(Bmca)
    /\ \A p \in Ports : WF_vars(HandleAnnounceReceiptTimer(p))

FairSpec == Spec /\ Fairness

-----------------------------------------------------------------------------
DatasetType ==
    [parent_port_identity : PortIdentity, grandmaster_identity : Nat,
     grandmaster_attributes : [1..5 -> Nat], steps_removed : Nat]

(* The age of a message that has not been dropped, or None. *)
MessageAge == 0..(TimeWindow - 1) \union {None}

TypeOK ==
    /\ port_state \in [Ports -> PortStates]
    /\ remote_master \in [Ports -> PortIdentity \union {None}]
    /\ multiport_disable \in [Ports -> Nat \union {None}]
    /\ foreign \in [Ports -> [Announces -> MessageAge]]
    /\ timers \in [Ports -> SUBSET Timers]
    /\ default_ds \in DefaultDS
    /\ datasets \in DatasetType
    /\ path_trace_ds \in SUBSET Nat
    /\ failed \subseteq {"slave_only", "master_only"}

(* At most one port of the instance is a slave: two ports never steer the  *)
(* instance from two masters, although every port decides for itself and   *)
(* a port leaves the slave state only when its own timer, its own          *)
(* messages or bmca() say so.                                              *)
AtMostOneSlave ==
    \A p, q \in Ports : port_state[p] = "Slave" /\ port_state[q] = "Slave" => p = q

(* A slave measures against the very master that the shared data sets name *)
(* as the parent.  handle_sync compares with remote_master, handle_announce *)
(* with parent_ds: the two copies, written at different places, agree.     *)
SlaveFollowsParent ==
    \A p \in Ports : port_state[p] = "Slave" =>
        remote_master[p] = datasets.parent_port_identity

(* Only a clock on the acceptable master list ever becomes the parent.     *)
ParentIsAcceptable ==
    datasets.parent_port_identity = OwnIdentity(0)
    \/ /\ datasets.parent_port_identity.clock_identity \in Acceptable
       /\ datasets.parent_port_identity.clock_identity # OwnClock

(* A master-only port is never a slave and never recommended to be one     *)
(* (the two debug_assert!s on master_only in port/bmca.rs hold).           *)
MasterOnlyNeverSlave ==
    /\ "master_only" \notin failed
    /\ \A p \in MasterOnly : port_state[p] # "Slave"

(* No port is in a state whose duty waits for a timer that does not run:   *)
(* a slave is watching for its master and sending delay requests, a master *)
(* is sending announces and syncs.  Every way into these states starts the *)
(* timers, and every timer that fires in them is started again.            *)
TimersRun ==
    \A p \in Ports :
      /\ port_state[p] = "Slave" => {"announce_receipt", "delay_request"} \subseteq timers[p]
      /\ port_state[p] = "Master" => {"announce", "sync"} \subseteq timers[p]

(* An instance that is slave-only gets no new master: neither a timeout    *)
(* nor a decision makes a port a master, and a run of bmca() leaves none   *)
(* (set_slave_only's promise).                                             *)
SlaveOnlyNoMaster ==
    [][default_ds.slave_only =>
         \A p \in Ports : port_state'[p] = "Master" => port_state[p] = "Master" /\ ~Bmca]_vars

(* A port comes out of bmca() as a slave only of a master that this very   *)
(* port heard within the time window, and the shared data sets are made of *)
(* that same message: a master that fell silent, or that another port      *)
(* heard, is not followed any further, whatever the port did before.       *)
SlaveIsHeard ==
    [][\A p \in Ports : port_state'[p] = "Slave" =>
         \/ \E a \in Announces :
               /\ foreign[p][a] # None
               /\ remote_master'[p] = a.source_port_identity
               /\ datasets' = FromAnnounce(a)
         \/ ~Bmca]_vars

(* When nothing is heard any more, and the ports are neither slave-only    *)
(* nor faulty, all ports end up being master, and the data sets name our   *)
(* own clock as the grandmaster.                                           *)
TakesOver ==
    (/\ <>[][~\E p \in Ports, a \in Announces, stored \in BOOLEAN :
                  HandleAnnounce(p, a, stored)]_vars
     /\ <>[](~default_ds.slave_only /\ \A p \in Ports : port_state[p] # "Faulty"))
    => <>[](/\ \A p \in Ports : port_state[p] = "Master"
            /\ datasets.parent_port_identity = OwnIdentity(0))
=============================================================================
