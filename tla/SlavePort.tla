----------------------------- MODULE SlavePort -----------------------------
(***************************************************************************)
(* The slave side of one port with the end-to-end delay mechanism          *)
(* (statime/src/port/slave.rs, state.rs): the halves of a sync exchange    *)
(* (Sync and FollowUp) and of a delay exchange (the send timestamp of a    *)
(* DelayReq and the DelayResp) arrive one by one, in any order, and are    *)
(* put together to measurements for the filter.  Meanwhile the BMCA makes  *)
(* the port a slave of another master, or no slave at all.                 *)
(*                                                                         *)
(* A time is modelled by the event it is the time of, and a mean delay by  *)
(* the masters whose messages it was computed from, so that a measurement  *)
(* shows where it comes from.                                              *)
(***************************************************************************)
EXTENDS Integers, FiniteSets, Functions

CONSTANTS
    Masters,      \* port identities of the masters on the network
    MaxSyncs,     \* bound: Sync messages of all masters
    MaxRequests,  \* bound: DelayReq messages of the port
    MaxInFlight,  \* bound: messages on the network at a time
    Duplication,  \* whether the network may deliver a message twice
    None

ASSUME SlavePortAssumption ==
    /\ None \notin Masters /\ \A ms \in SUBSET Masters : ms # None
    /\ MaxSyncs \in Nat /\ MaxRequests \in Nat /\ MaxInFlight \in Nat
    /\ Duplication \in BOOLEAN

VARIABLES
    remote_master,        \* None unless the port is a slave
    sync_state,           \* None (Empty) or [id, send_time, recv_time]
    delay_state,          \* the same
    last_raw_sync_offset, \* None or the master whose Sync gave it
    filter,               \* the measurements since the filter is new
    kalman,               \* the type of the filter: Kalman, else basic
    mean_delay,           \* None or the masters it was computed from
    filter_update_timer,  \* whether the filter update timer runs
    delay_seq_id,         \* delay_seq_ids: the next DelayReq's id
    timestamps,           \* DelayReq ids whose send timestamp is due
    network,              \* messages in flight
    sync_seq_id           \* the next Sync's id of each master

servo == <<filter, kalman, mean_delay, filter_update_timer>>
slave == <<remote_master, sync_state, delay_state, last_raw_sync_offset, servo>>
vars == <<slave, delay_seq_id, timestamps, network, sync_seq_id>>

Init ==
    /\ remote_master = None
    /\ sync_state = None /\ delay_state = None /\ last_raw_sync_offset = None
    /\ filter = {} /\ kalman \in BOOLEAN
    /\ mean_delay = None /\ filter_update_timer = FALSE
    /\ delay_seq_id = 0 /\ timestamps = {}
    /\ network = {}
    /\ sync_seq_id = [m \in Masters |-> 0]

(* The time an event of master m (None: of this port) with sequence id i   *)
(* happened; copy tells the receptions of a duplicated message apart.      *)
Time(m, i, copy) == [source |-> m, id |-> i, copy |-> copy]

Half(i, send, recv) == [id |-> i, send_time |-> send, recv_time |-> recv]

-----------------------------------------------------------------------------
Complete(s) == s # None /\ s.send_time # None /\ s.recv_time # None

(* extract_measurement: the offset is computed with the mean delay of the  *)
(* port, the delay with the last sync offset, if there is one.             *)
SyncMeasurement(s) ==
    [send_time |-> s.send_time, recv_time |-> s.recv_time, kind |-> "sync",
     offset |-> mean_delay, delay |-> None]

DelayMeasurement(d) ==
    [send_time |-> d.send_time, recv_time |-> d.recv_time, kind |-> "delay",
     offset |-> None, delay |-> last_raw_sync_offset]

(* The masters that the measurements xs come from. *)
Sources(xs) == {x.recv_time.source : x \in xs}

(* What Filter::measurement(x) returns.  A Kalman filter gives its estimate *)
(* and asks for an update unless it stepped the clock; it ignores a        *)
(* measurement that is older than the last one.  The basic filter passes   *)
(* on the delay of the measurement.                                        *)
FilterUpdates(x) ==
    LET nothing == [mean_delay |-> None, next_update |-> FALSE] IN
    IF kalman
    THEN [mean_delay : {Sources(filter \union {x})}, next_update : BOOLEAN]
         \union (IF filter = {} THEN {} ELSE {nothing})
    ELSE IF x.delay = None THEN {nothing}
         ELSE {[mean_delay |-> {x.recv_time.source, x.delay}, next_update |-> FALSE]}

MeasureKeepsMeanDelay(x) ==
    /\ filter' = filter \union {x}
    /\ \E update \in FilterUpdates(x) :
          /\ mean_delay' = IF mean_delay = None THEN update.mean_delay ELSE mean_delay
          /\ filter_update_timer' = (filter_update_timer \/ update.next_update)
    /\ UNCHANGED kalman

(* handle_time_measurement, given the measurement x. *)
Measure(x) ==
    /\ filter' = filter \union {x}
    /\ \E update \in FilterUpdates(x) :
          /\ mean_delay' = IF update.mean_delay # None THEN update.mean_delay ELSE mean_delay
          /\ filter_update_timer' = (filter_update_timer \/ update.next_update)
    /\ UNCHANGED kalman

MeasureSync(s, d) ==
    /\ Measure(SyncMeasurement(s))
    /\ last_raw_sync_offset' = s.recv_time.source
    /\ sync_state' = None /\ delay_state' = d

MeasureDelay(s, d) ==
    /\ Measure(DelayMeasurement(d))
    /\ sync_state' = s /\ delay_state' = None
    /\ UNCHANGED last_raw_sync_offset

Keep(s, d) ==
    /\ sync_state' = s /\ delay_state' = d
    /\ UNCHANGED <<servo, last_raw_sync_offset>>

HandleTimeMeasurementSyncOnly(s, d) ==
    IF Complete(s) THEN MeasureSync(s, d) ELSE Keep(s, d)

(* handle_time_measurement with extract_measurement, on the states s and d *)
(* the handler leaves: a complete sync exchange goes first, then a         *)
(* complete delay exchange; the exchange is over in either case.           *)
HandleTimeMeasurement(s, d) ==
    CASE Complete(s) -> MeasureSync(s, d)
      [] ~Complete(s) /\ Complete(d) -> MeasureDelay(s, d)
      [] OTHER -> Keep(s, d)

Ignored == UNCHANGED slave

(* What is left of the network when x is received. *)
Received(x) ==
    /\ x \in network
    /\ network' = network \ {x}
    /\ UNCHANGED <<delay_seq_id, timestamps, sync_seq_id>>

MatchesAny(s, x) == s # None

(* The message has the id of the exchange in state s. *)
Matches(s, x) == s # None /\ s.id = x.id

-----------------------------------------------------------------------------
(* handle_sync, with the two step flag: the send time is to follow. *)
HandleTwoStepSync(x) ==
    LET time == Time(x.source, x.id, x.copy) IN
    /\ x.type = "sync" /\ x.two_step
    /\ Received(x)
    /\ \/ /\ remote_master # x.source
          /\ Ignored
       \/ /\ remote_master = x.source /\ UNCHANGED remote_master
          /\ \/ /\ Matches(sync_state, x) /\ sync_state.recv_time # None
                /\ UNCHANGED <<sync_state, delay_state, last_raw_sync_offset, servo>>
             \/ /\ Matches(sync_state, x) /\ sync_state.recv_time = None
                /\ HandleTimeMeasurement([sync_state EXCEPT !.recv_time = time], delay_state)
             \/ /\ ~Matches(sync_state, x)
                /\ sync_state' = Half(x.id, None, time)
                /\ UNCHANGED <<delay_state, last_raw_sync_offset, servo>>

(* handle_sync, without the two step flag: both times are there. *)
HandleOneStepSync(x) ==
    /\ x.type = "sync" /\ ~x.two_step
    /\ Received(x)
    /\ \/ /\ remote_master # x.source \/ Matches(sync_state, x)
          /\ Ignored
       \/ /\ remote_master = x.source /\ UNCHANGED remote_master
          /\ ~Matches(sync_state, x)
          /\ HandleTimeMeasurement(
                Half(x.id, Time(x.source, x.id, 0), Time(x.source, x.id, x.copy)), delay_state)

(* handle_follow_up *)
HandleFollowUp(x) ==
    LET time == Time(x.source, x.id, 0) IN
    /\ x.type = "follow_up"
    /\ Received(x)
    /\ \/ /\ \/ remote_master # x.source
             \/ Matches(sync_state, x) /\ sync_state.send_time # None
          /\ Ignored
       \/ /\ remote_master = x.source /\ UNCHANGED remote_master
          /\ Matches(sync_state, x) /\ sync_state.send_time = None
          /\ HandleTimeMeasurement([sync_state EXCEPT !.send_time = time], delay_state)
       \/ /\ remote_master = x.source /\ UNCHANGED remote_master
          /\ ~Matches(sync_state, x)
          /\ HandleTimeMeasurement(Half(x.id, time, None), delay_state)

(* handle_delay_resp, for a response to a request of this port *)
HandleDelayResp(x) ==
    LET fits == /\ remote_master = x.source
                /\ Matches(delay_state, x) /\ delay_state.recv_time = None
    IN  /\ x.type = "delay_resp"
        /\ Received(x)
        /\ \/ ~fits /\ Ignored
           \/ /\ fits /\ UNCHANGED remote_master
              /\ HandleTimeMeasurement(sync_state,
                    [delay_state EXCEPT !.recv_time = Time(x.source, x.id, x.copy)])

(* handle_delay_timestamp, called by handle_send_timestamp *)
HandleDelayTimestamp(i) ==
    LET fits == /\ remote_master # None
                /\ Matches(delay_state, [id |-> i]) /\ delay_state.send_time = None
    IN  /\ i \in timestamps
        /\ timestamps' = timestamps \ {i}
        /\ UNCHANGED <<delay_seq_id, network, sync_seq_id>>
        /\ \/ ~fits /\ Ignored
           \/ /\ fits /\ UNCHANGED remote_master
              /\ HandleTimeMeasurement(sync_state, [delay_state EXCEPT !.send_time = Time(None, i, 0)])

(* send_e2e_delay_request, when the delay request timer fires on a slave: *)
(* every master may answer, and the send timestamp may come or not.       *)
SendDelayRequest(answers) ==
    /\ remote_master # None
    /\ delay_seq_id < MaxRequests
    /\ Cardinality(network) + Cardinality(answers) <= MaxInFlight
    /\ delay_state' = Half(delay_seq_id, None, None)
    /\ delay_seq_id' = delay_seq_id + 1
    /\ timestamps' = timestamps \union {delay_seq_id}
    /\ network' = network \union
          {[type |-> "delay_resp", source |-> m, id |-> delay_seq_id,
            two_step |-> FALSE, copy |-> 0] : m \in answers}
    /\ UNCHANGED <<remote_master, sync_state, last_raw_sync_offset, servo, sync_seq_id>>

SetForcedStateKeepsOffset(m) ==
    /\ remote_master' = m
    /\ sync_state' = None /\ delay_state' = None
    /\ filter' = {}
    /\ UNCHANGED <<last_raw_sync_offset, kalman, mean_delay, filter_update_timer>>

(* set_forced_port_state: SlaveState::new for a slave of m, no slave state *)
(* for None.  Leaving the slave state replaces the filter; mean_delay and   *)
(* the timer belong to the port and stay.                                  *)
SetForcedState(m) ==
    /\ remote_master' = m
    /\ sync_state' = None /\ delay_state' = None /\ last_raw_sync_offset' = None
    /\ filter' = IF remote_master # None THEN {} ELSE filter
    /\ UNCHANGED <<kalman, mean_delay, filter_update_timer>>

(* The BMCA recommends another state, or the announce receipt timer fires. *)
ChangeState(m) ==
    /\ remote_master # m
    /\ SetForcedState(m)
    /\ UNCHANGED <<delay_seq_id, timestamps, network, sync_seq_id>>

(* handle_filter_update_timer, in any state: the estimate of the filter    *)
(* the port has now.  Only a Kalman filter ever asked for it.              *)
HandleFilterUpdateTimer ==
    /\ filter_update_timer
    /\ filter_update_timer' = FALSE
    /\ mean_delay' = Sources(filter)
    /\ UNCHANGED <<remote_master, sync_state, delay_state, last_raw_sync_offset, filter,
                   kalman, delay_seq_id, timestamps, network, sync_seq_id>>

-----------------------------------------------------------------------------
(* The masters and the network. *)

(* send_sync of a master: a Sync, in two steps with a FollowUp. *)
SendSync(m, two_step) ==
    LET message(type) == [type |-> type, source |-> m, id |-> sync_seq_id[m],
                          two_step |-> two_step, copy |-> 0]
        messages == {message("sync")} \union (IF two_step THEN {message("follow_up")} ELSE {})
    IN  /\ FoldFunction(+, 0, sync_seq_id) < MaxSyncs
        /\ Cardinality(network) + Cardinality(messages) <= MaxInFlight
        /\ network' = network \union messages
        /\ sync_seq_id' = [sync_seq_id EXCEPT ![m] = @ + 1]
        /\ UNCHANGED <<slave, delay_seq_id, timestamps>>

Lose(x) ==
    /\ x \in network
    /\ network' = network \ {x}
    /\ UNCHANGED <<slave, delay_seq_id, timestamps, sync_seq_id>>

Duplicate(x) ==
    /\ Duplication /\ x \in network /\ x.copy = 0
    /\ Cardinality(network) < MaxInFlight
    /\ network' = network \union {[x EXCEPT !.copy = 1]}
    /\ UNCHANGED <<slave, delay_seq_id, timestamps, sync_seq_id>>

Next ==
    \/ \E x \in network :
          \/ HandleTwoStepSync(x) \/ HandleOneStepSync(x) \/ HandleFollowUp(x)
          \/ HandleDelayResp(x) \/ Lose(x) \/ Duplicate(x)
    \/ \E i \in timestamps : HandleDelayTimestamp(i)
    \/ \E answers \in SUBSET Masters : SendDelayRequest(answers)
    \/ \E m \in Masters \union {None} : ChangeState(m)
    \/ HandleFilterUpdateTimer
    \/ \E m \in Masters, two_step \in BOOLEAN : SendSync(m, two_step)

Spec == Init /\ [][Next]_vars

-----------------------------------------------------------------------------
Times == [source : Masters \union {None}, id : Nat, copy : {0, 1}] \union {None}

(* A port that is no slave has no slave state. *)
TypeOK ==
    /\ remote_master \in Masters \union {None}
    /\ sync_state \in [id : Nat, send_time : Times, recv_time : Times] \union {None}
    /\ delay_state \in [id : Nat, send_time : Times, recv_time : Times] \union {None}
    /\ last_raw_sync_offset \in Masters \union {None}
    /\ mean_delay \in (SUBSET Masters) \union {None}
    /\ kalman \in BOOLEAN /\ filter_update_timer \in BOOLEAN
    /\ remote_master = None =>
          sync_state = None /\ delay_state = None /\ last_raw_sync_offset = None

(* Both times of a measurement are of the same message: the send time and  *)
(* the receive time of one Sync of our master, or of one DelayReq of ours. *)
(* However late or doubled the messages are, and whatever master or state  *)
(* the port had in between, times are never mixed.                         *)
OneExchange ==
    \A x \in filter :
        /\ x.send_time.id = x.recv_time.id
        /\ x.send_time.source = (IF x.kind = "sync" THEN x.recv_time.source ELSE None)

(* The times that a filter is given are those of one master, the one the   *)
(* port is a slave of now: the receive time in a delay measurement, and    *)
(* the sync offset it is weighed against, are that master's too; a port    *)
(* that is no slave has a fresh filter.  The mean delay that sync offsets  *)
(* are corrected with is the port's and outlives its master; but as soon   *)
(* as the present filter has been given one delay of the present master,   *)
(* the mean delay is computed from that master alone, and so is every      *)
(* offset from then on, with either filter.                                *)
OneMaster ==
    /\ \A x \in filter :
          /\ x.recv_time.source = remote_master
          /\ x.delay \in {remote_master, None}
    /\ (\E x \in filter : x.delay # None) => mean_delay \subseteq {remote_master}

(* An exchange that is complete is measured by the handler that completes  *)
(* it: none is left for the next, unrelated message to trigger.            *)
CompleteIsMeasured == ~Complete(sync_state) /\ ~Complete(delay_state)
=============================================================================
