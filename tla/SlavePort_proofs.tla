-------------------------- MODULE SlavePort_proofs --------------------------
(***************************************************************************)
(* Measurements never mix exchanges or masters, for any set of masters and *)
(* any number of messages, however they are lost, doubled and reordered.   *)
(*                                                                         *)
(* The invariant is that every time that is stored already belongs to the  *)
(* exchange it is stored in, and that the exchanges are with the master    *)
(* the port has now: changing the master clears them.  The mean delay is   *)
(* not cleared; that it becomes the present master's rests on what each    *)
(* filter returns for its first measurement and for its first delay.       *)
(***************************************************************************)
EXTENDS SlavePort, TLAPS

(* A time of master m (or of this port, None) in an exchange with id i. *)
TimeOf(t, m, i) == t \in Times /\ (t # None => t.source = m /\ t.id = i)

(* A sync exchange with the current master. *)
SyncHalf(s) ==
    s # None =>
      /\ remote_master # None
      /\ s \in [id : Nat, send_time : Times, recv_time : Times]
      /\ TimeOf(s.send_time, remote_master, s.id)
      /\ TimeOf(s.recv_time, remote_master, s.id)

(* A delay exchange: we sent the request, the current master received it. *)
DelayHalf(d) ==
    d # None =>
      /\ remote_master # None
      /\ d \in [id : Nat, send_time : Times, recv_time : Times]
      /\ TimeOf(d.send_time, None, d.id)
      /\ TimeOf(d.recv_time, remote_master, d.id)

(* Everything on the network was sent by a master. *)
Messages ==
    [type : {"sync", "follow_up", "delay_resp"}, source : Masters, id : Nat,
     two_step : BOOLEAN, copy : {0, 1}]

Network ==
    /\ network \subseteq Messages
    /\ timestamps \subseteq Nat
    /\ delay_seq_id \in Nat
    /\ sync_seq_id \in [Masters -> Nat]

(* The offset that the next delay is weighed against is the master's, and  *)
(* a port without a master has a fresh filter.                             *)
OffsetOfMaster ==
    /\ remote_master \in Masters \union {None}
    /\ last_raw_sync_offset \in {remote_master, None}
    /\ remote_master = None => filter = {}

(* A Kalman filter gives an estimate for the first measurement already. *)
DelayOfMaster ==
    /\ mean_delay \in (SUBSET Masters) \union {None}
    /\ kalman \in BOOLEAN /\ filter_update_timer \in BOOLEAN
    /\ kalman /\ filter # {} => mean_delay \subseteq {remote_master}
    /\ filter_update_timer => kalman

IInv ==
    /\ Network
    /\ OffsetOfMaster
    /\ DelayOfMaster
    /\ SyncHalf(sync_state) /\ DelayHalf(delay_state)
    /\ CompleteIsMeasured
    /\ OneExchange
    /\ OneMaster

-----------------------------------------------------------------------------
(* A time that is taken from a message, or from a request of ours. *)
LEMMA TimeIsOf ==
  ASSUME NEW m \in Masters \union {None}, NEW i \in Nat, NEW c \in {0, 1}
  PROVE  TimeOf(Time(m, i, c), m, i) /\ Time(m, i, c).source = m /\ Time(m, i, c).id = i
BY DEF TimeOf, Times, Time

(* A measurement of the present master is given to the filter. *)
LEMMA Fed ==
  ASSUME OneMaster, DelayOfMaster, remote_master \in Masters, UNCHANGED remote_master,
         NEW x, x.recv_time.source = remote_master, x.delay \in {remote_master, None},
         Measure(x)
  PROVE  OneMaster' /\ DelayOfMaster' /\ filter' = filter \union {x}
<1>1. /\ filter' = filter \union {x}
      /\ kalman' = kalman
  BY DEF Measure
<1>2. PICK update \in FilterUpdates(x) :
          /\ mean_delay' = IF update.mean_delay # None THEN update.mean_delay ELSE mean_delay
          /\ filter_update_timer' = (filter_update_timer \/ update.next_update)
  BY DEF Measure
<1>3. Sources(filter \union {x}) \subseteq {remote_master}
  BY DEF OneMaster, Sources
<1>4. \A y \in filter' : /\ y.recv_time.source = remote_master
                         /\ y.delay \in {remote_master, None}
  BY <1>1 DEF OneMaster
<1>5. CASE kalman
  <2> DEFINE estimate == Sources(filter \union {x})
  <2>1. \/ update \in [mean_delay : {estimate}, next_update : BOOLEAN]
        \/ filter # {} /\ update = [mean_delay |-> None, next_update |-> FALSE]
    BY <1>5 DEF FilterUpdates
  <2> HIDE DEF estimate
  <2>2. update.next_update \in BOOLEAN
    <3>1. CASE update \in [mean_delay : {estimate}, next_update : BOOLEAN]
      BY <3>1
    <3>2. CASE update = [mean_delay |-> None, next_update |-> FALSE]
      BY <3>2
    <3> QED
      BY <2>1, <3>1, <3>2
  <2>3. mean_delay' = estimate \/ (filter # {} /\ mean_delay' = mean_delay)
    <3>1. CASE update \in [mean_delay : {estimate}, next_update : BOOLEAN]
      <4>1. update.mean_delay = estimate
        BY <3>1
      <4>2. estimate # None
        BY <1>3, SlavePortAssumption DEF estimate
      <4> QED
        BY <1>2, <4>1, <4>2
    <3>2. CASE filter # {} /\ update = [mean_delay |-> None, next_update |-> FALSE]
      <4>1. update.mean_delay = None
        BY <3>2
      <4> QED
        BY <1>2, <3>2, <4>1
    <3> QED
      BY <2>1, <3>1, <3>2
  <2>4. mean_delay' \subseteq {remote_master} /\ mean_delay' \in (SUBSET Masters) \union {None}
    BY <1>3, <1>5, <2>3 DEF DelayOfMaster, estimate
  <2>5. DelayOfMaster'
    BY <1>1, <1>2, <1>5, <2>2, <2>4 DEF DelayOfMaster
  <2>6. OneMaster'
    BY <1>1, <1>4, <2>4 DEF OneMaster
  <2> QED
    BY <1>1, <2>5, <2>6
<1>6. CASE ~kalman /\ x.delay = None
  <2>1. update = [mean_delay |-> None, next_update |-> FALSE]
    BY <1>6 DEF FilterUpdates
  <2>2. mean_delay' = mean_delay /\ filter_update_timer' = filter_update_timer
    BY <1>2, <2>1 DEF DelayOfMaster
  <2>3. DelayOfMaster'
    BY <1>1, <1>6, <2>2 DEF DelayOfMaster
  <2>4. OneMaster'
    BY <1>1, <1>4, <1>6, <2>2 DEF OneMaster
  <2> QED
    BY <1>1, <2>3, <2>4
<1>7. CASE ~kalman /\ x.delay # None
  <2>1. update = [mean_delay |-> {remote_master}, next_update |-> FALSE]
    <3>1. {x.recv_time.source, x.delay} = {remote_master}
      BY <1>7
    <3> QED
      BY <1>7, <3>1 DEF FilterUpdates
  <2>2. update.mean_delay = {remote_master} /\ update.next_update = FALSE
    BY <2>1
  <2>3. /\ mean_delay' \subseteq {remote_master}
        /\ mean_delay' \in (SUBSET Masters) \union {None}
        /\ filter_update_timer' = filter_update_timer
    <3>1. {remote_master} # None
      BY SlavePortAssumption
    <3>2. mean_delay' = {remote_master}
      BY <1>2, <2>2, <3>1
    <3>3. filter_update_timer' = filter_update_timer
      BY <1>2, <2>2 DEF DelayOfMaster
    <3> QED
      BY <3>2, <3>3
  <2>4. DelayOfMaster'
    BY <1>1, <1>7, <2>3 DEF DelayOfMaster
  <2>5. OneMaster'
    BY <1>1, <1>4, <2>3 DEF OneMaster
  <2> QED
    BY <1>1, <2>4, <2>5
<1> QED
  BY <1>5, <1>6, <1>7 DEF DelayOfMaster

(* handle_time_measurement keeps the invariant if the handler left it      *)
(* exchanges of the current master of which at most one is complete.       *)
LEMMA Measured ==
  ASSUME IInv, Network', UNCHANGED remote_master,
         NEW s, NEW d, SyncHalf(s), DelayHalf(d), ~(Complete(s) /\ Complete(d)),
         HandleTimeMeasurement(s, d)
  PROVE  IInv'
<1>1. CASE Complete(s)
  <2>1. MeasureSync(s, d) /\ ~Complete(d)
    BY <1>1 DEF HandleTimeMeasurement
  <2>2. /\ remote_master # None /\ s.send_time.source = remote_master
        /\ s.send_time.id = s.id /\ s.recv_time.source = remote_master
        /\ s.recv_time.id = s.id
    BY <1>1 DEF Complete, SyncHalf, TimeOf
  <2>7. OneMaster' /\ DelayOfMaster' /\ filter' = filter \union {SyncMeasurement(s)}
    <3>1. /\ SyncMeasurement(s).recv_time.source = remote_master
          /\ SyncMeasurement(s).delay \in {remote_master, None}
      BY <2>2 DEF IInv, OffsetOfMaster, SyncMeasurement
    <3>2. Measure(SyncMeasurement(s)) /\ remote_master \in Masters
      BY <2>1, <2>2 DEF IInv, OffsetOfMaster, MeasureSync
    <3> QED
      BY <3>1, <3>2, Fed DEF IInv
  <2>3. OffsetOfMaster'
    BY <2>1, <2>2 DEF IInv, OffsetOfMaster, MeasureSync
  <2>4. SyncHalf(sync_state)' /\ DelayHalf(delay_state)'
    BY <2>1 DEF SyncHalf, DelayHalf, MeasureSync
  <2>5. CompleteIsMeasured'
    BY <2>1 DEF CompleteIsMeasured, Complete, MeasureSync
  <2>6. OneExchange'
    BY <2>1, <2>2, <2>7 DEF IInv, OneExchange, SyncMeasurement
  <2> QED
    BY <2>3, <2>4, <2>5, <2>6, <2>7 DEF IInv
<1>2. CASE ~Complete(s) /\ Complete(d)
  <2>1. MeasureDelay(s, d)
    BY <1>2 DEF HandleTimeMeasurement
  <2>2. /\ remote_master # None /\ d.send_time.source = None
        /\ d.send_time.id = d.id /\ d.recv_time.source = remote_master
        /\ d.recv_time.id = d.id
    BY <1>2 DEF Complete, DelayHalf, TimeOf
  <2>7. OneMaster' /\ DelayOfMaster' /\ filter' = filter \union {DelayMeasurement(d)}
    <3>1. /\ DelayMeasurement(d).recv_time.source = remote_master
          /\ DelayMeasurement(d).delay \in {remote_master, None}
      BY <2>2 DEF IInv, OffsetOfMaster, DelayMeasurement
    <3>2. Measure(DelayMeasurement(d)) /\ remote_master \in Masters
      BY <2>1, <2>2 DEF IInv, OffsetOfMaster, MeasureDelay
    <3> QED
      BY <3>1, <3>2, Fed DEF IInv
  <2>3. OffsetOfMaster'
    BY <2>1, <2>2 DEF IInv, OffsetOfMaster, MeasureDelay
  <2>4. SyncHalf(sync_state)' /\ DelayHalf(delay_state)'
    BY <2>1 DEF SyncHalf, DelayHalf, MeasureDelay
  <2>5. CompleteIsMeasured'
    BY <1>2, <2>1 DEF CompleteIsMeasured, Complete, MeasureDelay
  <2>6. OneExchange'
    BY <2>1, <2>2, <2>7 DEF IInv, OneExchange, DelayMeasurement
  <2> QED
    BY <2>3, <2>4, <2>5, <2>6, <2>7 DEF IInv
<1>3. CASE ~Complete(s) /\ ~Complete(d)
  <2>1. Keep(s, d)
    BY <1>3 DEF HandleTimeMeasurement
  <2>2. SyncHalf(sync_state)' /\ DelayHalf(delay_state)'
    BY <2>1 DEF SyncHalf, DelayHalf, Keep
  <2>3. CompleteIsMeasured'
    BY <1>3, <2>1 DEF CompleteIsMeasured, Complete, Keep
  <2>4. OffsetOfMaster' /\ DelayOfMaster' /\ OneExchange' /\ OneMaster'
    BY <2>1 DEF IInv, OffsetOfMaster, DelayOfMaster, OneExchange, OneMaster, Keep, servo
  <2> QED
    BY <2>2, <2>3, <2>4 DEF IInv
<1> QED
  BY <1>1, <1>2, <1>3

(* A handler that leaves the slave state alone keeps the invariant. *)
LEMMA Unaffected == ASSUME IInv, Network', UNCHANGED slave PROVE IInv'
BY DEF IInv, slave, servo, OffsetOfMaster, DelayOfMaster, SyncHalf, DelayHalf,
       CompleteIsMeasured, Complete, OneExchange, OneMaster

(* The initial states satisfy the invariant. *)
LEMMA InitIInv == Init => IInv
<1> SUFFICES ASSUME Init PROVE IInv
  OBVIOUS
<1>1. DelayOfMaster
  BY DEF Init, DelayOfMaster
<1>2. Network /\ OffsetOfMaster /\ SyncHalf(sync_state) /\ DelayHalf(delay_state)
      /\ CompleteIsMeasured /\ OneExchange /\ OneMaster
  BY DEF Init, Network, OffsetOfMaster, SyncHalf, DelayHalf, CompleteIsMeasured,
         Complete, OneExchange, OneMaster
<1> QED
  BY <1>1, <1>2 DEF IInv

(* Receiving a message leaves a network of messages. *)
LEMMA ReceivedNetwork ==
  ASSUME Network, NEW x, Received(x)
  PROVE  Network' /\ x \in Messages
BY DEF Network, Received

(* handle_sync with the two step flag. *)
LEMMA TwoStepSync == ASSUME IInv, NEW x, HandleTwoStepSync(x) PROVE IInv'
<1> DEFINE time == Time(x.source, x.id, x.copy)
<1>1. Network' /\ x.source \in Masters /\ x.id \in Nat /\ x.copy \in {0, 1}
  BY ReceivedNetwork DEF IInv, HandleTwoStepSync, Messages
<1>2. TimeOf(time, x.source, x.id)
  BY <1>1, TimeIsOf
<1>3. remote_master = x.source => remote_master # None
  BY <1>1, SlavePortAssumption
<1> HIDE DEF time
<1>4. CASE UNCHANGED slave
  BY <1>1, <1>4, Unaffected
<1>5. CASE /\ remote_master = x.source /\ UNCHANGED remote_master
           /\ Matches(sync_state, x) /\ sync_state.recv_time = None
           /\ HandleTimeMeasurement([sync_state EXCEPT !.recv_time = time], delay_state)
  <2>1. SyncHalf([sync_state EXCEPT !.recv_time = time])
    BY <1>2, <1>3, <1>5 DEF IInv, SyncHalf, TimeOf, Matches
  <2>2. DelayHalf(delay_state) /\ ~Complete(delay_state)
    BY DEF IInv, CompleteIsMeasured
  <2> QED
    BY <1>1, <1>5, <2>1, <2>2, Measured
<1>6. CASE /\ remote_master = x.source /\ UNCHANGED remote_master
           /\ ~Matches(sync_state, x)
           /\ sync_state' = Half(x.id, None, time)
           /\ UNCHANGED <<delay_state, last_raw_sync_offset, servo>>
  <2>1. SyncHalf(Half(x.id, None, time)) /\ ~Complete(Half(x.id, None, time))
    BY <1>1, <1>2, <1>3, <1>6 DEF SyncHalf, TimeOf, Half, Complete, Times
  <2>2. SyncHalf(sync_state)' /\ DelayHalf(delay_state)' /\ CompleteIsMeasured'
    BY <1>6, <2>1 DEF IInv, SyncHalf, DelayHalf, CompleteIsMeasured, Complete
  <2> QED
    BY <1>1, <1>6, <2>2 DEF IInv, OffsetOfMaster, DelayOfMaster, OneExchange, OneMaster, servo
<1> QED
  BY <1>4, <1>5, <1>6 DEF HandleTwoStepSync, Ignored, slave, time

(* handle_sync without the two step flag. *)
LEMMA OneStepSync == ASSUME IInv, NEW x, HandleOneStepSync(x) PROVE IInv'
<1> DEFINE half == Half(x.id, Time(x.source, x.id, 0), Time(x.source, x.id, x.copy))
<1>1. Network' /\ x.source \in Masters /\ x.id \in Nat /\ x.copy \in {0, 1}
  BY ReceivedNetwork DEF IInv, HandleOneStepSync, Messages
<1>2. CASE UNCHANGED slave
  BY <1>1, <1>2, Unaffected
<1>3. CASE /\ remote_master = x.source /\ UNCHANGED remote_master
           /\ HandleTimeMeasurement(half, delay_state)
  <2>1. TimeOf(Time(x.source, x.id, 0), x.source, x.id)
        /\ TimeOf(Time(x.source, x.id, x.copy), x.source, x.id)
    BY <1>1, TimeIsOf
  <2>2. SyncHalf(half)
    BY <1>1, <1>3, <2>1, SlavePortAssumption DEF SyncHalf, TimeOf, Half
  <2>3. DelayHalf(delay_state) /\ ~Complete(delay_state)
    BY DEF IInv, CompleteIsMeasured
  <2> HIDE DEF half
  <2> QED
    BY <1>1, <1>3, <2>2, <2>3, Measured
<1> QED
  BY <1>2, <1>3 DEF HandleOneStepSync, Ignored

(* handle_follow_up *)
LEMMA FollowUp == ASSUME IInv, NEW x, HandleFollowUp(x) PROVE IInv'
<1> DEFINE time == Time(x.source, x.id, 0)
<1>1. Network' /\ x.source \in Masters /\ x.id \in Nat
  BY ReceivedNetwork DEF IInv, HandleFollowUp, Messages
<1>2. TimeOf(time, x.source, x.id)
  BY <1>1, TimeIsOf
<1>3. DelayHalf(delay_state) /\ ~Complete(delay_state)
  BY DEF IInv, CompleteIsMeasured
<1> HIDE DEF time
<1>4. CASE UNCHANGED slave
  BY <1>1, <1>4, Unaffected
<1>5. CASE /\ remote_master = x.source /\ UNCHANGED remote_master
           /\ Matches(sync_state, x)
           /\ HandleTimeMeasurement([sync_state EXCEPT !.send_time = time], delay_state)
  <2>1. SyncHalf([sync_state EXCEPT !.send_time = time])
    BY <1>1, <1>2, <1>5, SlavePortAssumption DEF IInv, SyncHalf, TimeOf, Matches
  <2> QED
    BY <1>1, <1>3, <1>5, <2>1, Measured
<1>6. CASE /\ remote_master = x.source /\ UNCHANGED remote_master
           /\ HandleTimeMeasurement(Half(x.id, time, None), delay_state)
  <2>1. SyncHalf(Half(x.id, time, None))
    BY <1>1, <1>2, <1>6, SlavePortAssumption DEF SyncHalf, TimeOf, Half, Times
  <2> QED
    BY <1>1, <1>3, <1>6, <2>1, Measured
<1> QED
  BY <1>4, <1>5, <1>6 DEF HandleFollowUp, Ignored, time

(* handle_delay_resp *)
LEMMA DelayResp == ASSUME IInv, NEW x, HandleDelayResp(x) PROVE IInv'
<1> DEFINE half == [delay_state EXCEPT !.recv_time = Time(x.source, x.id, x.copy)]
<1>1. Network' /\ x.source \in Masters /\ x.id \in Nat /\ x.copy \in {0, 1}
  BY ReceivedNetwork DEF IInv, HandleDelayResp, Messages
<1>2. CASE UNCHANGED slave
  BY <1>1, <1>2, Unaffected
<1>3. CASE /\ remote_master = x.source /\ UNCHANGED remote_master
           /\ Matches(delay_state, x)
           /\ HandleTimeMeasurement(sync_state, half)
  <2>1. TimeOf(Time(x.source, x.id, x.copy), x.source, x.id)
    BY <1>1, TimeIsOf
  <2>2. DelayHalf(half)
    BY <1>3, <2>1 DEF IInv, DelayHalf, TimeOf, Matches
  <2>3. SyncHalf(sync_state) /\ ~Complete(sync_state)
    BY DEF IInv, CompleteIsMeasured
  <2> HIDE DEF half
  <2> QED
    BY <1>1, <1>3, <2>2, <2>3, Measured
<1> QED
  BY <1>2, <1>3 DEF HandleDelayResp, Ignored

(* handle_delay_timestamp *)
LEMMA DelayTimestamp ==
  ASSUME IInv, NEW i \in timestamps, HandleDelayTimestamp(i)
  PROVE  IInv'
<1> DEFINE half == [delay_state EXCEPT !.send_time = Time(None, i, 0)]
<1>1. Network' /\ i \in Nat
  BY DEF IInv, Network, HandleDelayTimestamp
<1>2. CASE UNCHANGED slave
  BY <1>1, <1>2, Unaffected
<1>3. CASE /\ UNCHANGED remote_master
           /\ Matches(delay_state, [id |-> i])
           /\ HandleTimeMeasurement(sync_state, half)
  <2>1. TimeOf(Time(None, i, 0), None, i)
    BY <1>1, TimeIsOf
  <2>2. DelayHalf(half)
    BY <1>3, <2>1 DEF IInv, DelayHalf, TimeOf, Matches
  <2>3. SyncHalf(sync_state) /\ ~Complete(sync_state)
    BY DEF IInv, CompleteIsMeasured
  <2> HIDE DEF half
  <2> QED
    BY <1>1, <1>3, <2>2, <2>3, Measured
<1> QED
  BY <1>2, <1>3 DEF HandleDelayTimestamp, Ignored

(* send_e2e_delay_request: a new, empty exchange replaces the last one. *)
LEMMA DelayRequest ==
  ASSUME IInv, NEW answers \in SUBSET Masters, SendDelayRequest(answers)
  PROVE  IInv'
<1>1. Network'
  <2>1. \A m \in answers :
           [type |-> "delay_resp", source |-> m, id |-> delay_seq_id,
            two_step |-> FALSE, copy |-> 0] \in Messages
    BY DEF IInv, Network, Messages
  <2>2. network' \subseteq Messages
    BY <2>1 DEF IInv, Network, SendDelayRequest
  <2> QED
    BY <2>2 DEF IInv, Network, SendDelayRequest
<1>2. DelayHalf(delay_state)'
  BY DEF IInv, Network, DelayHalf, TimeOf, Times, Half, SendDelayRequest
<1>3. SyncHalf(sync_state)'
  BY DEF IInv, SyncHalf, SendDelayRequest
<1>4. CompleteIsMeasured'
  BY DEF IInv, CompleteIsMeasured, Complete, Half, SendDelayRequest
<1>5. OffsetOfMaster' /\ DelayOfMaster' /\ OneExchange' /\ OneMaster'
  BY DEF IInv, OffsetOfMaster, DelayOfMaster, OneExchange, OneMaster, SendDelayRequest, servo
<1> QED
  BY <1>1, <1>2, <1>3, <1>4, <1>5 DEF IInv

(* set_forced_port_state: no time of the old master is left. *)
LEMMA StateChange ==
  ASSUME IInv, NEW m \in Masters \union {None}, ChangeState(m)
  PROVE  IInv'
<1>1. Network'
  BY DEF IInv, Network, ChangeState
<1>2. filter' = {}
  BY DEF IInv, OffsetOfMaster, ChangeState, SetForcedState
<1>3. OffsetOfMaster'
  BY <1>2 DEF OffsetOfMaster, ChangeState, SetForcedState
<1>4. SyncHalf(sync_state)' /\ DelayHalf(delay_state)' /\ CompleteIsMeasured'
  BY DEF SyncHalf, DelayHalf, CompleteIsMeasured, Complete, ChangeState, SetForcedState
<1>5. OneExchange' /\ OneMaster' /\ DelayOfMaster'
  BY <1>2 DEF IInv, OneExchange, OneMaster, DelayOfMaster, ChangeState, SetForcedState
<1> QED
  BY <1>1, <1>3, <1>4, <1>5 DEF IInv

(* handle_filter_update_timer: the estimate is the present filter's. *)
LEMMA FilterUpdate == ASSUME IInv, HandleFilterUpdateTimer PROVE IInv'
<1>1. Sources(filter) \subseteq {remote_master} /\ (filter = {} => Sources(filter) = {})
  BY DEF IInv, OneMaster, Sources
<1>2. mean_delay' \subseteq {remote_master} /\ mean_delay' \in SUBSET Masters
  BY <1>1 DEF IInv, OffsetOfMaster, HandleFilterUpdateTimer
<1>3. Network' /\ OffsetOfMaster' /\ OneExchange'
  BY DEF IInv, Network, OffsetOfMaster, OneExchange, HandleFilterUpdateTimer
<1>4. SyncHalf(sync_state)' /\ DelayHalf(delay_state)' /\ CompleteIsMeasured'
  BY DEF IInv, SyncHalf, DelayHalf, CompleteIsMeasured, Complete, HandleFilterUpdateTimer
<1>5. OneMaster' /\ DelayOfMaster'
  BY <1>2 DEF IInv, OneMaster, DelayOfMaster, HandleFilterUpdateTimer
<1> QED
  BY <1>3, <1>4, <1>5 DEF IInv

(* The masters and the network leave the slave state alone. *)
LEMMA NetworkStep ==
  ASSUME IInv,
         \/ \E x \in network : Lose(x) \/ Duplicate(x)
         \/ \E m \in Masters, two_step \in BOOLEAN : SendSync(m, two_step)
  PROVE  IInv'
<1>1. ASSUME NEW x \in network, Lose(x) PROVE IInv'
  BY <1>1, Unaffected DEF IInv, Network, Lose
<1>2. ASSUME NEW x \in network, Duplicate(x) PROVE IInv'
  <2>1. [x EXCEPT !.copy = 1] \in Messages
    BY DEF IInv, Network, Messages
  <2>2. Network' /\ UNCHANGED slave
    BY <1>2, <2>1 DEF IInv, Network, Duplicate
  <2> QED
    BY <2>2, Unaffected
<1>3. ASSUME NEW m \in Masters, NEW two_step \in BOOLEAN, SendSync(m, two_step) PROVE IInv'
  <2>1. \A type \in {"sync", "follow_up"} :
           [type |-> type, source |-> m, id |-> sync_seq_id[m],
            two_step |-> two_step, copy |-> 0] \in Messages
    BY DEF IInv, Network, Messages
  <2>2. network' \subseteq Messages
    BY <1>3, <2>1 DEF IInv, Network, SendSync
  <2>3. sync_seq_id' \in [Masters -> Nat]
    <3>1. sync_seq_id' = [sync_seq_id EXCEPT ![m] = sync_seq_id[m] + 1]
      BY <1>3, Zenon DEF SendSync
    <3> QED
      BY <3>1 DEF IInv, Network
  <2>4. Network' /\ UNCHANGED slave
    BY <1>3, <2>2, <2>3 DEF IInv, Network, SendSync
  <2> QED
    BY <2>4, Unaffected
<1> QED
  BY <1>1, <1>2, <1>3

(* Every handler of the slave port, every change of its state and every    *)
(* step of the network keeps the invariant.                                *)
THEOREM Invariance == Spec => []IInv
<1>1. IInv /\ [Next]_vars => IInv'
  <2>1. ASSUME IInv, Next PROVE IInv'
    BY <2>1, TwoStepSync, OneStepSync, FollowUp, DelayResp, DelayTimestamp, DelayRequest,
       StateChange, FilterUpdate, NetworkStep DEF Next
  <2>2. ASSUME IInv, UNCHANGED vars PROVE IInv'
    <3>1. Network' /\ UNCHANGED slave
      BY <2>2 DEF IInv, Network, vars
    <3> QED
      BY <2>2, <3>1, Unaffected
  <2> QED
    BY <2>1, <2>2
<1> QED
  BY InitIInv, <1>1, PTL DEF Spec

(* The slave state has its type, and a port that is no slave has none. *)
THEOREM SlaveTypeCorrect == Spec => []TypeOK
<1>1. IInv => TypeOK
  BY DEF IInv, OffsetOfMaster, DelayOfMaster, SyncHalf, DelayHalf, TypeOK
<1> QED
  BY <1>1, Invariance, PTL

(* extract_measurement never puts times of different messages together,    *)
(* whatever the network loses, doubles and reorders.                       *)
THEOREM NeverMixesExchanges == Spec => []OneExchange
<1>1. IInv => OneExchange
  BY DEF IInv
<1> QED
  BY <1>1, Invariance, PTL

(* A filter is given times of the port's present master only, and offsets  *)
(* are corrected with the delay to that master as soon as the filter has   *)
(* been given one: set_forced_port_state drops the times of the one before *)
(* with the slave state, and the first delay replaces its mean delay.      *)
THEOREM NeverMixesMasters == Spec => []OneMaster
<1>1. IInv => OneMaster
  BY DEF IInv
<1> QED
  BY <1>1, Invariance, PTL

(* The handler that completes an exchange measures it: the early return of *)
(* extract_measurement after a sync never leaves a complete delay behind.  *)
THEOREM NoneLeftComplete == Spec => []CompleteIsMeasured
<1>1. IInv => CompleteIsMeasured
  BY DEF IInv
<1> QED
  BY <1>1, Invariance, PTL

=============================================================================
