------------------------------- MODULE Exchange -------------------------------
(***************************************************************************)
(* What a slave computes from one exchange of messages: the arithmetic of  *)
(* handle_sync, handle_follow_up, handle_delay_resp, the two handlers of   *)
(* peer delay responses and extract_measurement (statime/src/port/slave.rs)*)
(* on messages that the other side made (port/master.rs) and that crossed  *)
(* the wire.  Which messages are put together is the matter of modules     *)
(* SlavePort and PeerDelay.                                                *)
(*                                                                         *)
(* An exchange x has the master's time x.t1 at which it starts, the offset *)
(* x.theta of the slave's clock, the mean delay x.mean of the path, which  *)
(* is longer by x.asymmetry to the slave and shorter by it back, the time  *)
(* x.residence (in units of the correction field) that a transparent clock *)
(* on the way holds up every message and adds to its correction field, and *)
(* x.wait, the time after which the slave, or the peer, sends its message. *)
(***************************************************************************)
EXTENDS Messages

Ds == [sdo_id |-> 256, domain_number |-> 3]
MasterPort == [clock_identity |-> 11, port_number |-> 1]
Slave == [clock_identity |-> 12, port_number |-> 2]

(* A message m as it is received after a transparent clock on the way. *)
Delivered(m, residence) ==
    ParseAndFilter(Ds, Serialize([m EXCEPT !.header.correction_field = @ + residence])
                       \o <<Padding>>)

(* The times of the exchange, by the clock of whoever takes the time stamp *)
SyncReceived(x) == x.t1 + x.theta + x.mean + x.asymmetry + DurationOf(x.residence)
DelayReqSent(x) == x.t1 + x.theta + x.wait
DelayReqReceived(x) == x.t1 + x.wait + x.mean - x.asymmetry + DurationOf(x.residence)
PDelayReqSent(x) == x.t1 + x.theta
PDelayReqReceived(x) == x.t1 + x.mean - x.asymmetry + DurationOf(x.residence)
PDelayRespSent(x) == PDelayReqReceived(x) + x.wait
PDelayRespReceived(x) ==
    PDelayRespSent(x) + x.theta + x.mean + x.asymmetry + DurationOf(x.residence)

(* What is sent: send_sync and handle_sync_timestamp of the master,        *)
(* send_e2e_delay_request of the slave and handle_delay_req of the master, *)
(* send_p2p_delay_request and the two halves of the answer of a peer.      *)
Sync == SyncMessage(Ds, MasterPort, 7, 1)
FollowUp(x) == FollowUpMessage(Ds, MasterPort, 7, x.t1, 1)
DelayReq == DelayReqMessage(Ds, Slave, 4, 1)
DelayResp(x) ==
    DelayRespMessage(Delivered(DelayReq, x.residence).header, MasterPort, 0,
                     DelayReqReceived(x))
PDelayReq == PDelayReqMessage(Ds, Slave, 4, 1)
PDelayResp(x) ==
    PDelayRespMessage(Ds, MasterPort, Delivered(PDelayReq, x.residence).header,
                      PDelayReqReceived(x), 1)
PDelayRespFollowUp(x) ==
    LET request == Delivered(PDelayReq, x.residence).header
    IN  PDelayRespFollowUpMessage(Ds, MasterPort, request.source_port_identity,
                                  request.sequence_id, PDelayRespSent(x), 1)

(* handle_sync and handle_follow_up of the slave *)
RawSyncOffset(x) ==
    LET sync == Delivered(Sync, x.residence)
        follow_up == Delivered(FollowUp(x), 0)
        recv_time == SyncReceived(x) - DurationOf(sync.header.correction_field)
        send_time == TimeOf(follow_up.body.precise_origin_timestamp)
                     + DurationOf(follow_up.header.correction_field)
    IN  recv_time - send_time - x.asymmetry

(* handle_delay_resp of the slave *)
RawDelayOffset(x) ==
    LET response == Delivered(DelayResp(x), 0)
        recv_time == TimeOf(response.body.receive_timestamp)
                     - DurationOf(response.header.correction_field)
    IN  DelayReqSent(x) - recv_time - x.asymmetry

(* extract_measurement: the delay, from the last sync and this delay. *)
Delay(x) == Half(RawSyncOffset(x) - RawDelayOffset(x))

(* The peer delay, from the four times of a two-step exchange. *)
PeerDelayWith(x, response, follow_up) ==
    LET response_recv_time == PDelayRespReceived(x)
                              - DurationOf(response.header.correction_field)
        request_recv_time == TimeOf(response.body.request_receive_timestamp)
        response_send_time == TimeOf(follow_up.body.response_origin_timestamp)
                              + DurationOf(follow_up.header.correction_field)
    IN  Half((response_recv_time - PDelayReqSent(x))
             - (response_send_time - request_recv_time))

RawPeerDelay(x) ==
    PeerDelayWith(x, Delivered(PDelayResp(x), x.residence), Delivered(PDelayRespFollowUp(x), 0))

-----------------------------------------------------------------------------
(* The times of the exchange are ones that a WireTimestamp has room for. *)
OnTheWire(time) == time \in Nat /\ time < Seconds * NanosPerSecond * SubUnits

Measurable(x) ==
    /\ x.theta \in Int /\ x.mean \in Int /\ x.asymmetry \in Int
    /\ x.residence \in Int /\ x.wait \in Int
    /\ OnTheWire(x.t1) /\ OnTheWire(DelayReqReceived(x))
    /\ OnTheWire(PDelayReqReceived(x)) /\ OnTheWire(PDelayRespSent(x))

(* The wire does to a message what a transparent clock does, and no more.  *)
ReadAsTransmitted(m, residence) ==
    Delivered(m, residence) = [m EXCEPT !.header.correction_field = @ + residence]

(* Every message of the exchange is read as it was sent. *)
ExchangeIsRead(x) ==
    /\ ReadAsTransmitted(Sync, x.residence) /\ ReadAsTransmitted(FollowUp(x), 0)
    /\ ReadAsTransmitted(DelayReq, x.residence) /\ ReadAsTransmitted(DelayResp(x), 0)
    /\ ReadAsTransmitted(PDelayReq, x.residence)
    /\ ReadAsTransmitted(PDelayResp(x), x.residence)
    /\ ReadAsTransmitted(PDelayRespFollowUp(x), 0)

(* The offset measured with a sync is the sum of the offset of the clock   *)
(* and the mean delay, to the precision of a correction field, wherever in *)
(* a nanosecond the master sent it and however long the way took: the      *)
(* fraction that the time stamp of a follow up drops comes back with its   *)
(* correction field, and the residence times cancel out.                   *)
OffsetIsExact(x) ==
    LET error == RawSyncOffset(x) - (x.theta + x.mean)
    IN  error >= 0 /\ error < CorrectionUnit

(* The delays measured are right to a nanosecond.  Not better: the         *)
(* fraction of t4 is added to the correction field of a delay response and *)
(* subtracted by the slave together with it, and peer delay responses drop *)
(* their fractions.                                                        *)
DelaysAreCloseTo(x) ==
    /\ Delay(x) - x.mean \in -SubUnits..SubUnits
    /\ RawPeerDelay(x) - x.mean \in -SubUnits..SubUnits
===============================================================================
