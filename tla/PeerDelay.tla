----------------------------- MODULE PeerDelay -----------------------------
(***************************************************************************)
(* The peer delay measurement of one port with the peer-to-peer mechanism  *)
(* (statime/src/port/slave.rs, PeerDelayState of mod.rs): a PDelayReq has  *)
(* its send timestamp, the PDelayResp and, for a two step responder, the   *)
(* PDelayRespFollowUp arrive in any order.  When more than one device      *)
(* answers the port is disabled (Faulty), and a complete measurement       *)
(* brings it back.                                                         *)
(*                                                                         *)
(* The states other than Faulty are one, "Running": the exchange does not  *)
(* depend on them (module PtpInstance has them all).                       *)
(***************************************************************************)
EXTENDS Integers, FiniteSets

CONSTANTS
    Peers,        \* port identities of the devices on the link
    SequenceIds,  \* number of sequence ids (2^16)
    MaxInFlight,  \* bound: messages on the link at a time
    Survivors,    \* those that may become the only device on the link
    None

ASSUME PeerDelayAssumption ==
    /\ None \notin Peers
    /\ SequenceIds \in Nat \ {0} /\ MaxInFlight \in Nat
    /\ Survivors \subseteq Peers

VARIABLES
    port_state,       \* "Running" or "Faulty"
    peer_delay_state, \* None (Empty), or a record with the state's fields
    filter,           \* the last measurement since the filter is new, or None
    pdelay_seq_id,    \* pdelay_seq_ids: the next PDelayReq's id
    timestamps,       \* PDelayReq ids whose send timestamp is due
    network,          \* messages on the link
    only              \* the only device left on the link, None: all are there

port == <<port_state, peer_delay_state, filter>>
vars == <<port, pdelay_seq_id, timestamps, network, only>>

Init ==
    /\ port_state = "Running" /\ peer_delay_state = None /\ filter = None
    /\ pdelay_seq_id = 0 /\ timestamps = {}
    /\ network = {}
    /\ only = None

(* The time of an event of a device (None: of this port); copy tells the   *)
(* receptions of a duplicated message apart.                               *)
Time(p, i, copy) == [source |-> p, id |-> i, copy |-> copy]

Measuring(i) ==
    [state |-> "Measuring", id |-> i, responder_identity |-> None,
     request_send_time |-> None, request_recv_time |-> None,
     response_send_time |-> None, response_recv_time |-> None]

PostMeasurement(s) ==
    [state |-> "PostMeasurement", id |-> s.id, responder_identity |-> s.responder_identity]

TimeFields == {"request_send_time", "request_recv_time", "response_send_time", "response_recv_time"}

-----------------------------------------------------------------------------
Complete(s) ==
    /\ s # None /\ s.state = "Measuring"
    /\ s.responder_identity # None
    /\ \A f \in TimeFields : s[f] # None

MeasureStaysFaulty(s) ==
    /\ peer_delay_state' = PostMeasurement(s)
    /\ filter' = [f \in TimeFields |-> s[f]]
    /\ UNCHANGED port_state

Measure(s) ==
    /\ peer_delay_state' = PostMeasurement(s)
    /\ port_state' = "Running"
    /\ filter' = [f \in TimeFields |-> s[f]]

Keep(s) ==
    /\ peer_delay_state' = s
    /\ UNCHANGED <<port_state, filter>>

(* handle_time_measurement with extract_measurement: a complete exchange   *)
(* is measured, and recovers a disabled port, which has a new filter then. *)
HandleTimeMeasurement(s) == IF Complete(s) THEN Measure(s) ELSE Keep(s)

(* set_forced_port_state(Faulty): the filter is replaced. *)
Disable ==
    /\ port_state' = "Faulty"
    /\ filter' = None
    /\ UNCHANGED peer_delay_state

Ignored == UNCHANGED port

Received(x) ==
    /\ x \in network
    /\ network' = network \ {x}
    /\ UNCHANGED <<pdelay_seq_id, timestamps, only>>

(* The answer is to the request of the exchange. *)
IsCurrent(x) == peer_delay_state # None /\ peer_delay_state.id = x.id

FromAnotherNever(x) == FALSE

(* Another device has answered that request. *)
FromAnother(x) ==
    /\ IsCurrent(x)
    /\ peer_delay_state.responder_identity \notin {None, x.source}

(* The answer brings what the exchange still lacks. *)
Fits(x, field) ==
    /\ IsCurrent(x) /\ ~FromAnother(x)
    /\ peer_delay_state.state = "Measuring" /\ peer_delay_state[field] = None

-----------------------------------------------------------------------------
(* handle_peer_delay_response *)
HandlePeerDelayResponse(x) ==
    LET time == Time(x.source, x.id, 0) IN
    /\ x.type = "pdelay_resp"
    /\ Received(x)
    /\ \/ FromAnother(x) /\ Disable
       \/ ~FromAnother(x) /\ ~Fits(x, "response_recv_time") /\ Ignored
       \/ /\ Fits(x, "response_recv_time")
          /\ HandleTimeMeasurement([peer_delay_state EXCEPT
                !.response_recv_time = Time(x.source, x.id, x.copy),
                !.request_recv_time = time,
                !.response_send_time = IF x.two_step THEN @ ELSE time,
                !.responder_identity = x.source])

(* handle_peer_delay_response_follow_up *)
HandlePeerDelayResponseFollowUp(x) ==
    /\ x.type = "pdelay_resp_follow_up"
    /\ Received(x)
    /\ \/ FromAnother(x) /\ Disable
       \/ ~FromAnother(x) /\ ~Fits(x, "response_send_time") /\ Ignored
       \/ /\ Fits(x, "response_send_time")
          /\ HandleTimeMeasurement([peer_delay_state EXCEPT
                !.response_send_time = Time(x.source, x.id, 0),
                !.responder_identity = x.source])

(* handle_pdelay_timestamp, called by handle_send_timestamp *)
HandlePdelayTimestamp(i) ==
    LET x == [id |-> i, source |-> None]
        fits == /\ IsCurrent(x) /\ peer_delay_state.state = "Measuring"
                /\ peer_delay_state.request_send_time = None
    IN  /\ i \in timestamps
        /\ timestamps' = timestamps \ {i}
        /\ UNCHANGED <<pdelay_seq_id, network, only>>
        /\ \/ ~fits /\ Ignored
           \/ /\ fits
              /\ HandleTimeMeasurement([peer_delay_state EXCEPT
                    !.request_send_time = Time(None, i, 0)])

(* handle_pdelay_req and handle_pdelay_response_timestamp of a device that *)
(* answers request i, in one step or in two.                               *)
Answers(i, p, two_step) ==
    LET message(type) == [type |-> type, source |-> p, id |-> i,
                          two_step |-> two_step, copy |-> 0]
    IN  {message("pdelay_resp")} \union
        (IF two_step THEN {message("pdelay_resp_follow_up")} ELSE {})

(* send_p2p_delay_request, when the delay request timer fires, whatever    *)
(* the state of the port.  twoStep are the devices that answer in two      *)
(* steps, oneStep those that answer in one.  Some of the answers, and the  *)
(* send timestamp, never arrive.  Nothing of the exchange that had the     *)
(* same id, 2^16 requests ago, is on its way any more.                     *)
SendP2pDelayRequest(oneStep, twoStep) ==
    LET i == pdelay_seq_id
        old == {x \in network : x.id # i}
        answers == UNION ({Answers(i, p, FALSE) : p \in oneStep}
                          \union {Answers(i, p, TRUE) : p \in twoStep})
    IN  /\ only # None => network = {} /\ timestamps = {}
        /\ oneStep \intersect twoStep = {}
        /\ only # None => oneStep \union twoStep = {only}
        /\ peer_delay_state' = Measuring(i)
        /\ pdelay_seq_id' = (i + 1) % SequenceIds
        /\ \/ timestamps' = timestamps \union {i}
           \/ only = None /\ timestamps' = timestamps \ {i}
        /\ \E lost \in SUBSET answers :
              /\ only # None => lost = {}
              /\ network' = old \union (answers \ lost)
        /\ Cardinality(network') <= MaxInFlight
        /\ UNCHANGED <<port_state, filter, only>>

-----------------------------------------------------------------------------
(* The link. *)

Duplicate(x) ==
    /\ only = None /\ x \in network /\ x.copy = 0
    /\ Cardinality(network) < MaxInFlight
    /\ network' = network \union {[x EXCEPT !.copy = 1]}
    /\ UNCHANGED <<port, pdelay_seq_id, timestamps, only>>

(* From now on there is one device, nothing gets lost or doubled, and the  *)
(* answers to a request arrive before the next one is sent.                *)
LinkIsRepaired(p) ==
    /\ only = None
    /\ only' = p
    /\ UNCHANGED <<port, pdelay_seq_id, timestamps, network>>

Next ==
    \/ \E x \in network :
          HandlePeerDelayResponse(x) \/ HandlePeerDelayResponseFollowUp(x) \/ Duplicate(x)
    \/ \E i \in timestamps : HandlePdelayTimestamp(i)
    \/ \E oneStep, twoStep \in SUBSET Peers : SendP2pDelayRequest(oneStep, twoStep)
    \/ \E p \in Survivors : LinkIsRepaired(p)

Spec == Init /\ [][Next]_vars

(* The delay request timer is set again by every request, and what is on   *)
(* the way arrives.                                                        *)
Fairness ==
    /\ WF_vars(\E oneStep, twoStep \in SUBSET Peers : SendP2pDelayRequest(oneStep, twoStep))
    /\ WF_vars(\E i \in timestamps : HandlePdelayTimestamp(i))
    /\ WF_vars(\E x \in network :
                  HandlePeerDelayResponse(x) \/ HandlePeerDelayResponseFollowUp(x))

FairSpec == Spec /\ Fairness

-----------------------------------------------------------------------------
Times == [source : Peers \union {None}, id : 0..(SequenceIds - 1), copy : {0, 1}] \union {None}

(* A complete exchange is never left in the state without being measured. *)
TypeOK ==
    /\ port_state \in {"Running", "Faulty"}
    /\ peer_delay_state # None =>
          /\ peer_delay_state.id \in 0..(SequenceIds - 1)
          /\ peer_delay_state.responder_identity \in Peers \union {None}
          /\ peer_delay_state.state = "Measuring" =>
                \A f \in TimeFields : peer_delay_state[f] \in Times
    /\ ~Complete(peer_delay_state)

(* All four times of a peer delay measurement are of the answers of one    *)
(* device to one request, whichever devices answered which requests in     *)
(* whichever order.                                                        *)
OneResponder ==
    filter # None =>
        \E p \in Peers, i \in 0..(SequenceIds - 1) :
            /\ filter.request_send_time = Time(None, i, 0)
            /\ filter.request_recv_time = Time(p, i, 0)
            /\ filter.response_send_time = Time(p, i, 0)
            /\ filter.response_recv_time \in {Time(p, i, 0), Time(p, i, 1)}

(* Once one device alone is left on the link and nothing is lost any more, *)
(* a port that was disabled works again for good.                          *)
Recovers == (only # None) ~> [](port_state = "Running")
=============================================================================
