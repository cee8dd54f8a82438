------------------------- MODULE Measurement_proofs -------------------------
(***************************************************************************)
(* What a port reads and measures.                                         *)
(*                                                                         *)
(* For any devices on the link and any number of requests: whose times a   *)
(* peer delay measurement is made of (PeerDelay).                          *)
(*                                                                         *)
(* For any message, with any values in its fields and any TLVs: it is read *)
(* as it was sent (WireFormat, Messages).  The argument has four layers:   *)
(* a field is read where its octets are; the fields of a table do not      *)
(* overlap, so that all of them are where they were put; the TLVs of a     *)
(* message are where those before them end; a packet has a header, a body  *)
(* and TLVs one after the other.                                           *)
(*                                                                         *)
(* For any times and units of time: how exact the offsets and delays are   *)
(* that are computed from one exchange of such messages (Exchange).        *)
(***************************************************************************)
EXTENDS PeerDelay, MCAlgorithms, WellFoundedInduction, SequenceTheorems, TLAPS

-----------------------------------------------------------------------------
(* Whose times a peer delay measurement is made of *)

Ids == 0..(SequenceIds - 1)

Measurings ==
    [state : {"Measuring"}, id : Ids, responder_identity : Peers \union {None},
     request_send_time : Times, request_recv_time : Times,
     response_send_time : Times, response_recv_time : Times]

Posts == [state : {"PostMeasurement"}, id : Ids, responder_identity : Peers \union {None}]

(* An exchange in progress: every time that it has is of its request, and  *)
(* of its responder.                                                       *)
Consistent(s) ==
    /\ s \in Measurings
    /\ s.request_send_time \in {None, Time(None, s.id, 0)}
    /\ s.request_recv_time # None =>
          s.responder_identity # None /\ s.request_recv_time = Time(s.responder_identity, s.id, 0)
    /\ s.response_send_time # None =>
          s.responder_identity # None /\ s.response_send_time = Time(s.responder_identity, s.id, 0)
    /\ s.response_recv_time # None =>
          /\ s.responder_identity # None
          /\ s.response_recv_time \in {Time(s.responder_identity, s.id, copy) : copy \in {0, 1}}

StateOK ==
    /\ peer_delay_state # None => Consistent(peer_delay_state) \/ peer_delay_state \in Posts
    /\ ~Complete(peer_delay_state)

Messages ==
    [type : {"pdelay_resp", "pdelay_resp_follow_up"}, source : Peers, id : Ids,
     two_step : BOOLEAN, copy : {0, 1}]

MessagesOK == network \subseteq Messages

IInv ==
    /\ port_state \in {"Running", "Faulty"}
    /\ StateOK /\ OneResponder /\ MessagesOK
    /\ pdelay_seq_id \in Ids /\ timestamps \subseteq Ids

-----------------------------------------------------------------------------
(* The invariant implies the types. *)
LEMMA IInvImplies == IInv => TypeOK
BY DEF IInv, StateOK, Consistent, Measurings, Posts, TypeOK, TimeFields, Ids

(* Sequence ids roll over within their range. *)
LEMMA IdsAreIds == 0 \in Ids /\ \A i \in Ids : (i + 1) % SequenceIds \in Ids
BY PeerDelayAssumption DEF Ids

(* The times of events are times. *)
LEMMA TimesAreTimes ==
    /\ None \in Times
    /\ \A p \in Peers \union {None}, i \in Ids, copy \in {0, 1} : Time(p, i, copy) \in Times
BY DEF Times, Time, Ids

(* A new port satisfies the invariant. *)
LEMMA InitIInv == Init => IInv
BY IdsAreIds DEF Init, IInv, StateOK, OneResponder, MessagesOK, Complete

(* extract_measurement: a consistent exchange stays so, or is measured. *)
LEMMA MeasurementKeeps ==
    ASSUME NEW s, Consistent(s), HandleTimeMeasurement(s),
           port_state \in {"Running", "Faulty"}, OneResponder
    PROVE  StateOK' /\ OneResponder' /\ port_state' \in {"Running", "Faulty"}
<1>1. CASE Complete(s)
  <2> DEFINE p == s.responder_identity
  <2>1. /\ p \in Peers /\ s.id \in Ids
        /\ s.request_send_time = Time(None, s.id, 0)
        /\ s.request_recv_time = Time(p, s.id, 0)
        /\ s.response_send_time = Time(p, s.id, 0)
        /\ s.response_recv_time \in {Time(p, s.id, 0), Time(p, s.id, 1)}
    BY <1>1 DEF Complete, Consistent, Measurings, TimeFields
  <2>2. /\ peer_delay_state' = PostMeasurement(s) /\ port_state' = "Running"
        /\ filter' = [f \in TimeFields |-> s[f]]
    BY <1>1 DEF HandleTimeMeasurement, Measure
  <2>3. /\ filter'.request_send_time = s.request_send_time
        /\ filter'.request_recv_time = s.request_recv_time
        /\ filter'.response_send_time = s.response_send_time
        /\ filter'.response_recv_time = s.response_recv_time
    BY <2>2 DEF TimeFields
  <2>4. OneResponder'
    BY <2>1, <2>3 DEF OneResponder, Ids
  <2>5. PostMeasurement(s) \in Posts /\ PostMeasurement(s).state = "PostMeasurement"
    BY <2>1 DEF PostMeasurement, Posts
  <2>6. StateOK'
    BY <2>2, <2>5 DEF StateOK, Complete
  <2> QED
    BY <2>2, <2>4, <2>6
<1>2. CASE ~Complete(s)
  BY <1>2 DEF HandleTimeMeasurement, Keep, StateOK, OneResponder
<1> QED
  BY <1>1, <1>2

(* Everything but a measurement leaves the filter as it is or new. *)
LEMMA OthersKeep ==
    ASSUME StateOK, OneResponder, port_state \in {"Running", "Faulty"}, Ignored \/ Disable
    PROVE  StateOK' /\ OneResponder' /\ port_state' \in {"Running", "Faulty"}
BY DEF Ignored, Disable, port, StateOK, OneResponder

(* handle_peer_delay_response *)
LEMMA ResponseKeeps ==
    ASSUME IInv, NEW x \in network, HandlePeerDelayResponse(x)
    PROVE  IInv'
<1>1. x.source \in Peers /\ x.id \in Ids /\ x.copy \in {0, 1}
  BY DEF IInv, MessagesOK, Messages
<1>2. /\ network' \subseteq network /\ MessagesOK'
      /\ UNCHANGED <<pdelay_seq_id, timestamps>>
  BY DEF HandlePeerDelayResponse, Received, IInv, MessagesOK
<1>3. StateOK' /\ OneResponder' /\ port_state' \in {"Running", "Faulty"}
  <2>1. CASE Ignored \/ Disable
    BY <2>1, OthersKeep DEF IInv
  <2>2. CASE Fits(x, "response_recv_time") /\ ~(Ignored \/ Disable)
    <3> DEFINE s == peer_delay_state
               time == Time(x.source, x.id, 0)
               recv == Time(x.source, x.id, x.copy)
               send == IF x.two_step THEN s.response_send_time ELSE time
               t == [s EXCEPT !.response_recv_time = recv, !.request_recv_time = time,
                              !.response_send_time = send, !.responder_identity = x.source]
    <3>1. HandleTimeMeasurement(t)
      BY <2>2 DEF HandlePeerDelayResponse
    <3>2. /\ Consistent(s) /\ s.id = x.id /\ s.responder_identity \in {None, x.source}
          /\ s.response_recv_time = None
      BY <2>2 DEF Fits, IsCurrent, FromAnother, IInv, StateOK, Posts
    <3>3. /\ s \in Measurings /\ time \in Times /\ recv \in Times /\ send \in Times
      BY <1>1, <3>2, TimesAreTimes DEF Consistent, Measurings
    <3>4. /\ x.source # None
          /\ s.request_send_time \in {None, Time(None, x.id, 0)}
          /\ send \in {None, time}
      BY <1>1, <3>2, PeerDelayAssumption DEF Consistent
    <3>5. recv \in {Time(x.source, x.id, copy) : copy \in {0, 1}}
      BY <1>1
    <3> HIDE DEF s, time, recv, send
    <3>6. /\ t \in Measurings
          /\ t.id = s.id /\ t.request_send_time = s.request_send_time
          /\ t.responder_identity = x.source /\ t.request_recv_time = time
          /\ t.response_send_time = send /\ t.response_recv_time = recv
      BY <1>1, <3>3 DEF Measurings
    <3> HIDE DEF t
    <3>7. Consistent(t)
      BY <3>2, <3>4, <3>5, <3>6 DEF Consistent, time
    <3> QED
      BY <3>1, <3>7, MeasurementKeeps DEF IInv
  <2> QED
    BY <2>1, <2>2 DEF HandlePeerDelayResponse
<1> QED
  BY <1>2, <1>3 DEF IInv

(* handle_peer_delay_response_follow_up *)
LEMMA FollowUpKeeps ==
    ASSUME IInv, NEW x \in network, HandlePeerDelayResponseFollowUp(x)
    PROVE  IInv'
<1>1. x.source \in Peers /\ x.id \in Ids
  BY DEF IInv, MessagesOK, Messages
<1>2. /\ network' \subseteq network /\ MessagesOK'
      /\ UNCHANGED <<pdelay_seq_id, timestamps>>
  BY DEF HandlePeerDelayResponseFollowUp, Received, IInv, MessagesOK
<1>3. StateOK' /\ OneResponder' /\ port_state' \in {"Running", "Faulty"}
  <2>1. CASE Ignored \/ Disable
    BY <2>1, OthersKeep DEF IInv
  <2>2. CASE Fits(x, "response_send_time") /\ ~(Ignored \/ Disable)
    <3> DEFINE s == peer_delay_state
               time == Time(x.source, x.id, 0)
               t == [s EXCEPT !.response_send_time = time, !.responder_identity = x.source]
    <3>1. HandleTimeMeasurement(t)
      BY <2>2 DEF HandlePeerDelayResponseFollowUp
    <3>2. /\ Consistent(s) /\ s.id = x.id /\ s.responder_identity \in {None, x.source}
      BY <2>2 DEF Fits, IsCurrent, FromAnother, IInv, StateOK, Posts
    <3>3. s \in Measurings /\ time \in Times
      BY <1>1, <3>2, TimesAreTimes DEF Consistent
    <3>4. /\ x.source # None
          /\ s.request_send_time \in {None, Time(None, x.id, 0)}
          /\ s.request_recv_time # None => s.request_recv_time = time
          /\ s.response_recv_time # None =>
                s.response_recv_time \in {Time(x.source, x.id, copy) : copy \in {0, 1}}
      BY <1>1, <3>2, PeerDelayAssumption DEF Consistent
    <3> HIDE DEF s, time
    <3>5. /\ t \in Measurings
          /\ t.id = s.id /\ t.request_send_time = s.request_send_time
          /\ t.responder_identity = x.source /\ t.response_send_time = time
          /\ t.request_recv_time = s.request_recv_time
          /\ t.response_recv_time = s.response_recv_time
      BY <1>1, <3>3 DEF Measurings
    <3> HIDE DEF t
    <3>6. Consistent(t)
      BY <3>2, <3>4, <3>5 DEF Consistent, time
    <3> QED
      BY <3>1, <3>6, MeasurementKeeps DEF IInv
  <2> QED
    BY <2>1, <2>2 DEF HandlePeerDelayResponseFollowUp
<1> QED
  BY <1>2, <1>3 DEF IInv

(* handle_pdelay_timestamp *)
LEMMA TimestampKeeps ==
    ASSUME IInv, NEW i \in timestamps, HandlePdelayTimestamp(i)
    PROVE  IInv'
<1>1. i \in Ids /\ timestamps' \subseteq Ids /\ UNCHANGED <<pdelay_seq_id, network>>
  BY DEF IInv, HandlePdelayTimestamp
<1>2. MessagesOK'
  BY <1>1 DEF IInv, MessagesOK
<1>3. StateOK' /\ OneResponder' /\ port_state' \in {"Running", "Faulty"}
  <2>1. CASE Ignored
    BY <2>1, OthersKeep DEF IInv
  <2>2. CASE ~Ignored
    <3> DEFINE s == peer_delay_state
               t == [s EXCEPT !.request_send_time = Time(None, i, 0)]
    <3>1. /\ HandleTimeMeasurement(t)
          /\ s # None /\ s.id = i /\ s.state = "Measuring"
      BY <2>2 DEF HandlePdelayTimestamp, IsCurrent
    <3>2. Consistent(s)
      BY <3>1 DEF IInv, StateOK, Posts
    <3>3. Time(None, i, 0) \in Times
      BY <1>1, TimesAreTimes
    <3>4. Consistent(t)
      BY <3>1, <3>2, <3>3 DEF Consistent, Measurings
    <3> QED
      BY <3>1, <3>4, MeasurementKeeps DEF IInv
  <2> QED
    BY <2>1, <2>2
<1> QED
  BY <1>1, <1>2, <1>3 DEF IInv

(* send_p2p_delay_request: a new exchange replaces the old one. *)
LEMMA RequestKeeps ==
    ASSUME IInv, NEW oneStep \in SUBSET Peers, NEW twoStep \in SUBSET Peers,
           SendP2pDelayRequest(oneStep, twoStep)
    PROVE  IInv'
<1>1. /\ pdelay_seq_id \in Ids /\ pdelay_seq_id' \in Ids
      /\ timestamps' \subseteq timestamps \union {pdelay_seq_id}
      /\ peer_delay_state' = Measuring(pdelay_seq_id)
      /\ UNCHANGED <<port_state, filter>>
  BY IdsAreIds DEF IInv, SendP2pDelayRequest
<1>2. Consistent(Measuring(pdelay_seq_id)) /\ ~Complete(Measuring(pdelay_seq_id))
  BY <1>1, TimesAreTimes DEF Measuring, Consistent, Measurings, Complete
<1>3. StateOK'
  BY <1>1, <1>2 DEF StateOK
<1>4. OneResponder'
  BY <1>1 DEF IInv, OneResponder
<1>5. \A p \in Peers, two_step \in BOOLEAN : Answers(pdelay_seq_id, p, two_step) \subseteq Messages
  BY <1>1 DEF Answers, Messages
<1>6. MessagesOK'
  <2> DEFINE answers == UNION ({Answers(pdelay_seq_id, p, FALSE) : p \in oneStep}
                               \union {Answers(pdelay_seq_id, p, TRUE) : p \in twoStep})
  <2>1. network' \subseteq network \union answers
    BY DEF SendP2pDelayRequest
  <2>2. answers \subseteq Messages
    BY <1>5
  <2> HIDE DEF answers
  <2> QED
    BY <2>1, <2>2 DEF IInv, MessagesOK
<1> QED
  BY <1>1, <1>3, <1>4, <1>6 DEF IInv

(* What the link does to messages leaves the port as it is. *)
LEMMA LinkKeeps ==
    ASSUME IInv, UNCHANGED <<port, pdelay_seq_id, timestamps>>, MessagesOK'
    PROVE  IInv'
BY DEF IInv, StateOK, OneResponder, port

(* Every step keeps the invariant. *)
LEMMA NextKeeps == IInv /\ [Next]_vars => IInv'
<1> SUFFICES ASSUME IInv, [Next]_vars PROVE IInv'
  OBVIOUS
<1>1. ASSUME NEW x \in network, Duplicate(x)
      PROVE  IInv'
  <2>1. [x EXCEPT !.copy = 1] \in Messages
    BY DEF IInv, MessagesOK, Messages
  <2>2. MessagesOK'
    BY <1>1, <2>1 DEF Duplicate, IInv, MessagesOK
  <2> QED
    BY <1>1, <2>2, LinkKeeps DEF Duplicate
<1>2. ASSUME NEW p \in Survivors, LinkIsRepaired(p)
      PROVE  IInv'
  BY <1>2, LinkKeeps DEF LinkIsRepaired, IInv, MessagesOK
<1>3. CASE UNCHANGED vars
  BY <1>3, LinkKeeps DEF vars, IInv, MessagesOK
<1> QED
  BY <1>1, <1>2, <1>3, ResponseKeeps, FollowUpKeeps, TimestampKeeps, RequestKeeps DEF Next

(* IInv holds always. *)
LEMMA Invariance == Spec => []IInv
BY InitIInv, NextKeeps, PTL DEF Spec

(* Type correctness of the exchange, which is never left complete without  *)
(* being measured, for any devices and ids that roll over.                 *)
THEOREM PeerDelayTypeCorrect == Spec => []TypeOK
BY Invariance, IInvImplies, PTL

(* For any devices that answer any requests, with messages lost, doubled   *)
(* and reordered, the four times of a measurement are of one device and    *)
(* one request.                                                            *)
THEOREM NeverMixesResponders == Spec => []OneResponder
<1>1. IInv => OneResponder
  BY DEF IInv
<1> QED
  BY <1>1, Invariance, PTL

-----------------------------------------------------------------------------
(* Induction *)

(* A set of natural numbers that is not empty has a least element. *)
LEMMA LeastElement ==
    ASSUME NEW T, T \subseteq Nat, T # {}
    PROVE  \E n \in T : \A m \in T : n <= m
<1>1. PICK x \in T : \A y \in T : ~ (<<y, x>> \in OpToRel(<, Nat))
  BY WFMin, NatLessThanWellFounded
<1>2. \A y \in T : ~ (y < x)
  BY <1>1 DEF OpToRel
<1> QED BY <1>2

(* Induction, for a set in place of a predicate. *)
LEMMA SetInduction ==
    ASSUME NEW S, 0 \in S, \A n \in Nat : n \in S => n + 1 \in S
    PROVE  \A n \in Nat : n \in S
<1>1. SUFFICES ASSUME Nat \ S # {} PROVE FALSE
  OBVIOUS
<1>2. PICK n \in Nat \ S : \A m \in Nat \ S : n <= m
  BY <1>1, LeastElement
<1>3. n # 0 /\ n - 1 \in Nat
  BY <1>2
<1>4. n - 1 \in S
  BY <1>2, <1>3
<1> QED BY <1>2, <1>3, <1>4

-----------------------------------------------------------------------------
(* Sets of TLVs *)

(* Any set of octets, with anything in its length fields: numbers, or -1   *)
(* where the two octets are parts of other fields                          *)
TlvSetsOf(n) == [octets : {n}, lengths : [0..n -> Nat \union {-1}]]

(* What the loop of deserialize says of the rest from an offset on, when   *)
(* after tells it of the later ones                                        *)
ValidatedFrom(set, after, offset) ==
    LET left == set.octets - offset
        length == set.lengths[offset]
    IN  CASE ~ValidatorGoesOn(left) -> IF left = 0 THEN "Ok" ELSE "BufferTooShort"
          [] ValidatorGoesOn(left) /\ length % 2 # 0 -> "Invalid"
          [] ValidatorGoesOn(left) /\ length % 2 = 0 /\ TlvHeader + length > left ->
                "BufferTooShort"
          [] OTHER -> after[offset + TlvHeader + length]

(* What the iterator yields from an offset on *)
IteratedFrom(set, after, offset) ==
    LET left == set.octets - offset
        length == set.lengths[offset]
    IN  CASE ~IteratorGoesOn(left) -> IF left = 0 THEN <<>> ELSE <<Panic>>
          [] IteratorGoesOn(left) /\ TlvHeader + length > left -> <<Panic>>
          [] OTHER -> <<length>> \o after[offset + TlvHeader + length]

(* f is the function of the loop, from offset first on. *)
IsValidation(set, f, first) ==
    f = [offset \in first..set.octets |-> ValidatedFrom(set, f, offset)]

IsIteration(set, f, first) ==
    f = [offset \in first..set.octets |-> IteratedFrom(set, f, offset)]

(* The next TLV starts at a later offset of the set. *)
LEMMA NextOffset ==
    ASSUME NEW n \in Nat, NEW set \in TlvSetsOf(n), NEW offset \in 0..n,
           ~(TlvHeader + set.lengths[offset] > set.octets - offset)
    PROVE  /\ set.octets = n /\ set.lengths[offset] \in Int
           /\ offset + TlvHeader + set.lengths[offset] \in (offset + 1)..n
<1>1. set.octets = n /\ set.lengths[offset] \in Int /\ set.lengths[offset] >= -1
  BY DEF TlvSetsOf
<1> QED BY <1>1 DEF TlvHeader

(* Both depend on the later offsets only. *)
LEMMA FromAgrees ==
    ASSUME NEW n \in Nat, NEW set \in TlvSetsOf(n), NEW offset \in 0..n, NEW f, NEW g,
           \A o \in (offset + 1)..n : f[o] = g[o]
    PROVE  /\ ValidatedFrom(set, f, offset) = ValidatedFrom(set, g, offset)
           /\ IteratedFrom(set, f, offset) = IteratedFrom(set, g, offset)
<1>1. CASE TlvHeader + set.lengths[offset] > set.octets - offset
  <2>1. PICK left, length : left = set.octets - offset /\ length = set.lengths[offset]
    OBVIOUS
  <2>2. left \in Int /\ length \in Int /\ TlvHeader + length > left
    BY <1>1, <2>1 DEF TlvSetsOf
  <2>3. length % 2 \in Int
    BY <2>2
  <2>4. ValidatedFrom(set, f, offset) = ValidatedFrom(set, g, offset)
    BY <2>1, <2>2, <2>3 DEF ValidatedFrom
  <2>5. IteratedFrom(set, f, offset) = IteratedFrom(set, g, offset)
    BY <2>1, <2>2 DEF IteratedFrom
  <2> QED BY <2>4, <2>5
<1>2. CASE ~(TlvHeader + set.lengths[offset] > set.octets - offset)
  <2>1. f[offset + TlvHeader + set.lengths[offset]] = g[offset + TlvHeader + set.lengths[offset]]
    BY <1>2, NextOffset
  <2> QED BY <2>1, Zenon DEF ValidatedFrom, IteratedFrom
<1> QED BY <1>1, <1>2

(* Both loops are well defined, whatever the length fields hold. *)
LEMMA ValidationExists ==
    ASSUME NEW n \in Nat, NEW set \in TlvSetsOf(n)
    PROVE  \E f : IsValidation(set, f, 0)
<1> DEFINE S == {k \in Nat : k <= n => \E f : IsValidation(set, f, n - k)}
<1>1. set.octets = n
  BY DEF TlvSetsOf
<1>2. 0 \in S
  <2>1. IsValidation(set, [o \in n..n |-> ValidatedFrom(set, <<>>, n)], n - 0)
    <3> DEFINE f == [o \in n..n |-> ValidatedFrom(set, <<>>, n)]
    <3>1. ValidatedFrom(set, <<>>, n) = ValidatedFrom(set, f, n)
      <4>1. \A o \in (n + 1)..n : <<>>[o] = f[o]
        OBVIOUS
      <4>2. n \in 0..n
        OBVIOUS
      <4> HIDE DEF f
      <4> QED BY <4>1, <4>2, FromAgrees
    <3>2. n - 0 = n /\ \A o \in n..n : o = n
      OBVIOUS
    <3>3. f = [o \in n..n |-> ValidatedFrom(set, f, o)]
      BY <3>1, <3>2
    <3> QED BY <1>1, <3>2, <3>3 DEF IsValidation
  <2> QED BY <2>1
<1>3. ASSUME NEW k \in Nat, k \in S PROVE k + 1 \in S
  <2>1. SUFFICES ASSUME k + 1 <= n PROVE \E f : IsValidation(set, f, n - (k + 1))
    OBVIOUS
  <2>2. PICK first : first = n - (k + 1)
    OBVIOUS
  <2>3. first \in 0..n /\ n - k = first + 1
    BY <2>1, <2>2
  <2>4. PICK f : IsValidation(set, f, first + 1)
    BY <1>3, <2>1, <2>3
  <2>5. \A o \in (first + 1)..n : f[o] = ValidatedFrom(set, f, o)
    BY <1>1, <2>4, Zenon DEF IsValidation
  <2> DEFINE g == [o \in first..n |-> IF o = first THEN ValidatedFrom(set, f, o) ELSE f[o]]
  <2>6. \A o \in (first + 1)..n : g[o] = f[o] /\ o \in 0..n
    BY <2>3
  <2>7. g[first] = ValidatedFrom(set, f, first)
    BY <2>3
  <2>8. ASSUME NEW o \in first..n PROVE ValidatedFrom(set, f, o) = ValidatedFrom(set, g, o)
    <3>1. o \in 0..n /\ \A p \in (o + 1)..n : p \in (first + 1)..n
      BY <2>3
    <3>2. \A p \in (o + 1)..n : f[p] = g[p]
      BY <2>6, <3>1, Zenon
    <3> HIDE DEF g
    <3> QED BY <3>1, <3>2, FromAgrees
  <2>9. \A o \in first..n : o = first \/ o \in (first + 1)..n
    BY <2>3
  <2>10. \A o \in first..n : g[o] = ValidatedFrom(set, g, o)
    <3> HIDE DEF g
    <3> QED BY <2>5, <2>6, <2>7, <2>8, <2>9, Zenon
  <2>11. g = [o \in first..n |-> g[o]]
    OBVIOUS
  <2>12. IsValidation(set, g, first)
    <3> HIDE DEF g
    <3> QED BY <1>1, <2>10, <2>11, Zenon DEF IsValidation
  <2> QED BY <2>2, <2>12
<1> HIDE DEF S
<1>4. n \in S
  BY <1>2, <1>3, SetInduction
<1>5. n - n = 0
  OBVIOUS
<1> QED BY <1>4, <1>5 DEF S

(* The iterator is defined from the start of the octets, by the same        *)
(* induction over the octets that are left.                                *)
LEMMA IterationExists ==
    ASSUME NEW n \in Nat, NEW set \in TlvSetsOf(n)
    PROVE  \E f : IsIteration(set, f, 0)
<1> DEFINE S == {k \in Nat : k <= n => \E f : IsIteration(set, f, n - k)}
<1>1. set.octets = n
  BY DEF TlvSetsOf
<1>2. 0 \in S
  <2>1. IsIteration(set, [o \in n..n |-> IteratedFrom(set, <<>>, n)], n - 0)
    <3> DEFINE f == [o \in n..n |-> IteratedFrom(set, <<>>, n)]
    <3>1. IteratedFrom(set, <<>>, n) = IteratedFrom(set, f, n)
      <4>1. \A o \in (n + 1)..n : <<>>[o] = f[o]
        OBVIOUS
      <4>2. n \in 0..n
        OBVIOUS
      <4> HIDE DEF f
      <4> QED BY <4>1, <4>2, FromAgrees
    <3>2. n - 0 = n /\ \A o \in n..n : o = n
      OBVIOUS
    <3>3. f = [o \in n..n |-> IteratedFrom(set, f, o)]
      BY <3>1, <3>2
    <3> QED BY <1>1, <3>2, <3>3 DEF IsIteration
  <2> QED BY <2>1
<1>3. ASSUME NEW k \in Nat, k \in S PROVE k + 1 \in S
  <2>1. SUFFICES ASSUME k + 1 <= n PROVE \E f : IsIteration(set, f, n - (k + 1))
    OBVIOUS
  <2>2. PICK first : first = n - (k + 1)
    OBVIOUS
  <2>3. first \in 0..n /\ n - k = first + 1
    BY <2>1, <2>2
  <2>4. PICK f : IsIteration(set, f, first + 1)
    BY <1>3, <2>1, <2>3
  <2>5. \A o \in (first + 1)..n : f[o] = IteratedFrom(set, f, o)
    BY <1>1, <2>4, Zenon DEF IsIteration
  <2> DEFINE g == [o \in first..n |-> IF o = first THEN IteratedFrom(set, f, o) ELSE f[o]]
  <2>6. \A o \in (first + 1)..n : g[o] = f[o] /\ o \in 0..n
    BY <2>3
  <2>7. g[first] = IteratedFrom(set, f, first)
    BY <2>3
  <2>8. ASSUME NEW o \in first..n PROVE IteratedFrom(set, f, o) = IteratedFrom(set, g, o)
    <3>1. o \in 0..n /\ \A p \in (o + 1)..n : p \in (first + 1)..n
      BY <2>3
    <3>2. \A p \in (o + 1)..n : f[p] = g[p]
      BY <2>6, <3>1, Zenon
    <3> HIDE DEF g
    <3> QED BY <3>1, <3>2, FromAgrees
  <2>9. \A o \in first..n : o = first \/ o \in (first + 1)..n
    BY <2>3
  <2>10. \A o \in first..n : g[o] = IteratedFrom(set, g, o)
    <3> HIDE DEF g
    <3> QED BY <2>5, <2>6, <2>7, <2>8, <2>9, Zenon
  <2>11. g = [o \in first..n |-> g[o]]
    OBVIOUS
  <2>12. IsIteration(set, g, first)
    <3> HIDE DEF g
    <3> QED BY <1>1, <2>10, <2>11, Zenon DEF IsIteration
  <2> QED BY <2>2, <2>12
<1> HIDE DEF S
<1>4. n \in S
  BY <1>2, <1>3, SetInduction
<1>5. n - n = 0
  OBVIOUS
<1> QED BY <1>4, <1>5 DEF S

(* The offsets of the TLVs that TlvSetBuilder puts one after the other *)
IsOffsets(f, values, n) ==
    f = [i \in 1..n + 1 |-> IF i = 1 THEN 0 ELSE f[i - 1] + (TlvHeader + values[i - 1])]

OffsetsOf(values) == CHOOSE f : IsOffsets(f, values, Len(values))

(* The size of the set is where a further TLV would start. *)
LEMMA TotalIsLastOffset ==
    ASSUME NEW values
    PROVE  BuildTlvSet(values).octets = OffsetsOf(values)[Len(values) + 1]
BY Zenon DEF BuildTlvSet, Octets, OffsetsOf, IsOffsets

(* They are well defined. *)
LEMMA OffsetsExist ==
    ASSUME NEW values \in Seq(Nat)
    PROVE  LET f == OffsetsOf(values)
           IN  /\ f[1] = 0
               /\ \A i \in 1..Len(values) :
                     f[i] \in Nat /\ f[i + 1] = f[i] + (TlvHeader + values[i])
<1>1. PICK n : n = Len(values)
  OBVIOUS
<1>2. n \in Nat /\ \A i \in 1..n : values[i] \in Nat
  BY <1>1
<1> DEFINE S == {k \in Nat : k <= n => \E f : IsOffsets(f, values, k)}
<1>3. 0 \in S
  <2>1. IsOffsets([i \in 1..1 |-> 0], values, 0)
    BY DEF IsOffsets
  <2> QED BY <2>1
<1>4. ASSUME NEW k \in Nat, k \in S PROVE k + 1 \in S
  <2>1. SUFFICES ASSUME k + 1 <= n PROVE \E f : IsOffsets(f, values, k + 1)
    OBVIOUS
  <2>2. PICK f : IsOffsets(f, values, k)
    BY <1>2, <1>4, <2>1
  <2>3. \A i \in 1..k + 1 : f[i] = IF i = 1 THEN 0 ELSE f[i - 1] + (TlvHeader + values[i - 1])
    BY <2>2, Zenon DEF IsOffsets
  <2> DEFINE g == [i \in 1..(k + 1) + 1 |->
                      IF i <= k + 1 THEN f[i] ELSE f[i - 1] + (TlvHeader + values[i - 1])]
  <2>4. ASSUME NEW i \in 1..(k + 1) + 1
        PROVE  g[i] = IF i = 1 THEN 0 ELSE g[i - 1] + (TlvHeader + values[i - 1])
    <3>1. CASE i = 1
      BY <2>3, <3>1
    <3>2. CASE i # 1
      <4>1. i - 1 \in 1..k + 1 /\ g[i - 1] = f[i - 1]
        BY <3>2
      <4>2. CASE i <= k + 1
        BY <2>3, <3>2, <4>1, <4>2
      <4>3. CASE ~(i <= k + 1)
        BY <3>2, <4>1, <4>3
      <4> QED BY <4>2, <4>3
    <3> QED BY <3>1, <3>2
  <2>5. IsOffsets(g, values, k + 1)
    BY <2>4 DEF IsOffsets
  <2> QED BY <2>5
<1> HIDE DEF S
<1>5. n \in S
  BY <1>2, <1>3, <1>4, SetInduction
<1>6. \E f : IsOffsets(f, values, n)
  BY <1>2, <1>5 DEF S
<1>7. PICK f : f = OffsetsOf(values)
  OBVIOUS
<1>8. IsOffsets(f, values, n)
  BY <1>1, <1>6, <1>7, Zenon DEF OffsetsOf
<1>9. \A i \in 1..n + 1 : f[i] = IF i = 1 THEN 0 ELSE f[i - 1] + (TlvHeader + values[i - 1])
  BY <1>8, Zenon DEF IsOffsets
<1>10. f[1] = 0
  BY <1>2, <1>9
<1>11. ASSUME NEW i \in 1..n PROVE f[i + 1] = f[i] + (TlvHeader + values[i])
  <2>1. i + 1 \in 1..n + 1 /\ i + 1 # 1 /\ i + 1 - 1 = i
    BY <1>2
  <2> QED BY <1>9, <2>1
<1> DEFINE T == {k \in Nat : k + 1 \in 1..n => f[k + 1] \in Nat}
<1>12. 0 \in T
  BY <1>10
<1>13. ASSUME NEW k \in Nat, k \in T PROVE k + 1 \in T
  <2>1. SUFFICES ASSUME k + 1 + 1 \in 1..n PROVE f[k + 1 + 1] \in Nat
    OBVIOUS
  <2>2. k + 1 \in 1..n
    BY <1>2, <2>1
  <2>3. f[k + 1] \in Nat /\ values[k + 1] \in Nat
    BY <1>2, <1>13, <2>2
  <2>4. f[k + 1 + 1] = f[k + 1] + (TlvHeader + values[k + 1])
    BY <1>11, <2>2
  <2> QED BY <2>3, <2>4 DEF TlvHeader
<1> HIDE DEF T
<1>14. \A k \in Nat : k \in T
  BY <1>12, <1>13, SetInduction
<1>15. ASSUME NEW i \in 1..n PROVE f[i] \in Nat
  <2>1. i - 1 \in Nat /\ i - 1 + 1 = i
    BY <1>2
  <2> QED BY <1>14, <2>1 DEF T
<1> QED BY <1>1, <1>7, <1>10, <1>11, <1>15, Zenon

(* The size of a set, TLV by TLV *)
LEMMA TotalOfNone == BuildTlvSet(<<>>).octets = 0
<1>1. <<>> \in Seq(Nat) /\ Len(<<>>) + 1 = 1
  OBVIOUS
<1> QED BY <1>1, TotalIsLastOffset, OffsetsExist

(* A TLV in front adds its header and its value. *)
LEMMA TotalOfMore ==
    ASSUME NEW length \in Nat, NEW values \in Seq(Nat),
           BuildTlvSet(values).octets \in Nat
    PROVE  BuildTlvSet(<<length>> \o values).octets
              = TlvHeader + length + BuildTlvSet(values).octets
<1>1. PICK all : all = <<length>> \o values
  OBVIOUS
<1>2. PICK n : n = Len(values)
  OBVIOUS
<1>3. /\ all \in Seq(Nat) /\ n \in Nat /\ Len(all) = n + 1 /\ all[1] = length
      /\ \A i \in 1..n : all[i + 1] = values[i] /\ values[i] \in Nat
  BY <1>1, <1>2
<1>4. PICK f, g : f = OffsetsOf(values) /\ g = OffsetsOf(all)
  OBVIOUS
<1>5. /\ f[1] = 0
      /\ \A i \in 1..n : f[i] \in Nat /\ f[i + 1] = f[i] + (TlvHeader + values[i])
  BY <1>2, <1>4, OffsetsExist
<1>6. /\ g[1] = 0
      /\ \A i \in 1..n + 1 : g[i + 1] = g[i] + (TlvHeader + all[i])
  BY <1>3, <1>4, OffsetsExist
<1> DEFINE S == {k \in Nat : k <= n => g[k + 1 + 1] = TlvHeader + length + f[k + 1]}
<1>7. 0 \in S
  <2>1. 1 \in 1..n + 1 /\ 0 + 1 = 1
    BY <1>3
  <2>2. g[1 + 1] = 0 + (TlvHeader + length)
    BY <1>3, <1>6, <2>1
  <2> QED BY <1>5, <2>1, <2>2 DEF TlvHeader
<1>8. ASSUME NEW k \in Nat, k \in S PROVE k + 1 \in S
  <2>1. SUFFICES ASSUME k + 1 <= n
                 PROVE  g[k + 1 + 1 + 1] = TlvHeader + length + f[k + 1 + 1]
    OBVIOUS
  <2>2. k <= n /\ k + 1 \in 1..n /\ k + 1 + 1 \in 1..n + 1
    BY <1>3, <2>1
  <2>3. g[k + 1 + 1] = TlvHeader + length + f[k + 1]
    BY <1>8, <2>2
  <2>4. g[k + 1 + 1 + 1] = g[k + 1 + 1] + (TlvHeader + all[k + 1 + 1])
    BY <1>6, <2>2
  <2>5. /\ f[k + 1] \in Nat /\ f[k + 1 + 1] = f[k + 1] + (TlvHeader + values[k + 1])
        /\ all[k + 1 + 1] = values[k + 1] /\ values[k + 1] \in Nat
    BY <1>3, <1>5, <2>2
  <2> QED BY <2>3, <2>4, <2>5 DEF TlvHeader
<1> HIDE DEF S
<1>9. n \in S
  BY <1>3, <1>7, <1>8, SetInduction
<1>10. g[n + 1 + 1] = TlvHeader + length + f[n + 1]
  BY <1>3, <1>9 DEF S
<1> QED BY <1>1, <1>2, <1>3, <1>4, <1>10, TotalIsLastOffset, Zenon

(* For a set of any size with anything in its length fields: if            *)
(* deserialize accepts it, the iterator does not panic and leaves nothing. *)
THEOREM ValidatedSetsAreWalked ==
    ASSUME input.of = "tlvs" => \E n \in Nat : input.set \in TlvSetsOf(n)
    PROVE  ValidatedIsWalked
<1>1. SUFFICES ASSUME input.of = "tlvs", DeserializeTlvSet(input.set) = "Ok"
               PROVE  LET values == IterateTlvSet(input.set)
                      IN  /\ \A i \in DOMAIN values : values[i] # Panic
                          /\ BuildTlvSet(values).octets = input.set.octets
  BY Zenon DEF ValidatedIsWalked
<1>2. PICK set : set = input.set
  OBVIOUS
<1>3. PICK n \in Nat : set \in TlvSetsOf(n)
  BY <1>1, <1>2
<1>4. set.octets = n
  BY <1>3 DEF TlvSetsOf
<1> DEFINE v == CHOOSE f : IsValidation(set, f, 0)
           w == CHOOSE f : IsIteration(set, f, 0)
<1>5. DeserializeTlvSet(set) = v[0]
  BY Zenon DEF DeserializeTlvSet, IsValidation, ValidatedFrom
<1>6. IterateTlvSet(set) = w[0]
  BY Zenon DEF IterateTlvSet, IsIteration, IteratedFrom
<1>7. IsValidation(set, v, 0) /\ IsIteration(set, w, 0)
  BY <1>3, ValidationExists, IterationExists, Zenon
<1> HIDE DEF v, w
<1>8. \A o \in 0..n : v[o] = ValidatedFrom(set, v, o) /\ w[o] = IteratedFrom(set, w, o)
  BY <1>4, <1>7, Zenon DEF IsValidation, IsIteration
<1> DEFINE Walked(o) == v[o] = "Ok" =>
                           w[o] \in Seq(Nat) /\ BuildTlvSet(w[o]).octets = n - o
           S == {k \in Nat : \A o \in 0..n : n - o <= k => Walked(o)}
<1>9. ASSUME NEW o \in 0..n, \A p \in (o + 1)..n : Walked(p) PROVE Walked(o)
  <2>1. SUFFICES ASSUME v[o] = "Ok"
                 PROVE  w[o] \in Seq(Nat) /\ BuildTlvSet(w[o]).octets = n - o
    OBVIOUS
  <2>2. PICK left, length, next :
           /\ left = n - o /\ length = set.lengths[o] /\ next = o + TlvHeader + length
    OBVIOUS
  <2>3. left \in Nat /\ length \in Int /\ length >= -1 /\ length % 2 \in Int
    <3>1. length \in Int /\ length >= -1
      BY <1>3, <2>2 DEF TlvSetsOf
    <3> QED BY <2>2, <3>1
  <2>4. CASE ~(left > TlvHeader)
    <3>1. left = 0
      BY <1>4, <1>8, <2>1, <2>2, <2>3, <2>4 DEF ValidatedFrom, ValidatorGoesOn
    <3>2. w[o] = <<>>
      BY <1>4, <1>8, <2>2, <2>4, <3>1 DEF IteratedFrom, IteratorGoesOn
    <3> QED BY <2>2, <3>1, <3>2, TotalOfNone
  <2>5. CASE left > TlvHeader
    <3>1. length % 2 = 0
      BY <1>4, <1>8, <2>1, <2>2, <2>3, <2>5 DEF ValidatedFrom, ValidatorGoesOn
    <3>2. ~(TlvHeader + length > left)
      BY <1>4, <1>8, <2>1, <2>2, <2>3, <2>5, <3>1 DEF ValidatedFrom, ValidatorGoesOn
    <3>3. v[next] = "Ok"
      BY <1>4, <1>8, <2>1, <2>2, <2>3, <2>5, <3>1, <3>2 DEF ValidatedFrom, ValidatorGoesOn
    <3>4. PICK rest : rest = w[next]
      OBVIOUS
    <3>5. w[o] = <<length>> \o rest
      BY <1>4, <1>8, <2>2, <2>3, <2>5, <3>2, <3>4 DEF IteratedFrom, IteratorGoesOn
    <3>6. length \in Nat /\ next \in (o + 1)..n
      <4>1. length # -1
        BY <3>1
      <4> QED BY <2>2, <2>3, <3>2, <4>1 DEF TlvHeader
    <3>7. rest \in Seq(Nat) /\ BuildTlvSet(rest).octets = n - next /\ n - next \in Nat
      BY <1>9, <3>3, <3>4, <3>6
    <3>8. BuildTlvSet(<<length>> \o rest).octets = TlvHeader + length + (n - next)
      BY <3>6, <3>7, TotalOfMore
    <3>9. <<length>> \o rest \in Seq(Nat)
      BY <3>6, <3>7
    <3>10. TlvHeader + length + (n - next) = n - o
      <4>1. o \in Int /\ n \in Int /\ next = o + 4 + length
        BY <2>2 DEF TlvHeader
      <4> QED BY <2>3, <4>1 DEF TlvHeader
    <3> QED BY <3>5, <3>8, <3>9, <3>10
  <2> QED BY <2>4, <2>5
<1> HIDE DEF Walked
<1>10. 0 \in S
  <2>1. SUFFICES ASSUME NEW o \in 0..n, n - o <= 0 PROVE Walked(o)
    OBVIOUS
  <2>2. \A p \in (o + 1)..n : FALSE
    BY <2>1
  <2> QED BY <1>9, <2>2
<1>11. ASSUME NEW k \in Nat, k \in S PROVE k + 1 \in S
  <2>1. SUFFICES ASSUME NEW o \in 0..n, n - o <= k + 1 PROVE Walked(o)
    OBVIOUS
  <2>2. \A p \in (o + 1)..n : p \in 0..n /\ n - p <= k
    BY <2>1
  <2> QED BY <1>9, <1>11, <2>2
<1>12. n \in S
  <2> HIDE DEF S
  <2> QED BY <1>10, <1>11, SetInduction
<1>13. Walked(0)
  BY <1>12
<1>14. PICK values : values = IterateTlvSet(set)
  OBVIOUS
<1>15. values \in Seq(Nat) /\ BuildTlvSet(values).octets = n
  BY <1>1, <1>2, <1>5, <1>6, <1>13, <1>14 DEF Walked
<1>16. \A i \in DOMAIN values : values[i] # Panic
  BY <1>15 DEF Panic
<1> QED BY <1>2, <1>4, <1>14, <1>15, <1>16, Zenon

-----------------------------------------------------------------------------
(* Octets and fields *)

(* An octet is the value of the field it is of, and its place in that.     *)
WireOctets == Int \X Int

(* The octets part are in the octets whole, after the first at. *)
IsAt(whole, at, part) ==
    /\ at \in Nat /\ at + Len(part) <= Len(whole)
    /\ \A k \in 1..Len(part) : whole[at + k] = part[k]

(* An octet of a part is one of the whole. *)
LEMMA OctetOfPart ==
    ASSUME NEW whole, NEW at, NEW part, IsAt(whole, at, part), NEW k \in 1..Len(part)
    PROVE  whole[at + k] = part[k]
  BY Zenon DEF IsAt

(* A field of numbers *)
LEMMA FieldOctets ==
    ASSUME NEW v \in Int, NEW n \in Nat
    PROVE  /\ Field(v, n) \in Seq(WireOctets) /\ Len(Field(v, n)) = n
           /\ \A k \in 1..n : Field(v, n)[k] = <<v, k>>
<1>1. \A k \in 1..n : <<v, k>> \in WireOctets
  BY DEF WireOctets
<1>2. Field(v, n) \in [1..n -> WireOctets]
  BY <1>1 DEF Field
<1>3. Field(v, n) \in Seq(WireOctets)
  BY <1>2, SeqDef
<1>4. Len(Field(v, n)) = n
  BY <1>2, <1>3, LenProperties
<1> QED BY <1>3, <1>4 DEF Field

(* What is read of a field is its value. *)
LEMMA FieldIsRead ==
    ASSUME NEW v \in Int, NEW n \in Nat, n > 0
    PROVE  ReadField(Field(v, n)) = v
<1>1. PICK f : f = Field(v, n)
  OBVIOUS
<1>2. f \in Seq(WireOctets) /\ Len(f) = n /\ f[1] = <<v, 1>>
  BY <1>1, FieldOctets
<1>3. f # <<>>
  BY <1>2
<1>4. f[1][1] = v
  BY <1>2
<1> QED BY <1>1, <1>2, <1>3, <1>4, Zenon DEF ReadField

(* A part, as a subsequence *)
LEMMA PartIsSubSeq ==
    ASSUME NEW S, NEW whole \in Seq(S), NEW part \in Seq(S), NEW at, IsAt(whole, at, part)
    PROVE  SubSeq(whole, at + 1, at + Len(part)) = part
<1>1. PICK n : n = Len(part)
  OBVIOUS
<1>2. n \in Nat /\ at \in Nat /\ at + n <= Len(whole) /\ Len(whole) \in Nat
  BY <1>1 DEF IsAt
<1>3. \A i \in (at + 1)..(at + n) : whole[i] \in S
  BY <1>2
<1>4. PICK sub : sub = SubSeq(whole, at + 1, at + n)
  OBVIOUS
<1>5. /\ sub \in Seq(S)
      /\ Len(sub) = IF at + 1 <= at + n THEN (at + n) - (at + 1) + 1 ELSE 0
      /\ \A i \in 1..((at + n) - (at + 1) + 1) : sub[i] = whole[(at + 1) + i - 1]
  BY <1>2, <1>3, <1>4, SubSeqProperties
<1>6. Len(sub) = n
  BY <1>2, <1>5
<1>7. ASSUME NEW i \in 1..n PROVE sub[i] = part[i]
  <2>1. sub[i] = whole[(at + 1) + i - 1]
    BY <1>2, <1>5
  <2>2. (at + 1) + i - 1 = at + i
    BY <1>2
  <2> QED BY <1>1, <2>1, <2>2 DEF IsAt
<1>8. sub = part
  BY <1>1, <1>5, <1>6, <1>7, SeqEqual
<1> QED BY <1>1, <1>4, <1>8

(* The first and the second half of a part *)
LEMMA HalvesOfPart ==
    ASSUME NEW S, NEW first \in Seq(S), NEW second \in Seq(S), NEW whole \in Seq(S), NEW at,
           IsAt(whole, at, first \o second)
    PROVE  IsAt(whole, at, first) /\ IsAt(whole, at + Len(first), second)
<1>1. PICK m, n, both : m = Len(first) /\ n = Len(second) /\ both = first \o second
  OBVIOUS
<1>2. m \in Nat /\ n \in Nat /\ Len(both) = m + n
  BY <1>1
<1>3. \A i \in 1..(m + n) : both[i] = IF i <= m THEN first[i] ELSE second[i - m]
  BY <1>1, ConcatProperties
<1>4. /\ at \in Nat /\ at + (m + n) <= Len(whole) /\ Len(whole) \in Nat
      /\ \A k \in 1..(m + n) : whole[at + k] = both[k]
  BY <1>1, <1>2 DEF IsAt
<1>5. \A k \in 1..m : k \in 1..(m + n) /\ whole[at + k] = first[k]
  BY <1>2, <1>3, <1>4
<1>6. ASSUME NEW k \in 1..n PROVE whole[(at + m) + k] = second[k]
  <2>1. m + k \in 1..(m + n) /\ ~(m + k <= m) /\ (m + k) - m = k /\ (at + m) + k = at + (m + k)
    BY <1>2, <1>4
  <2> QED BY <1>3, <1>4, <2>1
<1>7. at + m <= Len(whole) /\ (at + m) + n <= Len(whole) /\ at + m \in Nat
  BY <1>2, <1>4
<1> QED BY <1>1, <1>4, <1>5, <1>6, <1>7 DEF IsAt

(* A part of a part *)
LEMMA PartOfPart ==
    ASSUME NEW whole, NEW at, NEW middle, NEW in, NEW part,
           Len(whole) \in Nat, Len(middle) \in Nat, Len(part) \in Nat,
           IsAt(whole, at, middle), IsAt(middle, in, part)
    PROVE  IsAt(whole, at + in, part)
<1>1. PICK n : n = Len(part)
  OBVIOUS
<1>2. /\ at \in Nat /\ at + Len(middle) <= Len(whole) /\ n \in Nat
      /\ \A k \in 1..Len(middle) : whole[at + k] = middle[k]
      /\ in \in Nat /\ in + n <= Len(middle)
      /\ \A k \in 1..n : middle[in + k] = part[k]
  BY <1>1 DEF IsAt
<1>3. ASSUME NEW k \in 1..n PROVE whole[(at + in) + k] = part[k]
  <2>1. in + k \in 1..Len(middle) /\ (at + in) + k = at + (in + k)
    BY <1>2
  <2> QED BY <1>2, <2>1
<1> QED BY <1>1, <1>2, <1>3 DEF IsAt

(* The parts of two sequences one after the other *)
LEMMA PartsOfConcat ==
    ASSUME NEW S, NEW first \in Seq(S), NEW second \in Seq(S)
    PROVE  IsAt(first \o second, 0, first) /\ IsAt(first \o second, Len(first), second)
<1>1. PICK m, n, both : m = Len(first) /\ n = Len(second) /\ both = first \o second
  OBVIOUS
<1>2. m \in Nat /\ n \in Nat /\ Len(both) = m + n
  BY <1>1
<1>3. \A i \in 1..(m + n) : both[i] = IF i <= m THEN first[i] ELSE second[i - m]
  BY <1>1, ConcatProperties
<1>4. \A k \in 1..m : k \in 1..(m + n) /\ 0 + k = k /\ both[0 + k] = first[k]
  BY <1>2, <1>3
<1>5. ASSUME NEW k \in 1..n PROVE both[m + k] = second[k]
  <2>1. m + k \in 1..(m + n) /\ ~(m + k <= m) /\ (m + k) - m = k
    BY <1>2
  <2> QED BY <1>3, <2>1
<1> QED BY <1>1, <1>2, <1>4, <1>5 DEF IsAt

(* A field that is part of some octets is read. *)
LEMMA PartIsRead ==
    ASSUME NEW whole \in Seq(WireOctets), NEW at, NEW v \in Int, NEW n \in Nat, n > 0,
           IsAt(whole, at, Field(v, n))
    PROVE  ReadAt(whole, at + 1, n) = v
<1>1. Field(v, n) \in Seq(WireOctets) /\ Len(Field(v, n)) = n
  BY FieldOctets
<1>2. SubSeq(whole, at + 1, at + n) = Field(v, n)
  BY <1>1, PartIsSubSeq
<1>3. (at + 1) + n - 1 = at + n
  BY DEF IsAt
<1> QED BY <1>2, <1>3, FieldIsRead DEF ReadAt

-----------------------------------------------------------------------------
(* Values of fields *)

FieldTypes == {"timestamp", "port_identity", "clock_quality", "clock_identity",
               "time_interval", "u16", "u32", "time_source", "action", "u8"}

(* What is read where v was written: enumerations lose the codes that they *)
(* do not tell apart.                                                      *)
Reading(type, v) ==
    CASE type = "clock_quality" ->
            [clock_class |-> v.clock_class,
             clock_accuracy |-> ClockAccuracyOf(ClockAccuracyCode(v.clock_accuracy)),
             offset_scaled_log_variance |-> v.offset_scaled_log_variance]
      [] type = "time_source" -> TimeSourceOf(TimeSourceCode(v))
      [] OTHER -> v

(* The codes of enumerations are octets. *)
LEMMA CodesAreOctets ==
    /\ \A a \in ClockAccuracies : ClockAccuracyCode(a) \in 0..255
    /\ \A s \in AllTimeSources : TimeSourceCode(s) \in 0..255
<1>1. ASSUME NEW k, NEW x \in 0..255
      PROVE  ClockAccuracyCode(<<k, x>>) \in 0..255 /\ TimeSourceCode(<<k, x>>) \in 0..255
  <2>1. (128 + x) % 256 \in 0..255 /\ (240 + x) % 256 \in 0..255
    OBVIOUS
  <2>2. <<k, x>>[1] = k /\ <<k, x>>[2] = x
    OBVIOUS
  <2>3. ClockAccuracyCode(<<k, x>>) \in {0, (128 + x) % 256, x}
    BY <2>2 DEF ClockAccuracyCode
  <2>4. TimeSourceCode(<<k, x>>) \in {255, (240 + x) % 256, x}
    BY <2>2 DEF TimeSourceCode
  <2> QED BY <2>1, <2>3, <2>4
<1>2. \A a \in ClockAccuracies : \E k, x : x \in 0..255 /\ a = <<k, x>>
  BY DEF ClockAccuracies
<1>3. \A s \in AllTimeSources : \E k, x : x \in 0..255 /\ s = <<k, x>>
  BY DEF AllTimeSources
<1>4. ASSUME NEW a \in ClockAccuracies PROVE ClockAccuracyCode(a) \in 0..255
  BY <1>1, <1>2
<1>5. ASSUME NEW s \in AllTimeSources PROVE TimeSourceCode(s) \in 0..255
  BY <1>1, <1>3
<1> QED BY <1>4, <1>5

(* Two fields, one after the other *)
InTwo(octets, u, m, v, n) == octets = Field(u, m) \o Field(v, n)

(* Both are read. *)
LEMMA TwoFields ==
    ASSUME NEW u \in Int, NEW v \in Int, NEW m \in Nat, NEW n \in Nat, m > 0, n > 0,
           NEW octets, InTwo(octets, u, m, v, n)
    PROVE  /\ octets \in Seq(WireOctets) /\ Len(octets) = m + n
           /\ ReadAt(octets, 1, m) = u /\ ReadAt(octets, m + 1, n) = v
<1>1. PICK f, g : f = Field(u, m) /\ g = Field(v, n)
  OBVIOUS
<1>2. f \in Seq(WireOctets) /\ g \in Seq(WireOctets) /\ Len(f) = m /\ Len(g) = n
  BY <1>1, FieldOctets
<1>3. octets = f \o g
  BY <1>1, Zenon DEF InTwo
<1>4. octets \in Seq(WireOctets) /\ Len(octets) = m + n
  BY <1>2, <1>3, ConcatProperties
<1>5. IsAt(octets, 0, f) /\ IsAt(octets, m, g)
  BY <1>2, <1>3, PartsOfConcat, Zenon
<1>6. ReadAt(octets, 1, m) = u
  <2>1. IsAt(octets, 0, Field(u, m))
    BY <1>1, <1>5, Zenon
  <2>2. ReadAt(octets, 0 + 1, m) = u
    BY <1>4, <2>1, PartIsRead, Zenon
  <2> QED BY <2>2
<1>7. ReadAt(octets, m + 1, n) = v
  BY <1>1, <1>4, <1>5, PartIsRead
<1> QED BY <1>4, <1>6, <1>7

(* One field *)
LEMMA SingleField ==
    ASSUME NEW v \in Int, NEW n \in Nat, n > 0
    PROVE  /\ Field(v, n) \in Seq(WireOctets) /\ Len(Field(v, n)) = n
           /\ ReadAt(Field(v, n), 1, n) = v
<1>1. PICK f : f = Field(v, n)
  OBVIOUS
<1>2. f \in Seq(WireOctets) /\ Len(f) = n
  BY <1>1, FieldOctets
<1>3. IsAt(f, 0, f)
  BY <1>2 DEF IsAt
<1>4. ReadAt(f, 0 + 1, n) = v
  BY <1>1, <1>2, <1>3, PartIsRead
<1> QED BY <1>1, <1>2, <1>4

(* A clock quality has three fields. *)
LEMMA QualityIsRead ==
    ASSUME NEW v \in ValuesOf("clock_quality")
    PROVE  /\ EncodeClockQuality(v) \in Seq(WireOctets) /\ Len(EncodeClockQuality(v)) = 4
           /\ DecodeClockQuality(EncodeClockQuality(v)) = Reading("clock_quality", v)
<1>1. PICK code : code = ClockAccuracyCode(v.clock_accuracy)
  OBVIOUS
<1>2. v.clock_class \in Int /\ v.offset_scaled_log_variance \in Int /\ code \in Int
  <2>1. /\ v.clock_class \in Int /\ v.offset_scaled_log_variance \in Int
        /\ v.clock_accuracy \in ClockAccuracies
    BY DEF ValuesOf
  <2>2. code \in 0..255
    BY <1>1, <2>1, CodesAreOctets, Zenon
  <2> QED BY <2>1, <2>2
<1>3. PICK c, a, g, f, octets :
         /\ c = Field(v.clock_class, 1) /\ a = Field(code, 1)
         /\ g = Field(v.offset_scaled_log_variance, 2)
         /\ f = c \o a /\ octets = f \o g
  OBVIOUS
<1>4. /\ c \in Seq(WireOctets) /\ Len(c) = 1 /\ a \in Seq(WireOctets) /\ Len(a) = 1
      /\ g \in Seq(WireOctets) /\ Len(g) = 2
  BY <1>2, <1>3, FieldOctets
<1>5. f \in Seq(WireOctets) /\ Len(f) = 2
  BY <1>3, <1>4, ConcatProperties
<1>6. octets \in Seq(WireOctets) /\ Len(octets) = 4
  BY <1>3, <1>4, <1>5, ConcatProperties
<1>7. EncodeClockQuality(v) = octets
  BY <1>1, <1>3, Zenon DEF EncodeClockQuality
<1>8. IsAt(octets, 0, f) /\ IsAt(octets, 2, g)
  BY <1>3, <1>4, <1>5, PartsOfConcat, Zenon
<1>9. IsAt(octets, 0, c) /\ IsAt(octets, 0 + 1, a)
  BY <1>3, <1>4, <1>6, <1>8, HalvesOfPart, Zenon
<1>10. IsAt(octets, 1, a)
  BY <1>9
<1>11. PICK one, two : one = 1 /\ two = 2
  OBVIOUS
<1>12. one \in Nat /\ one > 0 /\ two \in Nat /\ two > 0
  BY <1>11
<1>13. /\ ReadAt(octets, 1, 1) = v.clock_class /\ ReadAt(octets, 2, 1) = code
       /\ ReadAt(octets, 3, 2) = v.offset_scaled_log_variance
  <2>1. /\ IsAt(octets, 0, Field(v.clock_class, one)) /\ IsAt(octets, one, Field(code, one))
        /\ IsAt(octets, two, Field(v.offset_scaled_log_variance, two))
    BY <1>3, <1>8, <1>9, <1>10, <1>11, Zenon
  <2>2. ReadAt(octets, 0 + 1, one) = v.clock_class
    BY <1>2, <1>6, <1>12, <2>1, PartIsRead
  <2>3. ReadAt(octets, one + 1, one) = code
    BY <1>2, <1>6, <1>12, <2>1, PartIsRead
  <2>4. ReadAt(octets, two + 1, two) = v.offset_scaled_log_variance
    BY <1>2, <1>6, <1>12, <2>1, PartIsRead
  <2>5. 0 + 1 = 1 /\ one + 1 = 2 /\ two + 1 = 3
    BY <1>11
  <2> QED BY <1>11, <2>2, <2>3, <2>4, <2>5, Zenon
<1>14. DecodeClockQuality(octets) = Reading("clock_quality", v)
  BY <1>1, <1>13 DEF DecodeClockQuality, Reading
<1> QED BY <1>6, <1>7, <1>14, Zenon

(* Every type of field has its size, and is read as it was written. *)
LEMMA ValueIsRead ==
    ASSUME NEW type \in FieldTypes, NEW v \in ValuesOf(type)
    PROVE  /\ Encode(type, v) \in Seq(WireOctets)
           /\ Size(type) \in Nat /\ Size(type) > 0 /\ Len(Encode(type, v)) = Size(type)
           /\ Decode(type, Encode(type, v)) = Reading(type, v)
<1>1. CASE type = "timestamp"
  <2>1. v.seconds \in Int /\ v.nanos \in Int /\ v = [seconds |-> v.seconds, nanos |-> v.nanos]
    BY <1>1 DEF ValuesOf
  <2>0. PICK m, n : m = 6 /\ n = 4
    OBVIOUS
  <2>2. PICK octets : octets = Field(v.seconds, m) \o Field(v.nanos, n)
    OBVIOUS
  <2>3. /\ octets \in Seq(WireOctets) /\ Len(octets) = 10
        /\ ReadAt(octets, 1, 6) = v.seconds /\ ReadAt(octets, 7, 4) = v.nanos
    <3>1. m \in Nat /\ m > 0 /\ n \in Nat /\ n > 0 /\ m + n = 10 /\ m + 1 = 7
      BY <2>0
    <3>2. PICK x, y : x = v.seconds /\ y = v.nanos
      OBVIOUS
    <3>3. x \in Int /\ y \in Int /\ InTwo(octets, x, m, y, n)
      BY <2>1, <2>2, <3>2 DEF InTwo
    <3>4. /\ octets \in Seq(WireOctets) /\ Len(octets) = m + n
          /\ ReadAt(octets, 1, m) = x /\ ReadAt(octets, m + 1, n) = y
      BY <3>1, <3>3, TwoFields
    <3> QED BY <2>0, <3>1, <3>2, <3>4, Zenon
  <2>4. Encode(type, v) = octets /\ Size(type) = 10
    BY <1>1, <2>0, <2>2 DEF Encode, EncodeTimestamp, Size
  <2>5. Decode(type, octets) = v
    BY <1>1, <2>1, <2>2, <2>3 DEF Decode, DecodeTimestamp
  <2>6. Reading(type, v) = v
    BY <1>1 DEF Reading
  <2> QED BY <2>3, <2>4, <2>5, <2>6
<1>2. CASE type = "port_identity"
  <2>1. /\ v.clock_identity \in Int /\ v.port_number \in Int
        /\ v = [clock_identity |-> v.clock_identity, port_number |-> v.port_number]
    BY <1>2 DEF ValuesOf, PortIdentities
  <2>0. PICK m, n : m = 8 /\ n = 2
    OBVIOUS
  <2>2. PICK octets : octets = Field(v.clock_identity, m) \o Field(v.port_number, n)
    OBVIOUS
  <2>3. /\ octets \in Seq(WireOctets) /\ Len(octets) = 10
        /\ ReadAt(octets, 1, 8) = v.clock_identity /\ ReadAt(octets, 9, 2) = v.port_number
    <3>1. m \in Nat /\ m > 0 /\ n \in Nat /\ n > 0 /\ m + n = 10 /\ m + 1 = 9
      BY <2>0
    <3>2. PICK x, y : x = v.clock_identity /\ y = v.port_number
      OBVIOUS
    <3>3. x \in Int /\ y \in Int /\ InTwo(octets, x, m, y, n)
      BY <2>1, <2>2, <3>2 DEF InTwo
    <3>4. /\ octets \in Seq(WireOctets) /\ Len(octets) = m + n
          /\ ReadAt(octets, 1, m) = x /\ ReadAt(octets, m + 1, n) = y
      BY <3>1, <3>3, TwoFields
    <3> QED BY <2>0, <3>1, <3>2, <3>4, Zenon
  <2>4. Encode(type, v) = octets /\ Size(type) = 10
    BY <1>2, <2>0, <2>2 DEF Encode, EncodePortIdentity, Size
  <2>5. Decode(type, octets) = v
    BY <1>2, <2>1, <2>2, <2>3 DEF Decode, DecodePortIdentity
  <2>6. Reading(type, v) = v
    BY <1>2 DEF Reading
  <2> QED BY <2>3, <2>4, <2>5, <2>6
<1>3. CASE type = "clock_quality"
  <2>1. /\ Encode(type, v) = EncodeClockQuality(v) /\ Size(type) = 4
        /\ Decode(type, Encode(type, v)) = DecodeClockQuality(Encode(type, v))
    BY <1>3 DEF Encode, Decode, Size
  <2>2. v \in ValuesOf("clock_quality") /\ 4 \in Nat /\ 4 > 0
    BY <1>3
  <2> QED BY <1>3, <2>1, <2>2, QualityIsRead, Zenon
<1>4. CASE type \in {"clock_identity", "time_interval"}
  <2>1. v \in Int
    BY <1>4 DEF ValuesOf
  <2>2. Encode(type, v) = Field(v, 8) /\ Size(type) = 8
    BY <1>4 DEF Encode, EncodeClockIdentity, EncodeTimeInterval, Size
  <2>3. Decode(type, Field(v, 8)) = ReadAt(Field(v, 8), 1, 8)
    BY <1>4 DEF Decode, DecodeClockIdentity, DecodeTimeInterval
  <2>4. Reading(type, v) = v
    BY <1>4 DEF Reading
  <2>5. 8 \in Nat /\ 8 > 0
    OBVIOUS
  <2> QED BY <2>1, <2>2, <2>3, <2>4, <2>5, SingleField, Zenon
<1>5. CASE type = "time_source"
  <2>1. TimeSourceCode(v) \in Int
    BY <1>5, CodesAreOctets DEF ValuesOf
  <2>2. Encode(type, v) = Field(TimeSourceCode(v), 1) /\ Size(type) = 1
    BY <1>5 DEF Encode, Size
  <2>3. \A octets : Decode(type, octets) = TimeSourceOf(ReadAt(octets, 1, 1))
    BY <1>5 DEF Decode
  <2>4. Reading(type, v) = TimeSourceOf(TimeSourceCode(v))
    BY <1>5 DEF Reading
  <2>0. 1 \in Nat /\ 1 > 0
    OBVIOUS
  <2>5. ReadAt(Field(TimeSourceCode(v), 1), 1, 1) = TimeSourceCode(v)
    BY <2>0, <2>1, SingleField, Zenon
  <2>6. Decode(type, Encode(type, v)) = Reading(type, v)
    BY <2>2, <2>3, <2>4, <2>5, Zenon
  <2> QED BY <2>0, <2>1, <2>2, <2>6, SingleField, Zenon
<1>6. CASE type = "action"
  <2>0. 1 \in Nat /\ 1 > 0
    OBVIOUS
  <2>1. v \in 0..5 /\ v \in Int
    BY <1>6 DEF ValuesOf
  <2>2. Encode(type, v) = Field(v, 1) /\ Size(type) = 1
    BY <1>6 DEF Encode, Size
  <2>3. \A octets : Decode(type, octets) = ManagementActionOf(ReadAt(octets, 1, 1))
    BY <1>6 DEF Decode
  <2>4. ReadAt(Field(v, 1), 1, 1) = v
    BY <2>0, <2>1, SingleField, Zenon
  <2>5. ManagementActionOf(v) = v
    BY <2>1 DEF ManagementActionOf
  <2>6. Reading(type, v) = v
    BY <1>6 DEF Reading
  <2>7. Decode(type, Encode(type, v)) = Reading(type, v)
    BY <2>2, <2>3, <2>4, <2>5, <2>6, Zenon
  <2> QED BY <2>0, <2>1, <2>2, <2>7, SingleField, Zenon
<1>7. CASE type \in {"u8", "u16", "u32"}
  <2>1. v \in Int
    BY <1>7 DEF ValuesOf
  <2>2. Size(type) = IF type = "u32" THEN 4 ELSE IF type = "u16" THEN 2 ELSE 1
    BY <1>7 DEF Size
  <2>3. Size(type) \in Nat /\ Size(type) > 0
    BY <2>2
  <2>4. Encode(type, v) = Field(v, Size(type))
    BY <1>7, <2>2 DEF Encode
  <2>5. \A octets : Decode(type, octets) = ReadAt(octets, 1, Size(type))
    BY <1>7 DEF Decode
  <2>6. Reading(type, v) = v
    BY <1>7 DEF Reading
  <2> QED BY <2>1, <2>3, <2>4, <2>5, <2>6, SingleField
<1> QED BY <1>1, <1>2, <1>3, <1>4, <1>5, <1>6, <1>7 DEF FieldTypes

(* A code that was made of an octet is read as it was written. *)
LEMMA MemberIsRead ==
    ASSUME NEW type \in FieldTypes, NEW v \in ValuesOf(type), IsMember(type, v)
    PROVE  Reading(type, v) = v
<1>1. ASSUME NEW code \in 0..255
      PROVE  ClockAccuracyOf(ClockAccuracyCode(ClockAccuracyOf(code))) = ClockAccuracyOf(code)
  <2>1. CASE code \in 0..22 \union 50..127 \union {255}
    <3>1. ClockAccuracyOf(code) = <<"Reserved", 0>>
      BY <2>1 DEF ClockAccuracyOf
    <3>2. ClockAccuracyCode(<<"Reserved", 0>>) = 0
      BY DEF ClockAccuracyCode
    <3>3. ClockAccuracyOf(0) = <<"Reserved", 0>>
      BY DEF ClockAccuracyOf
    <3> QED BY <3>1, <3>2, <3>3
  <2>2. CASE code \in 128..253
    <3>1. ClockAccuracyOf(code) = <<"ProfileSpecific", code - 128>>
      BY <2>2 DEF ClockAccuracyOf
    <3>2. ClockAccuracyCode(<<"ProfileSpecific", code - 128>>) = (128 + (code - 128)) % 256
      BY DEF ClockAccuracyCode
    <3>3. (128 + (code - 128)) % 256 = code
      OBVIOUS
    <3> QED BY <3>1, <3>2, <3>3
  <2>3. CASE code \notin 0..22 \union 50..127 \union {255} /\ code \notin 128..253
    <3>1. ClockAccuracyOf(code) = <<"Named", code>>
      BY <2>3 DEF ClockAccuracyOf
    <3>2. ClockAccuracyCode(<<"Named", code>>) = code
      BY DEF ClockAccuracyCode
    <3> QED BY <3>1, <3>2
  <2> QED BY <2>1, <2>2, <2>3
<1>2. ASSUME NEW code \in 0..255
      PROVE  TimeSourceOf(TimeSourceCode(TimeSourceOf(code))) = TimeSourceOf(code)
  <2>1. CASE code \in 240..254
    <3>1. TimeSourceOf(code) = <<"ProfileSpecific", code - 240>>
      BY <2>1 DEF TimeSourceOf
    <3>2. TimeSourceCode(<<"ProfileSpecific", code - 240>>) = (240 + (code - 240)) % 256
      BY DEF TimeSourceCode
    <3>3. (240 + (code - 240)) % 256 = code
      BY <2>1
    <3> QED BY <3>1, <3>2, <3>3
  <2>2. CASE code = 255
    <3>1. TimeSourceOf(code) = <<"Reserved", 0>>
      BY <2>2 DEF TimeSourceOf
    <3>2. TimeSourceCode(<<"Reserved", 0>>) = 255
      BY DEF TimeSourceCode
    <3> QED BY <2>2, <3>1, <3>2
  <2>3. CASE code \notin 240..255
    <3>1. \E k \in {"Named", "Unknown"} : TimeSourceOf(code) = <<k, code>>
      BY <2>3 DEF TimeSourceOf
    <3>2. \A k \in {"Named", "Unknown"} : TimeSourceCode(<<k, code>>) = code
      BY DEF TimeSourceCode
    <3> QED BY <3>1, <3>2
  <2>4. code \in 240..254 \/ code = 255 \/ code \notin 240..255
    OBVIOUS
  <2> QED BY <2>1, <2>2, <2>3, <2>4
<1>3. CASE type = "clock_quality"
  <2>1. v = [clock_class |-> v.clock_class, clock_accuracy |-> v.clock_accuracy,
             offset_scaled_log_variance |-> v.offset_scaled_log_variance]
    BY <1>3 DEF ValuesOf
  <2>2. ClockAccuracyOf(ClockAccuracyCode(v.clock_accuracy)) = v.clock_accuracy
    BY <1>1, <1>3 DEF IsMember
  <2>3. Reading(type, v) =
            [clock_class |-> v.clock_class,
             clock_accuracy |-> ClockAccuracyOf(ClockAccuracyCode(v.clock_accuracy)),
             offset_scaled_log_variance |-> v.offset_scaled_log_variance]
    BY <1>3 DEF Reading
  <2> QED BY <2>1, <2>2, <2>3, Zenon
<1>4. CASE type = "time_source"
  <2>1. Reading(type, v) = TimeSourceOf(TimeSourceCode(v))
    BY <1>4 DEF Reading
  <2> QED BY <1>2, <1>4, <2>1 DEF IsMember
<1>5. CASE type \notin {"clock_quality", "time_source"}
  BY <1>5 DEF Reading
<1> QED BY <1>3, <1>4, <1>5

-----------------------------------------------------------------------------
(* Tables of fields *)

(* The fields of a table are of these types, in these many octets, and no  *)
(* two of them share an octet.                                             *)
Layout(table, size) ==
    /\ \A name \in DOMAIN table :
          /\ table[name][1] \in Nat /\ table[name][2] \in FieldTypes
          /\ table[name][1] + Size(table[name][2]) <= size
    /\ \A a, b \in DOMAIN table :
          a # b => \/ table[a][1] + Size(table[a][2]) <= table[b][1]
                   \/ table[b][1] + Size(table[b][2]) <= table[a][1]

(* The sizes of the types *)
LEMMA FieldSizes ==
    /\ Size("timestamp") = 10 /\ Size("port_identity") = 10
    /\ Size("clock_identity") = 8 /\ Size("time_interval") = 8
    /\ Size("clock_quality") = 4 /\ Size("u32") = 4 /\ Size("u16") = 2
    /\ Size("time_source") = 1 /\ Size("action") = 1 /\ Size("u8") = 1
BY DEF Size

(* The fields of a header do not overlap. *)
LEMMA HeaderLayout == Layout(HeaderWrites, HeaderSize)
<1>1. DOMAIN HeaderWrites =
         {"sdo_and_type", "version", "message_length", "domain_number", "low_sdo", "flags_6",
          "flags_7", "correction_field", "reserved", "source_port_identity", "sequence_id",
          "control_field", "log_message_interval"}
  BY DEF HeaderWrites
<1>2. \A name \in DOMAIN HeaderWrites :
          /\ HeaderWrites[name][1] \in Nat /\ HeaderWrites[name][2] \in FieldTypes
          /\ HeaderWrites[name][1] + Size(HeaderWrites[name][2]) <= HeaderSize
  BY <1>1, FieldSizes DEF HeaderWrites, FieldTypes, HeaderSize
<1>3. \A a, b \in DOMAIN HeaderWrites :
          a # b => \/ HeaderWrites[a][1] + Size(HeaderWrites[a][2]) <= HeaderWrites[b][1]
                   \/ HeaderWrites[b][1] + Size(HeaderWrites[b][2]) <= HeaderWrites[a][1]
  BY <1>1, FieldSizes, SMTT(30) DEF HeaderWrites
<1> QED BY <1>2, <1>3 DEF Layout

(* Octet i, counted from one, is of this field. *)
IsOf(table, name, i) == i - table[name][1] \in 1..Size(table[name][2])

FieldOf(table, i) == CHOOSE name \in DOMAIN table : IsOf(table, name, i)

(* What PutFields makes of an octet *)
PutOctet(buffer, table, values, i) ==
    IF \E name \in DOMAIN table : IsOf(table, name, i)
    THEN Encode(table[FieldOf(table, i)][2], values[FieldOf(table, i)])
              [i - table[FieldOf(table, i)][1]]
    ELSE buffer[i]

(* The values of a table are of its types. *)
AreOf(values, table) ==
    \A name \in DOMAIN table : values[name] \in ValuesOf(table[name][2])

(* PutFields, octet by octet *)
LEMMA PutFieldsIsPutOctet ==
    ASSUME NEW buffer, NEW table, NEW values
    PROVE  PutFields(buffer, table, values)
              = [i \in DOMAIN buffer |-> PutOctet(buffer, table, values, i)]
BY Zenon DEF PutFields, PutOctet, IsOf, FieldOf

(* An octet is of one field only. *)
LEMMA FieldIsItsOwn ==
    ASSUME NEW table, NEW size \in Nat, Layout(table, size),
           NEW name \in DOMAIN table, NEW i \in Int, IsOf(table, name, i)
    PROVE  FieldOf(table, i) = name
<1>1. PICK other : other = FieldOf(table, i)
  OBVIOUS
<1>2. other \in DOMAIN table /\ IsOf(table, other, i)
  BY <1>1, Zenon DEF FieldOf
<1>3. \A n \in DOMAIN table : table[n][1] \in Nat /\ Size(table[n][2]) \in Nat
  <2>1. \A type \in FieldTypes : Size(type) \in Nat
    BY FieldSizes DEF FieldTypes
  <2> QED BY <2>1 DEF Layout
<1>4. other = name
  BY <1>2, <1>3 DEF Layout, IsOf
<1> QED BY <1>1, <1>4

(* A table written: every field is at its place. *)
LEMMA FieldsArePut ==
    ASSUME NEW size \in Nat, NEW table, Layout(table, size), NEW values, AreOf(values, table),
           NEW buffer \in Seq(WireOctets), Len(buffer) = size
    PROVE  LET new == PutFields(buffer, table, values)
           IN  /\ new \in Seq(WireOctets) /\ Len(new) = size
               /\ \A name \in DOMAIN table :
                     IsAt(new, table[name][1], Encode(table[name][2], values[name]))
<1>1. PICK new : new = PutFields(buffer, table, values)
  OBVIOUS
<1>2. DOMAIN buffer = 1..size /\ \A i \in 1..size : buffer[i] \in WireOctets
  OBVIOUS
<1>3. new = [i \in 1..size |-> PutOctet(buffer, table, values, i)]
  BY <1>1, <1>2, PutFieldsIsPutOctet
<1>4. ASSUME NEW name \in DOMAIN table
      PROVE  LET at == table[name][1]
                 octets == Encode(table[name][2], values[name])
             IN  /\ at \in Nat /\ octets \in Seq(WireOctets) /\ Len(octets) \in Nat
                 /\ Len(octets) = Size(table[name][2]) /\ at + Len(octets) <= size
  <2>1. /\ table[name][1] \in Nat /\ table[name][2] \in FieldTypes
        /\ table[name][1] + Size(table[name][2]) <= size
        /\ values[name] \in ValuesOf(table[name][2])
    BY DEF Layout, AreOf
  <2> QED BY <2>1, ValueIsRead
<1>5. ASSUME NEW i \in 1..size, NEW name \in DOMAIN table, IsOf(table, name, i)
      PROVE  new[i] = Encode(table[name][2], values[name])[i - table[name][1]]
  <2>1. FieldOf(table, i) = name
    BY <1>5, FieldIsItsOwn
  <2>2. new[i] = PutOctet(buffer, table, values, i)
    BY <1>3
  <2> QED BY <1>5, <2>1, <2>2 DEF PutOctet
<1>6. ASSUME NEW i \in 1..size PROVE new[i] \in WireOctets
  <2>1. CASE \E name \in DOMAIN table : IsOf(table, name, i)
    <3>1. PICK name \in DOMAIN table : IsOf(table, name, i)
      BY <2>1
    <3>2. PICK octets, k : /\ octets = Encode(table[name][2], values[name])
                           /\ k = i - table[name][1]
      OBVIOUS
    <3>3. octets \in Seq(WireOctets) /\ k \in 1..Len(octets)
      BY <1>4, <3>1, <3>2 DEF IsOf
    <3>4. new[i] = octets[k]
      BY <1>5, <3>1, <3>2
    <3> QED BY <3>3, <3>4
  <2>2. CASE ~\E name \in DOMAIN table : IsOf(table, name, i)
    <3>1. new[i] = PutOctet(buffer, table, values, i)
      BY <1>3
    <3> QED BY <1>2, <2>2, <3>1 DEF PutOctet
  <2> QED BY <2>1, <2>2
<1>7. new \in Seq(WireOctets) /\ Len(new) = size
  <2>1. new \in [1..size -> WireOctets]
    BY <1>3, <1>6
  <2>2. new \in Seq(WireOctets)
    BY <2>1, SeqDef
  <2> QED BY <2>1, <2>2, LenProperties
<1>8. ASSUME NEW name \in DOMAIN table
      PROVE  IsAt(new, table[name][1], Encode(table[name][2], values[name]))
  <2>1. PICK at, octets, n : /\ at = table[name][1] /\ n = Len(octets)
                             /\ octets = Encode(table[name][2], values[name])
    OBVIOUS
  <2>2. at \in Nat /\ n \in Nat /\ n = Size(table[name][2]) /\ at + n <= size
    BY <1>4, <2>1
  <2>3. ASSUME NEW k \in 1..n PROVE new[at + k] = octets[k]
    <3>1. at + k \in 1..size /\ (at + k) - at = k
      BY <2>2
    <3>2. IsOf(table, name, at + k)
      BY <2>1, <2>2, <3>1 DEF IsOf
    <3> QED BY <1>5, <2>1, <3>1, <3>2
  <2> QED BY <1>7, <2>1, <2>2, <2>3 DEF IsAt
<1> QED BY <1>1, <1>7, <1>8, Zenon

(* What is read of a table that was written is what the values read as. *)
LEMMA FieldsAreRead ==
    ASSUME NEW size \in Nat, NEW table, Layout(table, size), NEW values, AreOf(values, table),
           NEW buffer \in Seq(WireOctets), Len(buffer) = size, NEW whole \in Seq(WireOctets),
           IsAt(whole, 0, PutFields(buffer, table, values)),
           NEW reads, DOMAIN reads \subseteq DOMAIN table,
           \A name \in DOMAIN reads : reads[name] = table[name]
    PROVE  GetFields(whole, reads)
              = [name \in DOMAIN reads |-> Reading(table[name][2], values[name])]
<1>1. PICK new : new = PutFields(buffer, table, values)
  OBVIOUS
<1>2. /\ new \in Seq(WireOctets) /\ Len(new) = size
      /\ \A name \in DOMAIN table :
            IsAt(new, table[name][1], Encode(table[name][2], values[name]))
  BY <1>1, FieldsArePut
<1>3. ASSUME NEW name \in DOMAIN reads
      PROVE  LET first == reads[name][1] + 1
                 type == reads[name][2]
             IN  Decode(type, SubSeq(whole, first, first + Size(type) - 1))
                    = Reading(table[name][2], values[name])
  <2>1. PICK at, type, octets : /\ at = table[name][1] /\ type = table[name][2]
                                /\ octets = Encode(type, values[name])
    OBVIOUS
  <2>2. name \in DOMAIN table /\ reads[name] = table[name]
    OBVIOUS
  <2>3. at \in Nat /\ type \in FieldTypes /\ values[name] \in ValuesOf(type)
    BY <2>1, <2>2 DEF Layout, AreOf
  <2>4. /\ octets \in Seq(WireOctets) /\ Len(octets) = Size(type) /\ Size(type) \in Nat
        /\ Decode(type, octets) = Reading(type, values[name])
    BY <2>1, <2>3, ValueIsRead
  <2>5. IsAt(new, at, octets)
    BY <1>2, <2>1, <2>2
  <2>6. IsAt(whole, 0 + at, octets)
    <3>1. IsAt(whole, 0, new)
      BY <1>1
    <3>2. Len(whole) \in Nat /\ Len(new) \in Nat /\ Len(octets) \in Nat
      BY <1>2, <2>4
    <3> QED BY <2>5, <3>1, <3>2, PartOfPart
  <2>7. IsAt(whole, at, octets)
    BY <2>3, <2>6
  <2>8. SubSeq(whole, at + 1, at + Len(octets)) = octets
    BY <2>4, <2>7, PartIsSubSeq
  <2>9. (at + 1) + Size(type) - 1 = at + Len(octets)
    BY <2>3, <2>4
  <2>10. Decode(type, SubSeq(whole, at + 1, (at + 1) + Size(type) - 1))
            = Reading(type, values[name])
    BY <2>4, <2>8, <2>9, Zenon
  <2> QED BY <2>1, <2>2, <2>10, Zenon
<1>4. GetFields(whole, reads) =
        [name \in DOMAIN reads |->
            Decode(reads[name][2], SubSeq(whole, reads[name][1] + 1,
                                          reads[name][1] + 1 + Size(reads[name][2]) - 1))]
  BY Zenon DEF GetFields
<1> QED BY <1>3, <1>4, Zenon

(* The bodies are read where they were written, and are laid out well. *)
LEMMA BodyLayouts ==
    ASSUME NEW kind \in MessageTypes
    PROVE  /\ ContentSize(kind) \in Nat /\ ContentSize(kind) <= 30
           /\ Layout(BodyOf[kind].writes, ContentSize(kind))
           /\ BodyOf[kind].reads = BodyOf[kind].writes
<1> DEFINE Laid(content) == /\ content.size \in Nat /\ content.size <= 30
                            /\ Layout(content.writes, content.size)
                            /\ content.reads = content.writes
<1>1. Laid(SyncContent) /\ Laid(DelayReqContent) /\ Laid(FollowUpContent)
      /\ Laid(PDelayReqContent) /\ Laid(SignalingContent)
  BY FieldSizes DEF SyncContent, DelayReqContent, FollowUpContent, PDelayReqContent,
         SignalingContent, Content, FieldTypes, Layout
<1>2. Laid(DelayRespContent) /\ Laid(PDelayRespContent) /\ Laid(PDelayRespFollowUpContent)
  BY FieldSizes DEF DelayRespContent, PDelayRespContent, PDelayRespFollowUpContent,
         Content, FieldTypes, Layout
<1>3. Laid(ManagementContent)
  BY FieldSizes DEF ManagementContent, Content, FieldTypes, Layout
<1>4. Laid(AnnounceContent)
  <2>1. AnnounceContent.size = 30 /\ AnnounceContent.reads = AnnounceContent.writes
    BY DEF AnnounceContent, Content
  <2>2. DOMAIN AnnounceContent.writes =
           {"origin_timestamp", "current_utc_offset", "grandmaster_priority_1",
            "grandmaster_clock_quality", "grandmaster_priority_2", "grandmaster_identity",
            "steps_removed", "time_source"}
    BY DEF AnnounceContent, Content
  <2>3. Layout(AnnounceContent.writes, 30)
    BY <2>2, FieldSizes, SMTT(30) DEF AnnounceContent, Content, FieldTypes, Layout
  <2> QED BY <2>1, <2>3
<1> HIDE DEF Laid
<1>5. Laid(BodyOf[kind])
  BY <1>1, <1>2, <1>3, <1>4 DEF BodyOf, MessageTypes, MessageCode
<1> QED BY <1>5 DEF Laid, ContentSize

-----------------------------------------------------------------------------
(* The header *)

(* Bits that are put together to an octet and taken out again. *)
LEMMA BitsOfSum ==
    ASSUME NEW b0 \in {0, 1}, NEW b1 \in {0, 2}, NEW b2 \in {0, 4}, NEW b3 \in {0, 8},
           NEW b4 \in {0, 16}, NEW b5 \in {0, 32}, NEW b6 \in {0, 64}, NEW b7 \in {0, 128},
           NEW octet, octet = b0 + b1 + b2 + b3 + b4 + b5 + b6 + b7
    PROVE  /\ octet \in 0..255
           /\ FlagIsSet(octet, 1) <=> b0 = 1
           /\ FlagIsSet(octet, 2) <=> b1 = 2
           /\ FlagIsSet(octet, 4) <=> b2 = 4
           /\ FlagIsSet(octet, 8) <=> b3 = 8
           /\ FlagIsSet(octet, 16) <=> b4 = 16
           /\ FlagIsSet(octet, 32) <=> b5 = 32
           /\ FlagIsSet(octet, 64) <=> b6 = 64
<1>1. octet \in 0..255
  OBVIOUS
<1>2. /\ (octet \div 1) % 2 = 1 <=> b0 = 1
      /\ (octet \div 2) % 2 = 1 <=> b1 = 2
      /\ (octet \div 4) % 2 = 1 <=> b2 = 4
  BY SMTT(30)
<1>3. /\ (octet \div 8) % 2 = 1 <=> b3 = 8
      /\ (octet \div 16) % 2 = 1 <=> b4 = 16
      /\ (octet \div 32) % 2 = 1 <=> b5 = 32
      /\ (octet \div 64) % 2 = 1 <=> b6 = 64
  BY SMTT(30)
<1> QED BY <1>1, <1>2, <1>3, Zenon DEF FlagIsSet

FlagMasks == {1, 2, 4, 8, 16, 32, 64}

(* The bits of a flag octet *)
LEMMA FlagsOfOctet ==
    ASSUME NEW flags, NEW octet
    PROVE  /\ FlagOctet(flags, octet) \in 0..255
           /\ \A mask \in FlagMasks :
                 FlagIsSet(FlagOctet(flags, octet), mask)
                    <=> \E flag \in flags : FlagWrites[flag] = <<octet, mask>>
<1> DEFINE Has(m) == \E flag \in flags : FlagWrites[flag] = <<octet, m>>
           Bit(m) == IF Has(m) THEN m ELSE 0
<1>1. FlagOctet(flags, octet)
         = Bit(1) + Bit(2) + Bit(4) + Bit(8) + Bit(16) + Bit(32) + Bit(64) + Bit(128)
  BY Zenon DEF FlagOctet
<1> HIDE DEF Has
<1>2. /\ Bit(1) \in {0, 1} /\ Bit(2) \in {0, 2} /\ Bit(4) \in {0, 4} /\ Bit(8) \in {0, 8}
      /\ Bit(16) \in {0, 16} /\ Bit(32) \in {0, 32} /\ Bit(64) \in {0, 64}
      /\ Bit(128) \in {0, 128}
  OBVIOUS
<1>3. /\ Bit(1) = 1 <=> Has(1)
      /\ Bit(2) = 2 <=> Has(2)
      /\ Bit(4) = 4 <=> Has(4)
      /\ Bit(8) = 8 <=> Has(8)
      /\ Bit(16) = 16 <=> Has(16)
      /\ Bit(32) = 32 <=> Has(32)
      /\ Bit(64) = 64 <=> Has(64)
  OBVIOUS
<1> HIDE DEF Bit
<1>4. PICK sum : sum = FlagOctet(flags, octet)
  OBVIOUS
<1>5. /\ sum \in 0..255
      /\ FlagIsSet(sum, 1) <=> Bit(1) = 1
      /\ FlagIsSet(sum, 2) <=> Bit(2) = 2
      /\ FlagIsSet(sum, 4) <=> Bit(4) = 4
      /\ FlagIsSet(sum, 8) <=> Bit(8) = 8
      /\ FlagIsSet(sum, 16) <=> Bit(16) = 16
      /\ FlagIsSet(sum, 32) <=> Bit(32) = 32
      /\ FlagIsSet(sum, 64) <=> Bit(64) = 64
  BY <1>1, <1>2, <1>4, BitsOfSum
<1>6. \A mask \in FlagMasks : FlagIsSet(sum, mask) <=> Has(mask)
  BY <1>3, <1>5 DEF FlagMasks
<1> QED BY <1>4, <1>5, <1>6, Zenon DEF Has

(* Every flag has an octet and a mask of its own, and is looked for there. *)
LEMMA FlagsAreApart ==
    /\ \A flag \in Flags : /\ FlagReads[flag] = FlagWrites[flag]
                           /\ FlagWrites[flag][1] \in {"flags_6", "flags_7"}
                           /\ FlagWrites[flag][2] \in FlagMasks
                           /\ FlagWrites[flag] = <<FlagWrites[flag][1], FlagWrites[flag][2]>>
    /\ \A a, b \in Flags : FlagWrites[a] = FlagWrites[b] => a = b
<1>1. Flags = {"alternate_master_flag", "two_step_flag", "unicast_flag",
               "ptp_profile_specific_1", "ptp_profile_specific_2", "leap61", "leap59",
               "current_utc_offset_valid", "ptp_timescale", "time_tracable",
               "frequency_tracable", "synchronization_uncertain"}
  BY DEF Flags, FlagWrites
<1>2. FlagReads = FlagWrites
  BY DEF FlagReads, FlagWrites
<1>3. \A flag \in Flags : /\ FlagWrites[flag][1] \in {"flags_6", "flags_7"}
                          /\ FlagWrites[flag][2] \in FlagMasks
                          /\ FlagWrites[flag] = <<FlagWrites[flag][1], FlagWrites[flag][2]>>
  BY <1>1, SMTT(30) DEF FlagWrites, FlagMasks
<1>4. \A a, b \in Flags : FlagWrites[a] = FlagWrites[b] => a = b
  BY <1>1, SMTT(30) DEF FlagWrites
<1> QED BY <1>2, <1>3, <1>4

(* So the flags read are the flags written. *)
LEMMA FlagsAreRead ==
    ASSUME NEW flags \in SUBSET Flags, NEW fields,
           fields["flags_6"] = FlagOctet(flags, "flags_6"),
           fields["flags_7"] = FlagOctet(flags, "flags_7")
    PROVE  {flag \in Flags : FlagIsSet(fields[FlagReads[flag][1]], FlagReads[flag][2])} = flags
<1>1. ASSUME NEW flag \in Flags
      PROVE  FlagIsSet(fields[FlagReads[flag][1]], FlagReads[flag][2]) <=> flag \in flags
  <2>1. PICK octet, mask : octet = FlagWrites[flag][1] /\ mask = FlagWrites[flag][2]
    OBVIOUS
  <2>2. /\ octet \in {"flags_6", "flags_7"} /\ mask \in FlagMasks
        /\ FlagWrites[flag] = <<octet, mask>> /\ FlagReads[flag] = FlagWrites[flag]
    BY <2>1, FlagsAreApart
  <2>3. fields[octet] = FlagOctet(flags, octet)
    BY <2>2
  <2>4. FlagIsSet(fields[octet], mask)
           <=> \E other \in flags : FlagWrites[other] = <<octet, mask>>
    BY <2>2, <2>3, FlagsOfOctet
  <2>5. (\E other \in flags : FlagWrites[other] = <<octet, mask>>) <=> flag \in flags
    BY <2>2, FlagsAreApart
  <2> QED BY <2>1, <2>2, <2>4, <2>5
<1> QED BY <1>1

(* What serialize_header writes are values of the types of its fields. *)
LEMMA HeaderValues ==
    ASSUME NEW header \in Headers, NEW kind \in MessageTypes, NEW length \in Nat
    PROVE  AreOf(HeaderFields(header, kind, length), HeaderWrites)
<1>1. MessageCode[kind] \in 0..13 /\ ControlField(kind) \in 0..5
  BY DEF MessageTypes, MessageCode, ControlField
<1>2. /\ header.sdo_id \in SdoIds /\ header.major = 2 /\ header.minor \in 0..15
      /\ header.domain_number \in Int /\ header.correction_field \in Int
      /\ header.source_port_identity \in PortIdentities /\ header.sequence_id \in Int
      /\ header.log_message_interval \in Int
  BY DEF Headers
<1>3. /\ FlagOctet(header.flags, "flags_6") \in Int /\ FlagOctet(header.flags, "flags_7") \in Int
  BY FlagsOfOctet
<1>4. /\ (HighByte(header.sdo_id) % 16) * 16 + MessageCode[kind] \in Int
      /\ LowByte(header.sdo_id) \in Int
      /\ AsByte(header.major, header.minor) \in Int /\ (length + HeaderSize) % 65536 \in Int
  <2>1. /\ \A a, b \in Int : (HighByte(a) % 16) * 16 + b \in Int
        /\ \A a \in Int : LowByte(a) \in Int
        /\ \A a, b \in Int : AsByte(a, b) \in Int
    BY DEF HighByte, LowByte, AsByte
  <2>2. (length + HeaderSize) % 65536 \in Int
    BY DEF HeaderSize
  <2>3. /\ header.sdo_id \in Int /\ header.major \in Int /\ header.minor \in Int
        /\ MessageCode[kind] \in Int
    <3>1. \A s \in SdoIds : s \in Int
      BY DEF SdoIds
    <3> QED BY <1>1, <1>2, <3>1
  <2>4. (HighByte(header.sdo_id) % 16) * 16 + MessageCode[kind] \in Int
    BY <2>1, <2>3, Zenon
  <2>5. LowByte(header.sdo_id) \in Int /\ AsByte(header.major, header.minor) \in Int
    BY <2>1, <2>3, Zenon
  <2> QED BY <2>2, <2>4, <2>5
<1>5. /\ ValuesOf("u8") = Int /\ ValuesOf("u16") = Int /\ ValuesOf("u32") = Int
      /\ ValuesOf("time_interval") = Int /\ ValuesOf("port_identity") = PortIdentities
  BY DEF ValuesOf
<1>6. PICK fields : fields = HeaderFields(header, kind, length)
  OBVIOUS
<1>7. /\ fields.sdo_and_type \in Int /\ fields.version \in Int /\ fields.message_length \in Int
      /\ fields.domain_number \in Int /\ fields.low_sdo \in Int /\ fields.flags_6 \in Int
      /\ fields.flags_7 \in Int /\ fields.correction_field \in Int /\ fields.reserved \in Int
      /\ fields.source_port_identity \in PortIdentities /\ fields.sequence_id \in Int
      /\ fields.control_field \in Int /\ fields.log_message_interval \in Int
  BY <1>1, <1>2, <1>3, <1>4, <1>6 DEF HeaderFields
<1>8. DOMAIN HeaderWrites =
        {"sdo_and_type", "version", "message_length", "domain_number", "low_sdo", "flags_6",
         "flags_7", "correction_field", "reserved", "source_port_identity", "sequence_id",
         "control_field", "log_message_interval"}
  BY DEF HeaderWrites
<1>9. \A name \in DOMAIN HeaderWrites : fields[name] \in ValuesOf(HeaderWrites[name][2])
  BY <1>5, <1>7, <1>8 DEF HeaderWrites
<1> QED BY <1>6, <1>9 DEF AreOf

(* Numbers that are put together, and taken apart again: the SdoId and the *)
(* type of the message,                                                    *)
FirstOctet(sdo_id, code) == (HighByte(sdo_id) % 16) * 16 + code

(* ... are read as they were written, *)
LEMMA SdoIsRead ==
    ASSUME NEW sdo_id \in SdoIds, NEW code \in 0..13
    PROVE  /\ (FirstOctet(sdo_id, code) \div 16) * 256 + LowByte(sdo_id) = sdo_id
           /\ FirstOctet(sdo_id, code) % 16 = code
<1>1. PICK high, low : high = sdo_id \div 256 /\ low = sdo_id % 256
  OBVIOUS
<1>2. high \in 0..15 /\ low \in 0..255 /\ high * 256 + low = sdo_id
  BY <1>1 DEF SdoIds
<1>3. HighByte(sdo_id) % 16 = high /\ LowByte(sdo_id) = low
  BY <1>1, <1>2 DEF HighByte, LowByte, SdoIds
<1>4. (high * 16 + code) \div 16 = high /\ (high * 16 + code) % 16 = code
  BY <1>2
<1>5. FirstOctet(sdo_id, code) = high * 16 + code
  BY <1>3 DEF FirstOctet
<1> QED BY <1>2, <1>3, <1>4, <1>5

(* and the version. *)
LEMMA VersionIsRead ==
    ASSUME NEW minor \in 0..15
    PROVE  MajorOf(AsByte(2, minor)) = 2 /\ MinorOf(AsByte(2, minor)) = minor
<1>1. (minor * 16) % 256 = minor * 16
  OBVIOUS
<1>2. (minor * 16 + 2) % 16 = 2 /\ (minor * 16 + 2) \div 16 = minor
  OBVIOUS
<1> QED BY <1>1, <1>2 DEF MajorOf, MinorOf, AsByte

(* Octets of a used buffer *)
LEMMA UsedOctets ==
    ASSUME NEW n \in Nat
    PROVE  Used(n) \in Seq(WireOctets) /\ Len(Used(n)) = n
<1>1. OldOctet \in WireOctets
  BY DEF OldOctet, WireOctets
<1>2. Used(n) \in [1..n -> WireOctets]
  BY <1>1 DEF Used
<1>3. Used(n) \in Seq(WireOctets)
  BY <1>2, SeqDef
<1> QED BY <1>2, <1>3, LenProperties

(* A header in octets *)
LEMMA HeaderOctets ==
    ASSUME NEW header \in Headers, NEW kind \in MessageTypes, NEW length \in Nat
    PROVE  LET octets == SerializeHeader(header, kind, length, Used(HeaderSize))
           IN  /\ octets \in Seq(WireOctets) /\ Len(octets) = HeaderSize
               /\ octets[2] = <<AsByte(header.major, header.minor), 1>>
<1>1. PICK fields, octets :
         /\ fields = HeaderFields(header, kind, length)
         /\ octets = PutFields(Used(HeaderSize), HeaderWrites, fields)
  OBVIOUS
<1>2. AreOf(fields, HeaderWrites) /\ Layout(HeaderWrites, HeaderSize) /\ HeaderSize \in Nat
  <2>1. HeaderSize \in Nat
    BY DEF HeaderSize
  <2> QED BY <1>1, <2>1, HeaderValues, HeaderLayout
<1>3. Used(HeaderSize) \in Seq(WireOctets) /\ Len(Used(HeaderSize)) = HeaderSize
  BY <1>2, UsedOctets
<1>4. /\ octets \in Seq(WireOctets) /\ Len(octets) = HeaderSize
      /\ \A name \in DOMAIN HeaderWrites :
            IsAt(octets, HeaderWrites[name][1], Encode(HeaderWrites[name][2], fields[name]))
  BY <1>1, <1>2, <1>3, FieldsArePut
<1>5. octets[2] = <<AsByte(header.major, header.minor), 1>>
  <2>1. PICK version : version = AsByte(header.major, header.minor)
    OBVIOUS
  <2>2. /\ "version" \in DOMAIN HeaderWrites /\ HeaderWrites["version"][1] = 1
        /\ HeaderWrites["version"][2] = "u8" /\ fields["version"] = version
    BY <1>1, <2>1 DEF HeaderWrites, HeaderFields
  <2>3. version \in Int
    <3>1. ValuesOf("u8") = Int
      BY DEF ValuesOf
    <3> QED BY <1>2, <2>2, <3>1 DEF AreOf
  <2>4. Encode("u8", version) = Field(version, 1)
    BY DEF Encode
  <2>5. IsAt(octets, 1, Field(version, 1))
    BY <1>4, <2>2, <2>4
  <2>6. PICK one : one = 1
    OBVIOUS
  <2>7. /\ Len(Field(version, one)) = one /\ one \in 1..one
        /\ \A k \in 1..one : Field(version, one)[k] = <<version, k>>
    <3>1. one \in Nat /\ one \in 1..one
      BY <2>6
    <3> QED BY <2>3, <3>1, FieldOctets
  <2>8. octets[1 + one] = <<version, one>>
    BY <2>5, <2>6, <2>7 DEF IsAt
  <2> QED BY <2>1, <2>6, <2>8
<1> QED BY <1>1, <1>4, <1>5, Zenon DEF SerializeHeader

(* A header is read as it was written, whatever follows it. *)
LEMMA HeaderIsRead ==
    ASSUME NEW header \in Headers, NEW kind \in MessageTypes,
           NEW length \in Nat, length + HeaderSize < 65536, NEW whole \in Seq(WireOctets),
           IsAt(whole, 0, SerializeHeader(header, kind, length, Used(HeaderSize)))
    PROVE  LET fields == GetFields(whole, HeaderReads)
           IN  /\ HeaderOf(fields) = header /\ TypeCodeOf(fields) = MessageCode[kind]
               /\ fields.message_length = length + HeaderSize
               /\ IsCompatible(whole)
<1>1. PICK written, fields :
         /\ written = HeaderFields(header, kind, length)
         /\ fields = GetFields(whole, HeaderReads)
  OBVIOUS
<1>2. DOMAIN HeaderReads =
        {"sdo_and_type", "version", "message_length", "domain_number", "low_sdo", "flags_6",
         "flags_7", "correction_field", "source_port_identity", "sequence_id",
         "log_message_interval"}
  BY DEF HeaderReads
<1>3. /\ DOMAIN HeaderReads \subseteq DOMAIN HeaderWrites
      /\ \A name \in DOMAIN HeaderReads :
            /\ HeaderReads[name] = HeaderWrites[name]
            /\ HeaderWrites[name][2] \notin {"clock_quality", "time_source"}
  <2>1. DOMAIN HeaderReads \subseteq DOMAIN HeaderWrites
    BY <1>2 DEF HeaderWrites
  <2>2. \A name \in DOMAIN HeaderReads : HeaderReads[name] = HeaderWrites[name]
    <3>1. /\ HeaderReads["sdo_and_type"] = HeaderWrites["sdo_and_type"]
          /\ HeaderReads["version"] = HeaderWrites["version"]
          /\ HeaderReads["message_length"] = HeaderWrites["message_length"]
          /\ HeaderReads["domain_number"] = HeaderWrites["domain_number"]
          /\ HeaderReads["low_sdo"] = HeaderWrites["low_sdo"]
          /\ HeaderReads["flags_6"] = HeaderWrites["flags_6"]
          /\ HeaderReads["flags_7"] = HeaderWrites["flags_7"]
          /\ HeaderReads["correction_field"] = HeaderWrites["correction_field"]
          /\ HeaderReads["source_port_identity"] = HeaderWrites["source_port_identity"]
          /\ HeaderReads["sequence_id"] = HeaderWrites["sequence_id"]
          /\ HeaderReads["log_message_interval"] = HeaderWrites["log_message_interval"]
      BY DEF HeaderReads, HeaderWrites
    <3> QED BY <1>2, <3>1
  <2>3. \A name \in DOMAIN HeaderReads :
           HeaderWrites[name][2] \notin {"clock_quality", "time_source"}
    BY <1>2, SMTT(30) DEF HeaderWrites
  <2> QED BY <2>1, <2>2, <2>3
<1>4. fields = [name \in DOMAIN HeaderReads |-> Reading(HeaderWrites[name][2], written[name])]
  <2>1. AreOf(written, HeaderWrites) /\ Layout(HeaderWrites, HeaderSize) /\ HeaderSize \in Nat
    <3>1. HeaderSize \in Nat
      BY DEF HeaderSize
    <3> QED BY <1>1, <3>1, HeaderValues, HeaderLayout
  <2>2. PICK buffer, table, reads :
           buffer = Used(HeaderSize) /\ table = HeaderWrites /\ reads = HeaderReads
    OBVIOUS
  <2>3. buffer \in Seq(WireOctets) /\ Len(buffer) = HeaderSize
    BY <2>1, <2>2, UsedOctets
  <2>4. IsAt(whole, 0, PutFields(buffer, table, written))
    BY <1>1, <2>2 DEF SerializeHeader
  <2>5. /\ AreOf(written, table) /\ Layout(table, HeaderSize)
        /\ DOMAIN reads \subseteq DOMAIN table
        /\ \A name \in DOMAIN reads : reads[name] = table[name]
    BY <1>3, <2>1, <2>2
  <2>6. GetFields(whole, reads)
           = [name \in DOMAIN reads |-> Reading(table[name][2], written[name])]
    BY <2>1, <2>3, <2>4, <2>5, FieldsAreRead
  <2> QED BY <1>1, <2>2, <2>6
<1>5. \A name \in DOMAIN HeaderReads : fields[name] = written[name]
  <2>1. \A type, v : type \notin {"clock_quality", "time_source"} => Reading(type, v) = v
    BY DEF Reading
  <2> QED BY <1>3, <1>4, <2>1
<1>6. /\ header.sdo_id \in SdoIds /\ header.minor \in 0..15 /\ header.major = 2
      /\ header.flags \in SUBSET Flags
      /\ header = [sdo_id |-> header.sdo_id, major |-> header.major, minor |-> header.minor,
                   domain_number |-> header.domain_number, flags |-> header.flags,
                   correction_field |-> header.correction_field,
                   source_port_identity |-> header.source_port_identity,
                   sequence_id |-> header.sequence_id,
                   log_message_interval |-> header.log_message_interval]
  BY DEF Headers
<1>7. MessageCode[kind] \in 0..13
  BY DEF MessageTypes, MessageCode
<1>8. PICK code : code = MessageCode[kind]
  OBVIOUS
<1>9. /\ fields.sdo_and_type = (HighByte(header.sdo_id) % 16) * 16 + code
      /\ fields.low_sdo = LowByte(header.sdo_id)
      /\ fields.version = AsByte(header.major, header.minor)
      /\ fields.message_length = (length + HeaderSize) % 65536
  BY <1>1, <1>2, <1>5, <1>8 DEF HeaderFields
<1>10. /\ fields.domain_number = header.domain_number
       /\ fields.flags_6 = FlagOctet(header.flags, "flags_6")
       /\ fields.flags_7 = FlagOctet(header.flags, "flags_7")
       /\ fields.correction_field = header.correction_field
       /\ fields.source_port_identity = header.source_port_identity
       /\ fields.sequence_id = header.sequence_id
       /\ fields.log_message_interval = header.log_message_interval
  BY <1>1, <1>2, <1>5 DEF HeaderFields
<1>11. /\ (fields.sdo_and_type \div 16) * 256 + fields.low_sdo = header.sdo_id
       /\ fields.sdo_and_type % 16 = code
       /\ MajorOf(fields.version) = header.major /\ MinorOf(fields.version) = header.minor
       /\ fields.message_length = length + HeaderSize
  <2>1. (length + HeaderSize) % 65536 = length + HeaderSize
    BY DEF HeaderSize
  <2>2. /\ (fields.sdo_and_type \div 16) * 256 + LowByte(header.sdo_id) = header.sdo_id
        /\ fields.sdo_and_type % 16 = code
    <3>1. fields.sdo_and_type = FirstOctet(header.sdo_id, code)
      BY <1>9 DEF FirstOctet
    <3>2. PICK sdo_id : sdo_id = header.sdo_id
      OBVIOUS
    <3>3. sdo_id \in SdoIds /\ code \in 0..13
      BY <1>6, <1>7, <1>8, <3>2
    <3>4. /\ (FirstOctet(sdo_id, code) \div 16) * 256 + LowByte(sdo_id) = sdo_id
          /\ FirstOctet(sdo_id, code) % 16 = code
      BY <3>3, SdoIsRead
    <3> QED BY <3>1, <3>2, <3>4
  <2>3. MajorOf(AsByte(2, header.minor)) = 2 /\ MinorOf(AsByte(2, header.minor)) = header.minor
    BY <1>6, VersionIsRead
  <2> QED BY <1>6, <1>9, <2>1, <2>2, <2>3
<1>12. {flag \in Flags : FlagIsSet(fields[FlagReads[flag][1]], FlagReads[flag][2])}
          = header.flags
  BY <1>6, <1>10, FlagsAreRead
<1>13. HeaderOf(fields) = header
  BY <1>6, <1>10, <1>11, <1>12 DEF HeaderOf
<1>14. TypeCodeOf(fields) = MessageCode[kind]
  BY <1>8, <1>11 DEF TypeCodeOf
<1>15. IsCompatible(whole)
  <2>1. PICK octets : octets = SerializeHeader(header, kind, length, Used(HeaderSize))
    OBVIOUS
  <2>2. Len(octets) = 34 /\ octets[2] = <<AsByte(2, header.minor), 1>>
    BY <1>6, <2>1, HeaderOctets DEF HeaderSize
  <2>3. Len(whole) \in Nat /\ Len(whole) >= 34 /\ whole[0 + 2] = octets[2]
    <3>1. IsAt(whole, 0, octets)
      BY <2>1
    <3>2. 0 + 34 <= Len(whole)
      BY <2>2, <3>1 DEF IsAt
    <3>3. 2 \in 1..Len(octets)
      BY <2>2
    <3>4. whole[0 + 2] = octets[2]
      BY <3>1, <3>3, OctetOfPart, SMT
    <3> QED BY <3>2, <3>4
  <2>4. OctetAt(whole, 1) = AsByte(2, header.minor)
    BY <2>2, <2>3 DEF OctetAt
  <2>5. MajorOf(AsByte(2, header.minor)) = 2
    BY <1>6, VersionIsRead
  <2> QED BY <2>3, <2>4, <2>5 DEF IsCompatible
<1> QED BY <1>1, <1>11, <1>13, <1>14, <1>15

-----------------------------------------------------------------------------
(* The body *)

(* What is read of the body of m *)
ReadBody(m) ==
    [name \in DOMAIN BodyOf[m.kind].writes |->
        Reading(BodyOf[m.kind].writes[name][2], m.body[name])]

(* What the body of a message is written over: a pdelay_req clears the     *)
(* octets that it does not use.                                            *)
Cleared(m, buffer) == IF m.kind = "PDelayReq" THEN Put(buffer, 10, Field(0, 10)) ELSE buffer

(* Clearing keeps the length of the buffer. *)
LEMMA ClearedOctets ==
    ASSUME NEW m, NEW n \in Nat, NEW buffer \in Seq(WireOctets), Len(buffer) = n
    PROVE  Cleared(m, buffer) \in Seq(WireOctets) /\ Len(Cleared(m, buffer)) = n
<1>1. PICK ten, zeros : ten = 10 /\ zeros = Field(0, ten)
  OBVIOUS
<1>2. zeros \in Seq(WireOctets) /\ Len(zeros) = ten /\ ten \in Nat
  <2>1. ten \in Nat /\ 0 \in Int
    BY <1>1
  <2> QED BY <1>1, <2>1, FieldOctets
<1>3. PICK put : put = Put(buffer, ten, zeros)
  OBVIOUS
<1>4. DOMAIN buffer = 1..n /\ \A i \in 1..n : buffer[i] \in WireOctets
  OBVIOUS
<1>5. put = [i \in 1..n |-> IF i \in ten + 1..ten + Len(zeros) THEN zeros[i - ten]
                            ELSE buffer[i]]
  BY <1>3, <1>4 DEF Put
<1>6. ASSUME NEW i \in 1..n PROVE put[i] \in WireOctets
  <2>1. CASE i \in ten + 1..ten + Len(zeros)
    <3>1. i - ten \in 1..Len(zeros)
      BY <1>2, <2>1
    <3> QED BY <1>2, <1>5, <2>1, <3>1
  <2>2. CASE i \notin ten + 1..ten + Len(zeros)
    BY <1>4, <1>5, <2>2
  <2> QED BY <2>1, <2>2
<1>7. put \in [1..n -> WireOctets]
  BY <1>5, <1>6
<1>8. put \in Seq(WireOctets)
  BY <1>7, SeqDef
<1>9. Len(put) = n
  BY <1>7, <1>8, LenProperties
<1>10. Cleared(m, buffer) = put \/ Cleared(m, buffer) = buffer
  BY <1>1, <1>3 DEF Cleared
<1> QED BY <1>8, <1>9, <1>10

(* A body in octets, and read again *)
LEMMA BodyIsRead ==
    ASSUME NEW m, m.kind \in MessageTypes, AreOf(m.body, BodyOf[m.kind].writes)
    PROVE  LET octets == SerializeBody(m, Used(ContentSize(m.kind)))
           IN  /\ octets \in Seq(WireOctets) /\ Len(octets) = ContentSize(m.kind)
               /\ \A content \in Seq(WireOctets) :
                     IsAt(content, 0, octets) => DeserializeBody(m.kind, content) = ReadBody(m)
<1>1. PICK size, table, reads, buffer, values :
         /\ size = ContentSize(m.kind) /\ table = BodyOf[m.kind].writes
         /\ reads = BodyOf[m.kind].reads /\ buffer = Cleared(m, Used(size))
         /\ values = m.body
  OBVIOUS
<1>2. size \in Nat /\ Layout(table, size) /\ reads = table /\ AreOf(values, table)
  BY <1>1, BodyLayouts
<1>3. buffer \in Seq(WireOctets) /\ Len(buffer) = size
  BY <1>1, <1>2, UsedOctets, ClearedOctets
<1>4. PICK octets : octets = PutFields(buffer, table, values)
  OBVIOUS
<1>5. octets \in Seq(WireOctets) /\ Len(octets) = size
  BY <1>2, <1>3, <1>4, FieldsArePut
<1>6. SerializeBody(m, Used(ContentSize(m.kind))) = octets
  BY <1>1, <1>4 DEF SerializeBody, Cleared
<1>7. ASSUME NEW content \in Seq(WireOctets), IsAt(content, 0, octets)
      PROVE  DeserializeBody(m.kind, content) = ReadBody(m)
  <2>1. /\ DOMAIN reads \subseteq DOMAIN table
        /\ \A name \in DOMAIN reads : reads[name] = table[name]
    BY <1>2
  <2>2. IsAt(content, 0, PutFields(buffer, table, values))
    BY <1>4, <1>7
  <2>3. GetFields(content, reads)
           = [name \in DOMAIN reads |-> Reading(table[name][2], values[name])]
    BY <1>2, <1>3, <2>1, <2>2, FieldsAreRead
  <2> QED BY <1>1, <1>2, <2>3 DEF DeserializeBody, ReadBody
<1> QED BY <1>1, <1>5, <1>6, <1>7

-----------------------------------------------------------------------------
(* Functions that loops over TLVs compute *)

(* Sequences that are put together from an index on: at some indices they  *)
(* end, at the others they go on at a later one.                           *)
IsChain(f, lo, hi, end, last, head, next) ==
    f = [i \in lo..hi |-> IF end[i] THEN last[i] ELSE head[i] \o f[next[i]]]

(* They are well defined. *)
LEMMA ChainExists ==
    ASSUME NEW lo \in Int, NEW hi \in Int, lo <= hi, NEW end, NEW last, NEW head, NEW next,
           \A i \in lo..hi : end[i] \/ next[i] \in (i + 1)..hi
    PROVE  \E f : IsChain(f, lo, hi, end, last, head, next)
<1> DEFINE Body(f, i) == IF end[i] THEN last[i] ELSE head[i] \o f[next[i]]
           S == {k \in Nat : k <= hi - lo =>
                             \E f : IsChain(f, hi - k, hi, end, last, head, next)}
<1>1. 0 \in S
  <2> DEFINE f == [i \in hi - 0..hi |-> Body(<<>>, hi)]
  <2>1. \A i \in hi - 0..hi : i = hi
    OBVIOUS
  <2>2. end[hi]
    OBVIOUS
  <2>3. f = [i \in hi - 0..hi |-> Body(f, i)]
    BY <2>1, <2>2
  <2> HIDE DEF f
  <2>4. IsChain(f, hi - 0, hi, end, last, head, next)
    BY <2>3 DEF IsChain
  <2> QED BY <2>4
<1>2. ASSUME NEW k \in Nat, k \in S PROVE k + 1 \in S
  <2>1. SUFFICES ASSUME k + 1 <= hi - lo
                 PROVE  \E f : IsChain(f, hi - (k + 1), hi, end, last, head, next)
    OBVIOUS
  <2>2. PICK first : first = hi - (k + 1)
    OBVIOUS
  <2>3. first \in lo..hi /\ hi - k = first + 1
    BY <2>1, <2>2
  <2>4. PICK f : IsChain(f, first + 1, hi, end, last, head, next)
    BY <1>2, <2>1, <2>3
  <2> DEFINE g == [i \in first..hi |-> IF i = first THEN Body(f, first) ELSE f[i]]
  <2>5. \A i \in first + 1..hi : i \in first..hi /\ g[i] = f[i] /\ f[i] = Body(f, i)
    <3>1. \A i \in first + 1..hi : f[i] = Body(f, i)
      BY <2>4, Zenon DEF IsChain
    <3>2. \A i \in first + 1..hi : i \in first..hi /\ i # first
      BY <2>3
    <3> HIDE DEF Body
    <3> QED BY <3>1, <3>2
  <2>6. ASSUME NEW i \in first..hi PROVE Body(f, i) = Body(g, i)
    <3>1. CASE end[i]
      BY <3>1
    <3>2. CASE ~end[i]
      <4>1. next[i] \in first + 1..hi
        BY <2>3, <3>2
      <4>2. g[next[i]] = f[next[i]]
        BY <2>5, <4>1
      <4> HIDE DEF g
      <4> QED BY <4>2
    <3> QED BY <3>1, <3>2
  <2>7. \A i \in first..hi : i = first \/ i \in first + 1..hi
    BY <2>3
  <2>8. g[first] = Body(f, first)
    BY <2>3
  <2>9. g = [i \in first..hi |-> g[i]]
    OBVIOUS
  <2> HIDE DEF g, Body
  <2>10. \A i \in first..hi : g[i] = Body(g, i)
    BY <2>5, <2>6, <2>7, <2>8, Zenon
  <2>11. g = [i \in first..hi |-> Body(g, i)]
    BY <2>9, <2>10, Zenon
  <2>12. IsChain(g, first, hi, end, last, head, next)
    BY <2>11 DEF IsChain, Body
  <2> QED BY <2>2, <2>12
<1> HIDE DEF S
<1>3. \A k \in Nat : k \in S
  BY <1>1, <1>2, SetInduction
<1>4. hi - lo \in Nat /\ hi - (hi - lo) = lo
  OBVIOUS
<1> QED BY <1>3, <1>4 DEF S

(* Induction along a sequence, to its end and from its end *)
LEMMA ForwardInduction ==
    ASSUME NEW n \in Nat, NEW S, 1 \in S, \A i \in 1..n : i \in S => i + 1 \in S
    PROVE  \A i \in 1..n + 1 : i \in S
<1> DEFINE T == {k \in Nat : k <= n => k + 1 \in S}
<1>1. 0 \in T
  OBVIOUS
<1>2. ASSUME NEW k \in Nat, k \in T PROVE k + 1 \in T
  BY <1>2
<1> HIDE DEF T
<1>3. \A k \in Nat : k \in T
  BY <1>1, <1>2, SetInduction
<1>4. ASSUME NEW i \in 1..n + 1 PROVE i \in S
  <2>1. i - 1 \in Nat /\ i - 1 <= n /\ (i - 1) + 1 = i
    OBVIOUS
  <2> QED BY <1>3, <2>1 DEF T
<1> QED BY <1>4

(* From the end *)
LEMMA BackwardInduction ==
    ASSUME NEW n \in Nat, NEW S, n + 1 \in S, \A i \in 1..n : i + 1 \in S => i \in S
    PROVE  \A i \in 1..n + 1 : i \in S
<1> DEFINE T == {k \in Nat : k <= n => (n + 1) - k \in S}
<1>1. 0 \in T
  OBVIOUS
<1>2. ASSUME NEW k \in Nat, k \in T PROVE k + 1 \in T
  <2>1. SUFFICES ASSUME k + 1 <= n PROVE (n + 1) - (k + 1) \in S
    OBVIOUS
  <2>2. /\ (n + 1) - (k + 1) \in 1..n /\ ((n + 1) - (k + 1)) + 1 = (n + 1) - k
    BY <2>1
  <2> QED BY <1>2, <2>1, <2>2
<1> HIDE DEF T
<1>3. \A k \in Nat : k \in T
  BY <1>1, <1>2, SetInduction
<1>4. ASSUME NEW i \in 1..n + 1 PROVE i \in S
  <2>1. (n + 1) - i \in Nat /\ (n + 1) - i <= n /\ (n + 1) - ((n + 1) - i) = i
    OBVIOUS
  <2> QED BY <1>3, <2>1 DEF T
<1> QED BY <1>4

-----------------------------------------------------------------------------
(* TLVs in octets *)

(* The octets of TLVs are of natural numbers. *)
NatOctets == Nat \X Int

(* The octets of a field of a natural number *)
LEMMA NatFieldOctets ==
    ASSUME NEW v \in Nat, NEW n \in Nat
    PROVE  Field(v, n) \in Seq(NatOctets) /\ Len(Field(v, n)) = n
<1>1. \A k \in 1..n : <<v, k>> \in NatOctets
  BY DEF NatOctets
<1>2. Field(v, n) \in [1..n -> NatOctets]
  BY <1>1 DEF Field
<1>3. Field(v, n) \in Seq(NatOctets)
  BY <1>2, SeqDef
<1> QED BY <1>2, <1>3, LenProperties

(* They are octets of the wire. *)
LEMMA NatOctetsAreOctets ==
    ASSUME NEW s \in Seq(NatOctets)
    PROVE  s \in Seq(WireOctets)
<1>1. NatOctets \subseteq WireOctets
  BY DEF NatOctets, WireOctets
<1> QED BY <1>1

(* One TLV in octets *)
LEMMA TlvWireOctets ==
    ASSUME NEW tlv \in WireTlvs
    PROVE  LET octets == TlvWire(tlv)
           IN  /\ octets \in Seq(NatOctets) /\ Len(octets) = 4 + tlv.length
               /\ IsAt(octets, 0, Field(tlv.code, 2)) /\ IsAt(octets, 2, Field(tlv.length, 2))
               /\ IsAt(octets, 4, Field(tlv.value, tlv.length))
<1>1. PICK two, n : two = 2 /\ n = tlv.length
  OBVIOUS
<1>2. two \in Nat /\ n \in Nat /\ tlv.code \in Nat /\ tlv.value \in Nat
  BY <1>1 DEF WireTlvs
<1>3. PICK c, l, v, cl, octets :
         /\ c = Field(tlv.code, two) /\ l = Field(n, two) /\ v = Field(tlv.value, n)
         /\ cl = c \o l /\ octets = cl \o v
  OBVIOUS
<1>4. /\ c \in Seq(NatOctets) /\ Len(c) = two /\ l \in Seq(NatOctets) /\ Len(l) = two
      /\ v \in Seq(NatOctets) /\ Len(v) = n
  BY <1>2, <1>3, NatFieldOctets
<1>5. cl \in Seq(NatOctets) /\ Len(cl) = two + two
  <2>1. cl = c \o l
    BY <1>3
  <2>2. cl \in Seq(NatOctets) /\ Len(cl) = Len(c) + Len(l)
    BY <1>4, <2>1, ConcatProperties
  <2> QED BY <1>4, <2>2
<1>6. octets \in Seq(NatOctets) /\ Len(octets) = (two + two) + n
  BY <1>3, <1>4, <1>5, ConcatProperties
<1>7. IsAt(octets, 0, cl) /\ IsAt(octets, two + two, v)
  BY <1>3, <1>4, <1>5, PartsOfConcat, Zenon
<1>8. IsAt(octets, 0, c) /\ IsAt(octets, 0 + two, l)
  <2>1. IsAt(octets, 0, c \o l)
    BY <1>3, <1>7
  <2>2. IsAt(octets, 0, c) /\ IsAt(octets, 0 + Len(c), l)
    BY <1>4, <1>6, <2>1, HalvesOfPart
  <2> QED BY <1>4, <2>2
<1>9. TlvWire(tlv) = octets
  BY <1>1, <1>3, Zenon DEF TlvWire
<1>10. two + two = 4 /\ 0 + two = 2
  BY <1>1
<1>11. /\ IsAt(octets, 0, Field(tlv.code, 2)) /\ IsAt(octets, 2, Field(tlv.length, 2))
       /\ IsAt(octets, 4, Field(tlv.value, tlv.length))
  BY <1>1, <1>3, <1>7, <1>8, <1>10, Zenon
<1> QED BY <1>1, <1>6, <1>9, <1>10, <1>11, Zenon

(* g[i] is put together from entry i on of a list of n. *)
IsListChain(g, n, head) ==
    g = [i \in 1..n + 1 |-> IF i = n + 1 THEN <<>> ELSE head[i] \o g[i + 1]]

(* A sequence can be put together from the end of a list. *)
LEMMA ListChain ==
    ASSUME NEW n \in Nat, NEW head
    PROVE  \E g : IsListChain(g, n, head)
<1>1. PICK end, last, next :
         /\ end = [i \in 1..n + 1 |-> i = n + 1] /\ last = [i \in 1..n + 1 |-> <<>>]
         /\ next = [i \in 1..n + 1 |-> i + 1]
  OBVIOUS
<1>2. ASSUME NEW i \in 1..n + 1 PROVE end[i] \/ next[i] \in (i + 1)..n + 1
  <2>1. end[i] = (i = n + 1) /\ next[i] = i + 1
    BY <1>1, Zenon
  <2>2. i = n + 1 \/ i + 1 \in (i + 1)..n + 1
    OBVIOUS
  <2> QED BY <2>1, <2>2, Zenon
<1>3. PICK g : IsChain(g, 1, n + 1, end, last, head, next)
  <2>1. 1 \in Int /\ n + 1 \in Int /\ 1 <= n + 1
    OBVIOUS
  <2> QED BY <1>2, <2>1, ChainExists
<1>4. g = [i \in 1..n + 1 |-> IF end[i] THEN last[i] ELSE head[i] \o g[next[i]]]
  BY <1>3 DEF IsChain
<1>5. ASSUME NEW i \in 1..n + 1
      PROVE  (IF end[i] THEN last[i] ELSE head[i] \o g[next[i]])
                = IF i = n + 1 THEN <<>> ELSE head[i] \o g[i + 1]
  <2>1. (end[i] <=> i = n + 1) /\ last[i] = <<>> /\ next[i] = i + 1
    BY <1>1
  <2> QED BY <2>1, Zenon
<1>6. g = [i \in 1..n + 1 |-> IF i = n + 1 THEN <<>> ELSE head[i] \o g[i + 1]]
  <2>1. [i \in 1..n + 1 |-> IF end[i] THEN last[i] ELSE head[i] \o g[next[i]]]
          = [i \in 1..n + 1 |-> IF i = n + 1 THEN <<>> ELSE head[i] \o g[i + 1]]
    BY <1>5, Zenon
  <2> QED BY <1>4, <2>1, Zenon
<1>7. IsListChain(g, n, head)
  BY <1>6, Zenon DEF IsListChain
<1> QED BY <1>7, Zenon

(* f[i] are the octets from TLV i on. *)
AreTails(f, tlvs) ==
    /\ f[Len(tlvs) + 1] = <<>>
    /\ \A i \in 1..Len(tlvs) : f[i] = TlvWire(tlvs[i]) \o f[i + 1]

(* TlvOctets are those from the first TLV on. *)
LEMMA TailsExist ==
    ASSUME NEW tlvs, Len(tlvs) \in Nat
    PROVE  \E f : AreTails(f, tlvs) /\ TlvOctets(tlvs) = f[1]
<1>1. PICK n : n = Len(tlvs)
  OBVIOUS
<1> DEFINE IsFrom(f) == f = [i \in 1..Len(tlvs) + 1 |->
                               IF i = Len(tlvs) + 1 THEN <<>> ELSE TlvWire(tlvs[i]) \o f[i + 1]]
           f == CHOOSE g : IsFrom(g)
<1>2. TlvOctets(tlvs) = f[1]
  BY Zenon DEF TlvOctets
<1>3. \E g : IsFrom(g)
  <2>1. PICK head : head = [i \in 1..n + 1 |-> TlvWire(tlvs[i])]
    OBVIOUS
  <2>2. PICK g : IsListChain(g, n, head)
    <3>1. n \in Nat
      BY <1>1, Zenon
    <3> QED BY <3>1, ListChain, Zenon
  <2>3. g = [i \in 1..n + 1 |-> IF i = n + 1 THEN <<>> ELSE TlvWire(tlvs[i]) \o g[i + 1]]
    BY <2>1, <2>2, Zenon DEF IsListChain
  <2> QED BY <1>1, <2>3, Zenon
<1>4. IsFrom(f)
  BY <1>3, Zenon
<1> HIDE DEF f
<1>5. \A i \in 1..n + 1 : f[i] = IF i = n + 1 THEN <<>> ELSE TlvWire(tlvs[i]) \o f[i + 1]
  BY <1>1, <1>4, Zenon
<1>6. f[n + 1] = <<>>
  <2>1. n + 1 \in 1..n + 1
    BY <1>1
  <2> QED BY <1>5, <2>1, Zenon
<1>7. ASSUME NEW i \in 1..n PROVE f[i] = TlvWire(tlvs[i]) \o f[i + 1]
  <2>1. i \in 1..n + 1 /\ i # n + 1
    BY <1>1
  <2> QED BY <1>5, <2>1, Zenon
<1> QED BY <1>1, <1>2, <1>6, <1>7 DEF AreTails

(* The octets from a TLV on are octets, and have their lengths. *)
LEMMA TailOctets ==
    ASSUME NEW tlvs \in Seq(WireTlvs), NEW f, AreTails(f, tlvs)
    PROVE  /\ \A i \in 1..Len(tlvs) + 1 : f[i] \in Seq(NatOctets) /\ Len(f[i]) \in Nat
           /\ \A i \in 1..Len(tlvs) : Len(f[i]) = 4 + tlvs[i].length + Len(f[i + 1])
<1>1. PICK n : n = Len(tlvs)
  OBVIOUS
<1>2. n \in Nat /\ \A i \in 1..n : tlvs[i] \in WireTlvs /\ tlvs[i].length \in Nat
  <2>1. \A i \in 1..n : tlvs[i] \in WireTlvs
    BY <1>1
  <2> QED BY <1>1, <2>1 DEF WireTlvs
<1>3. f[n + 1] = <<>> /\ \A i \in 1..n : f[i] = TlvWire(tlvs[i]) \o f[i + 1]
  BY <1>1 DEF AreTails
<1> DEFINE S == {i \in 1..n + 1 : f[i] \in Seq(NatOctets)}
<1>4. n + 1 \in S
  <2>1. n + 1 \in 1..n + 1 /\ <<>> \in Seq(NatOctets)
    BY <1>2
  <2> QED BY <1>3, <2>1
<1>5. ASSUME NEW i \in 1..n, i + 1 \in S
      PROVE  /\ i \in S /\ Len(f[i]) = 4 + tlvs[i].length + Len(f[i + 1])
             /\ Len(f[i + 1]) \in Nat
  <2>1. PICK w, rest : w = TlvWire(tlvs[i]) /\ rest = f[i + 1]
    OBVIOUS
  <2>2. w \in Seq(NatOctets) /\ Len(w) = 4 + tlvs[i].length
    BY <1>2, <2>1, TlvWireOctets
  <2>3. rest \in Seq(NatOctets) /\ Len(rest) \in Nat
    BY <1>5, <2>1
  <2>4. f[i] = w \o rest
    BY <1>3, <2>1
  <2>5. f[i] \in Seq(NatOctets) /\ Len(f[i]) = Len(w) + Len(rest)
    BY <2>2, <2>3, <2>4, ConcatProperties
  <2>6. i \in 1..n + 1
    BY <1>2
  <2> QED BY <2>1, <2>2, <2>3, <2>5, <2>6
<1> HIDE DEF S
<1>6. \A i \in 1..n + 1 : i \in S
  BY <1>2, <1>4, <1>5, BackwardInduction
<1>7. \A i \in 1..n + 1 : f[i] \in Seq(NatOctets)
  BY <1>6 DEF S
<1>8. \A i \in 1..n : Len(f[i]) = 4 + tlvs[i].length + Len(f[i + 1])
  <2>1. \A i \in 1..n : i + 1 \in 1..n + 1
    BY <1>2
  <2> QED BY <1>5, <1>6, <2>1
<1> QED BY <1>1, <1>7, <1>8

(* They are at the end of the octets of all TLVs. *)
LEMMA TailPlaces ==
    ASSUME NEW tlvs \in Seq(WireTlvs), NEW f, AreTails(f, tlvs)
    PROVE  \A i \in 1..Len(tlvs) + 1 : IsAt(f[1], Len(f[1]) - Len(f[i]), f[i])
<1>1. PICK n, octets, N : n = Len(tlvs) /\ octets = f[1] /\ N = Len(octets)
  OBVIOUS
<1>2. n \in Nat /\ \A i \in 1..n : tlvs[i] \in WireTlvs /\ tlvs[i].length \in Nat
  <2>1. \A i \in 1..n : tlvs[i] \in WireTlvs
    BY <1>1
  <2> QED BY <1>1, <2>1 DEF WireTlvs
<1>3. /\ \A i \in 1..n + 1 : f[i] \in Seq(NatOctets) /\ Len(f[i]) \in Nat
      /\ \A i \in 1..n : Len(f[i]) = 4 + tlvs[i].length + Len(f[i + 1])
  BY <1>1, TailOctets
<1>4. octets \in Seq(NatOctets) /\ N \in Nat
  <2>1. 1 \in 1..n + 1
    BY <1>2
  <2> QED BY <1>1, <1>3, <2>1
<1> DEFINE S == {i \in 1..n + 1 : IsAt(octets, N - Len(f[i]), f[i])}
<1>5. 1 \in S
  <2>1. 1 \in 1..n + 1 /\ N - Len(f[1]) = 0
    BY <1>1, <1>2, <1>4
  <2>2. IsAt(octets, 0, octets)
    BY <1>1, <1>4 DEF IsAt
  <2> QED BY <1>1, <2>1, <2>2
<1>6. ASSUME NEW i \in 1..n, i \in S PROVE i + 1 \in S
  <2>1. PICK w, rest, at : w = TlvWire(tlvs[i]) /\ rest = f[i + 1] /\ at = N - Len(f[i])
    OBVIOUS
  <2>2. i + 1 \in 1..n + 1 /\ i \in 1..n + 1
    BY <1>2
  <2>3. w \in Seq(NatOctets) /\ Len(w) = 4 + tlvs[i].length
    BY <1>2, <2>1, TlvWireOctets
  <2>4. rest \in Seq(NatOctets) /\ Len(rest) \in Nat /\ Len(f[i]) \in Nat
    BY <1>3, <2>1, <2>2
  <2>5. f[i] = w \o rest
    BY <1>1, <2>1 DEF AreTails
  <2>6. IsAt(octets, at, w \o rest)
    BY <1>6, <2>1, <2>5
  <2>7. IsAt(octets, at + Len(w), rest)
    BY <1>4, <2>3, <2>4, <2>6, HalvesOfPart
  <2>8. at + Len(w) = N - Len(rest)
    <3>1. Len(f[i]) = 4 + tlvs[i].length + Len(rest)
      BY <1>3, <2>1
    <3>2. PICK length, all, left :
             length = tlvs[i].length /\ all = Len(f[i]) /\ left = Len(rest)
      OBVIOUS
    <3>3. length \in Nat /\ left \in Nat /\ all = 4 + length + left /\ at = N - all
      BY <1>2, <2>1, <2>4, <3>1, <3>2
    <3>4. at + (4 + length) = N - left
      BY <1>4, <3>3
    <3> QED BY <2>3, <3>2, <3>4
  <2> QED BY <2>1, <2>2, <2>7, <2>8
<1> HIDE DEF S
<1>7. \A i \in 1..n + 1 : i \in S
  BY <1>2, <1>5, <1>6, ForwardInduction
<1> QED BY <1>1, <1>7 DEF S

(* A TLV that is part of some octets, read by Tlv::deserialize *)
LEMMA TlvIsRead ==
    ASSUME NEW octets \in Seq(NatOctets), NEW at, NEW tlv \in WireTlvs,
           tlv.length = 0 => tlv.value = 0, IsAt(octets, at, TlvWire(tlv))
    PROVE  /\ ReadAt(octets, at + 1, 2) = tlv.code /\ ReadAt(octets, at + 3, 2) = tlv.length
           /\ ReadAt(octets, at + 5, tlv.length) = tlv.value
<1>1. PICK w, n, two : w = TlvWire(tlv) /\ n = tlv.length /\ two = 2
  OBVIOUS
<1>2. n \in Nat /\ tlv.code \in Int /\ tlv.value \in Int /\ two \in Nat /\ two > 0 /\ n \in Int
  BY <1>1 DEF WireTlvs
<1>3. /\ w \in Seq(NatOctets) /\ Len(w) = 4 + n
      /\ IsAt(w, 0, Field(tlv.code, two)) /\ IsAt(w, 2, Field(n, two))
      /\ IsAt(w, 4, Field(tlv.value, n))
  BY <1>1, TlvWireOctets
<1>4. octets \in Seq(WireOctets) /\ Len(octets) \in Nat /\ Len(w) \in Nat /\ at \in Nat
  BY <1>2, <1>3, NatOctetsAreOctets DEF IsAt
<1>5. /\ Len(Field(tlv.code, two)) \in Nat /\ Len(Field(n, two)) \in Nat
      /\ Len(Field(tlv.value, n)) \in Nat
  BY <1>2, FieldOctets
<1>6. /\ IsAt(octets, at + 0, Field(tlv.code, two)) /\ IsAt(octets, at + 2, Field(n, two))
      /\ IsAt(octets, at + 4, Field(tlv.value, n))
  BY <1>1, <1>3, <1>4, <1>5, PartOfPart
<1>7. /\ (at + 0) + 1 = at + 1 /\ (at + 2) + 1 = at + 3 /\ (at + 4) + 1 = at + 5
  BY <1>4
<1>8. ReadAt(octets, (at + 0) + 1, two) = tlv.code /\ ReadAt(octets, (at + 2) + 1, two) = n
  BY <1>2, <1>4, <1>6, PartIsRead
<1>9. ReadAt(octets, at + 5, n) = tlv.value
  <2>1. CASE n > 0
    BY <1>2, <1>4, <1>6, <1>7, <2>1, PartIsRead
  <2>2. CASE n = 0
    <3>1. PICK i, j : i = at + 5 /\ j = at + 5 + n - 1
      OBVIOUS
    <3>2. i \in Int /\ j \in Int /\ ~(i <= j)
      BY <1>4, <2>2, <3>1
    <3>3. \A k \in i..j : octets[k] \in NatOctets
      BY <3>2
    <3>4. SubSeq(octets, i, j) \in Seq(NatOctets) /\ Len(SubSeq(octets, i, j)) = 0
      BY <3>2, <3>3, SubSeqProperties
    <3>5. SubSeq(octets, i, j) = <<>>
      BY <3>4, EmptySeq
    <3>6. ReadField(<<>>) = 0
      BY DEF ReadField
    <3> QED BY <1>1, <2>2, <3>1, <3>5, <3>6 DEF ReadAt
  <2> QED BY <1>2, <2>1, <2>2
<1> QED BY <1>1, <1>7, <1>8, <1>9

(* TLV i starts at off[i] of the octets, and is read there. *)
ArePlaced(octets, tlvs, off) ==
    /\ off[1] = 0 /\ off[Len(tlvs) + 1] = Len(octets)
    /\ \A i \in 1..Len(tlvs) :
          /\ off[i] \in Nat /\ off[i] + 4 <= Len(octets)
          /\ off[i + 1] = off[i] + 4 + tlvs[i].length /\ off[i + 1] <= Len(octets)
          /\ ReadAt(octets, off[i] + 1, 2) = tlvs[i].code
          /\ ReadAt(octets, off[i] + 3, 2) = tlvs[i].length
          /\ ReadAt(octets, off[i] + 5, tlvs[i].length) = tlvs[i].value

(* TLVs that follow one another start where those before them end. *)
LEMMA TlvsArePlaced ==
    ASSUME NEW tlvs, AreTlvs(tlvs)
    PROVE  /\ TlvOctets(tlvs) \in Seq(NatOctets)
           /\ \E off : ArePlaced(TlvOctets(tlvs), tlvs, off)
<1>1. tlvs \in Seq(WireTlvs)
  BY DEF AreTlvs
<1>2. PICK f : AreTails(f, tlvs) /\ TlvOctets(tlvs) = f[1]
  BY <1>1, TailsExist
<1>3. PICK n, octets, N : n = Len(tlvs) /\ octets = f[1] /\ N = Len(octets)
  OBVIOUS
<1>4. /\ n \in Nat
      /\ \A i \in 1..n : /\ tlvs[i] \in WireTlvs /\ tlvs[i].length \in Nat
                         /\ tlvs[i].length = 0 => tlvs[i].value = 0
  <2>1. n \in Nat /\ \A i \in 1..n : tlvs[i] \in WireTlvs
    BY <1>1, <1>3
  <2>2. \A i \in 1..n : tlvs[i].length \in Nat /\ (tlvs[i].length = 0 => tlvs[i].value = 0)
    <3>1. DOMAIN tlvs = 1..n /\ \A tlv \in WireTlvs : tlv.length \in Nat
      BY <1>1, <1>3 DEF WireTlvs
    <3> QED BY <2>1, <3>1 DEF AreTlvs
  <2> QED BY <2>1, <2>2
<1>5. /\ \A i \in 1..n + 1 : f[i] \in Seq(NatOctets) /\ Len(f[i]) \in Nat
      /\ \A i \in 1..n : Len(f[i]) = 4 + tlvs[i].length + Len(f[i + 1])
  BY <1>1, <1>2, <1>3, TailOctets
<1>6. \A i \in 1..n + 1 : IsAt(octets, N - Len(f[i]), f[i])
  BY <1>1, <1>2, <1>3, TailPlaces
<1>7. 1 \in 1..n + 1 /\ n + 1 \in 1..n + 1 /\ \A i \in 1..n : i \in 1..n + 1 /\ i + 1 \in 1..n + 1
  BY <1>4
<1>8. octets \in Seq(NatOctets) /\ N \in Nat
  BY <1>3, <1>5, <1>7
<1>9. PICK off : off = [i \in 1..n + 1 |-> N - Len(f[i])]
  OBVIOUS
<1>10. \A i \in 1..n + 1 : off[i] = N - Len(f[i])
  BY <1>9
<1>11. off[1] = 0 /\ off[n + 1] = N
  <2>1. Len(f[n + 1]) = 0
    BY <1>2, <1>3 DEF AreTails
  <2>2. N - N = 0 /\ N - 0 = N
    BY <1>8
  <2> QED BY <1>3, <1>7, <1>10, <2>1, <2>2
<1>12. ASSUME NEW i \in 1..n
       PROVE  /\ off[i] \in Nat /\ off[i] + 4 <= N
              /\ off[i + 1] = off[i] + 4 + tlvs[i].length /\ off[i + 1] <= N
              /\ ReadAt(octets, off[i] + 1, 2) = tlvs[i].code
              /\ ReadAt(octets, off[i] + 3, 2) = tlvs[i].length
              /\ ReadAt(octets, off[i] + 5, tlvs[i].length) = tlvs[i].value
  <2>1. PICK tlv, length, all, left, w :
           /\ tlv = tlvs[i] /\ length = tlvs[i].length /\ all = Len(f[i])
           /\ left = Len(f[i + 1]) /\ w = TlvWire(tlv)
    OBVIOUS
  <2>2. length \in Nat /\ left \in Nat /\ all = 4 + length + left
    BY <1>4, <1>5, <1>7, <2>1
  <2>4. off[i] = N - all /\ off[i + 1] = N - left
    BY <1>7, <1>10, <2>1
  <2>5. IsAt(octets, off[i], f[i])
    BY <1>6, <1>7, <1>10
  <2>6. off[i] \in Nat
    BY <2>5 DEF IsAt
  <2>7. /\ off[i] + 4 <= N /\ off[i + 1] = off[i] + 4 + length /\ off[i + 1] <= N
    BY <1>8, <2>2, <2>4
  <2>8. IsAt(octets, off[i], w)
    <3>1. f[i] = w \o f[i + 1]
      BY <1>2, <1>3, <2>1 DEF AreTails
    <3>2. w \in Seq(NatOctets) /\ f[i + 1] \in Seq(NatOctets)
      BY <1>4, <1>5, <1>7, <2>1, TlvWireOctets
    <3>3. IsAt(octets, off[i], w \o f[i + 1])
      BY <2>5, <3>1
    <3> QED BY <1>8, <3>2, <3>3, HalvesOfPart
  <2>9. tlv \in WireTlvs /\ (tlv.length = 0 => tlv.value = 0)
    BY <1>4, <2>1
  <2>10. /\ ReadAt(octets, off[i] + 1, 2) = tlv.code
         /\ ReadAt(octets, off[i] + 3, 2) = tlv.length
         /\ ReadAt(octets, off[i] + 5, tlv.length) = tlv.value
    <3>1. IsAt(octets, off[i], TlvWire(tlv))
      BY <2>1, <2>8
    <3> QED BY <1>8, <2>9, <3>1, TlvIsRead
  <2> QED BY <2>1, <2>6, <2>7, <2>10
<1>13. ArePlaced(octets, tlvs, off)
  BY <1>3, <1>11, <1>12 DEF ArePlaced
<1> QED BY <1>2, <1>3, <1>8, <1>13

(* Where the last TLV is not empty every TLV has more than a header after  *)
(* it, and where it is empty the last one has just that.                   *)
LEMMA RestOfTlvs ==
    ASSUME NEW tlvs, AreTlvs(tlvs), NEW octets, Len(octets) \in Nat,
           NEW off, ArePlaced(octets, tlvs, off)
    PROVE  LET n == Len(tlvs)
               k == IF EndEmpty(tlvs) THEN n - 1 ELSE n
           IN  /\ n \in Nat /\ k \in Nat /\ k + 1 \in 1..n + 1 /\ k <= n
               /\ \A i \in 1..k : off[i] + 4 < Len(octets)
               /\ off[k + 1] = IF EndEmpty(tlvs) THEN Len(octets) - 4 ELSE Len(octets)
               /\ off[k + 1] \in Nat
<1>1. PICK n, N : n = Len(tlvs) /\ N = Len(octets)
  OBVIOUS
<1>2. tlvs \in Seq(WireTlvs) /\ n \in Nat /\ N \in Nat
  BY <1>1 DEF AreTlvs
<1>3. /\ \A i \in 1..n : tlvs[i].length \in Nat
      /\ (tlvs = <<>>) <=> (n = 0)
  <2>1. \A i \in 1..n : tlvs[i] \in WireTlvs
    BY <1>1, <1>2
  <2>2. \A tlv \in WireTlvs : tlv.length \in Nat
    BY DEF WireTlvs
  <2> QED BY <1>1, <1>2, <2>1, <2>2, EmptySeq
<1>4. /\ off[n + 1] = N /\ off[1] = 0
      /\ \A i \in 1..n : /\ off[i] \in Nat /\ off[i] + 4 <= N
                         /\ off[i + 1] = off[i] + 4 + tlvs[i].length
  BY <1>1 DEF ArePlaced
<1>5. ASSUME NEW i \in 1..n, i + 1 \in 1..n PROVE off[i] + 4 < N
  <2>1. PICK o, next, length : o = off[i] /\ next = off[i + 1] /\ length = tlvs[i].length
    OBVIOUS
  <2>2. o \in Nat /\ length \in Nat /\ next = o + 4 + length /\ next + 4 <= N
    BY <1>3, <1>4, <1>5, <2>1
  <2>3. o + 4 < N
    BY <1>2, <2>2
  <2> QED BY <2>1, <2>3
<1>6. CASE EndEmpty(tlvs)
  <2>1. n # 0 /\ tlvs[n].length = 0
    BY <1>1, <1>3, <1>6 DEF EndEmpty
  <2>2. n \in 1..n /\ n - 1 \in Nat /\ (n - 1) + 1 = n /\ n \in 1..n + 1 /\ n - 1 <= n
    BY <1>2, <2>1
  <2>3. \A i \in 1..n - 1 : i \in 1..n /\ i + 1 \in 1..n
    BY <1>2
  <2>4. off[n] \in Nat /\ N = off[n] + 4 + 0
    BY <1>4, <2>1, <2>2
  <2>5. off[n] = N - 4
    BY <1>2, <2>4
  <2>6. \A i \in 1..n - 1 : off[i] + 4 < N
    BY <1>5, <2>3
  <2> QED BY <1>1, <1>2, <1>6, <2>2, <2>4, <2>5, <2>6
<1>7. CASE ~EndEmpty(tlvs)
  <2>1. n + 1 \in 1..n + 1 /\ n <= n
    BY <1>2
  <2>2. ASSUME NEW i \in 1..n PROVE off[i] + 4 < N
    <3>1. CASE i = n
      <4>1. tlvs[n].length # 0
        BY <1>1, <1>2, <1>3, <1>7, <3>1 DEF EndEmpty
      <4>2. PICK o, length : o = off[n] /\ length = tlvs[n].length
        OBVIOUS
      <4>3. o \in Nat /\ length \in Nat /\ length # 0 /\ N = o + 4 + length
        BY <1>3, <1>4, <3>1, <4>1, <4>2
      <4>4. o + 4 < N
        BY <4>3
      <4> QED BY <3>1, <4>2, <4>4
    <3>2. CASE i # n
      <4>1. i + 1 \in 1..n
        BY <1>2, <3>2
      <4> QED BY <1>5, <4>1
    <3> QED BY <3>1, <3>2
  <2> QED BY <1>1, <1>2, <1>4, <1>7, <2>1, <2>2
<1> QED BY <1>6, <1>7

(* What is read of octets of natural numbers is one, or garbage. *)
LEMMA ReadsAreNatural ==
    ASSUME NEW octets \in Seq(NatOctets), NEW first \in Nat, first > 0,
           first + 1 <= Len(octets)
    PROVE  ReadAt(octets, first, 2) \in Nat \union {-1}
<1>1. PICK last : last = first + 2 - 1
  OBVIOUS
<1>2. last = first + 1 /\ Len(octets) \in Nat
  BY <1>1
<1>3. PICK s : s = SubSeq(octets, first, last)
  OBVIOUS
<1>4. \A k \in first..last : octets[k] \in NatOctets
  BY <1>2
<1>5. s \in Seq(NatOctets) /\ Len(s) = last - first + 1
  BY <1>2, <1>3, <1>4, SubSeqProperties
<1>6. Len(s) = 2
  BY <1>2, <1>5
<1>7. s # <<>> /\ s[1] \in NatOctets
  <2>1. 1 \in 1..Len(s)
    BY <1>6
  <2>2. s[1] \in NatOctets
    BY <1>5, <2>1
  <2>3. s # <<>>
    <3>1. Len(<<>>) = 0 /\ 2 # 0
      OBVIOUS
    <3> QED BY <1>6, <3>1, Zenon
  <2> QED BY <2>2, <2>3
<1>8. s[1][1] \in Nat
  BY <1>7 DEF NatOctets
<1>9. ReadField(s) \in {s[1][1], Garbage}
  BY <1>7, Zenon DEF ReadField
<1> QED BY <1>1, <1>3, <1>8, <1>9 DEF ReadAt, Garbage

(* So what TlvSet::deserialize looks at is a set of TLVs. *)
LEMMA TlvSetOfOctets ==
    ASSUME NEW octets \in Seq(NatOctets)
    PROVE  TlvSetOf(octets) \in TlvSetsOf(Len(octets))
<1>1. PICK N : N = Len(octets)
  OBVIOUS
<1>2. N \in Nat
  BY <1>1
<1>3. ASSUME NEW o \in 0..N
      PROVE  (IF o + 4 <= N THEN ReadAt(octets, o + 3, 2) ELSE 0) \in Nat \union {-1}
  <2>1. CASE o + 4 <= N
    <3>1. PICK first : first = o + 3
      OBVIOUS
    <3>2. first \in Nat /\ first > 0 /\ first + 1 <= N
      BY <1>2, <2>1, <3>1
    <3>3. ReadAt(octets, first, 2) \in Nat \union {-1}
      BY <1>1, <3>2, ReadsAreNatural
    <3> QED BY <2>1, <3>1, <3>3
  <2>2. CASE ~(o + 4 <= N)
    BY <2>2
  <2> QED BY <2>1, <2>2
<1>4. [o \in 0..N |-> IF o + 4 <= N THEN ReadAt(octets, o + 3, 2) ELSE 0]
         \in [0..N -> Nat \union {-1}]
  BY <1>3
<1> QED BY <1>1, <1>4 DEF TlvSetOf, TlvSetsOf

(* What deserialize says of TLVs *)
Validity(tlvs) == IF EndEmpty(tlvs) THEN "BufferTooShort" ELSE "Ok"

(* The TLVs of a message are valid, unless the last one is empty. *)
LEMMA TlvsAreValid ==
    ASSUME NEW tlvs, AreTlvs(tlvs)
    PROVE  DeserializeTlvSet(TlvSetOf(TlvOctets(tlvs))) = Validity(tlvs)
<1>1. PICK octets, set, n, N : /\ octets = TlvOctets(tlvs) /\ set = TlvSetOf(octets)
                               /\ n = Len(tlvs) /\ N = Len(octets)
  OBVIOUS
<1>2. octets \in Seq(NatOctets) /\ N \in Nat
  BY <1>1, TlvsArePlaced
<1>3. PICK off : ArePlaced(octets, tlvs, off)
  BY <1>1, TlvsArePlaced
<1>4. /\ off[1] = 0 /\ off[n + 1] = N
      /\ \A i \in 1..n : /\ off[i] \in Nat /\ off[i] + 4 <= N
                         /\ off[i + 1] = off[i] + 4 + tlvs[i].length /\ off[i + 1] <= N
                         /\ ReadAt(octets, off[i] + 3, 2) = tlvs[i].length
  BY <1>1, <1>3 DEF ArePlaced
<1>5. n \in Nat /\ \A i \in 1..n : tlvs[i].length \in Nat /\ tlvs[i].length % 2 = 0
  <2>1. tlvs \in Seq(WireTlvs)
    BY DEF AreTlvs
  <2>2. n \in Nat /\ \A i \in 1..n : tlvs[i] \in WireTlvs
    BY <1>1, <2>1
  <2>3. DOMAIN tlvs = 1..n /\ \A tlv \in WireTlvs : tlv.length \in Nat
    BY <1>1, <2>1 DEF WireTlvs
  <2> QED BY <2>2, <2>3 DEF AreTlvs
<1>6. set \in TlvSetsOf(N) /\ set.octets = N
  <2>1. set \in TlvSetsOf(N)
    BY <1>1, <1>2, TlvSetOfOctets
  <2> QED BY <2>1 DEF TlvSetsOf
<1> DEFINE v == CHOOSE f : IsValidation(set, f, 0)
<1>7. DeserializeTlvSet(set) = v[0]
  BY Zenon DEF DeserializeTlvSet, IsValidation, ValidatedFrom
<1>8. IsValidation(set, v, 0)
  BY <1>2, <1>6, ValidationExists, Zenon
<1> HIDE DEF v
<1>9. \A o \in 0..N : v[o] = ValidatedFrom(set, v, o)
  BY <1>6, <1>8, Zenon DEF IsValidation
<1>a. PICK k, result :
         k = (IF EndEmpty(tlvs) THEN n - 1 ELSE n) /\ result = Validity(tlvs)
  OBVIOUS
<1>b. /\ k \in Nat /\ k + 1 \in 1..n + 1 /\ k <= n
      /\ \A i \in 1..k : off[i] + 4 < N
      /\ off[k + 1] = IF EndEmpty(tlvs) THEN N - 4 ELSE N
      /\ off[k + 1] \in Nat
  BY <1>1, <1>2, <1>3, <1>a, RestOfTlvs
<1> DEFINE S == {i \in 1..k + 1 : v[off[i]] = result}
<1>10. k + 1 \in S
  <2>1. PICK o, left : o = off[k + 1] /\ left = N - o
    OBVIOUS
  <2>2. o \in 0..N /\ left = IF EndEmpty(tlvs) THEN 4 ELSE 0
    BY <1>2, <1>b, <2>1
  <2>3. v[o] = ValidatedFrom(set, v, o)
    BY <1>9, <2>2
  <2>4. ~ValidatorGoesOn(left)
    BY <2>2 DEF ValidatorGoesOn, TlvHeader
  <2>5. ValidatedFrom(set, v, o) = IF left = 0 THEN "Ok" ELSE "BufferTooShort"
    BY <1>6, <2>1, <2>4 DEF ValidatedFrom
  <2>6. v[o] = result
    BY <1>a, <2>2, <2>3, <2>5 DEF Validity
  <2>7. k + 1 \in 1..k + 1
    BY <1>b
  <2> QED BY <2>1, <2>6, <2>7
<1>11. ASSUME NEW i \in 1..k, i + 1 \in S PROVE i \in S
  <2>0. i \in 1..n /\ off[i] + 4 < N
    BY <1>5, <1>b
  <2>1. PICK o, length, left : o = off[i] /\ length = tlvs[i].length /\ left = N - o
    OBVIOUS
  <2>2. /\ o \in Nat /\ o + 4 < N /\ length \in Nat /\ length % 2 = 0
        /\ off[i + 1] = o + 4 + length /\ o + 4 + length <= N
    BY <1>4, <1>5, <2>0, <2>1
  <2>3. o \in 0..N /\ o + 4 <= N /\ left > 4 /\ left \in Nat /\ ~(4 + length > left)
    <3>1. o \in Nat /\ o + 4 < N /\ length \in Nat /\ o + 4 + length <= N
      BY <2>2
    <3>2. left = N - o
      BY <2>1
    <3> HIDE <2>1, <2>2
    <3> QED BY <1>2, <3>1, <3>2
  <2>4. set.lengths[o] = length
    <3>1. ReadAt(octets, o + 3, 2) = length
      BY <1>4, <2>0, <2>1
    <3>2. TlvSetOf(octets).lengths[o] = ReadAt(octets, o + 3, 2)
      BY <1>1, <2>3 DEF TlvSetOf
    <3> QED BY <1>1, <3>1, <3>2
  <2>5. v[o] = ValidatedFrom(set, v, o)
    BY <1>9, <2>3
  <2>6. ValidatedFrom(set, v, o) = v[o + TlvHeader + length]
    BY <1>6, <2>1, <2>2, <2>3, <2>4 DEF ValidatedFrom, ValidatorGoesOn, TlvHeader
  <2>7. v[off[i + 1]] = result
    BY <1>11
  <2>8. v[o] = result /\ i \in 1..k + 1
    BY <1>b, <2>2, <2>5, <2>6, <2>7 DEF TlvHeader
  <2> QED BY <2>1, <2>8
<1> HIDE DEF S
<1>12. \A i \in 1..k + 1 : i \in S
  BY <1>b, <1>10, <1>11, BackwardInduction
<1>13. 1 \in S
  BY <1>b, <1>12
<1> QED BY <1>1, <1>4, <1>7, <1>a, <1>13 DEF S

(* The part of a sequence from an element on *)
LEMMA RestOfSeq ==
    ASSUME NEW S, NEW s \in Seq(S)
    PROVE  /\ SubSeq(s, 1, Len(s)) = s /\ SubSeq(s, Len(s) + 1, Len(s)) = <<>>
           /\ \A i \in 1..Len(s) :
                 <<s[i]>> \o SubSeq(s, i + 1, Len(s)) = SubSeq(s, i, Len(s))
<1>1. PICK n : n = Len(s)
  OBVIOUS
<1>2. n \in Nat /\ \A k \in 1..n : s[k] \in S
  BY <1>1
<1>3. ASSUME NEW i \in 1..n + 1
      PROVE  /\ SubSeq(s, i, n) \in Seq(S) /\ Len(SubSeq(s, i, n)) = (n - i) + 1
             /\ \A k \in 1..(n - i) + 1 : SubSeq(s, i, n)[k] = s[(i + k) - 1]
  <2>1. \A k \in i..n : s[k] \in S
    BY <1>2
  <2>2. i \in Int /\ n \in Int
    BY <1>2
  <2>3. /\ SubSeq(s, i, n) \in Seq(S)
        /\ Len(SubSeq(s, i, n)) = IF i <= n THEN n - i + 1 ELSE 0
        /\ \A k \in 1..n - i + 1 : SubSeq(s, i, n)[k] = s[i + k - 1]
    BY <2>1, <2>2, SubSeqProperties
  <2>4. Len(SubSeq(s, i, n)) = (n - i) + 1
    BY <1>2, <2>3
  <2> QED BY <2>3, <2>4
<1>4. SubSeq(s, n + 1, n) = <<>>
  <2>1. n + 1 \in 1..n + 1 /\ (n - (n + 1)) + 1 = 0
    BY <1>2
  <2> QED BY <1>3, <2>1, EmptySeq
<1>5. SubSeq(s, 1, n) = s
  <2>1. 1 \in 1..n + 1 /\ (n - 1) + 1 = n /\ \A k \in 1..n : (1 + k) - 1 = k
    BY <1>2
  <2>2. PICK t : t = SubSeq(s, 1, n)
    OBVIOUS
  <2>3. t \in Seq(S) /\ Len(t) = n /\ \A k \in 1..n : t[k] = s[k]
    BY <1>3, <2>1, <2>2
  <2>4. t = s
    BY <1>1, <2>3, SeqEqual
  <2> QED BY <2>2, <2>4
<1>6. ASSUME NEW i \in 1..n PROVE <<s[i]>> \o SubSeq(s, i + 1, n) = SubSeq(s, i, n)
  <2>1. PICK m, t, u, v, j : /\ m = n - i /\ j = i + 1 /\ t = SubSeq(s, j, n)
                             /\ u = SubSeq(s, i, n) /\ v = <<s[i]>> \o t
    OBVIOUS
  <2>2. /\ m \in Nat /\ i \in 1..n + 1 /\ j \in 1..n + 1 /\ (n - j) + 1 = m
        /\ (n - i) + 1 = m + 1
    BY <1>2, <2>1
  <2>3. t \in Seq(S) /\ Len(t) = m /\ \A k \in 1..m : t[k] = s[(j + k) - 1]
    BY <1>3, <2>1, <2>2
  <2>4. u \in Seq(S) /\ Len(u) = m + 1 /\ \A k \in 1..m + 1 : u[k] = s[(i + k) - 1]
    BY <1>3, <2>1, <2>2
  <2>5. PICK h : h = <<s[i]>>
    OBVIOUS
  <2>6. h \in Seq(S) /\ Len(h) = 1 /\ h[1] = s[i]
    BY <1>2, <2>5
  <2>7. /\ v \in Seq(S) /\ Len(v) = 1 + m
        /\ \A k \in 1..1 + m : v[k] = IF k <= 1 THEN h[k] ELSE t[k - 1]
    BY <2>1, <2>3, <2>5, <2>6, ConcatProperties
  <2>8. Len(v) = Len(u)
    BY <2>2, <2>4, <2>7
  <2>9. ASSUME NEW k \in 1..m + 1 PROVE v[k] = u[k]
    <3>1. CASE k = 1
      <4>1. (i + 1) - 1 = i /\ 1 \in 1..m + 1 /\ 1 \in 1..1 + m
        BY <2>2
      <4> QED BY <2>4, <2>6, <2>7, <3>1, <4>1
    <3>2. CASE k # 1
      <4>1. k \in 1..1 + m /\ ~(k <= 1) /\ k - 1 \in 1..m /\ (j + (k - 1)) - 1 = (i + k) - 1
        BY <2>1, <2>2, <3>2
      <4> QED BY <2>3, <2>4, <2>7, <4>1
    <3> QED BY <3>1, <3>2
  <2>10. v = u
    BY <2>4, <2>7, <2>8, <2>9, SeqEqual
  <2> QED BY <2>1, <2>10
<1> QED BY <1>1, <1>4, <1>5, <1>6

(* The octets of TLVs, walked *)
WalkedFrom(octets, f, o) ==
    LET left == Len(octets) - o
        length == ReadAt(octets, o + 3, 2)
    IN  CASE ~IteratorGoesOn(left) -> IF left = 0 THEN <<>> ELSE <<Panic>>
          [] IteratorGoesOn(left) /\ TlvHeader + length > left -> <<Panic>>
          [] OTHER -> <<[code |-> ReadAt(octets, o + 1, 2), length |-> length,
                         value |-> ReadAt(octets, o + 5, length)]>>
                      \o f[o + TlvHeader + length]

IsWalk(octets, f) == f = [o \in 0..Len(octets) |-> WalkedFrom(octets, f, o)]

(* TlvSetIterator is well defined on the octets of TLVs. *)
LEMMA WalkExists ==
    ASSUME NEW octets \in Seq(NatOctets)
    PROVE  \E f : IsWalk(octets, f) /\ TlvsOf(octets) = f[0]
<1>1. PICK N : N = Len(octets)
  OBVIOUS
<1>2. N \in Nat
  BY <1>1
<1> DEFINE length(o) == ReadAt(octets, o + 3, 2)
           stops(o) == ~IteratorGoesOn(N - o) \/ TlvHeader + length(o) > N - o
           final(o) == IF ~IteratorGoesOn(N - o) /\ N - o = 0 THEN <<>> ELSE <<Panic>>
           tlv(o) == <<[code |-> ReadAt(octets, o + 1, 2), length |-> length(o),
                        value |-> ReadAt(octets, o + 5, length(o))]>>
<1>3. PICK end, last, head, next :
         /\ end = [o \in 0..N |-> stops(o)] /\ last = [o \in 0..N |-> final(o)]
         /\ head = [o \in 0..N |-> tlv(o)]
         /\ next = [o \in 0..N |-> o + TlvHeader + length(o)]
  OBVIOUS
<1>4. \A o \in 0..N : /\ end[o] = stops(o) /\ last[o] = final(o) /\ head[o] = tlv(o)
                      /\ next[o] = o + TlvHeader + length(o)
  BY <1>3, Zenon
<1>5. ASSUME NEW o \in 0..N, ~stops(o) PROVE o + TlvHeader + length(o) \in (o + 1)..N
  <2>1. N - o > 4 /\ ~(4 + length(o) > N - o)
    BY <1>5 DEF IteratorGoesOn, TlvHeader
  <2>2. PICK first : first = o + 3
    OBVIOUS
  <2>3. first \in Nat /\ first > 0 /\ first + 1 <= N
    BY <1>2, <2>1, <2>2
  <2>4. ReadAt(octets, first, 2) \in Nat \union {-1}
    BY <1>1, <2>3, ReadsAreNatural
  <2>5. PICK k : k = length(o)
    OBVIOUS
  <2>6. k \in Nat \union {-1} /\ ~(4 + k > N - o)
    BY <2>1, <2>2, <2>4, <2>5
  <2>7. o + 4 + k \in (o + 1)..N
    BY <1>2, <2>6
  <2> QED BY <2>5, <2>7 DEF TlvHeader
<1>6. \A o \in 0..N : end[o] \/ next[o] \in (o + 1)..N
  <2> HIDE DEF stops, length, final, tlv
  <2> QED BY <1>4, <1>5, Zenon
<1>7. PICK g : IsChain(g, 0, N, end, last, head, next)
  <2>1. 0 \in Int /\ N \in Int /\ 0 <= N
    BY <1>2
  <2> QED BY <1>6, <2>1, ChainExists
<1>8. g = [o \in 0..N |-> IF end[o] THEN last[o] ELSE head[o] \o g[next[o]]]
  BY <1>7 DEF IsChain
<1>9. ASSUME NEW o \in 0..N
      PROVE  (IF end[o] THEN last[o] ELSE head[o] \o g[next[o]]) = WalkedFrom(octets, g, o)
  <2>1. CASE ~IteratorGoesOn(N - o)
    <3>1. end[o]
      BY <1>4, <2>1, Zenon
    <3>2. WalkedFrom(octets, g, o) = final(o)
      BY <1>1, <2>1 DEF WalkedFrom
    <3> QED BY <1>4, <3>1, <3>2, Zenon
  <2>2. CASE IteratorGoesOn(N - o) /\ TlvHeader + length(o) > N - o
    <3>1. end[o]
      BY <1>4, <2>2, Zenon
    <3>2. WalkedFrom(octets, g, o) = <<Panic>> /\ final(o) = <<Panic>>
      BY <1>1, <2>2 DEF WalkedFrom
    <3> QED BY <1>4, <3>1, <3>2, Zenon
  <2>3. CASE IteratorGoesOn(N - o) /\ ~(TlvHeader + length(o) > N - o)
    <3>1. ~end[o]
      BY <1>4, <2>3, Zenon
    <3>2. WalkedFrom(octets, g, o) = tlv(o) \o g[o + TlvHeader + length(o)]
      BY <1>1, <2>3 DEF WalkedFrom
    <3> QED BY <1>4, <3>1, <3>2, Zenon
  <2> QED BY <2>1, <2>2, <2>3
<1>10. g = [o \in 0..N |-> WalkedFrom(octets, g, o)]
  <2> HIDE DEF stops, length, final, tlv
  <2> QED BY <1>8, <1>9, Zenon
<1>11. \E f : IsWalk(octets, f)
  BY <1>1, <1>10, Zenon DEF IsWalk
<1>12. TlvsOf(octets) = (CHOOSE f : IsWalk(octets, f))[0]
  BY Zenon DEF TlvsOf, IsWalk, WalkedFrom
<1> QED BY <1>11, <1>12, Zenon

(* TLVs are read as they were written. *)
LEMMA TlvsAreRead ==
    ASSUME NEW tlvs, AreTlvs(tlvs), ~EndEmpty(tlvs)
    PROVE  TlvsOf(TlvOctets(tlvs)) = tlvs
<1>1. PICK octets, n, N : octets = TlvOctets(tlvs) /\ n = Len(tlvs) /\ N = Len(octets)
  OBVIOUS
<1>2. octets \in Seq(NatOctets) /\ N \in Nat
  BY <1>1, TlvsArePlaced
<1>3. PICK off : ArePlaced(octets, tlvs, off)
  BY <1>1, TlvsArePlaced
<1>4. /\ off[1] = 0 /\ off[n + 1] = N
      /\ \A i \in 1..n : /\ off[i] \in Nat /\ off[i] + 4 < N
                         /\ off[i + 1] = off[i] + 4 + tlvs[i].length /\ off[i + 1] <= N
                         /\ ReadAt(octets, off[i] + 1, 2) = tlvs[i].code
                         /\ ReadAt(octets, off[i] + 3, 2) = tlvs[i].length
                         /\ ReadAt(octets, off[i] + 5, tlvs[i].length) = tlvs[i].value
  <2>1. \A i \in 1..n : off[i] + 4 < N
    BY <1>1, <1>2, <1>3, RestOfTlvs
  <2> QED BY <1>1, <1>3, <2>1 DEF ArePlaced
<1>5. tlvs \in Seq(WireTlvs)
  BY DEF AreTlvs
<1>6. n \in Nat /\ \A i \in 1..n : tlvs[i] \in WireTlvs
  BY <1>1, <1>5
<1>7. \A t \in WireTlvs : /\ t.length \in Nat
                          /\ t = [code |-> t.code, length |-> t.length, value |-> t.value]
  BY DEF WireTlvs
<1>8. PICK w : IsWalk(octets, w) /\ TlvsOf(octets) = w[0]
  BY <1>2, WalkExists
<1>9. \A o \in 0..N : w[o] = WalkedFrom(octets, w, o)
  BY <1>1, <1>8, Zenon DEF IsWalk
<1>10. /\ SubSeq(tlvs, 1, n) = tlvs /\ SubSeq(tlvs, n + 1, n) = <<>>
       /\ \A i \in 1..n : <<tlvs[i]>> \o SubSeq(tlvs, i + 1, n) = SubSeq(tlvs, i, n)
  BY <1>1, <1>5, RestOfSeq
<1> DEFINE S == {i \in 1..n + 1 : w[off[i]] = SubSeq(tlvs, i, n)}
<1>11. n + 1 \in S
  <2>1. w[N] = WalkedFrom(octets, w, N)
    BY <1>2, <1>9
  <2>2. N - N = 0 /\ ~IteratorGoesOn(0)
    BY <1>2 DEF IteratorGoesOn, TlvHeader
  <2>3. WalkedFrom(octets, w, N) = <<>>
    BY <1>1, <2>2 DEF WalkedFrom
  <2>4. n + 1 \in 1..n + 1
    BY <1>6
  <2> QED BY <1>4, <1>10, <2>1, <2>3, <2>4
<1>12. ASSUME NEW i \in 1..n, i + 1 \in S PROVE i \in S
  <2>1. PICK o, length, left : o = off[i] /\ length = tlvs[i].length /\ left = N - o
    OBVIOUS
  <2>2. /\ o \in Nat /\ o + 4 < N /\ length \in Nat
        /\ off[i + 1] = o + 4 + length /\ o + 4 + length <= N
    BY <1>4, <1>6, <1>7, <2>1
  <2>3. o \in 0..N /\ left > 4 /\ left \in Nat /\ ~(4 + length > left)
    <3>1. o \in Nat /\ o + 4 < N /\ length \in Nat /\ o + 4 + length <= N
      BY <2>2
    <3>2. left = N - o
      BY <2>1
    <3> HIDE <2>1, <2>2
    <3> QED BY <1>2, <3>1, <3>2
  <2>4. w[o] = WalkedFrom(octets, w, o)
    BY <1>9, <2>3
  <2>5. /\ ReadAt(octets, o + 1, 2) = tlvs[i].code /\ ReadAt(octets, o + 3, 2) = length
        /\ ReadAt(octets, o + 5, length) = tlvs[i].value
    BY <1>4, <2>1
  <2>6. IteratorGoesOn(left) /\ ~(TlvHeader + length > left)
    BY <2>3 DEF IteratorGoesOn, TlvHeader
  <2>7. WalkedFrom(octets, w, o)
           = <<[code |-> tlvs[i].code, length |-> length, value |-> tlvs[i].value]>>
             \o w[o + TlvHeader + length]
    BY <1>1, <2>1, <2>5, <2>6 DEF WalkedFrom
  <2>8. tlvs[i] = [code |-> tlvs[i].code, length |-> length, value |-> tlvs[i].value]
    BY <1>6, <1>7, <2>1
  <2>9. o + TlvHeader + length = off[i + 1]
    BY <2>2 DEF TlvHeader
  <2>10. w[off[i + 1]] = SubSeq(tlvs, i + 1, n)
    BY <1>12
  <2>11. w[o] = <<tlvs[i]>> \o SubSeq(tlvs, i + 1, n)
    BY <2>4, <2>7, <2>8, <2>9, <2>10, Zenon
  <2>12. i \in 1..n + 1
    BY <1>6
  <2> QED BY <1>10, <2>1, <2>11, <2>12
<1> HIDE DEF S
<1>13. \A i \in 1..n + 1 : i \in S
  BY <1>6, <1>11, <1>12, BackwardInduction
<1>14. 1 \in S
  BY <1>6, <1>13
<1> QED BY <1>1, <1>4, <1>8, <1>10, <1>14 DEF S

-----------------------------------------------------------------------------
(* TLVs that are passed on *)

(* TLVs that go on *)
GoesOn(tlv) == AnnouncePropagate(TlvTypeOf(tlv.code))
IfGoesOn(tlv) == IF GoesOn(tlv) THEN <<tlv>> ELSE <<>>

(* f[i] are those from TLV i on. *)
ArePropagated(f, tlvs) ==
    /\ f[Len(tlvs) + 1] = <<>>
    /\ \A i \in 1..Len(tlvs) : f[i] = IfGoesOn(tlvs[i]) \o f[i + 1]

(* PropagatedOf are those from the first TLV on. *)
LEMMA PropagationExists ==
    ASSUME NEW tlvs, Len(tlvs) \in Nat
    PROVE  \E f : ArePropagated(f, tlvs) /\ PropagatedOf(tlvs) = f[1]
<1>1. PICK n : n = Len(tlvs)
  OBVIOUS
<1> DEFINE IsFrom(f) == f = [i \in 1..Len(tlvs) + 1 |->
                               IF i = Len(tlvs) + 1 THEN <<>> ELSE IfGoesOn(tlvs[i]) \o f[i + 1]]
           f == CHOOSE g : IsFrom(g)
<1>2. PropagatedOf(tlvs) = f[1]
  BY Zenon DEF PropagatedOf, IfGoesOn, GoesOn
<1>3. \E g : IsFrom(g)
  <2>1. PICK head : head = [i \in 1..n + 1 |-> IfGoesOn(tlvs[i])]
    OBVIOUS
  <2>2. PICK g : IsListChain(g, n, head)
    <3>1. n \in Nat
      BY <1>1, Zenon
    <3> QED BY <3>1, ListChain, Zenon
  <2>3. g = [i \in 1..n + 1 |-> IF i = n + 1 THEN <<>> ELSE IfGoesOn(tlvs[i]) \o g[i + 1]]
    BY <2>1, <2>2, Zenon DEF IsListChain
  <2> QED BY <1>1, <2>3, Zenon
<1>4. IsFrom(f)
  BY <1>3, Zenon
<1> HIDE DEF f
<1>5. \A i \in 1..n + 1 : f[i] = IF i = n + 1 THEN <<>> ELSE IfGoesOn(tlvs[i]) \o f[i + 1]
  BY <1>1, <1>4, Zenon
<1>6. f[n + 1] = <<>>
  <2>1. n + 1 \in 1..n + 1
    BY <1>1
  <2> QED BY <1>5, <2>1, Zenon
<1>7. ASSUME NEW i \in 1..n PROVE f[i] = IfGoesOn(tlvs[i]) \o f[i + 1]
  <2>1. i \in 1..n + 1 /\ i # n + 1
    BY <1>1
  <2> QED BY <1>5, <2>1, Zenon
<1> QED BY <1>1, <1>2, <1>6, <1>7 DEF ArePropagated

(* What goes on goes on further. *)
LEMMA PropagatedGoOn ==
    ASSUME NEW S, NEW tlvs \in Seq(S)
    PROVE  PropagatedOf(tlvs) \in Seq({tlv \in S : GoesOn(tlv)})
<1>1. PICK n, T : n = Len(tlvs) /\ T = {tlv \in S : GoesOn(tlv)}
  OBVIOUS
<1>2. n \in Nat /\ \A i \in 1..n : tlvs[i] \in S
  BY <1>1
<1>3. PICK f : ArePropagated(f, tlvs) /\ PropagatedOf(tlvs) = f[1]
  BY <1>1, <1>2, PropagationExists
<1>4. f[n + 1] = <<>> /\ \A i \in 1..n : f[i] = IfGoesOn(tlvs[i]) \o f[i + 1]
  BY <1>1, <1>3 DEF ArePropagated
<1> DEFINE I == {i \in 1..n + 1 : f[i] \in Seq(T)}
<1>5. n + 1 \in I
  <2>1. n + 1 \in 1..n + 1 /\ <<>> \in Seq(T)
    BY <1>2
  <2> QED BY <1>4, <2>1
<1>6. ASSUME NEW i \in 1..n, i + 1 \in I PROVE i \in I
  <2>1. PICK h, rest : h = IfGoesOn(tlvs[i]) /\ rest = f[i + 1]
    OBVIOUS
  <2>2. h \in Seq(T)
    <3>1. CASE GoesOn(tlvs[i])
      <4>1. tlvs[i] \in T
        BY <1>1, <1>2, <3>1
      <4>2. h = <<tlvs[i]>>
        BY <2>1, <3>1 DEF IfGoesOn
      <4> QED BY <4>1, <4>2
    <3>2. CASE ~GoesOn(tlvs[i])
      <4>1. h = <<>>
        BY <2>1, <3>2 DEF IfGoesOn
      <4> QED BY <4>1
    <3> QED BY <3>1, <3>2
  <2>3. rest \in Seq(T)
    BY <1>6, <2>1
  <2>4. h \o rest \in Seq(T)
    BY <2>2, <2>3, ConcatProperties
  <2>5. f[i] = h \o rest
    BY <1>4, <2>1
  <2>6. i \in 1..n + 1
    BY <1>2
  <2> QED BY <2>4, <2>5, <2>6
<1> HIDE DEF I
<1>7. \A i \in 1..n + 1 : i \in I
  BY <1>2, <1>5, <1>6, BackwardInduction
<1>8. 1 \in I
  BY <1>2, <1>7
<1> QED BY <1>1, <1>3, <1>8 DEF I

(* Of TLVs that all go on, all do. *)
LEMMA AllGoOn ==
    ASSUME NEW S, NEW tlvs \in Seq({tlv \in S : GoesOn(tlv)})
    PROVE  PropagatedOf(tlvs) = tlvs
<1>1. PICK n, T : n = Len(tlvs) /\ T = {tlv \in S : GoesOn(tlv)}
  OBVIOUS
<1>2. n \in Nat /\ tlvs \in Seq(T) /\ \A i \in 1..n : tlvs[i] \in T
  BY <1>1
<1>3. PICK f : ArePropagated(f, tlvs) /\ PropagatedOf(tlvs) = f[1]
  BY <1>1, <1>2, PropagationExists
<1>4. f[n + 1] = <<>> /\ \A i \in 1..n : f[i] = IfGoesOn(tlvs[i]) \o f[i + 1]
  BY <1>1, <1>3 DEF ArePropagated
<1>5. /\ SubSeq(tlvs, 1, n) = tlvs /\ SubSeq(tlvs, n + 1, n) = <<>>
      /\ \A i \in 1..n : <<tlvs[i]>> \o SubSeq(tlvs, i + 1, n) = SubSeq(tlvs, i, n)
  BY <1>1, <1>2, RestOfSeq
<1> DEFINE I == {i \in 1..n + 1 : f[i] = SubSeq(tlvs, i, n)}
<1>6. n + 1 \in I
  <2>1. n + 1 \in 1..n + 1
    BY <1>2
  <2> QED BY <1>4, <1>5, <2>1
<1>7. ASSUME NEW i \in 1..n, i + 1 \in I PROVE i \in I
  <2>1. IfGoesOn(tlvs[i]) = <<tlvs[i]>>
    <3>1. GoesOn(tlvs[i])
      BY <1>1, <1>2
    <3> QED BY <3>1 DEF IfGoesOn
  <2>2. f[i + 1] = SubSeq(tlvs, i + 1, n)
    BY <1>7
  <2>3. f[i] = SubSeq(tlvs, i, n)
    BY <1>4, <1>5, <2>1, <2>2
  <2>4. i \in 1..n + 1
    BY <1>2
  <2> QED BY <2>3, <2>4
<1> HIDE DEF I
<1>8. \A i \in 1..n + 1 : i \in I
  BY <1>2, <1>6, <1>7, BackwardInduction
<1>9. 1 \in I
  BY <1>2, <1>8
<1> QED BY <1>3, <1>5, <1>9 DEF I

-----------------------------------------------------------------------------
(* Messages *)

(* The type of a message is read as it was written. *)
LEMMA MessageTypeIsRead ==
    ASSUME NEW kind \in MessageTypes
    PROVE  IsMessageType(MessageCode[kind]) /\ MessageTypeOf(MessageCode[kind]) = kind
<1>1. MessageTypes = {"Sync", "DelayReq", "PDelayReq", "PDelayResp", "FollowUp", "DelayResp",
                      "PDelayRespFollowUp", "Announce", "Signaling", "Management"}
  BY DEF MessageTypes, MessageCode
<1>2. \A a, b \in MessageTypes : MessageCode[a] = MessageCode[b] => a = b
  BY <1>1, SMTT(30) DEF MessageCode
<1>3. PICK other : other = MessageTypeOf(MessageCode[kind])
  OBVIOUS
<1>4. other \in MessageTypes /\ MessageCode[other] = MessageCode[kind]
  BY <1>3, Zenon DEF MessageTypeOf
<1> QED BY <1>2, <1>3, <1>4 DEF IsMessageType

(* What is read of a message that was sent *)
ReadMessage(m) ==
    [header |-> m.header, kind |-> m.kind, suffix |-> TlvOctets(m.suffix),
     body |-> ReadBody(m)]

(* The parts of a message in a packet *)
InParts(buffer, header, body, tlvs) ==
    /\ IsAt(buffer, 0, header)
    /\ SubSeq(buffer, Len(header) + 1, Len(header) + Len(body) + Len(tlvs)) = body \o tlvs
    /\ IsAt(body \o tlvs, 0, body)
    /\ SubSeq(body \o tlvs, Len(body) + 1, Len(body \o tlvs)) = tlvs
    /\ Len(body \o tlvs) = Len(body) + Len(tlvs)
    /\ Len(buffer) >= Len(header) + Len(body) + Len(tlvs)

(* A header, a body, TLVs and padding that follow one another are parts. *)
LEMMA PartsOfPacket ==
    ASSUME NEW S, NEW header \in Seq(S), NEW body \in Seq(S), NEW tlvs \in Seq(S),
           NEW padding \in Seq(S)
    PROVE  /\ header \o body \o tlvs \o padding \in Seq(S)
           /\ InParts(header \o body \o tlvs \o padding, header, body, tlvs)
<1>1. PICK content, packet, buffer :
         /\ content = body \o tlvs /\ packet = header \o content
         /\ buffer = packet \o padding
  OBVIOUS
<1>2. PICK h, b, t : h = Len(header) /\ b = Len(body) /\ t = Len(tlvs)
  OBVIOUS
<1>3. h \in Nat /\ b \in Nat /\ t \in Nat
  BY <1>2
<1>4. content \in Seq(S) /\ Len(content) = b + t
  BY <1>1, <1>2, ConcatProperties
<1>5. packet \in Seq(S) /\ Len(packet) = h + (b + t)
  BY <1>1, <1>2, <1>4, ConcatProperties
<1>6. buffer \in Seq(S) /\ Len(buffer) = (h + (b + t)) + Len(padding) /\ Len(padding) \in Nat
  BY <1>1, <1>5, ConcatProperties
<1>7. header \o body \o tlvs \o padding = buffer
  <2>1. (header \o body) \o tlvs = header \o (body \o tlvs)
    BY ConcatAssociative
  <2> QED BY <1>1, <2>1, Zenon
<1>8. IsAt(buffer, 0, packet)
  BY <1>1, <1>5, PartsOfConcat
<1>9. IsAt(buffer, 0, header) /\ IsAt(buffer, 0 + h, content)
  <2>1. IsAt(buffer, 0, header \o content)
    BY <1>1, <1>8
  <2> QED BY <1>2, <1>4, <1>6, <2>1, HalvesOfPart
<1>10. IsAt(content, 0, body) /\ IsAt(content, b, tlvs)
  BY <1>1, <1>2, PartsOfConcat
<1>11. SubSeq(buffer, (0 + h) + 1, (0 + h) + Len(content)) = content
  BY <1>4, <1>6, <1>9, PartIsSubSeq
<1>12. SubSeq(content, b + 1, b + Len(tlvs)) = tlvs
  BY <1>4, <1>10, PartIsSubSeq
<1>13. /\ (0 + h) + 1 = h + 1 /\ (0 + h) + Len(content) = h + b + t /\ b + Len(tlvs) = Len(content)
       /\ Len(buffer) >= h + b + t
  BY <1>2, <1>3, <1>4, <1>6
<1>14. InParts(buffer, header, body, tlvs)
  <2>1. SubSeq(buffer, h + 1, h + b + t) = content
    BY <1>11, <1>13
  <2>2. SubSeq(content, b + 1, Len(content)) = tlvs
    BY <1>12, <1>13
  <2> QED BY <1>1, <1>2, <1>4, <1>9, <1>10, <1>13, <2>1, <2>2 DEF InParts
<1> QED BY <1>6, <1>7, <1>14

(* A port takes in what another one has sent, whatever follows it, unless  *)
(* its last TLV is empty.                                                  *)
LEMMA AddressedIsRead ==
    ASSUME NEW ds, NEW m, IsAddressed(ds, m), NEW padding \in Seq(WireOctets)
    PROVE  ParseAndFilter(ds, Serialize(m) \o padding)
             = IF EndEmpty(m.suffix) THEN Refused("BufferTooShort") ELSE ReadMessage(m)
<1>1. /\ m.header \in Headers /\ m.kind \in MessageTypes
      /\ m.header.sdo_id = ds.sdo_id /\ m.header.domain_number = ds.domain_number
      /\ AreOf(m.body, BodyOf[m.kind].writes)
  BY DEF IsAddressed, AreOf
<1>2. AreTlvs(m.suffix)
  BY DEF IsAddressed, AreSendable
<1>3. PICK kind, size, tlvs, T :
         /\ kind = m.kind /\ size = ContentSize(kind)
         /\ tlvs = TlvOctets(m.suffix) /\ T = Len(tlvs)
  OBVIOUS
<1>4. kind \in MessageTypes /\ size \in Nat /\ tlvs \in Seq(WireOctets) /\ T \in Nat
  <2>1. tlvs \in Seq(NatOctets)
    BY <1>2, <1>3, TlvsArePlaced
  <2>2. tlvs \in Seq(WireOctets)
    BY <2>1, NatOctetsAreOctets
  <2>3. kind \in MessageTypes
    BY <1>1, <1>3
  <2>4. size \in Nat
    BY <1>3, <2>3, BodyLayouts
  <2> QED BY <1>3, <2>2, <2>3, <2>4
<1>5. PICK length : length = size + T
  OBVIOUS
<1>6. length \in Nat /\ length + HeaderSize < 65536 /\ HeaderSize \in Nat
  <2>1. HeaderSize + size + T < 65536
    BY <1>3 DEF IsAddressed, AreSendable
  <2> QED BY <1>4, <1>5, <2>1 DEF HeaderSize
<1>7. PICK header, body :
         /\ header = SerializeHeader(m.header, kind, length, Used(HeaderSize))
         /\ body = SerializeBody(m, Used(size))
  OBVIOUS
<1>8. header \in Seq(WireOctets) /\ Len(header) = HeaderSize
  BY <1>1, <1>4, <1>6, <1>7, HeaderOctets
<1>9. /\ body \in Seq(WireOctets) /\ Len(body) = size
      /\ \A content \in Seq(WireOctets) :
            IsAt(content, 0, body) => DeserializeBody(kind, content) = ReadBody(m)
  BY <1>1, <1>3, <1>7, BodyIsRead
<1>10. PICK buffer, content : buffer = Serialize(m) \o padding /\ content = body \o tlvs
  OBVIOUS
<1>11. buffer = header \o body \o tlvs \o padding
  BY <1>3, <1>5, <1>7, <1>10, Zenon DEF Serialize
<1>12. buffer \in Seq(WireOctets) /\ InParts(buffer, header, body, tlvs)
  BY <1>4, <1>8, <1>9, <1>11, PartsOfPacket
<1>13. /\ IsAt(buffer, 0, header)
       /\ SubSeq(buffer, HeaderSize + 1, HeaderSize + size + T) = content
       /\ IsAt(content, 0, body) /\ SubSeq(content, size + 1, Len(content)) = tlvs
       /\ Len(content) = size + T /\ Len(buffer) >= HeaderSize + size + T
  BY <1>3, <1>8, <1>9, <1>10, <1>12 DEF InParts
<1>14. content \in Seq(WireOctets)
  BY <1>4, <1>9, <1>10, ConcatProperties
<1>15. PICK fields : fields = GetFields(buffer, HeaderReads)
  OBVIOUS
<1>16. /\ HeaderOf(fields) = m.header /\ TypeCodeOf(fields) = MessageCode[kind]
       /\ fields.message_length = length + HeaderSize /\ IsCompatible(buffer)
  <2>1. IsAt(buffer, 0, SerializeHeader(m.header, kind, length, Used(HeaderSize)))
    BY <1>7, <1>13
  <2> QED BY <1>1, <1>4, <1>6, <1>12, <1>15, <2>1, HeaderIsRead
<1>17. length + HeaderSize = HeaderSize + size + T /\ Len(buffer) \in Nat
  BY <1>4, <1>5, <1>6, <1>12
<1>18. ContentOf(buffer, fields.message_length) = content
  BY <1>13, <1>16, <1>17 DEF ContentOf
<1>19. IsMessageType(MessageCode[kind]) /\ MessageTypeOf(MessageCode[kind]) = kind
  BY <1>4, MessageTypeIsRead
<1>20. DeserializeTlvSet(TlvSetOf(tlvs)) = Validity(m.suffix)
  BY <1>2, <1>3, TlvsAreValid
<1>21. DeserializeBody(kind, content) = ReadBody(m)
  BY <1>9, <1>13, <1>14
<1>22. PICK total : total = fields.message_length
  OBVIOUS
<1>23. /\ ~(Len(buffer) < HeaderSize) /\ ~(total < HeaderSize) /\ ~(total > Len(buffer))
       /\ ~(Len(content) < size)
  BY <1>4, <1>6, <1>13, <1>16, <1>17, <1>22
<1>24. CASE EndEmpty(m.suffix)
  <2>1. DeserializeTlvSet(TlvSetOf(tlvs)) = "BufferTooShort" /\ "BufferTooShort" # "Ok"
    BY <1>20, <1>24 DEF Validity
  <2>2. Deserialize(buffer) = Refused("BufferTooShort")
    BY <1>3, <1>13, <1>15, <1>16, <1>18, <1>19, <1>22, <1>23, <2>1, Zenon DEF Deserialize
  <2>3. DOMAIN Refused("BufferTooShort") = {"error"}
    BY DEF Refused
  <2> QED BY <1>10, <1>16, <1>24, <2>2, <2>3, Zenon DEF ParseAndFilter, OfDomain
<1>25. CASE ~EndEmpty(m.suffix)
  <2>1. DeserializeTlvSet(TlvSetOf(tlvs)) = "Ok"
    BY <1>20, <1>25 DEF Validity
  <2>2. Deserialize(buffer) =
          [header |-> HeaderOf(fields), kind |-> kind, suffix |-> tlvs,
           body |-> DeserializeBody(kind, content)]
    BY <1>3, <1>13, <1>15, <1>16, <1>18, <1>19, <1>22, <1>23, <2>1, Zenon DEF Deserialize
  <2>3. Deserialize(buffer) = ReadMessage(m)
    BY <1>3, <1>16, <1>21, <2>2, Zenon DEF ReadMessage
  <2>4. PICK read : read = ReadMessage(m)
    OBVIOUS
  <2>5. DOMAIN read # {"error"} /\ read.header = m.header
    BY <2>4 DEF ReadMessage
  <2> QED BY <1>1, <1>10, <1>16, <1>25, <2>3, <2>4, <2>5, Zenon DEF ParseAndFilter, OfDomain
<1> QED BY <1>24, <1>25

(* The same, for a message that the port takes in. *)
LEMMA MessageIsRead ==
    ASSUME NEW ds, NEW m, IsMessage(ds, m), NEW padding \in Seq(WireOctets)
    PROVE  ParseAndFilter(ds, Serialize(m) \o padding) = ReadMessage(m)
BY AddressedIsRead DEF IsMessage

(* A message that a port made is read as it was sent. *)
LEMMA SentIsRead ==
    ASSUME NEW ds, NEW m, IsSent(ds, m), NEW padding \in Seq(WireOctets)
    PROVE  ParseAndFilter(ds, Serialize(m) \o padding)
              = [m EXCEPT !.suffix = TlvOctets(m.suffix)]
<1>1. PICK table, body : table = BodyOf[m.kind].writes /\ body = m.body
  OBVIOUS
<1>2. /\ m = [header |-> m.header, kind |-> m.kind, body |-> m.body, suffix |-> m.suffix]
      /\ m.kind \in MessageTypes
      /\ body = [name \in DOMAIN table |-> body[name]]
      /\ \A name \in DOMAIN table : body[name] \in ValuesOf(table[name][2])
      /\ \A name \in DOMAIN table : IsMember(table[name][2], body[name])
  BY <1>1 DEF IsSent, IsMessage, IsAddressed
<1>3. \A name \in DOMAIN table : table[name][2] \in FieldTypes
  BY <1>1, <1>2, BodyLayouts DEF Layout
<1>4. \A name \in DOMAIN table : Reading(table[name][2], body[name]) = body[name]
  BY <1>2, <1>3, MemberIsRead
<1>5. ReadBody(m) = [name \in DOMAIN table |-> Reading(table[name][2], body[name])]
  BY <1>1, Zenon DEF ReadBody
<1>6. ReadBody(m) = body
  BY <1>2, <1>4, <1>5, Zenon
<1>7. ParseAndFilter(ds, Serialize(m) \o padding) = ReadMessage(m)
  BY MessageIsRead DEF IsSent
<1>8. PICK tlvs : tlvs = TlvOctets(m.suffix)
  OBVIOUS
<1>9. ReadMessage(m) = [header |-> m.header, kind |-> m.kind, body |-> m.body, suffix |-> tlvs]
  BY <1>1, <1>6, <1>8 DEF ReadMessage
<1>10. [m EXCEPT !.suffix = tlvs]
          = [header |-> m.header, kind |-> m.kind, body |-> m.body, suffix |-> tlvs]
  BY <1>2
<1> QED BY <1>7, <1>8, <1>9, <1>10, Zenon

(* No TLVs take no octets, and can be sent. *)
LEMMA NoTlvs ==
    ASSUME NEW kind \in MessageTypes
    PROVE  TlvOctets(<<>>) = <<>> /\ AreSendable(<<>>, kind) /\ ~EndEmpty(<<>>)
<1>1. PICK none : none = <<>>
  OBVIOUS
<1>2. none \in Seq(WireTlvs) /\ Len(none) = 0 /\ DOMAIN none = {}
  BY <1>1
<1>3. PICK f : AreTails(f, none) /\ TlvOctets(none) = f[1]
  BY <1>2, TailsExist
<1>4. TlvOctets(none) = <<>>
  BY <1>2, <1>3 DEF AreTails
<1>5. AreTlvs(none) /\ ~EndEmpty(none)
  BY <1>1, <1>2 DEF AreTlvs, EndEmpty
<1>6. HeaderSize + ContentSize(kind) + Len(TlvOctets(none)) < 65536
  <2>1. ContentSize(kind) \in Nat /\ ContentSize(kind) <= 30 /\ Len(TlvOctets(none)) = 0
    BY <1>4, BodyLayouts
  <2> QED BY <2>1 DEF HeaderSize
<1> QED BY <1>1, <1>4, <1>5, <1>6 DEF AreSendable

(* Octets that a link adds *)
LEMMA PaddingOctets ==
    /\ <<Padding>> \in Seq(WireOctets)
    /\ \A n \in Nat : [i \in 1..n |-> Padding] \in Seq(WireOctets)
<1>1. Padding \in WireOctets
  BY DEF Padding, WireOctets
<1>2. \A n \in Nat : [i \in 1..n |-> Padding] \in [1..n -> WireOctets]
  BY <1>1
<1> QED BY <1>1, <1>2, SeqDef

-----------------------------------------------------------------------------
(* The messages of an exchange *)

TimestampValues == [seconds : Int, nanos : Int]

(* A body of this kind of message, none of whose fields is an enumeration *)
IsBody(kind, body) ==
    LET table == BodyOf[kind].writes
    IN  /\ kind \in MessageTypes
        /\ body = [name \in DOMAIN table |-> body[name]]
        /\ \A name \in DOMAIN table :
              /\ body[name] \in ValuesOf(table[name][2])
              /\ table[name][2] \notin {"clock_quality", "time_source"}

(* The bodies of a time stamp *)
LEMMA TimestampBodies ==
    ASSUME NEW t \in TimestampValues
    PROVE  /\ \A kind \in {"Sync", "DelayReq", "PDelayReq"} :
                 IsBody(kind, [origin_timestamp |-> t])
           /\ IsBody("FollowUp", [precise_origin_timestamp |-> t])
<1>1. t \in ValuesOf("timestamp")
  BY DEF ValuesOf, TimestampValues
<1>2. \A kind \in {"Sync", "DelayReq", "PDelayReq"} :
         BodyOf[kind].writes = [origin_timestamp |-> <<0, "timestamp">>]
  BY DEF BodyOf, SyncContent, DelayReqContent, PDelayReqContent, Content
<1>3. BodyOf["FollowUp"].writes = [precise_origin_timestamp |-> <<0, "timestamp">>]
  BY DEF BodyOf, FollowUpContent, Content
<1>4. {"Sync", "DelayReq", "PDelayReq", "FollowUp"} \subseteq MessageTypes
  BY DEF MessageTypes, MessageCode
<1>5. ASSUME NEW kind \in {"Sync", "DelayReq", "PDelayReq"}
      PROVE  IsBody(kind, [origin_timestamp |-> t])
  BY <1>1, <1>2, <1>4 DEF IsBody
<1>6. IsBody("FollowUp", [precise_origin_timestamp |-> t])
  BY <1>1, <1>3, <1>4 DEF IsBody
<1> QED BY <1>5, <1>6

(* The bodies of responses *)
LEMMA ResponseBodies ==
    ASSUME NEW t \in TimestampValues, NEW p \in PortIdentities
    PROVE  /\ IsBody("DelayResp", [receive_timestamp |-> t, requesting_port_identity |-> p])
           /\ IsBody("PDelayResp",
                     [request_receive_timestamp |-> t, requesting_port_identity |-> p])
           /\ IsBody("PDelayRespFollowUp",
                     [response_origin_timestamp |-> t, requesting_port_identity |-> p])
<1>1. t \in ValuesOf("timestamp") /\ p \in ValuesOf("port_identity")
  BY DEF ValuesOf, TimestampValues
<1>2. BodyOf["DelayResp"].writes = [receive_timestamp |-> <<0, "timestamp">>,
                                    requesting_port_identity |-> <<10, "port_identity">>]
  BY DEF BodyOf, DelayRespContent, Content
<1>3. BodyOf["PDelayResp"].writes = [request_receive_timestamp |-> <<0, "timestamp">>,
                                     requesting_port_identity |-> <<10, "port_identity">>]
  BY DEF BodyOf, PDelayRespContent, Content
<1>4. BodyOf["PDelayRespFollowUp"].writes =
         [response_origin_timestamp |-> <<0, "timestamp">>,
          requesting_port_identity |-> <<10, "port_identity">>]
  BY DEF BodyOf, PDelayRespFollowUpContent, Content
<1>5. {"DelayResp", "PDelayResp", "PDelayRespFollowUp"} \subseteq MessageTypes
  BY DEF MessageTypes, MessageCode
<1>6. IsBody("DelayResp", [receive_timestamp |-> t, requesting_port_identity |-> p])
  BY <1>1, <1>2, <1>5 DEF IsBody
<1>7. IsBody("PDelayResp", [request_receive_timestamp |-> t, requesting_port_identity |-> p])
  BY <1>1, <1>3, <1>5 DEF IsBody
<1>8. IsBody("PDelayRespFollowUp",
             [response_origin_timestamp |-> t, requesting_port_identity |-> p])
  BY <1>1, <1>4, <1>5 DEF IsBody
<1> QED BY <1>6, <1>7, <1>8

(* A header of the exchange *)
IsExchangeHeader(h) ==
    h \in Headers /\ h.sdo_id = Ds.sdo_id /\ h.domain_number = Ds.domain_number

(* A message that no TLVs follow and that has no enumerations is read as   *)
(* it was sent, but for its correction field.                              *)
LEMMA IsReadAsTransmitted ==
    ASSUME NEW kind, NEW h, NEW body, NEW residence \in Int,
           IsExchangeHeader(h), IsBody(kind, body)
    PROVE  /\ ReadAsTransmitted(Message(kind, h, body), residence)
           /\ IsExchangeHeader(Delivered(Message(kind, h, body), residence).header)
           /\ Delivered(Message(kind, h, body), residence).header.correction_field
                 = h.correction_field + residence
<1>1. PICK m, g, sent : /\ m = Message(kind, h, body)
                        /\ g = [h EXCEPT !.correction_field = @ + residence]
                        /\ sent = Message(kind, g, body)
  OBVIOUS
<1>2. h.correction_field \in Int /\ h.correction_field + residence \in Int
  BY DEF IsExchangeHeader, Headers
<1>3. g \in Headers /\ g.sdo_id = h.sdo_id /\ g.domain_number = h.domain_number
      /\ g.correction_field = h.correction_field + residence
  BY <1>1, <1>2 DEF IsExchangeHeader, Headers
<1>4. [m EXCEPT !.header.correction_field = @ + residence] = sent
  BY <1>1 DEF Message
<1>5. /\ sent = [header |-> sent.header, kind |-> sent.kind, body |-> sent.body,
                 suffix |-> sent.suffix]
      /\ sent.header = g /\ sent.kind = kind /\ sent.body = body /\ sent.suffix = <<>>
  BY <1>1 DEF Message
<1>6. kind \in MessageTypes
  BY DEF IsBody
<1>7. IsMessage(Ds, sent)
  <2>1. AreSendable(sent.suffix, sent.kind) /\ ~EndEmpty(sent.suffix)
    BY <1>5, <1>6, NoTlvs
  <2>2. IsAddressed(Ds, sent)
    BY <1>3, <1>5, <1>6, <2>1 DEF IsAddressed, IsExchangeHeader, IsBody
  <2> QED BY <2>1, <2>2 DEF IsMessage
<1>8. IsSent(Ds, sent)
  BY <1>5, <1>7 DEF IsSent, IsMember, IsBody
<1>9. ParseAndFilter(Ds, Serialize(sent) \o <<Padding>>) = [sent EXCEPT !.suffix = TlvOctets(<<>>)]
  BY <1>5, <1>8, PaddingOctets, SentIsRead
<1>10. [sent EXCEPT !.suffix = TlvOctets(<<>>)] = sent
  BY <1>5, <1>6, NoTlvs
<1>11. Delivered(m, residence) = sent
  BY <1>4, <1>9, <1>10, Zenon DEF Delivered
<1>12. ReadAsTransmitted(m, residence)
  BY <1>4, <1>11, Zenon DEF ReadAsTransmitted
<1>13. IsExchangeHeader(g)
  BY <1>3 DEF IsExchangeHeader
<1> QED BY <1>1, <1>3, <1>5, <1>11, <1>12, <1>13, Zenon

-----------------------------------------------------------------------------
(* Times and durations *)

(* The units of time *)
LEMMA TimeConstants ==
    /\ SubUnits \in Nat /\ NanosPerSecond \in Nat /\ CorrectionUnit \in Nat /\ Seconds \in Nat
    /\ SubUnits > 0 /\ NanosPerSecond > 0 /\ CorrectionUnit > 0 /\ Seconds > 0
    /\ CorrectionUnit <= SubUnits
<1>1. /\ SubUnits \in Nat /\ NanosPerSecond \in Nat /\ CorrectionUnit \in Nat /\ Seconds \in Nat
      /\ SubUnits > 0 /\ NanosPerSecond > 0 /\ CorrectionUnit > 0 /\ Seconds > 0
  BY TimeTypesAssumption
<1>2. ASSUME SubUnits < CorrectionUnit PROVE SubUnits % CorrectionUnit = SubUnits
  BY <1>1, <1>2
<1> QED BY <1>1, <1>2, TimeTypesAssumption

(* Quotient and remainder *)
LEMMA QuotientRemainder ==
    ASSUME NEW a \in Nat, NEW b \in Nat, b > 0
    PROVE  /\ a \div b \in Nat /\ a % b \in Nat /\ a % b < b /\ a % b <= a
           /\ (a \div b) * b = a - (a % b)
<1>1. a \div b \in Int /\ a % b \in Int /\ 0 <= a % b /\ a % b < b
  OBVIOUS
<1>2. a = b * (a \div b) + (a % b)
  OBVIOUS
<1>3. PICK q, r : q = a \div b /\ r = a % b
  OBVIOUS
<1>4. q \in Int /\ r \in Int /\ 0 <= r /\ r < b /\ a = b * q + r
  BY <1>1, <1>2, <1>3
<1>5. q >= 0
  <2>1. ASSUME q <= -1 PROVE FALSE
    <3>1. b * q <= -b
      BY <1>4, <2>1
    <3> QED BY <1>4, <3>1
  <2> QED BY <1>4, <2>1
<1>6. b * q >= 0 /\ q * b = b * q
  BY <1>4, <1>5
<1> QED BY <1>3, <1>4, <1>5, <1>6

(* A quotient is small when the dividend is. *)
LEMMA QuotientBound ==
    ASSUME NEW a \in Nat, NEW b \in Nat, NEW c \in Nat, b > 0, a < c * b
    PROVE  a \div b < c
<1>1. PICK q, r : q = a \div b /\ r = a % b
  OBVIOUS
<1>2. q \in Nat /\ r \in Nat /\ q * b = a - r
  BY <1>1, QuotientRemainder
<1>3. ASSUME q >= c PROVE FALSE
  <2>1. q * b >= c * b
    BY <1>2, <1>3
  <2> QED BY <1>2, <2>1
<1> QED BY <1>1, <1>2, <1>3

(* What comes back from a WireTimestamp is the time in whole nanoseconds. *)
LEMMA WireTimestampCuts ==
    ASSUME NEW time, OnTheWire(time)
    PROVE  TimeOf(WireTimestamp(time)) = time - (time % SubUnits)
<1>1. time \in Nat /\ time < Seconds * NanosPerSecond * SubUnits
  BY DEF OnTheWire
<1>2. PICK nanos, second : nanos = time \div SubUnits /\ second = nanos \div NanosPerSecond
  OBVIOUS
<1>3. Seconds * NanosPerSecond \in Nat
  BY TimeConstants
<1>4. nanos \in Nat /\ nanos < Seconds * NanosPerSecond
      /\ nanos * SubUnits = time - (time % SubUnits)
  BY <1>1, <1>2, <1>3, TimeConstants, QuotientRemainder, QuotientBound
<1>5. second \in Nat /\ second < Seconds
      /\ second * NanosPerSecond = nanos - (nanos % NanosPerSecond)
  BY <1>2, <1>4, TimeConstants, QuotientRemainder, QuotientBound
<1>6. second % Seconds = second
  BY <1>5, TimeConstants
<1>7. WireTimestamp(time) = [seconds |-> second, nanos |-> nanos % NanosPerSecond]
  BY <1>2, <1>6 DEF WireTimestamp
<1>8. nanos % NanosPerSecond \in Nat
  BY <1>4, TimeConstants, QuotientRemainder
<1>9. second * NanosPerSecond + (nanos % NanosPerSecond) = nanos
  BY <1>4, <1>5, <1>8, TimeConstants
<1> QED BY <1>4, <1>7, <1>9 DEF TimeOf

(* What comes back from a correction field is the fraction of a nanosecond *)
(* up to the unit of the field.                                            *)
LEMMA SubnanoCuts ==
    ASSUME NEW time \in Nat
    PROVE  \E rest \in Nat :
              /\ rest < CorrectionUnit /\ rest <= time % SubUnits
              /\ Subnano(time) \in Nat
              /\ DurationOf(Subnano(time)) = (time % SubUnits) - rest
<1>1. PICK f : f = time % SubUnits
  OBVIOUS
<1>2. f \in Nat
  BY <1>1, TimeConstants, QuotientRemainder
<1>3. PICK rest : rest = f % CorrectionUnit
  OBVIOUS
<1>4. /\ rest \in Nat /\ rest < CorrectionUnit /\ rest <= f
      /\ f \div CorrectionUnit \in Nat
      /\ (f \div CorrectionUnit) * CorrectionUnit = f - rest
  BY <1>2, <1>3, TimeConstants, QuotientRemainder
<1> QED BY <1>1, <1>4 DEF Subnano, DurationOf

(* Half of an even number and a small one *)
LEMMA HalfIsClose ==
    ASSUME NEW mean \in Int, NEW k \in Int, NEW u \in Nat, k <= 2 * u, k >= -(2 * u)
    PROVE  Half(2 * mean + k) - mean \in -u..u
<1>1. PICK d : d = 2 * mean + k
  OBVIOUS
<1>2. d \in Int
  BY <1>1
<1>3. CASE d >= 0
  <2>1. Half(d) = d \div 2
    BY <1>3 DEF Half
  <2>2. d \div 2 \in Int /\ 2 * (d \div 2) <= d /\ d <= 2 * (d \div 2) + 1
    BY <1>2
  <2> QED BY <1>1, <2>1, <2>2
<1>4. CASE ~(d >= 0)
  <2>1. Half(d) = -((-d) \div 2)
    BY <1>4 DEF Half
  <2>2. (-d) \div 2 \in Int /\ 2 * ((-d) \div 2) <= -d /\ -d <= 2 * ((-d) \div 2) + 1
    BY <1>2
  <2> QED BY <1>1, <1>4, <2>1, <2>2
<1> QED BY <1>1, <1>3, <1>4


-----------------------------------------------------------------------------
(* Every message of an exchange is read as it was sent. *)

(* A time stamp has its numbers. *)
LEMMA WireTimestampIsValue ==
    ASSUME NEW time \in Nat
    PROVE  WireTimestamp(time) \in TimestampValues /\ Subnano(time) \in Int
<1>1. PICK nanos, second : nanos = time \div SubUnits /\ second = nanos \div NanosPerSecond
  OBVIOUS
<1>2. nanos \in Nat
  BY <1>1, TimeConstants, QuotientRemainder
<1>3. second \in Nat /\ nanos % NanosPerSecond \in Nat
  BY <1>1, <1>2, TimeConstants, QuotientRemainder
<1>4. second % Seconds \in Nat
  BY <1>3, TimeConstants, QuotientRemainder
<1>5. WireTimestamp(time) = [seconds |-> second % Seconds, nanos |-> nanos % NanosPerSecond]
  BY <1>1 DEF WireTimestamp
<1>6. Subnano(time) \in Int
  BY SubnanoCuts
<1> QED BY <1>3, <1>4, <1>5, <1>6 DEF TimestampValues

(* Header::new of an instance *)
LEMMA BaseHeaderIsOne ==
    ASSUME NEW p \in PortIdentities, NEW id \in Int
    PROVE  LET h == BaseHeader(Ds, p, id, 1)
           IN  /\ IsExchangeHeader(h) /\ h.correction_field = 0
               /\ h.source_port_identity = p /\ h.sequence_id = id
<1>1. PICK h : h = BaseHeader(Ds, p, id, 1)
  OBVIOUS
<1>2. PICK zero : zero = [clock_identity |-> 0, port_number |-> 0]
  OBVIOUS
<1>3. NewHeader(1) =
         [sdo_id |-> 0, major |-> 2, minor |-> 1, domain_number |-> 0, flags |-> {},
          correction_field |-> 0, source_port_identity |-> zero,
          sequence_id |-> 0, log_message_interval |-> 0]
  BY <1>2, Zenon DEF NewHeader
<1>4. h = [sdo_id |-> 256, major |-> 2, minor |-> 1, domain_number |-> 3, flags |-> {},
           correction_field |-> 0, source_port_identity |-> p,
           sequence_id |-> id, log_message_interval |-> 0]
  <2>1. PICK new : new = NewHeader(1)
    OBVIOUS
  <2>2. Ds.sdo_id = 256 /\ Ds.domain_number = 3
    BY DEF Ds
  <2>3. h = [new EXCEPT !.sdo_id = 256, !.domain_number = 3, !.source_port_identity = p,
                        !.sequence_id = id]
    BY <1>1, <2>1, <2>2, Zenon DEF BaseHeader
  <2>4. DOMAIN new = {"sdo_id", "major", "minor", "domain_number", "flags", "correction_field",
                      "source_port_identity", "sequence_id", "log_message_interval"}
        /\ new.major = 2 /\ new.minor = 1 /\ new.flags = {} /\ new.correction_field = 0
        /\ new.log_message_interval = 0
    BY <1>3, <2>1
  <2>5. /\ h = [f \in DOMAIN new |-> h[f]]
        /\ h.sdo_id = 256 /\ h.domain_number = 3 /\ h.source_port_identity = p
        /\ h.sequence_id = id
        /\ \A f \in DOMAIN new :
              f \notin {"sdo_id", "domain_number", "source_port_identity", "sequence_id"} =>
                 h[f] = new[f]
    BY <2>3, <2>4
  <2> QED BY <2>4, <2>5
<1>5. h \in Headers
  BY <1>4 DEF Headers, SdoIds
<1> QED BY <1>1, <1>4, <1>5 DEF IsExchangeHeader, Ds

(* The changes that are made to it *)
LEMMA ChangedHeader ==
    ASSUME NEW h, IsExchangeHeader(h)
    PROVE  /\ \A flags \in SUBSET Flags : IsExchangeHeader([h EXCEPT !.flags = flags])
           /\ \A c \in Int : IsExchangeHeader([h EXCEPT !.correction_field = c])
           /\ \A n \in Int : IsExchangeHeader([h EXCEPT !.log_message_interval = n])
           /\ \A p \in PortIdentities : IsExchangeHeader([h EXCEPT !.source_port_identity = p])
BY DEF IsExchangeHeader, Headers

(* All seven messages are such messages. *)
LEMMA ExchangeMessages ==
    ASSUME NEW x, Measurable(x)
    PROVE  ExchangeIsRead(x)
<1>1. /\ x.residence \in Int /\ x.t1 \in Nat /\ DelayReqReceived(x) \in Nat
      /\ PDelayReqReceived(x) \in Nat /\ PDelayRespSent(x) \in Nat
  BY DEF Measurable, OnTheWire
<1>2. MasterPort \in PortIdentities /\ Slave \in PortIdentities
  BY DEF MasterPort, Slave, PortIdentities
<1>3. ZeroTimestamp \in TimestampValues /\ 0 \in Int /\ 4 \in Int /\ 7 \in Int /\ 127 \in Int
  BY DEF ZeroTimestamp, TimestampValues
<1>4. {"two_step_flag"} \in SUBSET Flags
  BY DEF Flags, FlagWrites
<1>5. ReadAsTransmitted(Sync, x.residence)
  <2>1. PICK h, g, body : /\ h = BaseHeader(Ds, MasterPort, 7, 1)
                          /\ g = [h EXCEPT !.flags = {"two_step_flag"}]
                          /\ body = [origin_timestamp |-> ZeroTimestamp]
    OBVIOUS
  <2>2. IsExchangeHeader(h)
    BY <1>2, <1>3, <2>1, BaseHeaderIsOne
  <2>3. IsExchangeHeader(g)
    BY <1>4, <2>1, <2>2, ChangedHeader
  <2>4. IsBody("Sync", body)
    BY <1>3, <2>1, TimestampBodies
  <2>5. Sync = Message("Sync", g, body)
    BY <2>1, Zenon DEF Sync, SyncMessage
  <2> QED BY <1>1, <2>3, <2>4, <2>5, IsReadAsTransmitted
<1>6. ReadAsTransmitted(FollowUp(x), 0)
  <2>1. PICK h, g, body : /\ h = BaseHeader(Ds, MasterPort, 7, 1)
                          /\ g = [h EXCEPT !.correction_field = Subnano(x.t1)]
                          /\ body = [precise_origin_timestamp |-> WireTimestamp(x.t1)]
    OBVIOUS
  <2>2. IsExchangeHeader(h)
    BY <1>2, <1>3, <2>1, BaseHeaderIsOne
  <2>3. WireTimestamp(x.t1) \in TimestampValues /\ Subnano(x.t1) \in Int
    BY <1>1, WireTimestampIsValue
  <2>4. IsExchangeHeader(g)
    BY <2>1, <2>2, <2>3, ChangedHeader
  <2>5. IsBody("FollowUp", body)
    BY <2>1, <2>3, TimestampBodies
  <2>6. FollowUp(x) = Message("FollowUp", g, body)
    BY <2>1, Zenon DEF FollowUp, FollowUpMessage
  <2> QED BY <1>3, <2>4, <2>5, <2>6, IsReadAsTransmitted
<1>7. PICK request : request = Delivered(DelayReq, x.residence).header
  OBVIOUS
<1>8. ReadAsTransmitted(DelayReq, x.residence) /\ IsExchangeHeader(request)
  <2>1. PICK h, g, body : /\ h = BaseHeader(Ds, Slave, 4, 1)
                          /\ g = [h EXCEPT !.log_message_interval = 127]
                          /\ body = [origin_timestamp |-> ZeroTimestamp]
    OBVIOUS
  <2>2. IsExchangeHeader(h)
    BY <1>2, <1>3, <2>1, BaseHeaderIsOne
  <2>3. IsExchangeHeader(g)
    BY <1>3, <2>1, <2>2, ChangedHeader
  <2>4. IsBody("DelayReq", body)
    BY <1>3, <2>1, TimestampBodies
  <2>5. DelayReq = Message("DelayReq", g, body)
    BY <2>1, Zenon DEF DelayReq, DelayReqMessage
  <2> QED BY <1>1, <1>7, <2>3, <2>4, <2>5, IsReadAsTransmitted
<1>9. ReadAsTransmitted(DelayResp(x), 0)
  <2>1. PICK t4 : t4 = DelayReqReceived(x)
    OBVIOUS
  <2>2. WireTimestamp(t4) \in TimestampValues /\ Subnano(t4) \in Int
    BY <1>1, <2>1, WireTimestampIsValue
  <2>3. /\ request.flags \in SUBSET Flags /\ request.correction_field \in Int
        /\ request.source_port_identity \in PortIdentities
        /\ request = [f \in DOMAIN request |-> request[f]]
    BY <1>8 DEF IsExchangeHeader, Headers
  <2>4. PICK h, g, body :
           /\ h = [[[request EXCEPT !.flags = request.flags \ {"two_step_flag"}]
                       EXCEPT !.source_port_identity = MasterPort]
                       EXCEPT !.correction_field = request.correction_field + Subnano(t4)]
           /\ g = [h EXCEPT !.log_message_interval = 0]
           /\ body = [receive_timestamp |-> WireTimestamp(t4),
                      requesting_port_identity |-> request.source_port_identity]
    OBVIOUS
  <2>5. IsExchangeHeader(g)
    <3>1. request.flags \ {"two_step_flag"} \in SUBSET Flags
          /\ request.correction_field + Subnano(t4) \in Int
      BY <2>2, <2>3
    <3>2. IsExchangeHeader([request EXCEPT !.flags = request.flags \ {"two_step_flag"}])
      BY <1>8, <3>1, ChangedHeader
    <3> QED BY <1>2, <1>3, <2>4, <3>1, <3>2, ChangedHeader
  <2>6. IsBody("DelayResp", body)
    BY <2>2, <2>3, <2>4, ResponseBodies
  <2>7. g = [request EXCEPT !.flags = @ \ {"two_step_flag"},
                            !.source_port_identity = MasterPort,
                            !.correction_field = @ + Subnano(t4),
                            !.log_message_interval = 0]
    <3>1. {"flags", "correction_field", "source_port_identity", "log_message_interval"}
             \subseteq DOMAIN request
      BY <1>8 DEF IsExchangeHeader, Headers
    <3> QED BY <2>3, <2>4, <3>1
  <2>8. DelayResp(x) = Message("DelayResp", g, body)
    BY <1>7, <2>1, <2>4, <2>7, Zenon DEF DelayResp, DelayRespMessage
  <2> QED BY <1>3, <2>5, <2>6, <2>8, IsReadAsTransmitted
<1>10. PICK asked : asked = Delivered(PDelayReq, x.residence).header
  OBVIOUS
<1>11. ReadAsTransmitted(PDelayReq, x.residence) /\ IsExchangeHeader(asked)
  <2>1. PICK h, body : /\ h = BaseHeader(Ds, Slave, 4, 1)
                       /\ body = [origin_timestamp |-> ZeroTimestamp]
    OBVIOUS
  <2>2. IsExchangeHeader(h)
    BY <1>2, <1>3, <2>1, BaseHeaderIsOne
  <2>3. IsBody("PDelayReq", body)
    BY <1>3, <2>1, TimestampBodies
  <2>4. PDelayReq = Message("PDelayReq", h, body)
    BY <2>1, Zenon DEF PDelayReq, PDelayReqMessage
  <2> QED BY <1>1, <1>10, <2>2, <2>3, <2>4, IsReadAsTransmitted
<1>12. /\ asked.source_port_identity \in PortIdentities /\ asked.sequence_id \in Int
       /\ asked.correction_field \in Int
  BY <1>11 DEF IsExchangeHeader, Headers
<1>13. PICK b : b = BaseHeader(Ds, MasterPort, asked.sequence_id, 1)
  OBVIOUS
<1>14. IsExchangeHeader(b)
  BY <1>2, <1>12, <1>13, BaseHeaderIsOne
<1>15. ReadAsTransmitted(PDelayResp(x), x.residence)
  <2>1. PICK t2 : t2 = PDelayReqReceived(x)
    OBVIOUS
  <2>2. WireTimestamp(t2) \in TimestampValues
    BY <1>1, <2>1, WireTimestampIsValue
  <2>3. PICK h, g, body :
           /\ h = [b EXCEPT !.flags = {"two_step_flag"}]
           /\ g = [h EXCEPT !.correction_field = asked.correction_field]
           /\ body = [request_receive_timestamp |-> WireTimestamp(t2),
                      requesting_port_identity |-> asked.source_port_identity]
    OBVIOUS
  <2>4. IsExchangeHeader(h)
    BY <1>4, <1>14, <2>3, ChangedHeader
  <2>5. IsExchangeHeader(g)
    BY <1>12, <2>3, <2>4, ChangedHeader
  <2>6. IsBody("PDelayResp", body)
    BY <1>12, <2>2, <2>3, ResponseBodies
  <2>7. PDelayResp(x) = Message("PDelayResp", g, body)
    BY <1>10, <1>13, <2>1, <2>3, Zenon DEF PDelayResp, PDelayRespMessage
  <2> QED BY <1>1, <2>5, <2>6, <2>7, IsReadAsTransmitted
<1>16. ReadAsTransmitted(PDelayRespFollowUp(x), 0)
  <2>1. PICK t3 : t3 = PDelayRespSent(x)
    OBVIOUS
  <2>2. WireTimestamp(t3) \in TimestampValues
    BY <1>1, <2>1, WireTimestampIsValue
  <2>3. PICK body : body = [response_origin_timestamp |-> WireTimestamp(t3),
                            requesting_port_identity |-> asked.source_port_identity]
    OBVIOUS
  <2>4. IsBody("PDelayRespFollowUp", body)
    BY <1>12, <2>2, <2>3, ResponseBodies
  <2>5. PDelayRespFollowUp(x) = Message("PDelayRespFollowUp", b, body)
    BY <1>10, <1>13, <2>1, <2>3, Zenon DEF PDelayRespFollowUp, PDelayRespFollowUpMessage
  <2> QED BY <1>3, <1>14, <2>4, <2>5, IsReadAsTransmitted
<1> QED BY <1>5, <1>6, <1>8, <1>9, <1>11, <1>15, <1>16 DEF ExchangeIsRead

(* Whatever is sent is read as it was sent by a port of the same domain:   *)
(* every message of every kind that a port can make, with any values in    *)
(* its fields and any TLVs, and all the messages of an exchange.           *)
THEOREM MessagesAreReadAsSent ==
    ASSUME input.of = "exchange" => Measurable(input),
           input.of = "message" => IsSent(Ds, input.message) /\ input.padding \in Nat
    PROVE  ReadAsSent
<1>1. input.of = "exchange" => ExchangeIsRead(input)
  BY ExchangeMessages
<1>2. ASSUME input.of = "message"
      PROVE  LET m == input.message
                 padding == [i \in 1..input.padding |-> Padding]
                 read == ParseAndFilter(Ds, Serialize(m) \o padding)
             IN  /\ read = [m EXCEPT !.suffix = TlvOctets(m.suffix)]
                 /\ m.kind \notin {"Signaling", "Management"} =>
                       IF SentAsEvent(m.kind) THEN HandledAsEvent(read.kind)
                       ELSE HandledAsGeneral(read.kind)
  <2>1. PICK m, padding, read :
           /\ m = input.message /\ padding = [i \in 1..input.padding |-> Padding]
           /\ read = ParseAndFilter(Ds, Serialize(m) \o padding)
    OBVIOUS
  <2>2. IsSent(Ds, m) /\ padding \in Seq(WireOctets)
    BY <1>2, <2>1, PaddingOctets
  <2>3. read = [m EXCEPT !.suffix = TlvOctets(m.suffix)]
    BY <2>1, <2>2, SentIsRead
  <2>4. m.kind \in MessageTypes
        /\ m = [header |-> m.header, kind |-> m.kind, body |-> m.body, suffix |-> m.suffix]
    BY <2>2 DEF IsSent, IsMessage, IsAddressed
  <2>5. read.kind = m.kind
    BY <2>3, <2>4
  <2>6. m.kind \notin {"Signaling", "Management"} =>
           IF SentAsEvent(m.kind) THEN HandledAsEvent(m.kind) ELSE HandledAsGeneral(m.kind)
    BY <2>4 DEF MessageTypes, MessageCode, SentAsEvent, HandledAsEvent, HandledAsGeneral
  <2> QED BY <2>1, <2>3, <2>5, <2>6, Zenon
<1> QED BY <1>1, <1>2, Zenon DEF ReadAsSent

-----------------------------------------------------------------------------
(* Messages whose correction field has been read as it was sent *)

(* A header has a correction field. *)
IsHeader(h) == h = [f \in DOMAIN h |-> h[f]] /\ "correction_field" \in DOMAIN h

(* Header::new has one of zero. *)
LEMMA NewHeaderField ==
    ASSUME NEW default_ds, NEW port_identity, NEW sequence_id, NEW minor
    PROVE  LET h == BaseHeader(default_ds, port_identity, sequence_id, minor)
           IN  IsHeader(h) /\ h.correction_field = 0
BY DEF BaseHeader, NewHeader, IsHeader

(* What is read of a message *)
LEMMA WhatIsRead ==
    ASSUME NEW kind, NEW h, NEW body, NEW residence, NEW m, NEW read,
           IsHeader(h), m = Message(kind, h, body), ReadAsTransmitted(m, residence),
           read = Delivered(m, residence)
    PROVE  /\ read.body = body
           /\ IsHeader(read.header)
           /\ read.header.correction_field = h.correction_field + residence
<1>3. read = [m EXCEPT !.header.correction_field = @ + residence]
  BY DEF ReadAsTransmitted
<1>4. PICK g : g = [h EXCEPT !.correction_field = @ + residence]
  OBVIOUS
<1>5. m.header = h /\ m.body = body
  BY DEF Message
<1>6. read.header = g /\ read.body = body
  BY <1>3, <1>4 DEF Message
<1>7. g.correction_field = h.correction_field + residence /\ IsHeader(g)
  BY <1>4 DEF IsHeader
<1> QED BY <1>6, <1>7, Zenon

(* What a sync and its follow up make: the fraction of the time stamp that *)
(* the units of a correction field lose                                    *)
LEMMA SyncOffset ==
    ASSUME NEW x, Measurable(x), ExchangeIsRead(x)
    PROVE  \E error \in Nat :
              error < CorrectionUnit /\ RawSyncOffset(x) = x.theta + x.mean + error
<1>1. PICK sync, follow_up :
         sync = Delivered(Sync, x.residence) /\ follow_up = Delivered(FollowUp(x), 0)
  OBVIOUS
<1>2. /\ x.t1 \in Nat /\ x.theta \in Int /\ x.mean \in Int /\ x.asymmetry \in Int
      /\ x.residence \in Int /\ CorrectionUnit \in Nat
  BY TimeConstants DEF Measurable, OnTheWire
<1>3. sync.header.correction_field = x.residence
  <2>1. PICK b : b = BaseHeader(Ds, MasterPort, 7, 1)
    OBVIOUS
  <2>2. IsHeader(b) /\ b.correction_field = 0
    BY <2>1, NewHeaderField
  <2>3. PICK h : h = [b EXCEPT !.flags = {"two_step_flag"}]
    OBVIOUS
  <2>4. IsHeader(h) /\ h.correction_field = 0
    BY <2>2, <2>3 DEF IsHeader
  <2>5. Sync = Message("Sync", h, [origin_timestamp |-> ZeroTimestamp])
    BY <2>1, <2>3, Zenon DEF Sync, SyncMessage
  <2>6. ReadAsTransmitted(Sync, x.residence)
    BY DEF ExchangeIsRead
  <2>7. sync.header.correction_field = h.correction_field + x.residence
    BY <1>1, <2>4, <2>5, <2>6, WhatIsRead
  <2> QED BY <1>2, <2>4, <2>7
<1>4. /\ follow_up.header.correction_field = Subnano(x.t1)
      /\ follow_up.body.precise_origin_timestamp = WireTimestamp(x.t1)
  <2>1. PICK b : b = BaseHeader(Ds, MasterPort, 7, 1)
    OBVIOUS
  <2>2. IsHeader(b)
    BY <2>1, NewHeaderField
  <2>3. PICK h : h = [b EXCEPT !.correction_field = Subnano(x.t1)]
    OBVIOUS
  <2>4. IsHeader(h) /\ h.correction_field = Subnano(x.t1)
    BY <2>2, <2>3 DEF IsHeader
  <2>5. PICK body : body = [precise_origin_timestamp |-> WireTimestamp(x.t1)]
    OBVIOUS
  <2>6. FollowUp(x) = Message("FollowUp", h, body)
    BY <2>1, <2>3, <2>5, Zenon DEF FollowUp, FollowUpMessage
  <2>7. ReadAsTransmitted(FollowUp(x), 0)
    BY DEF ExchangeIsRead
  <2>8. follow_up.header.correction_field = h.correction_field + 0 /\ follow_up.body = body
    BY <1>1, <2>4, <2>6, <2>7, WhatIsRead
  <2>9. Subnano(x.t1) \in Nat
    BY <1>2, SubnanoCuts
  <2> QED BY <2>4, <2>5, <2>8, <2>9
<1>5. PICK rest \in Nat :
         /\ rest < CorrectionUnit
         /\ DurationOf(Subnano(x.t1)) = (x.t1 % SubUnits) - rest
  BY <1>2, SubnanoCuts
<1>6. TimeOf(WireTimestamp(x.t1)) = x.t1 - (x.t1 % SubUnits)
  BY WireTimestampCuts DEF Measurable
<1>7. x.t1 % SubUnits \in Nat
  BY <1>2, TimeConstants, QuotientRemainder
<1>8. DurationOf(x.residence) \in Int
  BY <1>2 DEF DurationOf
<1>9. RawSyncOffset(x) =
         (SyncReceived(x) - DurationOf(x.residence))
         - ((x.t1 - (x.t1 % SubUnits)) + ((x.t1 % SubUnits) - rest)) - x.asymmetry
  BY <1>1, <1>3, <1>4, <1>5, <1>6, Zenon DEF RawSyncOffset
<1>10. RawSyncOffset(x) = x.theta + x.mean + rest
  BY <1>2, <1>5, <1>7, <1>8, <1>9 DEF SyncReceived
<1> QED BY <1>5, <1>10

(* What a delay request and its response make: the fraction f of the time  *)
(* stamp is there twice.                                                   *)
LEMMA DelayOffset ==
    ASSUME NEW x, Measurable(x), ExchangeIsRead(x)
    PROVE  \E f, rest \in Nat :
              /\ f < SubUnits /\ rest <= f
              /\ RawDelayOffset(x) = x.theta - x.mean + 2 * f - rest
<1>1. PICK request, response :
         /\ request = Delivered(DelayReq, x.residence)
         /\ response = Delivered(DelayResp(x), 0)
  OBVIOUS
<1>2. PICK t4 : t4 = DelayReqReceived(x)
  OBVIOUS
<1>3. /\ x.t1 \in Nat /\ x.theta \in Int /\ x.mean \in Int /\ x.asymmetry \in Int
      /\ x.residence \in Int /\ x.wait \in Int /\ t4 \in Nat /\ OnTheWire(t4)
  BY <1>2 DEF Measurable, OnTheWire
<1>4. IsHeader(request.header) /\ request.header.correction_field = x.residence
  <2>1. PICK b : b = BaseHeader(Ds, Slave, 4, 1)
    OBVIOUS
  <2>2. IsHeader(b) /\ b.correction_field = 0
    BY <2>1, NewHeaderField
  <2>3. PICK h : h = [b EXCEPT !.log_message_interval = 127]
    OBVIOUS
  <2>4. IsHeader(h) /\ h.correction_field = 0
    BY <2>2, <2>3 DEF IsHeader
  <2>5. DelayReq = Message("DelayReq", h, [origin_timestamp |-> ZeroTimestamp])
    BY <2>1, <2>3, Zenon DEF DelayReq, DelayReqMessage
  <2>6. ReadAsTransmitted(DelayReq, x.residence)
    BY DEF ExchangeIsRead
  <2>7. /\ IsHeader(request.header)
        /\ request.header.correction_field = h.correction_field + x.residence
    BY <1>1, <2>4, <2>5, <2>6, WhatIsRead
  <2> QED BY <1>3, <2>4, <2>7
<1>5. Subnano(t4) \in Nat
  BY <1>3, SubnanoCuts
<1>6. /\ response.header.correction_field = x.residence + Subnano(t4)
      /\ response.body.receive_timestamp = WireTimestamp(t4)
  <2>1. PICK b : b = request.header
    OBVIOUS
  <2>2. PICK h : h = [b EXCEPT !.flags = @ \ {"two_step_flag"},
                               !.source_port_identity = MasterPort,
                               !.correction_field = @ + Subnano(t4),
                               !.log_message_interval = 0]
    OBVIOUS
  <2>3. IsHeader(h) /\ h.correction_field = x.residence + Subnano(t4)
    BY <1>4, <2>1, <2>2 DEF IsHeader
  <2>4. PICK body : body = [receive_timestamp |-> WireTimestamp(t4),
                            requesting_port_identity |-> b.source_port_identity]
    OBVIOUS
  <2>5. DelayResp(x) = Message("DelayResp", h, body)
    BY <1>1, <1>2, <2>1, <2>2, <2>4, Zenon DEF DelayResp, DelayRespMessage
  <2>6. ReadAsTransmitted(DelayResp(x), 0)
    BY DEF ExchangeIsRead
  <2>7. response.header.correction_field = h.correction_field + 0 /\ response.body = body
    BY <1>1, <2>3, <2>5, <2>6, WhatIsRead
  <2> QED BY <1>3, <1>5, <2>3, <2>4, <2>7
<1>7. PICK f : f = t4 % SubUnits
  OBVIOUS
<1>8. f \in Nat /\ f < SubUnits
  BY <1>3, <1>7, TimeConstants, QuotientRemainder
<1>9. PICK rest \in Nat : rest <= f /\ DurationOf(Subnano(t4)) = f - rest
  BY <1>3, <1>7, SubnanoCuts
<1>10. TimeOf(WireTimestamp(t4)) = t4 - f
  BY <1>3, <1>7, WireTimestampCuts
<1>11. DurationOf(x.residence) \in Int
  BY <1>3, TimeConstants DEF DurationOf
<1>12. DurationOf(x.residence + Subnano(t4)) = DurationOf(x.residence) + (f - rest)
  <2>1. DurationOf(x.residence + Subnano(t4))
          = DurationOf(x.residence) + DurationOf(Subnano(t4))
    BY <1>3, <1>5, TimeConstants DEF DurationOf
  <2> QED BY <1>9, <2>1
<1>13. RawDelayOffset(x) =
          DelayReqSent(x) - ((t4 - f) - (DurationOf(x.residence) + (f - rest))) - x.asymmetry
  BY <1>1, <1>6, <1>10, <1>12, Zenon DEF RawDelayOffset
<1>14. RawDelayOffset(x) = x.theta - x.mean + 2 * f - rest
  BY <1>2, <1>3, <1>8, <1>9, <1>11, <1>13 DEF DelayReqSent, DelayReqReceived
<1> QED BY <1>8, <1>9, <1>14

(* The delay between peers is right to a nanosecond. *)
LEMMA PeerDelayIsClose ==
    ASSUME NEW x, Measurable(x), ExchangeIsRead(x)
    PROVE  RawPeerDelay(x) - x.mean \in -SubUnits..SubUnits
<1>1. PICK request, response, follow_up :
         /\ request = Delivered(PDelayReq, x.residence)
         /\ response = Delivered(PDelayResp(x), x.residence)
         /\ follow_up = Delivered(PDelayRespFollowUp(x), 0)
  OBVIOUS
<1>2. PICK t2, t3 : t2 = PDelayReqReceived(x) /\ t3 = PDelayRespSent(x)
  OBVIOUS
<1>3. /\ x.t1 \in Nat /\ x.theta \in Int /\ x.mean \in Int /\ x.asymmetry \in Int
      /\ x.residence \in Int /\ x.wait \in Int
      /\ t2 \in Nat /\ OnTheWire(t2) /\ t3 \in Nat /\ OnTheWire(t3)
  BY <1>2 DEF Measurable, OnTheWire
<1>4. IsHeader(request.header) /\ request.header.correction_field = x.residence
  <2>1. PICK b : b = BaseHeader(Ds, Slave, 4, 1)
    OBVIOUS
  <2>2. IsHeader(b) /\ b.correction_field = 0
    BY <2>1, NewHeaderField
  <2>3. PDelayReq = Message("PDelayReq", b, [origin_timestamp |-> ZeroTimestamp])
    BY <2>1, Zenon DEF PDelayReq, PDelayReqMessage
  <2>4. ReadAsTransmitted(PDelayReq, x.residence)
    BY DEF ExchangeIsRead
  <2>5. /\ IsHeader(request.header)
        /\ request.header.correction_field = b.correction_field + x.residence
    BY <1>1, <2>2, <2>3, <2>4, WhatIsRead
  <2> QED BY <1>3, <2>2, <2>5
<1>5. /\ response.header.correction_field = x.residence + x.residence
      /\ response.body.request_receive_timestamp = WireTimestamp(t2)
  <2>1. PICK b : b = BaseHeader(Ds, MasterPort, request.header.sequence_id, 1)
    OBVIOUS
  <2>2. IsHeader(b)
    BY <2>1, NewHeaderField
  <2>3. PICK h : h = [b EXCEPT !.flags = {"two_step_flag"},
                               !.correction_field = request.header.correction_field]
    OBVIOUS
  <2>4. IsHeader(h) /\ h.correction_field = x.residence
    BY <1>4, <2>2, <2>3 DEF IsHeader
  <2>5. PICK body : body = [request_receive_timestamp |-> WireTimestamp(t2),
                            requesting_port_identity |-> request.header.source_port_identity]
    OBVIOUS
  <2>6. PDelayResp(x) = Message("PDelayResp", h, body)
    BY <1>1, <1>2, <2>1, <2>3, <2>5, Zenon DEF PDelayResp, PDelayRespMessage
  <2>7. ReadAsTransmitted(PDelayResp(x), x.residence)
    BY DEF ExchangeIsRead
  <2>8. /\ response.header.correction_field = h.correction_field + x.residence
        /\ response.body = body
    BY <1>1, <2>4, <2>6, <2>7, WhatIsRead
  <2> QED BY <2>4, <2>5, <2>8
<1>6. /\ follow_up.header.correction_field = 0
      /\ follow_up.body.response_origin_timestamp = WireTimestamp(t3)
  <2>1. PICK b : b = BaseHeader(Ds, MasterPort, request.header.sequence_id, 1)
    OBVIOUS
  <2>2. IsHeader(b) /\ b.correction_field = 0
    BY <2>1, NewHeaderField
  <2>3. PICK body : body = [response_origin_timestamp |-> WireTimestamp(t3),
                            requesting_port_identity |-> request.header.source_port_identity]
    OBVIOUS
  <2>4. PDelayRespFollowUp(x) = Message("PDelayRespFollowUp", b, body)
    BY <1>1, <1>2, <2>1, <2>3, Zenon DEF PDelayRespFollowUp, PDelayRespFollowUpMessage
  <2>5. ReadAsTransmitted(PDelayRespFollowUp(x), 0)
    BY DEF ExchangeIsRead
  <2>6. follow_up.header.correction_field = b.correction_field + 0 /\ follow_up.body = body
    BY <1>1, <2>2, <2>4, <2>5, WhatIsRead
  <2> QED BY <2>2, <2>3, <2>6
<1>7. PICK f2, f3 : f2 = t2 % SubUnits /\ f3 = t3 % SubUnits
  OBVIOUS
<1>8. f2 \in Nat /\ f2 < SubUnits /\ f3 \in Nat /\ f3 < SubUnits
  BY <1>3, <1>7, TimeConstants, QuotientRemainder
<1>9. TimeOf(WireTimestamp(t2)) = t2 - f2 /\ TimeOf(WireTimestamp(t3)) = t3 - f3
  BY <1>3, <1>7, WireTimestampCuts
<1>10. PICK held : held = DurationOf(x.residence)
  OBVIOUS
<1>11. held \in Int /\ DurationOf(0) = 0 /\ DurationOf(x.residence + x.residence) = held + held
  BY <1>3, <1>10, TimeConstants DEF DurationOf
<1>12. PICK d : d = ((PDelayRespReceived(x) - (held + held)) - PDelayReqSent(x))
                    - (((t3 - f3) + 0) - (t2 - f2))
  OBVIOUS
<1>13. RawPeerDelay(x) = Half(d)
  BY <1>1, <1>5, <1>6, <1>9, <1>11, <1>12, Zenon DEF RawPeerDelay, PeerDelayWith
<1>14. d = 2 * x.mean + (f3 - f2)
  <2>1. t2 = x.t1 + x.mean - x.asymmetry + held
    BY <1>2, <1>10 DEF PDelayReqReceived
  <2>2. t3 = t2 + x.wait
    BY <1>2 DEF PDelayRespSent
  <2>3. PDelayRespReceived(x) = t3 + x.theta + x.mean + x.asymmetry + held
    BY <1>2, <1>10 DEF PDelayRespReceived
  <2>4. PDelayReqSent(x) = x.t1 + x.theta
    BY DEF PDelayReqSent
  <2> QED BY <1>3, <1>8, <1>11, <1>12, <2>1, <2>2, <2>3, <2>4
<1>15. f3 - f2 \in Int /\ f3 - f2 <= 2 * SubUnits /\ f3 - f2 >= -(2 * SubUnits)
  BY <1>8, TimeConstants
<1> QED BY <1>3, <1>13, <1>14, <1>15, TimeConstants, HalfIsClose

(* For an exchange of any times and units of any size: the offset that a   *)
(* slave measures with a sync is right to the unit of a correction field.  *)
THEOREM SlaveOffsetsAreExact ==
    ASSUME input.of = "exchange" => Measurable(input)
    PROVE  OffsetsAreExact
<1>1. SUFFICES ASSUME input.of = "exchange" PROVE OffsetIsExact(input)
  BY DEF OffsetsAreExact
<1>2. Measurable(input) /\ ExchangeIsRead(input)
  BY <1>1, ExchangeMessages
<1>3. PICK error \in Nat : error < CorrectionUnit
                            /\ RawSyncOffset(input) = input.theta + input.mean + error
  BY <1>2, SyncOffset
<1>4. input.theta + input.mean \in Int
  BY <1>2 DEF Measurable
<1> QED BY <1>3, <1>4 DEF OffsetIsExact

(* And so are the delays that are measured end to end and between peers,   *)
(* to a nanosecond.                                                        *)
THEOREM MeasuredDelaysAreClose ==
    ASSUME input.of = "exchange" => Measurable(input)
    PROVE  DelaysAreClose
<1>1. SUFFICES ASSUME input.of = "exchange" PROVE DelaysAreCloseTo(input)
  BY DEF DelaysAreClose
<1>2. Measurable(input) /\ ExchangeIsRead(input)
  BY <1>1, ExchangeMessages
<1>3. PICK mean, theta : mean = input.mean /\ theta = input.theta
  OBVIOUS
<1>4. mean \in Int /\ theta \in Int
  BY <1>2, <1>3 DEF Measurable
<1>5. PICK error \in Nat :
         error < CorrectionUnit /\ RawSyncOffset(input) = theta + mean + error
  BY <1>2, <1>3, SyncOffset
<1>6. PICK f, rest \in Nat :
         f < SubUnits /\ rest <= f /\ RawDelayOffset(input) = theta - mean + 2 * f - rest
  BY <1>2, <1>3, DelayOffset
<1>7. PICK k : k = error + rest - 2 * f
  OBVIOUS
<1>8. k \in Int /\ k <= 2 * SubUnits /\ k >= -(2 * SubUnits)
  BY <1>5, <1>6, <1>7, TimeConstants
<1>9. RawSyncOffset(input) - RawDelayOffset(input) = 2 * mean + k
  BY <1>4, <1>5, <1>6, <1>7
<1>10. Delay(input) - mean \in -SubUnits..SubUnits
  BY <1>4, <1>8, <1>9, HalfIsClose, TimeConstants DEF Delay
<1> QED BY <1>2, <1>3, <1>10, PeerDelayIsClose DEF DelaysAreCloseTo

-----------------------------------------------------------------------------
(* What a boundary clock passes on *)

(* A message in octets *)
LEMMA MessageOctets ==
    ASSUME NEW ds, NEW m, IsAddressed(ds, m)
    PROVE  Serialize(m) \in Seq(WireOctets)
<1>1. PICK kind, size, tlvs, length :
         /\ kind = m.kind /\ size = ContentSize(kind)
         /\ tlvs = TlvOctets(m.suffix) /\ length = size + Len(tlvs)
  OBVIOUS
<1>2. /\ m.header \in Headers /\ kind \in MessageTypes /\ AreOf(m.body, BodyOf[kind].writes)
      /\ AreTlvs(m.suffix) /\ HeaderSize + size + Len(tlvs) < 65536
  BY <1>1 DEF IsAddressed, AreOf, AreSendable
<1>3. tlvs \in Seq(WireOctets) /\ size \in Nat
  BY <1>1, <1>2, TlvsArePlaced, NatOctetsAreOctets, BodyLayouts
<1>4. length \in Nat /\ length + HeaderSize < 65536
  BY <1>1, <1>2, <1>3 DEF HeaderSize
<1>5. PICK header, body :
         /\ header = SerializeHeader(m.header, kind, length, Used(HeaderSize))
         /\ body = SerializeBody(m, Used(size))
  OBVIOUS
<1>6. header \in Seq(WireOctets)
  BY <1>2, <1>4, <1>5, HeaderOctets
<1>7. body \in Seq(WireOctets)
  BY <1>1, <1>2, <1>5, BodyIsRead
<1>8. Serialize(m) = header \o body \o tlvs
  BY <1>1, <1>5, Zenon DEF Serialize
<1> QED BY <1>3, <1>6, <1>7, <1>8, ConcatProperties

(* ... and read again, when the link adds nothing *)
LEMMA AddressedIsReadAlone ==
    ASSUME NEW ds, NEW m, IsAddressed(ds, m)
    PROVE  ParseAndFilter(ds, Serialize(m))
             = IF EndEmpty(m.suffix) THEN Refused("BufferTooShort") ELSE ReadMessage(m)
<1>1. Serialize(m) \o <<>> = Serialize(m)
  BY MessageOctets, ConcatEmptySeq
<1>2. PICK none : none = <<>>
  OBVIOUS
<1>3. none \in Seq(WireOctets)
  BY <1>2
<1>4. ParseAndFilter(ds, Serialize(m) \o none)
        = IF EndEmpty(m.suffix) THEN Refused("BufferTooShort") ELSE ReadMessage(m)
  BY <1>3, AddressedIsRead
<1> QED BY <1>1, <1>2, <1>4, Zenon

(* The same, for a message that a port made *)
LEMMA SentIsReadAlone ==
    ASSUME NEW ds, NEW m, IsSent(ds, m)
    PROVE  ParseAndFilter(ds, Serialize(m)) = [m EXCEPT !.suffix = TlvOctets(m.suffix)]
<1>1. Serialize(m) \o <<>> = Serialize(m)
  BY MessageOctets, ConcatEmptySeq DEF IsSent, IsMessage
<1>2. PICK none : none = <<>>
  OBVIOUS
<1>3. none \in Seq(WireOctets)
  BY <1>2
<1>4. ParseAndFilter(ds, Serialize(m) \o none) = [m EXCEPT !.suffix = TlvOctets(m.suffix)]
  BY <1>3, SentIsRead
<1> QED BY <1>1, <1>2, <1>4, Zenon

(* What is read of an enumeration is one of its members. *)
LEMMA ReadingIsMember ==
    ASSUME NEW type \in FieldTypes, NEW v \in ValuesOf(type)
    PROVE  Reading(type, v) \in ValuesOf(type) /\ IsMember(type, Reading(type, v))
<1>1. ASSUME NEW code \in 0..255
      PROVE  ClockAccuracyOf(code) \in ClockAccuracies /\ TimeSourceOf(code) \in AllTimeSources
  <2>1. ClockAccuracyOf(code) \in ClockAccuracies
    BY DEF ClockAccuracyOf, ClockAccuracies
  <2>2. TimeSourceOf(code) \in AllTimeSources
    BY DEF TimeSourceOf, AllTimeSources
  <2> QED BY <2>1, <2>2
<1>2. CASE type = "clock_quality"
  <2>1. v \in [clock_class : Int, clock_accuracy : ClockAccuracies,
               offset_scaled_log_variance : Int]
    BY <1>2 DEF ValuesOf
  <2>2. PICK accuracy : accuracy = ClockAccuracyOf(ClockAccuracyCode(v.clock_accuracy))
    OBVIOUS
  <2>3. /\ accuracy \in ClockAccuracies
        /\ accuracy \in {ClockAccuracyOf(code) : code \in 0..255}
    <3>1. ClockAccuracyCode(v.clock_accuracy) \in 0..255
      BY <2>1, CodesAreOctets
    <3> QED BY <1>1, <2>2, <3>1, Zenon
  <2>4. Reading(type, v) =
            [clock_class |-> v.clock_class, clock_accuracy |-> accuracy,
             offset_scaled_log_variance |-> v.offset_scaled_log_variance]
    BY <1>2, <2>2 DEF Reading
  <2>5. Reading(type, v) \in ValuesOf(type)
    BY <1>2, <2>1, <2>3, <2>4 DEF ValuesOf
  <2>6. Reading(type, v).clock_accuracy = accuracy
    BY <2>4
  <2> QED BY <1>2, <2>3, <2>5, <2>6 DEF IsMember
<1>3. CASE type = "time_source"
  <2>1. v \in AllTimeSources
    BY <1>3 DEF ValuesOf
  <2>2. PICK code : code = TimeSourceCode(v)
    OBVIOUS
  <2>3. code \in 0..255
    BY <2>1, <2>2, CodesAreOctets
  <2>4. Reading(type, v) = TimeSourceOf(code)
    BY <1>3, <2>2 DEF Reading
  <2>5. Reading(type, v) \in ValuesOf(type)
    BY <1>1, <1>3, <2>3, <2>4 DEF ValuesOf
  <2>6. TimeSourceOf(code) \in {TimeSourceOf(c) : c \in 0..255}
    BY <2>3, Zenon
  <2> QED BY <1>3, <2>4, <2>5, <2>6 DEF IsMember
<1>4. CASE type \notin {"clock_quality", "time_source"}
  BY <1>4 DEF Reading, IsMember
<1> QED BY <1>2, <1>3, <1>4

(* The fields of an announce message, as they are read *)
AnnounceTypes ==
    [origin_timestamp |-> "timestamp", current_utc_offset |-> "u16",
     grandmaster_priority_1 |-> "u8", grandmaster_clock_quality |-> "clock_quality",
     grandmaster_priority_2 |-> "u8", grandmaster_identity |-> "clock_identity",
     steps_removed |-> "u16", time_source |-> "time_source"]

IsAnnounceBody(body) ==
    \A name \in DOMAIN AnnounceTypes :
       body[name] \in ValuesOf(AnnounceTypes[name]) /\ IsMember(AnnounceTypes[name], body[name])

(* They are the ones of the table. *)
LEMMA AnnounceTable ==
    LET table == BodyOf["Announce"].writes
    IN  /\ "Announce" \in MessageTypes
        /\ DOMAIN table = DOMAIN AnnounceTypes
        /\ \A name \in DOMAIN table : table[name][2] = AnnounceTypes[name]
<1>1. BodyOf["Announce"] = AnnounceContent /\ "Announce" \in MessageTypes
  BY DEF BodyOf, MessageTypes, MessageCode
<1>2. DOMAIN AnnounceContent.writes = DOMAIN AnnounceTypes
  BY DEF AnnounceContent, Content, AnnounceTypes
<1>3. \A name \in DOMAIN AnnounceTypes : AnnounceContent.writes[name][2] = AnnounceTypes[name]
  BY DEF AnnounceContent, Content, AnnounceTypes
<1> QED BY <1>1, <1>2, <1>3

(* What is read of an announce message is such a body. *)
LEMMA AnnounceIsRead ==
    ASSUME NEW m, IsMessage(Ds, m), m.kind = "Announce"
    PROVE  LET body == ReadMessage(m).body
           IN  /\ IsAnnounceBody(body)
               /\ body.steps_removed = m.body.steps_removed
               /\ body.current_utc_offset = m.body.current_utc_offset
<1>1. PICK table, body : table = BodyOf["Announce"].writes /\ body = ReadMessage(m).body
  OBVIOUS
<1>2. /\ DOMAIN table = DOMAIN AnnounceTypes
      /\ \A name \in DOMAIN table : table[name][2] = AnnounceTypes[name]
  BY <1>1, AnnounceTable, Zenon
<1>3. body = [name \in DOMAIN table |-> Reading(table[name][2], m.body[name])]
  BY <1>1, Zenon DEF ReadMessage, ReadBody
<1>4. \A name \in DOMAIN AnnounceTypes :
         /\ body[name] = Reading(AnnounceTypes[name], m.body[name])
         /\ m.body[name] \in ValuesOf(AnnounceTypes[name])
         /\ AnnounceTypes[name] \in FieldTypes
  <2>1. \A name \in DOMAIN AnnounceTypes : AnnounceTypes[name] \in FieldTypes
    BY DEF AnnounceTypes, FieldTypes
  <2>2. \A name \in DOMAIN table : m.body[name] \in ValuesOf(table[name][2])
    BY <1>1 DEF IsMessage, IsAddressed
  <2> QED BY <1>2, <1>3, <2>1, <2>2, Zenon
<1>5. IsAnnounceBody(body)
  BY <1>4, ReadingIsMember DEF IsAnnounceBody
<1>6. \A name \in {"steps_removed", "current_utc_offset"} :
         name \in DOMAIN AnnounceTypes /\ AnnounceTypes[name] = "u16"
  BY DEF AnnounceTypes
<1>7. \A v : Reading("u16", v) = v
  BY DEF Reading
<1>8. \A name \in {"steps_removed", "current_utc_offset"} : body[name] = m.body[name]
  BY <1>4, <1>6, <1>7
<1> QED BY <1>1, <1>5, <1>8

-----------------------------------------------------------------------------
(* Time properties in the flags of an announce message *)

TimeFlags == {"ptp_timescale", "time_tracable", "frequency_tracable"}

(* What the flags say of the time properties they were made of *)
LEMMA FlagsOfTimeProperties ==
    ASSUME NEW tp, tp.flags \in SUBSET TimeFlags
    PROVE  LET flags == AnnounceFlags(tp)
           IN  /\ flags \in SUBSET Flags
               /\ "current_utc_offset_valid" \in flags <=> tp.current_utc_offset # NoOffset
               /\ "leap59" \in flags <=> tp.leap_indicator = "leap59"
               /\ "leap61" \in flags <=> tp.leap_indicator = "leap61"
               /\ flags \intersect TimeFlags = tp.flags
<1>1. {"leap59", "leap61", "current_utc_offset_valid"} \union TimeFlags \subseteq Flags
  BY DEF TimeFlags, Flags, FlagWrites
<1>2. PICK a, b, c : /\ a = {flag \in {"leap59", "leap61"} : tp.leap_indicator = flag}
                     /\ b = IF tp.current_utc_offset # NoOffset
                            THEN {"current_utc_offset_valid"} ELSE {}
                     /\ c = tp.flags \intersect TimeFlags
  OBVIOUS
<1>3. AnnounceFlags(tp) = a \union b \union c
  BY <1>2, Zenon DEF AnnounceFlags, TimeFlags
<1>4. c = tp.flags /\ a \subseteq {"leap59", "leap61"} /\ b \subseteq {"current_utc_offset_valid"}
  BY <1>2
<1>5. "current_utc_offset_valid" \in b <=> tp.current_utc_offset # NoOffset
  BY <1>2
<1>6. /\ "leap59" \in a <=> tp.leap_indicator = "leap59"
      /\ "leap61" \in a <=> tp.leap_indicator = "leap61"
  BY <1>2
<1>7. a \union b \union c \subseteq Flags
  BY <1>1, <1>4
<1>8. (a \union b \union c) \intersect TimeFlags = tp.flags
  BY <1>4 DEF TimeFlags
<1> QED BY <1>3, <1>4, <1>5, <1>6, <1>7, <1>8 DEF TimeFlags

(* Time properties taken from flags that were made of them *)
LEMMA TimePropertiesReturn ==
    ASSUME NEW m, NEW n, NEW tp, tp = TimeProperties(m),
           n.header.flags = AnnounceFlags(tp), n.body.time_source = tp.time_source,
           n.body.current_utc_offset = IF tp.current_utc_offset = NoOffset
                                       THEN 0 ELSE tp.current_utc_offset
    PROVE  TimeProperties(n) = tp
<1>1. PICK offset, leap, flags :
         /\ offset = IF "current_utc_offset_valid" \in m.header.flags
                     THEN m.body.current_utc_offset ELSE NoOffset
         /\ leap = CASE "leap59" \in m.header.flags -> "leap59"
                     [] "leap59" \notin m.header.flags /\ "leap61" \in m.header.flags -> "leap61"
                     [] OTHER -> "no_leap"
         /\ flags = m.header.flags \intersect TimeFlags
  OBVIOUS
<1>2. tp = [current_utc_offset |-> offset, leap_indicator |-> leap, flags |-> flags,
            time_source |-> m.body.time_source]
  BY <1>1, Zenon DEF TimeProperties, TimeFlags
<1>3. leap \in {"leap59", "leap61", "no_leap"}
  BY <1>1
<1>4. PICK g : g = n.header.flags
  OBVIOUS
<1>5. /\ "current_utc_offset_valid" \in g <=> tp.current_utc_offset # NoOffset
      /\ "leap59" \in g <=> tp.leap_indicator = "leap59"
      /\ "leap61" \in g <=> tp.leap_indicator = "leap61"
      /\ g \intersect TimeFlags = tp.flags
  <2>1. tp.flags \in SUBSET TimeFlags
    BY <1>1, <1>2
  <2> QED BY <1>4, <2>1, FlagsOfTimeProperties
<1>6. (IF "current_utc_offset_valid" \in g THEN n.body.current_utc_offset ELSE NoOffset) = offset
  BY <1>2, <1>5
<1>7. (CASE "leap59" \in g -> "leap59"
        [] "leap59" \notin g /\ "leap61" \in g -> "leap61"
        [] OTHER -> "no_leap") = leap
  BY <1>2, <1>3, <1>5
<1>8. g \intersect TimeFlags = flags /\ n.body.time_source = m.body.time_source
  BY <1>2, <1>5
<1> QED BY <1>2, <1>4, <1>6, <1>7, <1>8, Zenon DEF TimeProperties, TimeFlags

(* An announce message made of what was read *)
IsRelay(received, tlvs, ds, sent) ==
    /\ ds = TakeAnnounce(Ds, received)
    /\ sent = [AnnounceMessage(ds, Slave, 1, 1) EXCEPT !.suffix = tlvs]

(* It is a message that a port makes, and says what was read; the other    *)
(* end takes it in unless its last TLV is empty.                           *)
LEMMA RelayedIsSent ==
    ASSUME NEW received, IsAnnounceBody(received.body),
           received.body.steps_removed \in Int,
           NEW tlvs, AreSendable(tlvs, "Announce"),
           NEW ds, NEW sent, IsRelay(received, tlvs, ds, sent)
    PROVE  /\ IsAddressed(Ds, sent)
           /\ ~EndEmpty(tlvs) => IsSent(Ds, sent)
           /\ sent.suffix = tlvs
           /\ TakeAnnounce(Ds, sent).time_properties = ds.time_properties
           /\ TakeAnnounce(Ds, sent).parent = ds.parent
           /\ sent.body.steps_removed = AsU16(received.body.steps_removed + 1)
<1>0. PICK tp, body : tp = TimeProperties(received) /\ body = received.body
  OBVIOUS
<1>1. PICK parent, steps :
         /\ parent = [grandmaster_identity |-> body.grandmaster_identity,
                      grandmaster_clock_quality |-> body.grandmaster_clock_quality,
                      grandmaster_priority_1 |-> body.grandmaster_priority_1,
                      grandmaster_priority_2 |-> body.grandmaster_priority_2]
         /\ steps = AsU16(body.steps_removed + 1)
  OBVIOUS
<1>2. ds = [default_ds |-> Ds, steps_removed |-> steps, parent |-> parent,
            time_properties |-> tp]
  BY <1>0, <1>1, Zenon DEF TakeAnnounce, IsRelay
<1>3. ds.default_ds = Ds /\ ds.steps_removed = steps /\ ds.parent = parent
      /\ ds.time_properties = tp
  BY <1>2
<1>4. steps \in Int
  BY <1>0, <1>1 DEF AsU16
<1>5. /\ body.current_utc_offset \in Int /\ body.grandmaster_priority_1 \in Int
      /\ body.grandmaster_priority_2 \in Int /\ body.grandmaster_identity \in Int
      /\ body.grandmaster_clock_quality \in ValuesOf("clock_quality")
      /\ IsMember("clock_quality", body.grandmaster_clock_quality)
      /\ body.time_source \in ValuesOf("time_source")
      /\ IsMember("time_source", body.time_source)
  <2>1. \A name \in {"current_utc_offset", "grandmaster_priority_1", "grandmaster_priority_2",
                     "grandmaster_identity"} :
           name \in DOMAIN AnnounceTypes /\ ValuesOf(AnnounceTypes[name]) = Int
    BY DEF AnnounceTypes, ValuesOf
  <2>2. /\ "grandmaster_clock_quality" \in DOMAIN AnnounceTypes
        /\ AnnounceTypes["grandmaster_clock_quality"] = "clock_quality"
        /\ "time_source" \in DOMAIN AnnounceTypes /\ AnnounceTypes["time_source"] = "time_source"
    BY DEF AnnounceTypes
  <2> QED BY <1>0, <2>1, <2>2 DEF IsAnnounceBody
<1>6. /\ tp.flags \in SUBSET TimeFlags /\ tp.time_source = body.time_source
      /\ tp.current_utc_offset \in Int
  <2>1. PICK offset, leap, flags :
           /\ offset = IF "current_utc_offset_valid" \in received.header.flags
                       THEN received.body.current_utc_offset ELSE NoOffset
           /\ leap = CASE "leap59" \in received.header.flags -> "leap59"
                       [] "leap59" \notin received.header.flags
                          /\ "leap61" \in received.header.flags -> "leap61"
                       [] OTHER -> "no_leap"
           /\ flags = received.header.flags \intersect TimeFlags
    OBVIOUS
  <2>2. tp = [current_utc_offset |-> offset, leap_indicator |-> leap, flags |-> flags,
              time_source |-> received.body.time_source]
    BY <1>0, <2>1, Zenon DEF TimeProperties, TimeFlags
  <2>3. offset \in Int
    BY <1>0, <1>5, <2>1 DEF NoOffset
  <2> QED BY <1>0, <2>1, <2>2, <2>3
<1>7. PICK b, header, offset, new :
         /\ b = BaseHeader(Ds, Slave, 1, 1)
         /\ header = [b EXCEPT !.flags = AnnounceFlags(tp)]
         /\ offset = IF tp.current_utc_offset = NoOffset THEN 0 ELSE tp.current_utc_offset
         /\ new = [origin_timestamp |-> ZeroTimestamp, current_utc_offset |-> offset,
                   grandmaster_priority_1 |-> parent.grandmaster_priority_1,
                   grandmaster_clock_quality |-> parent.grandmaster_clock_quality,
                   grandmaster_priority_2 |-> parent.grandmaster_priority_2,
                   grandmaster_identity |-> parent.grandmaster_identity,
                   steps_removed |-> steps, time_source |-> tp.time_source]
  OBVIOUS
<1>8. AnnounceMessage(ds, Slave, 1, 1) = Message("Announce", header, new)
  BY <1>3, <1>7, Zenon DEF AnnounceMessage
<1>9. sent = [header |-> header, kind |-> "Announce", body |-> new, suffix |-> tlvs]
  BY <1>8 DEF Message, IsRelay
<1>10. sent.header = header /\ sent.kind = "Announce" /\ sent.body = new /\ sent.suffix = tlvs
  BY <1>9
<1>11. IsExchangeHeader(header) /\ header.flags = AnnounceFlags(tp)
  <2>1. Slave \in PortIdentities /\ 1 \in Int
    BY DEF Slave, PortIdentities
  <2>2. IsExchangeHeader(b)
    BY <1>7, <2>1, BaseHeaderIsOne
  <2>3. AnnounceFlags(tp) \in SUBSET Flags
    BY <1>6, FlagsOfTimeProperties
  <2>4. IsExchangeHeader(header)
    BY <1>7, <2>2, <2>3, ChangedHeader
  <2>5. header.flags = AnnounceFlags(tp)
    BY <1>7, <2>2 DEF IsExchangeHeader, Headers
  <2> QED BY <2>4, <2>5
<1>12. /\ parent.grandmaster_priority_1 = body.grandmaster_priority_1
       /\ parent.grandmaster_priority_2 = body.grandmaster_priority_2
       /\ parent.grandmaster_identity = body.grandmaster_identity
       /\ parent.grandmaster_clock_quality = body.grandmaster_clock_quality
  BY <1>1
<1>13. /\ DOMAIN new = DOMAIN AnnounceTypes
       /\ new.current_utc_offset = offset /\ new.steps_removed = steps
       /\ new.origin_timestamp = ZeroTimestamp
       /\ new.grandmaster_priority_1 = body.grandmaster_priority_1
       /\ new.grandmaster_priority_2 = body.grandmaster_priority_2
       /\ new.grandmaster_identity = body.grandmaster_identity
       /\ new.grandmaster_clock_quality = body.grandmaster_clock_quality
       /\ new.time_source = body.time_source
  BY <1>6, <1>7, <1>12 DEF AnnounceTypes
<1>14. IsAnnounceBody(new)
  <2>1. offset \in Int
    BY <1>6, <1>7
  <2>2. /\ ValuesOf("u16") = Int /\ ValuesOf("u8") = Int /\ ValuesOf("clock_identity") = Int
        /\ ZeroTimestamp \in ValuesOf("timestamp")
    BY DEF ValuesOf, ZeroTimestamp
  <2>3. \A v : /\ IsMember("u16", v) /\ IsMember("u8", v) /\ IsMember("clock_identity", v)
               /\ IsMember("timestamp", v)
    BY DEF IsMember
  <2>4. /\ DOMAIN AnnounceTypes = {"origin_timestamp", "current_utc_offset",
              "grandmaster_priority_1", "grandmaster_clock_quality", "grandmaster_priority_2",
              "grandmaster_identity", "steps_removed", "time_source"}
        /\ AnnounceTypes["origin_timestamp"] = "timestamp"
        /\ AnnounceTypes["current_utc_offset"] = "u16"
        /\ AnnounceTypes["steps_removed"] = "u16"
        /\ AnnounceTypes["grandmaster_priority_1"] = "u8"
        /\ AnnounceTypes["grandmaster_priority_2"] = "u8"
        /\ AnnounceTypes["grandmaster_identity"] = "clock_identity"
        /\ AnnounceTypes["grandmaster_clock_quality"] = "clock_quality"
        /\ AnnounceTypes["time_source"] = "time_source"
    BY DEF AnnounceTypes
  <2> QED BY <1>4, <1>5, <1>13, <2>1, <2>2, <2>3, <2>4 DEF IsAnnounceBody
<1>15. IsAddressed(Ds, sent) /\ (~EndEmpty(tlvs) => IsSent(Ds, sent))
  <2>1. PICK table : table = BodyOf["Announce"].writes
    OBVIOUS
  <2>2. /\ "Announce" \in MessageTypes /\ DOMAIN table = DOMAIN AnnounceTypes
        /\ \A name \in DOMAIN table : table[name][2] = AnnounceTypes[name]
    BY <2>1, AnnounceTable, Zenon
  <2>3. \A name \in DOMAIN table :
           new[name] \in ValuesOf(table[name][2]) /\ IsMember(table[name][2], new[name])
    BY <1>14, <2>2, Zenon DEF IsAnnounceBody
  <2>4. new = [name \in DOMAIN table |-> new[name]]
    <3>1. new = [name \in DOMAIN new |-> new[name]]
      BY <1>7
    <3> QED BY <1>13, <2>2, <3>1, Zenon
  <2>5. sent = [header |-> sent.header, kind |-> sent.kind, body |-> sent.body,
                suffix |-> sent.suffix]
    BY <1>9, <1>10, Zenon
  <2>6. IsAddressed(Ds, sent)
    BY <1>10, <1>11, <2>1, <2>2, <2>3, <2>4, <2>5, Zenon DEF IsAddressed, IsExchangeHeader
  <2> QED BY <1>10, <2>1, <2>3, <2>6, Zenon DEF IsSent, IsMessage
<1>16. TimeProperties(sent) = tp
  <2>1. /\ sent.header.flags = AnnounceFlags(tp) /\ sent.body.time_source = tp.time_source
        /\ sent.body.current_utc_offset = IF tp.current_utc_offset = NoOffset
                                          THEN 0 ELSE tp.current_utc_offset
    BY <1>6, <1>7, <1>10, <1>11, <1>13
  <2> QED BY <1>0, <2>1, TimePropertiesReturn
<1>17. TakeAnnounce(Ds, sent).time_properties = TimeProperties(sent)
  BY DEF TakeAnnounce
<1>18. TakeAnnounce(Ds, sent).parent = parent
  <2>1. TakeAnnounce(Ds, sent).parent =
           [grandmaster_identity |-> sent.body.grandmaster_identity,
            grandmaster_clock_quality |-> sent.body.grandmaster_clock_quality,
            grandmaster_priority_1 |-> sent.body.grandmaster_priority_1,
            grandmaster_priority_2 |-> sent.body.grandmaster_priority_2]
    BY DEF TakeAnnounce
  <2> QED BY <1>1, <1>10, <1>13, <2>1
<1> QED BY <1>0, <1>1, <1>3, <1>10, <1>13, <1>15, <1>16, <1>17, <1>18

(* The TLVs that go on, of TLVs that have been received *)
LEMMA PropagatedReturn ==
    ASSUME NEW tlvs, AreTlvs(tlvs), ~EndEmpty(tlvs), AreTlvs(PropagatedOf(tlvs))
    PROVE  /\ PropagatedOf(TlvsOf(TlvOctets(tlvs))) = PropagatedOf(tlvs)
           /\ ~EndEmpty(PropagatedOf(tlvs)) =>
                 PropagatedOf(TlvsOf(TlvOctets(PropagatedOf(tlvs)))) = PropagatedOf(tlvs)
<1>1. TlvsOf(TlvOctets(tlvs)) = tlvs
  BY TlvsAreRead
<1>2. ~EndEmpty(PropagatedOf(tlvs)) =>
         TlvsOf(TlvOctets(PropagatedOf(tlvs))) = PropagatedOf(tlvs)
  BY TlvsAreRead
<1>3. tlvs \in Seq(WireTlvs)
  BY DEF AreTlvs
<1>4. PropagatedOf(tlvs) \in Seq({tlv \in WireTlvs : GoesOn(tlv)})
  BY <1>3, PropagatedGoOn
<1>5. PropagatedOf(PropagatedOf(tlvs)) = PropagatedOf(tlvs)
  BY <1>4, AllGoOn
<1> QED BY <1>1, <1>2, <1>5, Zenon

(* Whatever a parent announces, with any codes, flags, steps and TLVs:     *)
(* what a boundary clock passes on is understood as it has understood it   *)
(* itself, with one step more in 16 bits; or, when the TLVs that go on end *)
(* in an empty one, it is refused.                                         *)
THEOREM AnnounceIsRelayed == RelaysAnnounce
<1>1. SUFFICES ASSUME input.of = "announce", IsRelayed(Ds, input.message)
               PROVE  LET received == ParseAndFilter(Ds, Serialize(input.message))
                          ds == TakeAnnounce(Ds, received)
                          sent == [AnnounceMessage(ds, Slave, 1, 1)
                                      EXCEPT !.suffix = Propagated(received)]
                          read == ParseAndFilter(Ds, Serialize(sent))
                      IN  IF EndEmpty(sent.suffix) THEN read = Refused("BufferTooShort")
                          ELSE /\ TakeAnnounce(Ds, read).time_properties = ds.time_properties
                               /\ TakeAnnounce(Ds, read).parent = ds.parent
                               /\ Propagated(read) = sent.suffix
                               /\ read.body.steps_removed
                                     = AsU16(received.body.steps_removed + 1)
  BY Zenon DEF RelaysAnnounce
<1>2. PICK m, received, ds, sent, read, tlvs :
         /\ m = input.message /\ received = ParseAndFilter(Ds, Serialize(input.message))
         /\ ds = TakeAnnounce(Ds, received)
         /\ sent = [AnnounceMessage(ds, Slave, 1, 1) EXCEPT !.suffix = Propagated(received)]
         /\ read = ParseAndFilter(Ds, Serialize(sent))
         /\ tlvs = PropagatedOf(m.suffix)
  OBVIOUS
<1>3. /\ IsMessage(Ds, m) /\ m.kind = "Announce"
      /\ AreSendable(tlvs, "Announce")
  BY <1>1, <1>2, Zenon DEF IsRelayed
<1>4. AreTlvs(m.suffix) /\ ~EndEmpty(m.suffix) /\ AreTlvs(tlvs) /\ IsAddressed(Ds, m)
  <2>1. IsAddressed(Ds, m) /\ ~EndEmpty(m.suffix)
    BY <1>3 DEF IsMessage
  <2>2. AreTlvs(m.suffix)
    BY <2>1 DEF IsAddressed, AreSendable
  <2>3. AreTlvs(tlvs)
    BY <1>3 DEF AreSendable
  <2> QED BY <2>1, <2>2, <2>3
<1>5. received = ReadMessage(m)
  BY <1>2, <1>4, AddressedIsReadAlone
<1>6. IsAnnounceBody(received.body) /\ received.body.steps_removed \in Int
  <2>1. IsAnnounceBody(received.body)
    BY <1>3, <1>5, AnnounceIsRead
  <2>2. /\ "steps_removed" \in DOMAIN AnnounceTypes
        /\ ValuesOf(AnnounceTypes["steps_removed"]) = Int
    BY DEF AnnounceTypes, ValuesOf
  <2> QED BY <2>1, <2>2 DEF IsAnnounceBody
<1>7. Propagated(received) = tlvs
  <2>1. received.suffix = TlvOctets(m.suffix)
    BY <1>5 DEF ReadMessage
  <2> QED BY <1>2, <1>4, <2>1, PropagatedReturn DEF Propagated
<1>8. /\ IsAddressed(Ds, sent) /\ (~EndEmpty(tlvs) => IsSent(Ds, sent)) /\ sent.suffix = tlvs
      /\ TakeAnnounce(Ds, sent).time_properties = ds.time_properties
      /\ TakeAnnounce(Ds, sent).parent = ds.parent
      /\ sent.body.steps_removed = AsU16(received.body.steps_removed + 1)
  <2>1. IsRelay(received, tlvs, ds, sent)
    BY <1>2, <1>7, Zenon DEF IsRelay
  <2> QED BY <1>3, <1>6, <2>1, RelayedIsSent
<1>9. CASE EndEmpty(tlvs)
  <2>1. read = Refused("BufferTooShort")
    BY <1>2, <1>8, <1>9, AddressedIsReadAlone
  <2> QED BY <1>2, <1>8, <1>9, <2>1, Zenon
<1>10. CASE ~EndEmpty(tlvs)
  <2>1. read = [sent EXCEPT !.suffix = TlvOctets(tlvs)]
    <3>1. ParseAndFilter(Ds, Serialize(sent)) = [sent EXCEPT !.suffix = TlvOctets(sent.suffix)]
      BY <1>8, <1>10, SentIsReadAlone
    <3> QED BY <1>2, <1>8, <3>1, Zenon
  <2>2. read.header = sent.header /\ read.body = sent.body /\ read.suffix = TlvOctets(tlvs)
    <3>1. sent = [header |-> sent.header, kind |-> sent.kind, body |-> sent.body,
                  suffix |-> sent.suffix]
      BY <1>8 DEF IsAddressed
    <3> QED BY <2>1, <3>1
  <2>3. TakeAnnounce(Ds, read) = TakeAnnounce(Ds, sent)
    <3>1. TimeProperties(read) = TimeProperties(sent)
      BY <2>2, Zenon DEF TimeProperties
    <3> QED BY <2>2, <3>1, Zenon DEF TakeAnnounce
  <2>4. Propagated(read) = tlvs
    BY <1>2, <1>4, <1>10, <2>2, PropagatedReturn DEF Propagated
  <2> QED BY <1>2, <1>8, <1>10, <2>2, <2>3, <2>4, Zenon
<1> QED BY <1>9, <1>10
=============================================================================
