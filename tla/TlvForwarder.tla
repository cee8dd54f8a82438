---------------------------- MODULE TlvForwarder ----------------------------
(***************************************************************************)
(* TLVs of announce messages on their way through the instance: a port     *)
(* that registers an announce message hands its TLVs to a broadcast        *)
(* channel (statime-linux/src/tlvforwarder.rs) of which every port task    *)
(* has a receiver, and a master port takes them from there into its own    *)
(* announce messages (send_announce of statime/src/port/master.rs).        *)
(*                                                                         *)
(* TLVs are numbered in the order in which they are forwarded.             *)
(***************************************************************************)
EXTENDS Integers, Sequences, SequencesExt

CONSTANTS
    Ports,
    Ethernet,   \* the ports that ethernet_port_task runs
    Senders,    \* port identities that send us announce messages
    Sizes,      \* wire sizes of TLVs
    Margins,    \* room for TLVs in an announce message, after the path trace
    PathTraceEnabled, \* path_trace_ds.enable
    Capacity,   \* of the broadcast channel (128)
    MaxTlvs,    \* bound: TLVs that are forwarded
    None

ASSUME TlvForwarderAssumption ==
    /\ Ethernet \subseteq Ports
    /\ Sizes \subseteq Nat \ {0} /\ Margins \subseteq Nat
    /\ PathTraceEnabled \in BOOLEAN
    /\ Capacity \in Nat \ {0} /\ MaxTlvs \in Nat

VARIABLES
    port_state,      \* "Master", or "Other"
    parent,          \* parent_ds.parent_port_identity
    stopped,         \* ports whose task has not resumed after the BMCA
    receiver,        \* what each port's receiver has yet to deliver
    peek,            \* the TLV that was received but not taken, or None
    forwarded,       \* number of TLVs forwarded
    sent,            \* history: the TLVs each port has put into announces
    failed           \* whether the assertion of send_announce has failed

vars == <<port_state, parent, stopped, receiver, peek, forwarded, sent, failed>>

Init ==
    /\ port_state = [p \in Ports |-> "Other"]
    /\ parent \in Senders
    /\ stopped = Ports
    /\ receiver = [p \in Ports |-> <<>>] /\ peek = [p \in Ports |-> None]
    /\ forwarded = 0
    /\ sent = [p \in Ports |-> <<>>]
    /\ failed = FALSE

-----------------------------------------------------------------------------
(* The broadcast channel: a receiver that lags behind loses the oldest. *)
Broadcast(queue, tlv) ==
    IF Len(queue) < Capacity THEN Append(queue, tlv) ELSE Append(Tail(queue), tlv)

(* forward: a port p registers an announce message with a TLV that is to   *)
(* be propagated.                                                          *)
Forward(p, sender, size, path_trace) ==
    LET tlv == [id |-> forwarded, sender_identity |-> sender, size |-> size,
                path_trace |-> path_trace]
    IN  /\ ~failed /\ p \notin stopped
        /\ forwarded < MaxTlvs
        /\ forwarded' = forwarded + 1
        /\ receiver' = [q \in Ports |-> Broadcast(receiver[q], tlv)]
        /\ UNCHANGED <<port_state, parent, stopped, peek, sent, failed>>

(* What next_if_smaller can deliver. *)
Queue(p) == (IF peek[p] = None THEN <<>> ELSE <<peek[p]>>) \o receiver[p]

-----------------------------------------------------------------------------
(* Only our parent's TLVs go on, and the path trace has its own. *)
Propagates(tlv) ==
    tlv.sender_identity = parent /\ ~(PathTraceEnabled /\ tlv.path_trace)

(* One turn of the loop in send_announce: the TLV goes into the message if *)
(* it is to be propagated; done is set when it is too large for what is left,  *)
(* and failed when tlv.size() < tlv_margin does not hold.                  *)
TakeTlv(state, tlv) ==
    CASE state.done \/ state.failed -> state
      [] ~state.done /\ ~state.failed /\ tlv.size > state.margin ->
            [state EXCEPT !.done = TRUE]
      [] ~state.done /\ ~state.failed /\ tlv.size = state.margin ->
            [state EXCEPT !.failed = TRUE]
      [] OTHER ->
            IF Propagates(tlv)
            THEN [state EXCEPT !.taken = @ + 1, !.margin = @ - tlv.size,
                               !.message = Append(@, tlv.id)]
            ELSE [state EXCEPT !.taken = @ + 1]

(* The loop, over all that next_if_smaller could deliver. *)
TakeTlvs(queue, margin) ==
    LET turn[i \in 0..Len(queue)] ==
            IF i = 0 THEN [margin |-> margin, message |-> <<>>, taken |-> 0,
                           done |-> FALSE, failed |-> FALSE]
            ELSE TakeTlv(turn[i - 1], queue[i])
    IN  turn[Len(queue)]

PeekNotTaken(queue, n) == IF n < Len(queue) THEN queue[n + 1] ELSE Last(queue)

(* The TLV that was too large stays in peek. *)
PeekAfter(queue, n) == IF n < Len(queue) THEN queue[n + 1] ELSE None

(* send_announce, with next_if_smaller; the assertion ends the process. *)
SendAnnounce(p, margin) ==
    LET queue == Queue(p)
        end == TakeTlvs(queue, margin)
    IN  /\ ~failed /\ p \notin stopped /\ port_state[p] = "Master"
        /\ queue # <<>>
        /\ failed' = end.failed
        /\ peek' = [peek EXCEPT ![p] = PeekAfter(queue, end.taken)]
        /\ receiver' = [receiver EXCEPT ![p] = SubSeq(queue, end.taken + 2, Len(queue))]
        /\ sent' = [sent EXCEPT ![p] = @ \o end.message]
        /\ UNCHANGED <<port_state, parent, stopped, forwarded>>

(* handle_announce_receipt_timer makes a port a master between BMCA runs. *)
AnnounceReceiptTimer(p) ==
    /\ ~failed /\ p \notin stopped /\ port_state[p] # "Master"
    /\ port_state' = [port_state EXCEPT ![p] = "Master"]
    /\ UNCHANGED <<parent, stopped, receiver, peek, forwarded, sent, failed>>

(* The BMCA stops the port tasks, and may change states and the parent. *)
Bmca(states, newParent) ==
    /\ ~failed /\ stopped = {}
    /\ stopped' = Ports
    /\ port_state' = states /\ parent' = newParent
    /\ UNCHANGED <<receiver, peek, forwarded, sent, failed>>

(* A port task resumes; ethernet_port_task calls empty() first when the    *)
(* port is a master.                                                       *)
Resume(p) ==
    LET empties == p \in Ethernet /\ port_state[p] = "Master" IN
    /\ ~failed /\ p \in stopped
    /\ stopped' = stopped \ {p}
    /\ receiver' = IF empties THEN [receiver EXCEPT ![p] = <<>>] ELSE receiver
    /\ peek' = IF empties THEN [peek EXCEPT ![p] = None] ELSE peek
    /\ UNCHANGED <<port_state, parent, forwarded, sent, failed>>

Next ==
    \/ \E p \in Ports, sender \in Senders, size \in Sizes, path_trace \in BOOLEAN :
          Forward(p, sender, size, path_trace)
    \/ \E p \in Ports, margin \in Margins : SendAnnounce(p, margin)
    \/ \E states \in [Ports -> {"Master", "Other"}], newParent \in Senders :
          Bmca(states, newParent)
    \/ \E p \in Ports : AnnounceReceiptTimer(p) \/ Resume(p)

Spec == Init /\ [][Next]_vars

-----------------------------------------------------------------------------
(* What waits for a port is in the order in which it was forwarded, fits   *)
(* into the channel, and is later than all the port has sent: a TLV is put *)
(* into a port's announces at most once, in order, and the one that had to *)
(* wait in peek goes first.                                                *)
InOrderOnce ==
    \A p \in Ports :
        LET ids == sent[p] \o [i \in DOMAIN Queue(p) |-> Queue(p)[i].id] IN
        /\ Len(receiver[p]) <= Capacity
        /\ \A i \in 1..(Len(ids) - 1) : ids[i] < ids[i + 1]

(* A port that resumes after the BMCA and is no master keeps no TLVs. *)
ClearedUnlessMaster ==
    [][\A p \in Ethernet :
          Resume(p) /\ port_state[p] # "Master" => receiver'[p] = <<>> /\ peek'[p] = None]_vars
=============================================================================
