------------------------------ MODULE Stm32App ------------------------------
(***************************************************************************)
(* The application for the stm32 (statime-stm32/src/main.rs and port.rs):  *)
(* one port that several tasks share behind a lock, a task that has the    *)
(* timers and gets its orders through a channel, and a task that waits for *)
(* the time stamps of the event messages that were sent.                   *)
(*                                                                         *)
(* Tasks of priority 1 (the BMCA, event messages) interrupt those of       *)
(* priority 0 (the others) everywhere except under the lock of ptp_port,   *)
(* so what is done under one lock is one action.  When a timer elapses and *)
(* what messages arrive are choices, and so are the delays of timers: only *)
(* that one was asked for matters.  A panic stops the device.              *)
(***************************************************************************)
EXTENDS Integers, Sequences, SequencesExt

CONSTANTS
    TimerCapacity,     \* of the channel of timer resets: 4
    PacketIdCapacity,  \* of the channel of packet ids: 16
    Tries              \* how often a time stamp is asked for again: 10

ASSUME Stm32AppAssumption ==
    TimerCapacity \in Nat \ {0} /\ PacketIdCapacity \in Nat \ {0} /\ Tries \in Nat

TimerNames == {"Announce", "Sync", "DelayRequest", "AnnounceReceipt", "FilterUpdate"}
Contexts == {"Sync", "DelayReq", "PDelayResp"}

VARIABLES
    mode,        \* PortState of the application: "InBmca", "Running"
    port_state,  \* PortState of the library, of a single E2E port
    pending,     \* lifecycle.pending_action
    timers,      \* the timers that run, and were asked to
    resets,      \* the channel of timer resets
    packet_ids,  \* the channel of packet ids: their time stamp contexts
    listener,    \* tx_timestamp_listener: where it is, for what, tries left
    halted       \* a task has panicked

appVars == <<mode, port_state, pending, timers, resets, packet_ids, listener, halted>>

Idle == [at |-> "recv", context |-> "", tries |-> 0]

-----------------------------------------------------------------------------
(* PortAction.  What a general message says does not matter here. *)
Reset(timer) == [type |-> "Reset", name |-> timer]
SendEvent(context) == [type |-> "SendEvent", name |-> context]
SendGeneral == [type |-> "SendGeneral", name |-> ""]

(* init: the timers have delays of 24 hours, which stand for none, and the *)
(* port has its first action pending (Port::new).                          *)
AppInit ==
    /\ mode = "InBmca" /\ port_state = "Listening"
    /\ pending = <<Reset("AnnounceReceipt")>>
    /\ timers = {} /\ resets = <<>> /\ packet_ids = <<>>
    /\ listener = Idle /\ halted = FALSE

TrySendOrDrop(channels, action) ==
    IF Len(channels.resets) < TimerCapacity
    THEN [channels EXCEPT !.resets = Append(@, action.name)] ELSE channels

(* timer_sender.try_send, unwrapped *)
TrySend(channels, action) ==
    IF Len(channels.resets) < TimerCapacity
    THEN [channels EXCEPT !.resets = Append(@, action.name)]
    ELSE [channels EXCEPT !.halted = TRUE]

(* packet_id_sender.try_send, unwrapped *)
TrySendId(channels, action) ==
    IF Len(channels.packet_ids) < PacketIdCapacity
    THEN [channels EXCEPT !.packet_ids = Append(@, action.name)]
    ELSE [channels EXCEPT !.halted = TRUE]

(* One action; a message that could not be sent (accepted) is logged and   *)
(* has no id, and nothing is done any more after a panic.                  *)
HandlePortAction(channels, action, accepted) ==
    CASE channels.halted \/ action.type = "SendGeneral" -> channels
      [] ~channels.halted /\ action.type = "Reset" -> TrySend(channels, action)
      [] ~channels.halted /\ action.type = "SendEvent" ->
            IF accepted THEN TrySendId(channels, action) ELSE channels

(* handle_port_actions, one after the other *)
HandlePortActions(actions, accepted) ==
    LET handled[i \in 0..Len(actions)] ==
            IF i = 0 THEN [resets |-> resets, packet_ids |-> packet_ids, halted |-> FALSE]
            ELSE HandlePortAction(handled[i - 1], actions[i], accepted)
        end == handled[Len(actions)]
    IN  resets' = end.resets /\ packet_ids' = end.packet_ids /\ halted' = end.halted

(* take_running and set_running *)
IsRunning == mode = "Running"

(* take_running, a handler of the library with the state and the actions   *)
(* that come out of it, and set_running.                                   *)
WithRunningPort(newState, actions, accepted) ==
    /\ ~halted
    /\ IF IsRunning
       THEN port_state' = newState /\ HandlePortActions(actions, accepted)
       ELSE halted' = TRUE /\ UNCHANGED <<port_state, resets, packet_ids>>
    /\ UNCHANGED <<mode, pending>>

-----------------------------------------------------------------------------
(* What the handlers of the library ask for. *)

(* A measurement makes the filter steer or step the clock. *)
Measured == IF port_state = "Slave" THEN {<<>>, <<Reset("FilterUpdate")>>} ELSE {<<>>}

(* handle_general_receive: an announce message that is registered, a       *)
(* FollowUp, a DelayResp, or a message of no interest.  A port with the    *)
(* end-to-end mechanism sends no peer delay requests, and ignores answers. *)
GeneralActions == Measured \union {<<Reset("AnnounceReceipt")>>}

(* handle_event_receive: a Sync; a DelayReq, that a master answers; a      *)
(* PDelayReq, that every port answers; and what is no event message is     *)
(* handled as if it came in the other way.                                 *)
EventActions ==
    GeneralActions \union {<<SendEvent("PDelayResp")>>}
    \union (IF port_state = "Master" THEN {<<SendGeneral>>} ELSE {})

(* handle_send_timestamp: a FollowUp of a master, a measurement, or the    *)
(* follow up of a peer delay response.                                     *)
SendTimestampActions(context) ==
    CASE context = "Sync" -> {IF port_state = "Master" THEN <<SendGeneral>> ELSE <<>>}
      [] context = "DelayReq" -> Measured
      [] context = "PDelayResp" -> {<<SendGeneral>>}

(* handle_timer: the port is not slave_only, so it becomes a master when   *)
(* it hears no announce messages.                                          *)
TimerActions(timer) ==
    CASE timer = "Announce" -> IF port_state = "Master"
                               THEN <<Reset("Announce"), SendGeneral>> ELSE <<>>
      [] timer = "Sync" -> IF port_state = "Master"
                           THEN <<Reset("Sync"), SendEvent("Sync")>> ELSE <<>>
      [] timer = "DelayRequest" -> IF port_state = "Slave"
                                   THEN <<Reset("DelayRequest"), SendEvent("DelayReq")>> ELSE <<>>
      [] timer = "AnnounceReceipt" -> <<Reset("Announce"), Reset("Sync")>>
      [] timer = "FilterUpdate" -> <<>>

AfterTimer(timer) == IF timer = "AnnounceReceipt" THEN "Master" ELSE port_state

(* bmca() with a single port: what may be recommended, and the actions     *)
(* that then are pending.  No announce message is handled before the first *)
(* run, which leaves the port as it is.                                    *)
Recommended ==
    {[state |-> port_state, pending |-> pending]}
    \union (IF mode = "InBmca" THEN {} ELSE
              {[state |-> "Slave",
                pending |-> <<Reset("AnnounceReceipt"), Reset("DelayRequest")>>]})
    \union (IF mode = "InBmca" \/ port_state = "Master" THEN {} ELSE
              {[state |-> "Master", pending |-> <<Reset("Announce"), Reset("Sync")>>]})

-----------------------------------------------------------------------------
(* make_bmca_mode and make_running: the port is there in either mode. *)
MakeRunning == mode' = "Running" /\ pending' = <<>>

PerformBmca(recommended) ==
    /\ MakeRunning
    /\ port_state' = recommended.state
    /\ HandlePortActions(recommended.pending, TRUE)

InstanceBmca(recommended) ==
    /\ ~halted
    /\ PerformBmca(recommended)
    /\ UNCHANGED <<timers, listener>>

(* event_listen and general_listen *)
EventListen(actions, accepted) ==
    /\ WithRunningPort(port_state, actions, accepted)
    /\ UNCHANGED <<timers, listener>>

GeneralListen(actions) ==
    /\ WithRunningPort(port_state, actions, TRUE)
    /\ UNCHANGED <<timers, listener>>

(* statime_timers: a timer that has elapsed goes before any reset. *)
TimerElapses(timer, accepted) ==
    /\ timer \in timers
    /\ timers' = timers \ {timer}
    /\ WithRunningPort(AfterTimer(timer), TimerActions(timer), accepted)
    /\ UNCHANGED listener

TakeReset ==
    /\ ~halted /\ resets # <<>>
    /\ timers' = timers \union {Head(resets)}
    /\ resets' = Tail(resets)
    /\ UNCHANGED <<mode, port_state, pending, packet_ids, listener, halted>>

(* tx_timestamp_listener: the next packet id *)
TakePacketId ==
    /\ ~halted /\ listener.at = "recv" /\ packet_ids # <<>>
    /\ listener' = [at |-> "poll", context |-> Head(packet_ids), tries |-> Tries]
    /\ packet_ids' = Tail(packet_ids)
    /\ UNCHANGED <<mode, port_state, pending, timers, resets, halted>>

(* poll_tx_timestamp: the packet may not be sent yet, or its descriptor be *)
(* used for a later one already.                                           *)
PollTimestamp(found) ==
    /\ ~halted /\ listener.at = "poll"
    /\ listener' = CASE found -> [listener EXCEPT !.at = "handle", !.tries = 0]
                     [] ~found /\ listener.tries > 0 ->
                            [listener EXCEPT !.at = "wait", !.tries = @ - 1]
                     [] ~found /\ listener.tries = 0 -> Idle
    /\ UNCHANGED <<mode, port_state, pending, timers, resets, packet_ids, halted>>

(* eth_interrupt, after any packet was sent *)
TxInterrupt ==
    /\ ~halted /\ listener.at = "wait"
    /\ listener' = [listener EXCEPT !.at = "poll"]
    /\ UNCHANGED <<mode, port_state, pending, timers, resets, packet_ids, halted>>

HandleSendTimestamp(actions) ==
    /\ listener.at = "handle"
    /\ listener' = Idle
    /\ WithRunningPort(port_state, actions, TRUE)
    /\ UNCHANGED timers

AppNext ==
    \/ \E recommended \in Recommended : InstanceBmca(recommended)
    \/ \E actions \in EventActions, accepted \in BOOLEAN : EventListen(actions, accepted)
    \/ \E actions \in GeneralActions : GeneralListen(actions)
    \/ \E timer \in TimerNames, accepted \in BOOLEAN : TimerElapses(timer, accepted)
    \/ TakeReset \/ TakePacketId \/ TxInterrupt
    \/ \E found \in BOOLEAN : PollTimestamp(found)
    \/ \E context \in Contexts : \E actions \in SendTimestampActions(context) :
          listener.context = context /\ HandleSendTimestamp(actions)

AppSpec == AppInit /\ [][AppNext]_appVars

-----------------------------------------------------------------------------
(* No request for a timer is lost on its way between the tasks: the timers *)
(* that the duties of the port depend on run, or the order to start them   *)
(* is in the channel, at every moment until a full channel stops the       *)
(* device as a whole.                                                      *)
Scheduled == timers \union ToSet(resets)

DutiesAreScheduled ==
    mode = "Running" /\ ~halted =>
        CASE port_state = "Master" -> {"Announce", "Sync"} \subseteq Scheduled
          [] port_state = "Slave" -> {"DelayRequest", "AnnounceReceipt"} \subseteq Scheduled
          [] port_state = "Listening" -> "AnnounceReceipt" \in Scheduled
=============================================================================
