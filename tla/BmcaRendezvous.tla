--------------------------- MODULE BmcaRendezvous ---------------------------
(***************************************************************************)
(* The tasks of the Linux daemon (statime-linux/src/main.rs): one task per *)
(* port runs its port, and the main task stops them all at every BMCA      *)
(* interval, collects the ports, runs instance.bmca() on them and hands    *)
(* them back.  Ports travel through channels of capacity one; the order to *)
(* stop is a watch channel, of which a task sees the latest value only.    *)
(*                                                                         *)
(* Port k belongs to task k, which has its sockets and its timers.         *)
(***************************************************************************)
EXTENDS Integers, Sequences

CONSTANTS
    N,     \* number of ports
    None

ASSUME BmcaRendezvousAssumption == N \in Nat \ {0} /\ None \notin 1..N

Ports == 1..N

VARIABLES
    main,        \* where run() is: see Mains
    index,       \* the port run() receives or sends next
    bmca_ports,  \* the ports run() holds, in the order of the tasks
    bmca_notify, \* the watch channel: whether the port tasks have to stop
    task,        \* where each port task is: see Tasks
    port,        \* the port a task holds, or None
    to_task,     \* main_task_senders
    to_main      \* main_task_receivers

vars == <<main, index, bmca_ports, bmca_notify, task, port, to_task, to_main>>

Mains == {"start", "timer", "collect", "bmca", "return"}
Tasks == {"recv", "select", "handle", "send"}

Capacity == 1

(* main() has created the ports and sends them to their tasks. *)
Init ==
    /\ main = "start" /\ index = 1
    /\ bmca_ports = [k \in Ports |-> k]
    /\ bmca_notify = FALSE
    /\ task = [k \in Ports |-> "recv"]
    /\ port = [k \in Ports |-> None]
    /\ to_task = [k \in Ports |-> <<>>]
    /\ to_main = [k \in Ports |-> <<>>]

-----------------------------------------------------------------------------
(* The main task. *)

NextIndex == IF index = N THEN 1 ELSE index + 1

AllSentLate == index > N

(* The loops of run() end with the last port. *)
AllSent == index = N

AllReceivedEarly == index >= N - 1

AllReceived == index = N

ReturnedReversed(k) == bmca_ports[N + 1 - k]

(* The port that run() sends to task k: ports and senders are zipped. *)
Returned(k) == bmca_ports[k]

(* sender.send(port).await, at start and after the BMCA *)
SendPort ==
    /\ main \in {"start", "return"}
    /\ Len(to_task[index]) < Capacity
    /\ to_task' = [to_task EXCEPT ![index] = Append(@, Returned(index))]
    /\ index' = NextIndex
    /\ main' = IF AllSent THEN "timer" ELSE main
    /\ bmca_ports' = IF AllSent THEN <<>> ELSE bmca_ports
    /\ UNCHANGED <<bmca_notify, task, port, to_main>>

(* bmca_timer, and the order to stop *)
BmcaTimer ==
    /\ main = "timer"
    /\ bmca_notify' = TRUE
    /\ main' = "collect"
    /\ UNCHANGED <<index, bmca_ports, task, port, to_task, to_main>>

ReceivePortPulse ==
    /\ main = "collect"
    /\ to_main[index] # <<>>
    /\ to_main' = [to_main EXCEPT ![index] = Tail(@)]
    /\ bmca_ports' = Append(bmca_ports, Head(to_main[index]))
    /\ index' = NextIndex
    /\ main' = IF AllReceived THEN "bmca" ELSE main
    /\ bmca_notify' = FALSE
    /\ UNCHANGED <<task, port, to_task>>

(* receiver.recv().await, one port after the other *)
ReceivePort ==
    /\ main = "collect"
    /\ to_main[index] # <<>>
    /\ to_main' = [to_main EXCEPT ![index] = Tail(@)]
    /\ bmca_ports' = Append(bmca_ports, Head(to_main[index]))
    /\ index' = NextIndex
    /\ main' = IF AllReceived THEN "bmca" ELSE main
    /\ UNCHANGED <<bmca_notify, task, port, to_task>>

BmcaStillAsserted ==
    /\ main = "bmca"
    /\ main' = "return"
    /\ UNCHANGED <<bmca_notify, index, bmca_ports, task, port, to_task, to_main>>

(* All ports are here: the order to stop is taken back, and instance.bmca() *)
(* runs on them.                                                            *)
Bmca ==
    /\ main = "bmca"
    /\ bmca_notify' = FALSE
    /\ main' = "return"
    /\ UNCHANGED <<index, bmca_ports, task, port, to_task, to_main>>

-----------------------------------------------------------------------------
(* Task k: port_task and ethernet_port_task. *)

(* port_task_receiver.recv().await and end_bmca: the actions of the BMCA    *)
(* are handled first.                                                       *)
EndBmca(k) ==
    /\ task[k] = "recv"
    /\ to_task[k] # <<>>
    /\ to_task' = [to_task EXCEPT ![k] = Tail(@)]
    /\ port' = [port EXCEPT ![k] = Head(to_task[k])]
    /\ task' = [task EXCEPT ![k] = "handle"]
    /\ UNCHANGED <<main, index, bmca_ports, bmca_notify, to_main>>

(* One of the sockets or timers is ready, and the port handles it. *)
Select(k) ==
    /\ task[k] = "select"
    /\ task' = [task EXCEPT ![k] = "handle"]
    /\ UNCHANGED <<main, index, bmca_ports, bmca_notify, port, to_task, to_main>>

(* handle_actions, until no send timestamp is pending *)
HandleActions(k) ==
    /\ task[k] = "handle"
    /\ task' = [task EXCEPT ![k] = "select"]
    /\ UNCHANGED <<main, index, bmca_ports, bmca_notify, port, to_task, to_main>>

(* bmca_notify.wait_for(|v| *v) is the branch of the select that is taken. *)
StopForBmca(k) ==
    /\ task[k] = "select"
    /\ bmca_notify
    /\ task' = [task EXCEPT ![k] = "send"]
    /\ UNCHANGED <<main, index, bmca_ports, bmca_notify, port, to_task, to_main>>

(* start_bmca and port_task_sender.send(port_in_bmca).await *)
StartBmca(k) ==
    /\ task[k] = "send"
    /\ Len(to_main[k]) < Capacity
    /\ to_main' = [to_main EXCEPT ![k] = Append(@, port[k])]
    /\ port' = [port EXCEPT ![k] = None]
    /\ task' = [task EXCEPT ![k] = "recv"]
    /\ UNCHANGED <<main, index, bmca_ports, bmca_notify, to_task>>

Next ==
    \/ SendPort \/ BmcaTimer \/ ReceivePort \/ Bmca
    \/ \E k \in Ports :
          EndBmca(k) \/ Select(k) \/ HandleActions(k) \/ StopForBmca(k) \/ StartBmca(k)

Spec == Init /\ [][Next]_vars

(* Every task that can go on does, in the end.  A task may handle packets  *)
(* before it sees the order to stop, but select! polls its branches in a   *)
(* random order: a branch that is ready again and again is taken.          *)
Fairness ==
    /\ WF_vars(SendPort \/ BmcaTimer \/ ReceivePort \/ Bmca)
    /\ \A k \in Ports :
          /\ WF_vars(EndBmca(k) \/ HandleActions(k) \/ StartBmca(k))
          /\ SF_vars(StopForBmca(k))

FairSpec == Spec /\ Fairness

-----------------------------------------------------------------------------
TypeOK ==
    /\ main \in Mains /\ index \in Ports /\ bmca_notify \in BOOLEAN
    /\ bmca_ports \in Seq(Ports)
    /\ task \in [Ports -> Tasks] /\ port \in [Ports -> Ports \union {None}]
    /\ to_task \in [Ports -> Seq(Ports)] /\ to_main \in [Ports -> Seq(Ports)]

(* The BMCA stops the world: when instance.bmca() runs, and until the      *)
(* first port is handed back, no task has a port or is about to get one,   *)
(* and run() has each port once.                                           *)
StopTheWorld ==
    main = "bmca" \/ (main = "return" /\ index = 1) =>
        /\ \A k \in Ports : port[k] = None /\ to_task[k] = <<>> /\ to_main[k] = <<>>
        /\ bmca_ports = [k \in Ports |-> k]

(* A task runs its own port and no other, the one its sockets and timers   *)
(* belong to.                                                              *)
OwnPort ==
    \A k \in Ports :
        /\ port[k] \in {k, None}
        /\ task[k] \in {"select", "handle", "send"} <=> port[k] = k

(* A task stops once for an order: it does not send its port back while    *)
(* the ports are being handed out, or before the next order.               *)
StopsOnOrder ==
    \A k \in Ports : task[k] = "send" \/ to_main[k] # <<>> => main = "collect"

(* There is room in the channel buffer whenever a port is sent: neither    *)
(* run() nor a task ever waits to get rid of a port.                       *)
RoomInChannels ==
    /\ main \in {"start", "return"} => to_task[index] = <<>>
    /\ \A k \in Ports : task[k] = "send" => to_main[k] = <<>>

(* Port k is with its task, or has been since the last BMCA, or not yet.   *)
(* It is nowhere if another task has it or nobody has.                     *)
TurnOf(k) ==
    CASE port[k] = k -> "running"
      [] to_task[k] = <<k>> -> "before"
      [] to_main[k] = <<k>> -> "after"
      [] main \in {"start", "return"} /\ k >= index /\ bmca_ports[k] = k -> "before"
      [] main = "collect" /\ k < index /\ bmca_ports[k] = k -> "after"
      [] main = "bmca" /\ bmca_ports[k] = k -> "after"
      [] OTHER -> "nowhere"

AsRounds == INSTANCE BmcaRounds WITH turn <- [k \in Ports |-> TurnOf(k)]

(* The channels and the order to stop divide time into rounds: between two *)
(* runs of instance.bmca() every task has its own port once, and when bmca *)
(* runs they all have given it back, however late they see the order.      *)
ImplementsRounds == AsRounds!Spec

(* The BMCA runs again and again, and between its runs every port does: no *)
(* order of the messages between the tasks makes them wait for each other. *)
KeepsRunning ==
    /\ []<>(main = "bmca")
    /\ \A k \in Ports : []<>(task[k] = "select")
=============================================================================
