------------------------ MODULE Applications_proofs ------------------------
(***************************************************************************)
(* The two applications are safe for any number of port tasks              *)
(* (BmcaRendezvous) and any capacities of the channels (Stm32App).         *)
(*                                                                         *)
(* None of the properties is inductive.  For the exchange of ports of the  *)
(* daemon, what makes them hold together is that every port is at exactly  *)
(* one place, and that the place of port k follows from where run() and    *)
(* task k are (Whereabouts): run() holds the ports it has not yet handed   *)
(* out or has already collected, every other port is in one of the two     *)
(* channels of its task or with the task itself.                           *)
(*                                                                         *)
(* For the device it is that its only port listens, with its first timer   *)
(* pending, until the first bmca() (AppInv), and that handle_port_actions  *)
(* loses none of the resets it is given unless it stops the device, which  *)
(* is shown by induction over the actions (ActionsHandled).                *)
(***************************************************************************)
EXTENDS BmcaRendezvous, Stm32App, WellFoundedInduction, SequenceTheorems, TLAPS

-----------------------------------------------------------------------------
(* The exchange of ports of the daemon *)

(* run() holds port k. *)
HeldByMain(k) ==
    \/ main \in {"start", "return"} /\ index <= k
    \/ main = "collect" /\ k < index
    \/ main = "bmca"

(* The ports of run() are numbered in the order of the tasks. *)
MainPorts ==
    /\ \A i \in 1..Len(bmca_ports) : bmca_ports[i] = i
    /\ main \in {"start", "return", "bmca"} => Len(bmca_ports) = N
    /\ main = "collect" => Len(bmca_ports) = index - 1
    /\ main = "timer" => Len(bmca_ports) = 0
    /\ main \in {"timer", "bmca"} => index = 1
    /\ bmca_notify <=> main \in {"collect", "bmca"}

(* A port is at one place: with run(), on the way to its task, with its    *)
(* task, or on the way back.                                               *)
Whereabouts(k) ==
    \/ HeldByMain(k) /\ task[k] = "recv" /\ to_task[k] = <<>> /\ to_main[k] = <<>>
    \/ ~HeldByMain(k) /\ task[k] = "recv" /\ to_task[k] = <<k>> /\ to_main[k] = <<>>
    \/ ~HeldByMain(k) /\ task[k] # "recv" /\ to_task[k] = <<>> /\ to_main[k] = <<>>
    \/ ~HeldByMain(k) /\ task[k] = "recv" /\ to_task[k] = <<>> /\ to_main[k] = <<k>>

IInv ==
    /\ TypeOK
    /\ MainPorts
    /\ \A k \in Ports : Whereabouts(k)
    /\ OwnPort
    /\ StopsOnOrder

-----------------------------------------------------------------------------
(* Sending to and receiving from a channel that holds one port. *)
LEMMA OneElement ==
  ASSUME NEW S, NEW x \in S
  PROVE  /\ Append(<<>>, x) = <<x>>
         /\ Head(<<x>>) = x
         /\ Tail(<<x>>) = <<>>
         /\ Len(<<x>>) = 1
         /\ <<x>> # <<>>
         /\ <<x>> \in Seq(S)
         /\ <<>> \in Seq(S)
         /\ Len(<<>>) = 0
OBVIOUS

(* The initial states satisfy the invariant. *)
LEMMA InitIInv == Init => IInv
<1> SUFFICES ASSUME Init PROVE IInv
  OBVIOUS
<1>1. N \in Nat /\ 1 \in Ports /\ N >= 1
  BY BmcaRendezvousAssumption DEF Ports
<1>2. bmca_ports \in Seq(Ports) /\ Len(bmca_ports) = N
  BY <1>1 DEF Init, Ports
<1>3. TypeOK
  <2>1. <<>> \in Seq(Ports)
    BY <1>1, OneElement
  <2> QED
    BY <1>1, <1>2, <2>1 DEF Init, TypeOK, Mains, Tasks
<1>4. MainPorts
  BY <1>1, <1>2 DEF Init, MainPorts, Ports
<1>5. \A k \in Ports : Whereabouts(k)
  BY <1>1 DEF Init, Whereabouts, HeldByMain, Ports
<1>6. OwnPort
  BY BmcaRendezvousAssumption DEF Init, OwnPort, Ports
<1>7. StopsOnOrder
  BY DEF Init, StopsOnOrder
<1> QED
  BY <1>3, <1>4, <1>5, <1>6, <1>7 DEF IInv

(* run() hands port index over to its task. *)
LEMMA SendPortStep == IInv /\ SendPort => IInv'
<1> SUFFICES ASSUME IInv, SendPort PROVE IInv'
  OBVIOUS
<1>1. N \in Nat /\ N >= 1 /\ index \in Ports /\ 1 \in Ports
  BY BmcaRendezvousAssumption DEF IInv, TypeOK, Ports
<1>2. Len(bmca_ports) = N /\ bmca_ports[index] = index /\ main \in {"start", "return"}
  BY <1>1 DEF IInv, MainPorts, SendPort, Ports
<1>3. HeldByMain(index) /\ to_task[index] = <<>> /\ task[index] = "recv"
      /\ to_main[index] = <<>>
  BY <1>1, <1>2 DEF IInv, HeldByMain, Whereabouts, Ports
<1>4. Append(to_task[index], Returned(index)) = <<index>>
  BY <1>1, <1>2, <1>3, OneElement DEF Returned
<1>5. to_task' = [to_task EXCEPT ![index] = <<index>>]
  BY <1>4 DEF SendPort
<1>6. <<index>> \in Seq(Ports) /\ <<>> \in Seq(Ports) /\ Len(<<>>) = 0
  BY <1>1, OneElement
<1>7. index' \in Ports /\ (index = N => index' = 1) /\ (index # N => index' = index + 1)
  BY <1>1 DEF SendPort, NextIndex, Ports
<1>8. TypeOK'
  BY <1>1, <1>5, <1>6, <1>7 DEF IInv, TypeOK, SendPort, Mains
<1>9. MainPorts'
  BY <1>1, <1>2, <1>6, <1>7 DEF IInv, TypeOK, MainPorts, SendPort, AllSent, Ports
<1>10. ASSUME NEW k \in Ports PROVE Whereabouts(k)'
  <2>1. (k = index => ~HeldByMain(k)') /\ (k # index => (HeldByMain(k)' <=> HeldByMain(k)))
    BY <1>1, <1>2, <1>7 DEF SendPort, HeldByMain, AllSent, Ports
  <2>2. to_task'[k] = IF k = index THEN <<index>> ELSE to_task[k]
    BY <1>5 DEF IInv, TypeOK
  <2>3. task' = task /\ to_main' = to_main
    BY DEF SendPort
  <2> QED
    BY <1>3, <2>1, <2>2, <2>3 DEF IInv, Whereabouts
<1>11. OwnPort' /\ StopsOnOrder'
  BY <1>2 DEF IInv, OwnPort, StopsOnOrder, SendPort
<1> QED
  BY <1>8, <1>9, <1>10, <1>11 DEF IInv

(* The order to stop is given, and taken back when all ports are here. *)
LEMMA OrderStep == IInv /\ (BmcaTimer \/ Bmca) => IInv'
<1> SUFFICES ASSUME IInv, BmcaTimer \/ Bmca PROVE IInv'
  OBVIOUS
<1>1. N \in Nat /\ N >= 1 /\ index = 1
  BY BmcaRendezvousAssumption DEF IInv, MainPorts, BmcaTimer, Bmca
<1>2. TypeOK'
  BY DEF IInv, TypeOK, BmcaTimer, Bmca, Mains
<1>3. MainPorts'
  BY <1>1 DEF IInv, MainPorts, BmcaTimer, Bmca
<1>4. ASSUME NEW k \in Ports PROVE Whereabouts(k)'
  <2>1. HeldByMain(k)' <=> HeldByMain(k)
    BY <1>1 DEF HeldByMain, BmcaTimer, Bmca, Ports
  <2> QED
    BY <2>1 DEF IInv, Whereabouts, BmcaTimer, Bmca
<1>5. OwnPort'
  BY DEF IInv, OwnPort, BmcaTimer, Bmca
<1>6. StopsOnOrder'
  BY DEF IInv, StopsOnOrder, Whereabouts, HeldByMain, BmcaTimer, Bmca
<1> QED
  BY <1>2, <1>3, <1>4, <1>5, <1>6 DEF IInv

(* run() receives port index back from its task. *)
LEMMA ReceivePortStep == IInv /\ ReceivePort => IInv'
<1> SUFFICES ASSUME IInv, ReceivePort PROVE IInv'
  OBVIOUS
<1>1. N \in Nat /\ N >= 1 /\ index \in Ports /\ 1 \in Ports /\ main = "collect"
  BY BmcaRendezvousAssumption DEF IInv, TypeOK, Ports, ReceivePort
<1>2. ~HeldByMain(index) /\ to_main[index] = <<index>> /\ to_task[index] = <<>>
      /\ task[index] = "recv"
  BY <1>1 DEF IInv, HeldByMain, Whereabouts, ReceivePort, Ports
<1>3. Head(to_main[index]) = index /\ Tail(to_main[index]) = <<>>
  BY <1>1, <1>2, OneElement
<1>4. to_main' = [to_main EXCEPT ![index] = <<>>] /\ bmca_ports' = Append(bmca_ports, index)
  BY <1>3 DEF ReceivePort
<1>5. <<>> \in Seq(Ports)
  BY <1>1, OneElement
<1>6. index' \in Ports /\ (index = N => index' = 1) /\ (index # N => index' = index + 1)
  BY <1>1 DEF ReceivePort, NextIndex, Ports
<1>7. bmca_ports \in Seq(Ports) /\ Len(bmca_ports) = index - 1
      /\ \A i \in 1..Len(bmca_ports) : bmca_ports[i] = i
  BY <1>1 DEF IInv, TypeOK, MainPorts
<1>8. bmca_ports' \in Seq(Ports) /\ Len(bmca_ports') = index
      /\ \A i \in 1..Len(bmca_ports') : bmca_ports'[i] = i
  BY <1>1, <1>4, <1>7 DEF Ports
<1>9. TypeOK'
  BY <1>1, <1>4, <1>5, <1>6, <1>8 DEF IInv, TypeOK, ReceivePort, Mains
<1>10. MainPorts'
  BY <1>1, <1>6, <1>8 DEF IInv, MainPorts, ReceivePort, AllReceived, Ports
<1>11. ASSUME NEW k \in Ports PROVE Whereabouts(k)'
  <2>1. (k = index => HeldByMain(k)') /\ (k # index => (HeldByMain(k)' <=> HeldByMain(k)))
    BY <1>1, <1>6 DEF ReceivePort, HeldByMain, AllReceived, Ports
  <2>2. to_main'[k] = IF k = index THEN <<>> ELSE to_main[k]
    BY <1>4 DEF IInv, TypeOK
  <2>3. task' = task /\ to_task' = to_task
    BY DEF ReceivePort
  <2> QED
    BY <1>2, <2>1, <2>2, <2>3 DEF IInv, Whereabouts
<1>12. OwnPort'
  BY DEF IInv, OwnPort, ReceivePort
<1>13. ASSUME NEW k \in Ports, (task[k] = "send" \/ to_main[k] # <<>>)'
       PROVE  main' = "collect"
  <2>1. k # index
    BY <1>2, <1>4, <1>13 DEF IInv, TypeOK, ReceivePort
  <2>2. task[k] = "send" \/ to_main[k] # <<>>
    BY <1>4, <1>13, <2>1 DEF IInv, TypeOK, ReceivePort
  <2>3. ~HeldByMain(k)
    BY <2>2 DEF IInv, Whereabouts
  <2>4. index # N
    BY <1>1, <2>1, <2>3 DEF HeldByMain, Ports
  <2> QED
    BY <1>1, <2>4 DEF ReceivePort, AllReceived
<1>14. StopsOnOrder'
  BY <1>13 DEF StopsOnOrder
<1> QED
  BY <1>9, <1>10, <1>11, <1>12, <1>14 DEF IInv

(* A task receives its port. *)
LEMMA EndBmcaStep == ASSUME NEW k \in Ports PROVE IInv /\ EndBmca(k) => IInv'
<1> SUFFICES ASSUME IInv, EndBmca(k) PROVE IInv'
  OBVIOUS
<1>1. to_task[k] = <<k>> /\ task[k] = "recv" /\ to_main[k] = <<>> /\ ~HeldByMain(k)
  BY DEF IInv, Whereabouts, EndBmca
<1>2. Head(to_task[k]) = k /\ Tail(to_task[k]) = <<>> /\ <<>> \in Seq(Ports)
  BY <1>1, OneElement
<1>3. to_task' = [to_task EXCEPT ![k] = <<>>] /\ port' = [port EXCEPT ![k] = k]
      /\ task' = [task EXCEPT ![k] = "handle"]
  BY <1>2 DEF EndBmca
<1>4. TypeOK'
  BY <1>2, <1>3 DEF IInv, TypeOK, EndBmca, Tasks
<1>5. MainPorts'
  BY DEF IInv, MainPorts, EndBmca
<1>6. ASSUME NEW j \in Ports PROVE Whereabouts(j)'
  <2>1. HeldByMain(j)' <=> HeldByMain(j)
    BY DEF HeldByMain, EndBmca
  <2>2. to_main' = to_main
    BY DEF EndBmca
  <2> QED
    BY <1>1, <1>3, <2>1, <2>2 DEF IInv, TypeOK, Whereabouts
<1>7. OwnPort'
  BY <1>3, BmcaRendezvousAssumption DEF IInv, TypeOK, OwnPort, Ports
<1>8. StopsOnOrder'
  BY <1>3 DEF IInv, TypeOK, StopsOnOrder, EndBmca
<1> QED
  BY <1>4, <1>5, <1>6, <1>7, <1>8 DEF IInv

(* A task handles an event, or sees the order to stop; it keeps its port. *)
LEMMA TaskStep ==
  ASSUME NEW k \in Ports
  PROVE  IInv /\ (Select(k) \/ HandleActions(k) \/ StopForBmca(k)) => IInv'
<1> SUFFICES ASSUME IInv, Select(k) \/ HandleActions(k) \/ StopForBmca(k) PROVE IInv'
  OBVIOUS
<1>1. PICK t \in {"select", "handle", "send"} :
        task' = [task EXCEPT ![k] = t] /\ (t = "send" => bmca_notify)
  BY DEF Select, HandleActions, StopForBmca
<1>2. task[k] \in {"select", "handle"} /\ ~HeldByMain(k)
  BY DEF IInv, Whereabouts, Select, HandleActions, StopForBmca
<1>3. UNCHANGED <<main, index, bmca_ports, bmca_notify, port, to_task, to_main>>
  BY DEF Select, HandleActions, StopForBmca
<1>4. TypeOK'
  BY <1>1, <1>3 DEF IInv, TypeOK, Tasks
<1>5. MainPorts'
  BY <1>3 DEF IInv, MainPorts
<1>6. ASSUME NEW j \in Ports PROVE Whereabouts(j)'
  <2>1. HeldByMain(j)' <=> HeldByMain(j)
    BY <1>3 DEF HeldByMain
  <2> QED
    BY <1>1, <1>2, <1>3, <2>1 DEF IInv, TypeOK, Whereabouts
<1>7. OwnPort'
  BY <1>1, <1>2, <1>3 DEF IInv, TypeOK, OwnPort
<1>8. t = "send" => main = "collect"
  BY <1>1, <1>2 DEF IInv, MainPorts, HeldByMain
<1>9. StopsOnOrder'
  BY <1>1, <1>3, <1>8 DEF IInv, TypeOK, StopsOnOrder
<1> QED
  BY <1>4, <1>5, <1>6, <1>7, <1>9 DEF IInv

(* A task sends its port back. *)
LEMMA StartBmcaStep == ASSUME NEW k \in Ports PROVE IInv /\ StartBmca(k) => IInv'
<1> SUFFICES ASSUME IInv, StartBmca(k) PROVE IInv'
  OBVIOUS
<1>1. /\ task[k] = "send" /\ port[k] = k /\ ~HeldByMain(k)
      /\ to_task[k] = <<>> /\ to_main[k] = <<>>
  BY DEF IInv, Whereabouts, OwnPort, StartBmca
<1>2. Append(to_main[k], port[k]) = <<k>> /\ <<k>> \in Seq(Ports)
  BY <1>1, OneElement
<1>3. to_main' = [to_main EXCEPT ![k] = <<k>>] /\ port' = [port EXCEPT ![k] = None]
      /\ task' = [task EXCEPT ![k] = "recv"]
  BY <1>2 DEF StartBmca
<1>4. TypeOK'
  BY <1>2, <1>3 DEF IInv, TypeOK, StartBmca, Tasks
<1>5. MainPorts'
  BY DEF IInv, MainPorts, StartBmca
<1>6. ASSUME NEW j \in Ports PROVE Whereabouts(j)'
  <2>1. HeldByMain(j)' <=> HeldByMain(j)
    BY DEF HeldByMain, StartBmca
  <2>2. to_task' = to_task
    BY DEF StartBmca
  <2> QED
    BY <1>1, <1>3, <2>1, <2>2 DEF IInv, TypeOK, Whereabouts
<1>7. OwnPort'
  BY <1>3, BmcaRendezvousAssumption DEF IInv, TypeOK, OwnPort, Ports
<1>8. main = "collect"
  BY <1>1 DEF IInv, StopsOnOrder
<1>9. StopsOnOrder'
  BY <1>8 DEF StopsOnOrder, StartBmca
<1> QED
  BY <1>4, <1>5, <1>6, <1>7, <1>9 DEF IInv

-----------------------------------------------------------------------------
(* Every port is at the place the state of the tasks says, for ever. *)
THEOREM Invariance == Spec => []IInv
<1>1. IInv /\ [Next]_vars => IInv'
  <2> SUFFICES ASSUME IInv, [Next]_vars PROVE IInv'
    OBVIOUS
  <2>1. CASE Next
    BY <2>1, SendPortStep, OrderStep, ReceivePortStep, EndBmcaStep, TaskStep, StartBmcaStep
       DEF Next
  <2>2. CASE UNCHANGED vars
    BY <2>2 DEF vars, IInv, TypeOK, MainPorts, Whereabouts, HeldByMain, OwnPort, StopsOnOrder
  <2> QED
    BY <2>1, <2>2
<1> QED
  BY InitIInv, <1>1, PTL DEF Spec

(* instance.bmca() has every port, and nobody else has one. *)
THEOREM BmcaStopsTheWorld == Spec => []StopTheWorld
<1>1. IInv => StopTheWorld
  <2> SUFFICES ASSUME IInv, main = "bmca" \/ (main = "return" /\ index = 1)
               PROVE  /\ \A k \in Ports : port[k] = None /\ to_task[k] = <<>> /\ to_main[k] = <<>>
                      /\ bmca_ports = [k \in Ports |-> k]
    BY DEF StopTheWorld
  <2>1. N \in Nat
    BY BmcaRendezvousAssumption
  <2>2. \A k \in Ports : HeldByMain(k)
    BY <2>1 DEF HeldByMain, Ports
  <2>3. \A k \in Ports : task[k] = "recv" /\ to_task[k] = <<>> /\ to_main[k] = <<>>
    BY <2>2 DEF IInv, Whereabouts
  <2>4. \A k \in Ports : port[k] = None
    BY <2>3 DEF IInv, OwnPort
  <2>5. bmca_ports \in Seq(Ports) /\ Len(bmca_ports) = N
        /\ \A i \in 1..N : bmca_ports[i] = i
    BY DEF IInv, TypeOK, MainPorts
  <2>6. bmca_ports = [k \in Ports |-> k]
    BY <2>1, <2>5 DEF Ports
  <2> QED
    BY <2>3, <2>4, <2>6
<1> QED
  BY Invariance, <1>1, PTL

(* A task never runs the port of another one. *)
THEOREM TasksRunTheirOwnPort == Spec => []OwnPort
BY Invariance, PTL DEF IInv

(* A task stops only when it was told to, and once for each order. *)
THEOREM TasksStopOnOrder == Spec => []StopsOnOrder
BY Invariance, PTL DEF IInv

(* A channel of capacity one is enough: whoever sends a port finds room. *)
THEOREM CapacityIsEnough == Spec => []RoomInChannels
<1>1. IInv => RoomInChannels
  <2> SUFFICES ASSUME IInv PROVE RoomInChannels
    OBVIOUS
  <2>1. main \in {"start", "return"} => HeldByMain(index)
    BY DEF IInv, TypeOK, HeldByMain, Ports
  <2>2. main \in {"start", "return"} => to_task[index] = <<>>
    BY <2>1 DEF IInv, TypeOK, Whereabouts
  <2>3. \A k \in Ports : task[k] = "send" => to_main[k] = <<>>
    BY DEF IInv, Whereabouts
  <2> QED
    BY <2>2, <2>3 DEF RoomInChannels
<1> QED
  BY Invariance, <1>1, PTL

-----------------------------------------------------------------------------
(* The rounds. *)
Turns == [k \in Ports |-> TurnOf(k)]

(* The turn of a port follows from its place. *)
TurnsFit ==
    \A k \in Ports :
        /\ task[k] # "recv" => TurnOf(k) = "running"
        /\ to_task[k] = <<k>> => TurnOf(k) = "before"
        /\ to_main[k] = <<k>> => TurnOf(k) = "after"
        /\ HeldByMain(k) =>
              TurnOf(k) = IF main \in {"start", "return"} THEN "before" ELSE "after"

(* A port is at one place, and that is where its turn comes from. *)
LEMMA TurnsFollow == IInv => TurnsFit
<1> SUFFICES ASSUME IInv, NEW k \in Ports
             PROVE  /\ task[k] # "recv" => TurnOf(k) = "running"
                    /\ to_task[k] = <<k>> => TurnOf(k) = "before"
                    /\ to_main[k] = <<k>> => TurnOf(k) = "after"
                    /\ HeldByMain(k) =>
                          TurnOf(k) = IF main \in {"start", "return"} THEN "before" ELSE "after"
  BY DEF TurnsFit
<1>1. <<k>> # <<>>
  BY OneElement
<1>2. Whereabouts(k) /\ (task[k] # "recv" <=> port[k] = k)
  BY DEF IInv, TypeOK, Tasks, OwnPort
<1>3. HeldByMain(k) => bmca_ports[k] = k
  BY BmcaRendezvousAssumption DEF IInv, TypeOK, MainPorts, HeldByMain, Ports
<1>4. HeldByMain(k) <=> \/ main \in {"start", "return"} /\ k >= index
                        \/ main = "collect" /\ k < index
                        \/ main = "bmca"
  BY DEF IInv, TypeOK, HeldByMain, Ports
<1>5. task[k] # "recv" => TurnOf(k) = "running"
  BY <1>1, <1>2, <1>4 DEF Whereabouts, TurnOf
<1>6. to_task[k] = <<k>> => TurnOf(k) = "before"
  BY <1>1, <1>2, <1>4 DEF Whereabouts, TurnOf
<1>7. to_main[k] = <<k>> => TurnOf(k) = "after"
  BY <1>1, <1>2, <1>4 DEF Whereabouts, TurnOf
<1>8. HeldByMain(k) => TurnOf(k) = IF main \in {"start", "return"} THEN "before" ELSE "after"
  BY <1>1, <1>2, <1>3, <1>4 DEF Whereabouts, TurnOf
<1> QED
  BY <1>5, <1>6, <1>7, <1>8

(* What the main task does moves no port to another turn, but for bmca(). *)
LEMMA MainTurns ==
  ASSUME IInv, IInv', TurnsFit, TurnsFit', SendPort \/ BmcaTimer \/ ReceivePort
  PROVE  \A k \in Ports : TurnOf(k)' = TurnOf(k)
<1> SUFFICES ASSUME NEW k \in Ports PROVE TurnOf(k)' = TurnOf(k)
  OBVIOUS
<1>1. N \in Nat /\ index \in 1..N /\ k \in 1..N /\ <<k>> # <<>>
  BY BmcaRendezvousAssumption, OneElement DEF IInv, TypeOK, Ports
<1>2. Whereabouts(k) /\ Whereabouts(k)'
  BY DEF IInv
<1>3. task' = task
  BY DEF SendPort, BmcaTimer, ReceivePort
<1>4. CASE task[k] # "recv"
  BY <1>3, <1>4 DEF TurnsFit
<1>5. CASE task[k] = "recv" /\ SendPort
  <2>1. main \in {"start", "return"} /\ to_main' = to_main
        /\ \A j \in Ports : j # index => to_task'[j] = to_task[j]
    BY <1>5 DEF SendPort, IInv, TypeOK
  <2>2. HeldByMain(k)' => main' \in {"start", "return"}
    BY <1>5, <2>1 DEF SendPort, HeldByMain
  <2>3. CASE k = index
    <3>1. HeldByMain(k)
      BY <1>1, <2>1, <2>3 DEF HeldByMain
    <3>2. ~HeldByMain(k)' /\ to_main'[k] = <<>>
      BY <1>1, <1>2, <1>5, <2>1, <2>3, <3>1
         DEF SendPort, HeldByMain, NextIndex, AllSent, Whereabouts
    <3>3. to_task'[k] = <<k>>
      BY <1>1, <1>2, <1>3, <1>5, <3>2 DEF Whereabouts
    <3> QED
      BY <2>1, <3>1, <3>3 DEF TurnsFit
  <2>4. CASE k # index
    BY <1>1, <1>2, <1>3, <1>5, <2>1, <2>2, <2>4 DEF TurnsFit, Whereabouts
  <2> QED
    BY <2>3, <2>4
<1>6. CASE task[k] = "recv" /\ BmcaTimer
  <2>1. main = "timer" /\ main' = "collect" /\ to_task' = to_task /\ to_main' = to_main
    BY <1>6 DEF BmcaTimer
  <2>2. ~HeldByMain(k)
    BY <2>1 DEF HeldByMain
  <2> QED
    BY <1>2, <1>6, <2>1, <2>2 DEF TurnsFit, Whereabouts
<1>7. CASE task[k] = "recv" /\ ReceivePort
  <2>1. main = "collect" /\ main' \in {"collect", "bmca"} /\ to_task' = to_task
        /\ to_main[index] # <<>>
        /\ \A j \in Ports : j # index => to_main'[j] = to_main[j]
    BY <1>7 DEF ReceivePort, IInv, TypeOK
  <2>2. CASE k = index
    <3>1. to_main[k] = <<k>> /\ to_task[k] = <<>>
      BY <1>2, <2>1, <2>2 DEF Whereabouts
    <3>2. to_main'[k] = <<>>
      BY <1>7, <2>2, <3>1, OneElement DEF ReceivePort, IInv, TypeOK
    <3>3. HeldByMain(k)'
      BY <1>1, <1>2, <1>3, <1>7, <2>1, <3>1, <3>2 DEF Whereabouts
    <3> QED
      BY <2>1, <3>1, <3>3 DEF TurnsFit
  <2>3. CASE k # index
    BY <1>1, <1>2, <1>3, <1>7, <2>1, <2>3 DEF TurnsFit, Whereabouts
  <2> QED
    BY <2>2, <2>3
<1> QED
  BY <1>4, <1>5, <1>6, <1>7

(* A step of the tasks is one of the rounds, or none. *)
LEMMA RoundsStep ==
  ASSUME IInv, IInv', TurnsFit, TurnsFit', Next
  PROVE  [AsRounds!Next]_Turns
<1> USE DEF Turns
<1>1. CASE SendPort \/ BmcaTimer \/ ReceivePort
  <2>1. \A k \in Ports : TurnOf(k)' = TurnOf(k)
    BY <1>1, MainTurns
  <2> QED
    BY <2>1
<1>2. CASE Bmca
  <2>1. main = "bmca" /\ main' = "return" /\ index = 1 /\ index' = 1
    BY <1>2 DEF Bmca, IInv, MainPorts
  <2>2. \A k \in Ports : HeldByMain(k) /\ HeldByMain(k)'
    BY <2>1, BmcaRendezvousAssumption DEF HeldByMain, Ports
  <2>3. \A k \in Ports : TurnOf(k) = "after" /\ TurnOf(k)' = "before"
    BY <2>1, <2>2 DEF TurnsFit
  <2>4. AsRounds!Bmca
    BY <2>3 DEF AsRounds!Bmca
  <2> QED
    BY <2>4 DEF AsRounds!Next
<1>3. ASSUME NEW k \in Ports,
             EndBmca(k) \/ Select(k) \/ HandleActions(k) \/ StopForBmca(k) \/ StartBmca(k)
      PROVE  [AsRounds!Next]_Turns
  <2>1. main' = main /\ index' = index /\ \A j \in Ports : HeldByMain(j)' <=> HeldByMain(j)
    BY <1>3 DEF EndBmca, Select, HandleActions, StopForBmca, StartBmca, HeldByMain
  <2>2. \A j \in Ports \ {k} :
           task'[j] = task[j] /\ to_task'[j] = to_task[j] /\ to_main'[j] = to_main[j]
    BY <1>3 DEF EndBmca, Select, HandleActions, StopForBmca, StartBmca, IInv, TypeOK
  <2>3. \A j \in Ports \ {k} : TurnOf(j)' = TurnOf(j)
    BY <2>1, <2>2 DEF TurnsFit, IInv, Whereabouts
  <2>4. CASE EndBmca(k)
    <3>1. to_task[k] = <<k>> /\ task'[k] = "handle"
      BY <2>4 DEF EndBmca, IInv, TypeOK, Whereabouts
    <3>2. TurnOf(k) = "before" /\ TurnOf(k)' = "running"
      BY <3>1 DEF TurnsFit
    <3>3. AsRounds!Start(k)
      BY <2>3, <3>2 DEF AsRounds!Start
    <3> QED
      BY <3>3 DEF AsRounds!Next
  <2>5. CASE Select(k) \/ HandleActions(k) \/ StopForBmca(k)
    <3>1. task[k] # "recv" /\ task'[k] # "recv"
      BY <2>5 DEF Select, HandleActions, StopForBmca, IInv, TypeOK
    <3>2. TurnOf(k) = "running" /\ TurnOf(k)' = "running"
      BY <3>1 DEF TurnsFit
    <3> QED
      BY <2>3, <3>2
  <2>6. CASE StartBmca(k)
    <3>1. task[k] = "send" /\ to_main[k] = <<>> /\ port[k] = k
      BY <2>6 DEF StartBmca, IInv, OwnPort, Whereabouts
    <3>2. to_main'[k] = <<k>>
      BY <2>6, <3>1, OneElement DEF StartBmca, IInv, TypeOK
    <3>3. TurnOf(k) = "running" /\ TurnOf(k)' = "after"
      BY <3>1, <3>2 DEF TurnsFit
    <3>4. AsRounds!Stop(k)
      BY <2>3, <3>3 DEF AsRounds!Stop
    <3> QED
      BY <3>4 DEF AsRounds!Next
  <2> QED
    BY <1>3, <2>4, <2>5, <2>6
<1> QED
  BY <1>1, <1>2, <1>3 DEF Next

(* For any number of ports: between two runs of instance.bmca() every task *)
(* runs its own port exactly once, and bmca() is a step by itself.         *)
THEOREM RendezvousImplementsRounds == Spec => ImplementsRounds
<1>1. Init => AsRounds!Init
  <2> SUFFICES ASSUME Init PROVE AsRounds!Init
    OBVIOUS
  <2>1. TurnsFit
    BY InitIInv, TurnsFollow
  <2>2. \A k \in Ports : HeldByMain(k) /\ main = "start"
    BY DEF Init, HeldByMain, Ports
  <2>3. \A k \in Ports : TurnOf(k) = "before"
    BY <2>1, <2>2 DEF TurnsFit
  <2> QED
    BY <2>3 DEF AsRounds!Init
<1>2. ASSUME IInv, IInv', TurnsFit, TurnsFit', [Next]_vars PROVE [AsRounds!Next]_Turns
  <2>1. CASE Next
    BY <1>2, <2>1, RoundsStep
  <2>2. CASE UNCHANGED vars
    BY <2>2 DEF vars, Turns, TurnOf
  <2> QED
    BY <1>2, <2>1, <2>2
<1> QED
  BY <1>1, <1>2, Invariance, TurnsFollow, PTL DEF Spec, ImplementsRounds, AsRounds!Spec, Turns

-----------------------------------------------------------------------------
(* Induction over the natural numbers *)

(* A set of natural numbers that is not empty has a least element. *)
LEMMA LeastElement ==
    ASSUME NEW T, T \subseteq Nat, T # {}
    PROVE  \E n \in T : \A m \in T : n <= m
<1>1. PICK x \in T : \A y \in T : ~ (<<y, x>> \in OpToRel(<, Nat))
  BY WFMin, NatLessThanWellFounded
<1>2. \A y \in T : ~ (y < x)
  BY <1>1 DEF OpToRel
<1> QED BY <1>2

(* Induction, for a set in place of a predicate. *)
LEMMA SetInduction ==
    ASSUME NEW S, 0 \in S, \A n \in Nat : n \in S => n + 1 \in S
    PROVE  \A n \in Nat : n \in S
<1>1. SUFFICES ASSUME Nat \ S # {} PROVE FALSE
  OBVIOUS
<1>2. PICK n \in Nat \ S : \A m \in Nat \ S : n <= m
  BY <1>1, LeastElement
<1>3. n # 0 /\ n - 1 \in Nat
  BY <1>2
<1>4. n - 1 \in S
  BY <1>2, <1>3
<1> QED BY <1>2, <1>3, <1>4


-----------------------------------------------------------------------------
(* handle_port_actions of the application for the stm32 *)

(* What an action may be about: a timer, the context of a time stamp, or  *)
(* nothing                                                                 *)
ActionNames == TimerNames \union Contexts \union {""}

PortActions == [type : {"Reset", "SendEvent", "SendGeneral"}, name : ActionNames]

NewChannels(r, ids) == [resets |-> r, packet_ids |-> ids, halted |-> FALSE]

(* f holds what the first n actions have done. *)
IsHandling(f, r, ids, actions, accepted, n) ==
    f = [i \in 0..n |-> IF i = 0 THEN NewChannels(r, ids)
                        ELSE HandlePortAction(f[i - 1], actions[i], accepted)]

(* The same, action by action. *)
Handled(f, r, ids, actions, accepted, n) ==
    /\ f[0] = NewChannels(r, ids)
    /\ \A i \in 1..n : f[i] = HandlePortAction(f[i - 1], actions[i], accepted)

(* The function of the loop, action by action. *)
LEMMA HandlingTurns ==
    ASSUME NEW f, NEW r, NEW ids, NEW actions, NEW accepted, NEW n \in Nat,
           IsHandling(f, r, ids, actions, accepted, n)
    PROVE  Handled(f, r, ids, actions, accepted, n)
<1>1. \A i \in 0..n : f[i] = IF i = 0 THEN NewChannels(r, ids)
                             ELSE HandlePortAction(f[i - 1], actions[i], accepted)
  BY Zenon DEF IsHandling
<1>2. f[0] = NewChannels(r, ids)
  BY <1>1
<1>3. ASSUME NEW i \in 1..n PROVE f[i] = HandlePortAction(f[i - 1], actions[i], accepted)
  BY <1>1
<1> QED BY <1>2, <1>3 DEF Handled

(* The loop is well defined. *)
LEMMA HandlingExists ==
    ASSUME NEW r, NEW ids, NEW actions, NEW accepted
    PROVE  \A n \in Nat : \E f : IsHandling(f, r, ids, actions, accepted, n)
<1> DEFINE S == {n \in Nat : \E f : IsHandling(f, r, ids, actions, accepted, n)}
<1>1. 0 \in S
  <2>1. IsHandling([i \in 0..0 |-> NewChannels(r, ids)], r, ids, actions, accepted, 0)
    BY DEF IsHandling
  <2> QED BY <2>1
<1>2. ASSUME NEW n \in Nat, n \in S PROVE n + 1 \in S
  <2>1. PICK f : IsHandling(f, r, ids, actions, accepted, n)
    BY <1>2
  <2>2. Handled(f, r, ids, actions, accepted, n)
    BY <2>1, HandlingTurns
  <2> DEFINE g == [i \in 0..(n + 1) |->
                      IF i <= n THEN f[i] ELSE HandlePortAction(f[i - 1], actions[i], accepted)]
  <2>3. ASSUME NEW i \in 0..(n + 1)
        PROVE  g[i] = IF i = 0 THEN NewChannels(r, ids)
                      ELSE HandlePortAction(g[i - 1], actions[i], accepted)
    <3>1. CASE i = 0
      BY <3>1, <2>2 DEF Handled
    <3>2. CASE i # 0
      <4>1. g[i - 1] = f[i - 1]
        BY <3>2
      <4>2. CASE i <= n
        <5>1. f[i] = HandlePortAction(f[i - 1], actions[i], accepted)
          BY <2>2, <3>2, <4>2 DEF Handled
        <5> QED BY <3>2, <4>1, <4>2, <5>1
      <4>3. CASE ~(i <= n)
        BY <3>2, <4>1, <4>3
      <4> QED BY <4>2, <4>3
    <3> QED BY <3>1, <3>2
  <2>4. IsHandling(g, r, ids, actions, accepted, n + 1)
    BY <2>3 DEF IsHandling
  <2> QED BY <2>4
<1> HIDE DEF S
<1>3. \A n \in Nat : n \in S
  BY <1>1, <1>2, SetInduction
<1> QED BY <1>3 DEF S

(* Between two actions: no reset that is in the channel was lost, and none *)
(* that an action asked for, unless a full channel stopped the device.     *)
ChannelInv(channels, r, actions, i) ==
    /\ channels \in [resets : Seq(ActionNames), packet_ids : Seq(ActionNames), halted : BOOLEAN]
    /\ ~channels.halted =>
          /\ \A k \in 1..Len(r) : \E l \in 1..Len(channels.resets) : channels.resets[l] = r[k]
          /\ \A k \in 1..i : actions[k].type = "Reset" =>
                \E l \in 1..Len(channels.resets) : channels.resets[l] = actions[k].name

(* One action keeps it. *)
LEMMA ActionInv ==
    ASSUME NEW r, NEW actions \in Seq(PortActions), NEW accepted \in BOOLEAN,
           NEW i \in Nat, i + 1 <= Len(actions),
           NEW channels, ChannelInv(channels, r, actions, i)
    PROVE  ChannelInv(HandlePortAction(channels, actions[i + 1], accepted), r, actions, i + 1)
<1>1. PICK action : action = actions[i + 1]
  OBVIOUS
<1>2. PICK new : new = HandlePortAction(channels, action, accepted)
  OBVIOUS
<1>3. /\ action \in PortActions /\ action.name \in ActionNames
      /\ action.type \in {"Reset", "SendEvent", "SendGeneral"}
  <2>1. action \in PortActions
    BY <1>1
  <2> QED BY <2>1 DEF PortActions
<1> DEFINE All == [resets : Seq(ActionNames), packet_ids : Seq(ActionNames), halted : BOOLEAN]
<1>4. /\ channels \in All /\ channels.resets \in Seq(ActionNames)
      /\ channels.packet_ids \in Seq(ActionNames) /\ channels.halted \in BOOLEAN
  BY DEF ChannelInv
<1>5. \A k \in 1..(i + 1) : k \in 1..i \/ k = i + 1
  OBVIOUS
<1>6. CASE channels.halted
  <2>1. new = channels
    BY <1>2, <1>6 DEF HandlePortAction
  <2> QED BY <1>1, <1>2, <1>4, <1>6, <2>1 DEF ChannelInv
<1>7. CASE ~channels.halted /\ action.type # "Reset"
  <2>1. \/ new = channels
        \/ new = [channels EXCEPT !.halted = TRUE]
        \/ new = [channels EXCEPT !.packet_ids = Append(@, action.name)]
    BY <1>2, <1>3, <1>7 DEF HandlePortAction, TrySendId
  <2>2. new \in All /\ new.resets = channels.resets
    <3>1. CASE new = channels
      BY <1>4, <3>1
    <3>2. CASE new = [channels EXCEPT !.halted = TRUE]
      BY <1>4, <3>2
    <3>3. CASE new = [channels EXCEPT !.packet_ids = Append(@, action.name)]
      <4>1. PICK q : q = Append(channels.packet_ids, action.name)
        OBVIOUS
      <4>2. q \in Seq(ActionNames)
        BY <1>3, <1>4, <4>1
      <4>3. new = [channels EXCEPT !.packet_ids = q]
        BY <3>3, <4>1
      <4> QED BY <1>4, <4>2, <4>3
    <3> QED BY <2>1, <3>1, <3>2, <3>3
  <2> HIDE DEF All
  <2>3. /\ \A k \in 1..Len(r) : \E l \in 1..Len(new.resets) : new.resets[l] = r[k]
        /\ \A k \in 1..(i + 1) : actions[k].type = "Reset" =>
              \E l \in 1..Len(new.resets) : new.resets[l] = actions[k].name
    BY <1>1, <1>5, <1>7, <2>2 DEF ChannelInv
  <2> QED BY <1>1, <1>2, <2>2, <2>3 DEF ChannelInv, All
<1>8. CASE ~channels.halted /\ action.type = "Reset"
  <2>1. \/ new = [channels EXCEPT !.halted = TRUE]
        \/ new = [channels EXCEPT !.resets = Append(@, action.name)]
    BY <1>2, <1>3, <1>8 DEF HandlePortAction, TrySend
  <2>2. CASE new = [channels EXCEPT !.halted = TRUE]
    <3>1. new \in All /\ new.halted
      BY <1>4, <2>2
    <3> QED BY <1>1, <1>2, <3>1 DEF ChannelInv
  <2>3. CASE new = [channels EXCEPT !.resets = Append(@, action.name)]
    <3>1. PICK q : q = Append(channels.resets, action.name)
      OBVIOUS
    <3>2. PICK n : n = Len(channels.resets)
      OBVIOUS
    <3>3. /\ n \in Nat /\ q \in Seq(ActionNames) /\ Len(q) = n + 1 /\ q[n + 1] = action.name
          /\ \A l \in 1..n : q[l] = channels.resets[l]
      BY <1>3, <1>4, <3>1, <3>2
    <3>4. new = [channels EXCEPT !.resets = q]
      BY <2>3, <3>1
    <3>5. new \in All /\ new.resets = q
      BY <1>4, <3>3, <3>4
    <3> HIDE DEF All
    <3>6. n + 1 \in 1..(n + 1) /\ \A l \in 1..n : l \in 1..(n + 1)
      BY <3>3
    <3>7. ASSUME NEW k \in 1..Len(r) PROVE \E l \in 1..(n + 1) : q[l] = r[k]
      <4>1. PICK l \in 1..n : channels.resets[l] = r[k]
        BY <1>8, <3>2 DEF ChannelInv
      <4> QED BY <3>3, <3>6, <4>1
    <3>8. ASSUME NEW k \in 1..(i + 1), actions[k].type = "Reset"
          PROVE  \E l \in 1..(n + 1) : q[l] = actions[k].name
      <4>1. CASE k = i + 1
        BY <1>1, <3>3, <3>6, <4>1
      <4>2. CASE k \in 1..i
        <5>1. PICK l \in 1..n : channels.resets[l] = actions[k].name
          BY <1>8, <3>2, <3>8, <4>2 DEF ChannelInv
        <5> QED BY <3>3, <3>6, <5>1
      <4> QED BY <1>5, <4>1, <4>2
    <3> QED BY <1>1, <1>2, <3>3, <3>5, <3>7, <3>8 DEF ChannelInv, All
  <2> QED BY <2>1, <2>2, <2>3
<1> QED BY <1>3, <1>4, <1>6, <1>7, <1>8

(* What handle_port_actions does to the channel of timer resets, for any   *)
(* actions                                                                 *)
LEMMA ActionsHandled ==
    ASSUME resets \in Seq(ActionNames), packet_ids \in Seq(ActionNames),
           NEW actions \in Seq(PortActions), NEW accepted \in BOOLEAN,
           HandlePortActions(actions, accepted)
    PROVE  /\ resets' \in Seq(ActionNames) /\ packet_ids' \in Seq(ActionNames) /\ halted' \in BOOLEAN
           /\ ~halted' =>
                 /\ ToSet(resets) \subseteq ToSet(resets')
                 /\ \A k \in 1..Len(actions) :
                       actions[k].type = "Reset" => actions[k].name \in ToSet(resets')
<1>1. PICK r : r = resets
  OBVIOUS
<1>2. PICK ids : ids = packet_ids
  OBVIOUS
<1>3. PICK n : n = Len(actions)
  OBVIOUS
<1>4. n \in Nat
  BY <1>3
<1> DEFINE f == CHOOSE g : IsHandling(g, r, ids, actions, accepted, n)
<1>5. /\ resets' = f[n].resets /\ packet_ids' = f[n].packet_ids
      /\ halted' = f[n].halted
  BY <1>1, <1>2, <1>3, Zenon DEF HandlePortActions, IsHandling, NewChannels
<1>6. IsHandling(f, r, ids, actions, accepted, n)
  BY <1>4, HandlingExists, Zenon
<1> HIDE DEF f
<1>7. Handled(f, r, ids, actions, accepted, n)
  BY <1>4, <1>6, HandlingTurns, Zenon
<1> DEFINE S == {i \in Nat : i <= n => ChannelInv(f[i], r, actions, i)}
<1>8. 0 \in S
  <2>1. f[0] = NewChannels(r, ids)
    BY <1>7 DEF Handled
  <2>2. ChannelInv(NewChannels(r, ids), r, actions, 0)
    BY <1>1, <1>2 DEF ChannelInv, NewChannels
  <2> QED BY <2>1, <2>2
<1>9. ASSUME NEW i \in Nat, i \in S PROVE i + 1 \in S
  <2>1. SUFFICES ASSUME i + 1 <= n PROVE ChannelInv(f[i + 1], r, actions, i + 1)
    OBVIOUS
  <2>2. i <= n /\ i + 1 \in 1..n /\ i + 1 - 1 = i
    BY <1>4, <2>1
  <2>3. ChannelInv(f[i], r, actions, i)
    BY <1>9, <2>2
  <2>4. f[i + 1] = HandlePortAction(f[i], actions[i + 1], accepted)
    BY <1>7, <2>2 DEF Handled
  <2> QED BY <1>3, <2>1, <2>3, <2>4, ActionInv
<1> HIDE DEF S
<1>10. \A i \in Nat : i \in S
  BY <1>8, <1>9, SetInduction
<1>11. PICK end : end = f[n]
  OBVIOUS
<1>12. ChannelInv(end, r, actions, n)
  BY <1>4, <1>10, <1>11 DEF S
<1>13. /\ end.resets \in Seq(ActionNames) /\ end.packet_ids \in Seq(ActionNames) /\ end.halted \in BOOLEAN
  BY <1>12 DEF ChannelInv
<1>14. ASSUME ~end.halted
       PROVE  /\ ToSet(r) \subseteq ToSet(end.resets)
              /\ \A k \in 1..n : actions[k].type = "Reset" =>
                    actions[k].name \in ToSet(end.resets)
  <2>1. PICK q : q = end.resets
    OBVIOUS
  <2>2. /\ \A k \in 1..Len(r) : \E l \in 1..Len(q) : q[l] = r[k]
        /\ \A k \in 1..n : actions[k].type = "Reset" =>
              \E l \in 1..Len(q) : q[l] = actions[k].name
    BY <1>12, <1>14, <2>1 DEF ChannelInv
  <2>3. DOMAIN q = 1..Len(q) /\ DOMAIN r = 1..Len(r)
    BY <1>1, <1>13, <2>1
  <2>4. \A x : x \in ToSet(q) <=> \E l \in 1..Len(q) : q[l] = x
    BY <2>3, Zenon DEF ToSet
  <2>5. \A x : x \in ToSet(r) <=> \E l \in 1..Len(r) : r[l] = x
    BY <2>3, Zenon DEF ToSet
  <2>6. ToSet(r) \subseteq ToSet(q)
    BY <2>2, <2>4, <2>5, Zenon
  <2>7. \A k \in 1..n : actions[k].type = "Reset" => actions[k].name \in ToSet(q)
    BY <2>2, <2>4, Zenon
  <2> QED BY <2>1, <2>6, <2>7, Zenon
<1> QED BY <1>1, <1>3, <1>5, <1>11, <1>13, <1>14, Zenon

-----------------------------------------------------------------------------
(* The steps of the application *)

(* The timers that the duties of a port depend on *)
Duties(state) ==
    CASE state = "Master" -> {"Announce", "Sync"}
      [] state = "Slave" -> {"DelayRequest", "AnnounceReceipt"}
      [] state = "Listening" -> {"AnnounceReceipt"}

(* What every reachable state satisfies: until the first bmca() the port   *)
(* listens and its first timer is pending, after it nothing is pending.    *)
AppInv ==
    /\ mode \in {"InBmca", "Running"}
    /\ port_state \in {"Listening", "Slave", "Master"}
    /\ resets \in Seq(ActionNames) /\ packet_ids \in Seq(ActionNames) /\ halted \in BOOLEAN
    /\ mode = "InBmca" => port_state = "Listening" /\ pending = <<Reset("AnnounceReceipt")>>
    /\ mode = "Running" => pending = <<>>
    /\ mode = "Running" /\ ~halted => Duties(port_state) \subseteq Scheduled

(* Some action asks for the timer. *)
Asks(actions, t) ==
    \E k \in 1..Len(actions) : actions[k].type = "Reset" /\ actions[k].name = t

(* The actions of the library are actions. *)
LEMMA ActionsAreActions ==
    /\ SendGeneral \in PortActions
    /\ SendEvent("Sync") \in PortActions /\ SendEvent("DelayReq") \in PortActions
    /\ SendEvent("PDelayResp") \in PortActions
    /\ \A t \in TimerNames :
          Reset(t) \in PortActions /\ Reset(t).type = "Reset" /\ Reset(t).name = t
<1>1. SendGeneral \in PortActions
  BY DEF SendGeneral, PortActions, ActionNames
<1>2. /\ SendEvent("Sync") \in PortActions /\ SendEvent("DelayReq") \in PortActions
      /\ SendEvent("PDelayResp") \in PortActions
  BY DEF SendEvent, PortActions, ActionNames, Contexts
<1>3. ASSUME NEW t \in TimerNames
      PROVE  Reset(t) \in PortActions /\ Reset(t).type = "Reset" /\ Reset(t).name = t
  <2>1. t \in ActionNames
    BY DEF ActionNames
  <2> QED BY <2>1 DEF Reset, PortActions
<1> QED BY <1>1, <1>2, <1>3

(* A single action, and the timer it asks for *)
LEMMA OneAction ==
    ASSUME NEW a \in PortActions
    PROVE  /\ <<a>> \in Seq(PortActions)
           /\ a.type = "Reset" => Asks(<<a>>, a.name)
<1>1. PICK actions : actions = <<a>>
  OBVIOUS
<1>2. actions \in Seq(PortActions) /\ Len(actions) = 1 /\ actions[1] = a
  BY <1>1
<1>3. 1 \in 1..Len(actions)
  BY <1>2
<1>4. a.type = "Reset" => Asks(actions, a.name)
  BY <1>2, <1>3, Zenon DEF Asks
<1> QED BY <1>1, <1>2, <1>4, Zenon

(* Two actions, and the timers they ask for *)
LEMMA TwoActions ==
    ASSUME NEW a \in PortActions, NEW b \in PortActions
    PROVE  /\ <<a, b>> \in Seq(PortActions)
           /\ a.type = "Reset" => Asks(<<a, b>>, a.name)
           /\ b.type = "Reset" => Asks(<<a, b>>, b.name)
<1>1. PICK actions : actions = <<a, b>>
  OBVIOUS
<1>2. actions \in Seq(PortActions) /\ Len(actions) = 2 /\ actions[1] = a /\ actions[2] = b
  BY <1>1
<1>3. 1 \in 1..Len(actions) /\ 2 \in 1..Len(actions)
  BY <1>2
<1>4. a.type = "Reset" => Asks(actions, a.name)
  BY <1>2, <1>3, Zenon DEF Asks
<1>5. b.type = "Reset" => Asks(actions, b.name)
  BY <1>2, <1>3, Zenon DEF Asks
<1> QED BY <1>1, <1>2, <1>4, <1>5, Zenon

(* A reset and any other action ask for the timer of the reset. *)
LEMMA ResetAnd ==
    ASSUME NEW t \in TimerNames, NEW b \in PortActions
    PROVE  <<Reset(t), b>> \in Seq(PortActions) /\ Asks(<<Reset(t), b>>, t)
<1>1. PICK a : a = Reset(t)
  OBVIOUS
<1>2. a \in PortActions /\ a.type = "Reset" /\ a.name = t
  BY <1>1, ActionsAreActions, Zenon
<1>3. <<a, b>> \in Seq(PortActions) /\ Asks(<<a, b>>, a.name)
  BY <1>2, TwoActions, Zenon
<1> QED BY <1>1, <1>2, <1>3, Zenon

(* Two resets ask for both timers. *)
LEMMA TwoResets ==
    ASSUME NEW t \in TimerNames, NEW u \in TimerNames
    PROVE  /\ <<Reset(t), Reset(u)>> \in Seq(PortActions)
           /\ Asks(<<Reset(t), Reset(u)>>, t) /\ Asks(<<Reset(t), Reset(u)>>, u)
<1>1. PICK b : b = Reset(u)
  OBVIOUS
<1>2. b \in PortActions /\ b.type = "Reset" /\ b.name = u
  BY <1>1, ActionsAreActions, Zenon
<1>3. <<Reset(t), b>> \in Seq(PortActions) /\ Asks(<<Reset(t), b>>, t)
  BY <1>2, ResetAnd, Zenon
<1>4. Reset(t) \in PortActions
  BY ActionsAreActions, Zenon
<1>5. Asks(<<Reset(t), b>>, b.name)
  BY <1>2, <1>4, TwoActions, Zenon
<1> QED BY <1>1, <1>2, <1>3, <1>5, Zenon

(* A single reset asks for its timer. *)
LEMMA OneReset ==
    ASSUME NEW t \in TimerNames
    PROVE  <<Reset(t)>> \in Seq(PortActions) /\ Asks(<<Reset(t)>>, t)
<1>1. PICK a : a = Reset(t)
  OBVIOUS
<1>2. a \in PortActions /\ a.type = "Reset" /\ a.name = t
  BY <1>1, ActionsAreActions, Zenon
<1>3. <<a>> \in Seq(PortActions) /\ Asks(<<a>>, a.name)
  BY <1>2, OneAction, Zenon
<1> QED BY <1>1, <1>2, <1>3, Zenon

(* A handler that changes the state of the port and asks for the timers    *)
(* of its new duties that do not run, in a port that is running after it   *)
LEMMA HandlerKeeps ==
    ASSUME AppInv, NEW actions \in Seq(PortActions), NEW accepted \in BOOLEAN,
           HandlePortActions(actions, accepted),
           mode' = "Running", pending' = <<>>,
           port_state' \in {"Listening", "Slave", "Master"},
           \A t \in Duties(port_state') :
              \/ t \in ToSet(resets)
              \/ t \in timers'
              \/ Asks(actions, t)
    PROVE  AppInv'
<1>1. /\ resets' \in Seq(ActionNames) /\ packet_ids' \in Seq(ActionNames) /\ halted' \in BOOLEAN
      /\ ~halted' =>
            /\ ToSet(resets) \subseteq ToSet(resets')
            /\ \A k \in 1..Len(actions) :
                  actions[k].type = "Reset" => actions[k].name \in ToSet(resets')
  BY ActionsHandled DEF AppInv
<1>2. ASSUME ~halted' PROVE Duties(port_state') \subseteq timers' \union ToSet(resets')
  <2>1. SUFFICES ASSUME NEW t \in Duties(port_state'), t \notin timers'
                 PROVE  t \in ToSet(resets')
    OBVIOUS
  <2>2. CASE t \in ToSet(resets)
    BY <1>1, <1>2, <2>2
  <2>3. CASE Asks(actions, t)
    BY <1>1, <1>2, <2>3, Zenon DEF Asks
  <2> QED BY <2>1, <2>2, <2>3, Zenon
<1>3. ~halted' => (Duties(port_state) \subseteq Scheduled)'
  BY <1>2 DEF Scheduled, Duties
<1>4. mode' # "InBmca"
  OBVIOUS
<1> QED BY <1>1, <1>3, <1>4 DEF AppInv

(* A handler under take_running: the port keeps running, or there was none *)
(* and the device stops.                                                   *)
LEMMA RunningPortKeeps ==
    ASSUME AppInv, NEW state \in {"Listening", "Slave", "Master"},
           NEW actions \in Seq(PortActions), NEW accepted \in BOOLEAN,
           WithRunningPort(state, actions, accepted),
           \A t \in Duties(state) :
              \/ mode = "Running" => t \in timers' \/ t \in ToSet(resets)
              \/ Asks(actions, t)
    PROVE  AppInv'
<1>1. mode' = mode /\ pending' = pending
  BY DEF WithRunningPort
<1>2. CASE mode = "Running"
  <2>1. port_state' = state /\ HandlePortActions(actions, accepted)
    BY <1>2, Zenon DEF WithRunningPort, IsRunning
  <2>2. pending' = <<>>
    BY <1>1, <1>2 DEF AppInv
  <2>3. \A t \in Duties(port_state') :
           \/ t \in ToSet(resets)
           \/ t \in timers'
           \/ Asks(actions, t)
    BY <1>2, <2>1, Zenon
  <2> QED BY <1>1, <1>2, <2>1, <2>2, <2>3, HandlerKeeps
<1>3. CASE mode # "Running"
  <2>1. /\ halted' = TRUE /\ port_state' = port_state
        /\ resets' = resets /\ packet_ids' = packet_ids
    BY <1>3, Zenon DEF WithRunningPort, IsRunning
  <2> QED BY <1>1, <1>3, <2>1 DEF AppInv
<1> QED BY <1>2, <1>3

(* A message or a time stamp never stops a timer that is needed. *)
LEMMA MessageKeeps ==
    ASSUME AppInv, NEW actions \in Seq(PortActions), NEW accepted \in BOOLEAN,
           timers' = timers, WithRunningPort(port_state, actions, accepted)
    PROVE  AppInv'
<1>1. ~halted /\ port_state \in {"Listening", "Slave", "Master"}
  BY DEF AppInv, WithRunningPort
<1>2. \A t \in Duties(port_state) : mode = "Running" => t \in timers' \/ t \in ToSet(resets)
  BY <1>1 DEF AppInv, Scheduled
<1> QED BY <1>1, <1>2, RunningPortKeeps, Zenon

(* The actions of the handlers of messages *)
LEMMA MessageActions ==
    /\ EventActions \subseteq Seq(PortActions)
    /\ GeneralActions \subseteq Seq(PortActions)
    /\ \A context \in Contexts : SendTimestampActions(context) \subseteq Seq(PortActions)
<1>1. PICK update : update = <<Reset("FilterUpdate")>>
  OBVIOUS
<1>2. PICK receipt : receipt = <<Reset("AnnounceReceipt")>>
  OBVIOUS
<1>3. PICK general : general = <<SendGeneral>>
  OBVIOUS
<1>4. "FilterUpdate" \in TimerNames /\ "AnnounceReceipt" \in TimerNames
  BY DEF TimerNames
<1>5. update \in Seq(PortActions) /\ receipt \in Seq(PortActions)
  BY <1>1, <1>2, <1>4, OneReset, Zenon
<1>6. general \in Seq(PortActions)
  BY <1>3, ActionsAreActions, OneAction, Zenon
<1>7. PICK none : none = <<>>
  OBVIOUS
<1>8. none \in Seq(PortActions)
  BY <1>7
<1>9. Measured \subseteq {none, update}
  BY <1>1, <1>7, Zenon DEF Measured
<1>10. PICK response : response = <<SendEvent("PDelayResp")>>
  OBVIOUS
<1>11. response \in Seq(PortActions)
  BY <1>10, ActionsAreActions, OneAction, Zenon
<1>12. GeneralActions \subseteq Measured \union {receipt}
  BY <1>2, Zenon DEF GeneralActions
<1>13. EventActions \subseteq GeneralActions \union {general, response}
  BY <1>3, <1>10, Zenon DEF EventActions
<1>14. \A context \in Contexts :
          SendTimestampActions(context) \subseteq Measured \union {general, none}
  BY <1>3, <1>7, Zenon DEF SendTimestampActions, Contexts
<1> QED BY <1>5, <1>6, <1>8, <1>9, <1>11, <1>12, <1>13, <1>14, Zenon

(* A timer that elapses is started again if the duties of the port, maybe  *)
(* in a new state, depend on it.                                           *)
LEMMA TimerElapsesKeeps ==
    ASSUME AppInv, NEW timer \in TimerNames, NEW accepted \in BOOLEAN,
           TimerElapses(timer, accepted)
    PROVE  AppInv'
<1>1. PICK actions : actions = TimerActions(timer)
  OBVIOUS
<1>2. PICK state : state = AfterTimer(timer)
  OBVIOUS
<1>3. /\ timers' = timers \ {timer} /\ WithRunningPort(state, actions, accepted)
      /\ port_state \in {"Listening", "Slave", "Master"} /\ ~halted
  BY <1>1, <1>2 DEF TimerElapses, AppInv, WithRunningPort
<1>4. mode = "Running" =>
         \A t \in Duties(port_state) : t \in timers \/ t \in ToSet(resets)
  BY <1>3 DEF AppInv, Scheduled
<1>5. /\ "Announce" \in TimerNames /\ "Sync" \in TimerNames
      /\ "DelayRequest" \in TimerNames /\ <<>> \in Seq(PortActions)
  BY DEF TimerNames
<1>6. CASE timer = "AnnounceReceipt"
  <2>1. state = "Master" /\ actions = <<Reset("Announce"), Reset("Sync")>>
    BY <1>1, <1>2, <1>6 DEF AfterTimer, TimerActions
  <2>2. actions \in Seq(PortActions) /\ Asks(actions, "Announce") /\ Asks(actions, "Sync")
    BY <1>5, <2>1, TwoResets, Zenon
  <2>3. \A t \in Duties(state) : Asks(actions, t)
    BY <2>1, <2>2 DEF Duties
  <2> QED BY <1>3, <2>1, <2>2, <2>3, RunningPortKeeps
<1>7. CASE timer # "AnnounceReceipt"
  <2>1. state = port_state
    BY <1>2, <1>7 DEF AfterTimer
  <2>2. /\ actions \in Seq(PortActions)
        /\ timer \in Duties(port_state) => Asks(actions, timer)
    <3>1. timer \in {"Announce", "Sync", "DelayRequest", "FilterUpdate"}
      BY <1>7 DEF TimerNames
    <3>2. CASE timer \in {"Announce", "Sync"} /\ port_state = "Master"
      <4>1. CASE timer = "Announce"
        <5>1. actions = <<Reset("Announce"), SendGeneral>>
          BY <1>1, <3>2, <4>1 DEF TimerActions
        <5> QED BY <1>5, <4>1, <5>1, ResetAnd, ActionsAreActions, Zenon
      <4>2. CASE timer = "Sync"
        <5>1. actions = <<Reset("Sync"), SendEvent("Sync")>>
          BY <1>1, <3>2, <4>2 DEF TimerActions
        <5> QED BY <1>5, <4>2, <5>1, ResetAnd, ActionsAreActions, Zenon
      <4> QED BY <3>2, <4>1, <4>2, Zenon
    <3>3. CASE timer = "DelayRequest" /\ port_state = "Slave"
      <4>1. actions = <<Reset("DelayRequest"), SendEvent("DelayReq")>>
        BY <1>1, <3>3 DEF TimerActions
      <4> QED BY <1>5, <3>3, <4>1, ResetAnd, ActionsAreActions, Zenon
    <3>4. CASE timer \in {"Announce", "Sync"} /\ port_state # "Master"
      <4>1. actions = <<>>
        BY <1>1, <3>4 DEF TimerActions
      <4>2. timer \notin Duties(port_state)
        BY <1>3, <3>4 DEF Duties
      <4> QED BY <1>5, <4>1, <4>2, Zenon
    <3>5. CASE timer = "DelayRequest" /\ port_state # "Slave"
      <4>1. actions = <<>>
        BY <1>1, <3>5 DEF TimerActions
      <4>2. timer \notin Duties(port_state)
        BY <1>3, <3>5 DEF Duties
      <4> QED BY <1>5, <4>1, <4>2, Zenon
    <3>6. CASE timer = "FilterUpdate"
      <4>1. actions = <<>>
        BY <1>1, <3>6 DEF TimerActions
      <4>2. timer \notin Duties(port_state)
        BY <1>3, <3>6 DEF Duties
      <4> QED BY <1>5, <4>1, <4>2, Zenon
    <3> QED BY <3>1, <3>2, <3>3, <3>4, <3>5, <3>6, Zenon
  <2>3. \A t \in Duties(state) :
           \/ mode = "Running" => t \in timers' \/ t \in ToSet(resets)
           \/ Asks(actions, t)
    BY <1>3, <1>4, <2>1, <2>2
  <2> QED BY <1>3, <2>1, <2>2, <2>3, RunningPortKeeps
<1> QED BY <1>6, <1>7

(* perform_bmca: the actions that were pending, or come with the new state *)
LEMMA InstanceBmcaKeeps ==
    ASSUME AppInv, NEW recommended \in Recommended, InstanceBmca(recommended)
    PROVE  AppInv'
<1>1. PICK actions : actions = recommended.pending
  OBVIOUS
<1>2. PICK state : state = recommended.state
  OBVIOUS
<1>3. /\ mode' = "Running" /\ pending' = <<>> /\ port_state' = state
      /\ HandlePortActions(actions, TRUE) /\ timers' = timers /\ ~halted
  BY <1>1, <1>2 DEF InstanceBmca, PerformBmca, MakeRunning
<1>4. "Announce" \in TimerNames /\ "Sync" \in TimerNames
  BY DEF TimerNames
<1>5. "DelayRequest" \in TimerNames /\ "AnnounceReceipt" \in TimerNames
  BY DEF TimerNames
<1>6. /\ state \in {"Listening", "Slave", "Master"} /\ actions \in Seq(PortActions)
      /\ \A t \in Duties(state) : t \in ToSet(resets) \/ t \in timers \/ Asks(actions, t)
  <2>1. \/ state = port_state /\ actions = pending
        \/ state = "Slave" /\ actions = <<Reset("AnnounceReceipt"), Reset("DelayRequest")>>
        \/ state = "Master" /\ actions = <<Reset("Announce"), Reset("Sync")>>
    BY <1>1, <1>2 DEF Recommended
  <2>2. CASE state = port_state /\ actions = pending /\ mode = "InBmca"
    <3>1. state = "Listening" /\ actions = <<Reset("AnnounceReceipt")>>
      BY <2>2 DEF AppInv
    <3>2. Asks(actions, "AnnounceReceipt") /\ actions \in Seq(PortActions)
      BY <1>5, <3>1, OneReset, Zenon
    <3> QED BY <3>1, <3>2 DEF Duties
  <2>3. CASE state = port_state /\ actions = pending /\ mode = "Running"
    <3>1. actions = <<>> /\ Duties(state) \subseteq timers \union ToSet(resets)
      BY <1>3, <2>3 DEF AppInv, Scheduled
    <3>2. actions \in Seq(PortActions)
      BY <3>1
    <3> QED BY <2>3, <3>1, <3>2 DEF AppInv
  <2>4. CASE state = "Slave" /\ actions = <<Reset("AnnounceReceipt"), Reset("DelayRequest")>>
    <3>1. /\ Asks(actions, "AnnounceReceipt") /\ Asks(actions, "DelayRequest")
          /\ actions \in Seq(PortActions)
      BY <1>5, <2>4, TwoResets, Zenon
    <3> QED BY <2>4, <3>1 DEF Duties
  <2>5. CASE state = "Master" /\ actions = <<Reset("Announce"), Reset("Sync")>>
    <3>1. Asks(actions, "Announce") /\ Asks(actions, "Sync") /\ actions \in Seq(PortActions)
      BY <1>4, <2>5, TwoResets, Zenon
    <3> QED BY <2>5, <3>1 DEF Duties
  <2>6. mode = "InBmca" \/ mode = "Running"
    BY DEF AppInv
  <2> QED BY <2>1, <2>2, <2>3, <2>4, <2>5, <2>6
<1> QED BY <1>3, <1>6, HandlerKeeps

(* A reset leaves the channel and its timer runs. *)
LEMMA TakeResetKeeps ==
    ASSUME AppInv, TakeReset
    PROVE  AppInv'
<1>1. /\ timers' = timers \union {Head(resets)} /\ resets' = Tail(resets) /\ resets # <<>>
      /\ resets \in Seq(ActionNames)
      /\ mode' = mode /\ port_state' = port_state /\ pending' = pending
      /\ packet_ids' = packet_ids /\ halted' = halted
  BY DEF TakeReset, AppInv
<1>2. PICK q : q = resets
  OBVIOUS
<1>3. PICK t : t = Tail(q)
  OBVIOUS
<1>4. PICK n : n = Len(q)
  OBVIOUS
<1>5. /\ q \in Seq(ActionNames) /\ q # <<>> /\ t \in Seq(ActionNames) /\ n \in Nat /\ n >= 1
      /\ Len(t) = n - 1 /\ Head(q) = q[1] /\ \A k \in 1..(n - 1) : t[k] = q[k + 1]
  BY <1>1, <1>2, <1>3, <1>4
<1>6. ASSUME NEW x \in ToSet(q) PROVE x = Head(q) \/ x \in ToSet(t)
  <2>1. DOMAIN q = 1..n /\ DOMAIN t = 1..(n - 1)
    BY <1>4, <1>5
  <2>2. PICK k \in 1..n : q[k] = x
    BY <2>1, Zenon DEF ToSet
  <2>3. CASE k = 1
    BY <1>5, <2>2, <2>3
  <2>4. CASE k # 1
    <3>1. k - 1 \in 1..(n - 1) /\ k - 1 + 1 = k
      BY <1>5, <2>4
    <3>2. t[k - 1] = x
      BY <1>5, <2>2, <3>1
    <3> QED BY <2>1, <3>1, <3>2, Zenon DEF ToSet
  <2> QED BY <2>3, <2>4
<1>7. Scheduled \subseteq Scheduled'
  <2>1. timers \union ToSet(q) \subseteq (timers \union {Head(q)}) \union ToSet(t)
    BY <1>6
  <2>2. Scheduled = timers \union ToSet(q)
    BY <1>2 DEF Scheduled
  <2>3. Scheduled' = (timers \union {Head(q)}) \union ToSet(t)
    BY <1>1, <1>2, <1>3, Zenon DEF Scheduled
  <2> QED BY <2>1, <2>2, <2>3
<1>8. resets' \in Seq(ActionNames)
  BY <1>1, <1>2, <1>3, <1>5
<1> QED BY <1>1, <1>7, <1>8 DEF AppInv, Duties

(* The listener for time stamps leaves timers and channel alone. *)
LEMMA ListenerKeeps ==
    ASSUME AppInv,
           /\ mode' = mode /\ port_state' = port_state /\ pending' = pending
           /\ timers' = timers /\ resets' = resets /\ halted' = halted,
           packet_ids' \in Seq(ActionNames)
    PROVE  AppInv'
BY DEF AppInv, Scheduled, Duties

(* Every step keeps the invariant. *)
LEMMA AppNextKeeps == AppInv /\ [AppNext]_appVars => AppInv'
<1> SUFFICES ASSUME AppInv, [AppNext]_appVars PROVE AppInv'
  OBVIOUS
<1>1. packet_ids \in Seq(ActionNames)
  BY DEF AppInv
<1>2. ASSUME NEW actions \in EventActions, NEW accepted \in BOOLEAN,
             EventListen(actions, accepted)
      PROVE  AppInv'
  BY <1>2, MessageActions, MessageKeeps DEF EventListen
<1>3. ASSUME NEW actions \in GeneralActions, GeneralListen(actions) PROVE AppInv'
  BY <1>3, MessageActions, MessageKeeps DEF GeneralListen
<1>4. ASSUME NEW context \in Contexts, NEW actions \in SendTimestampActions(context),
             HandleSendTimestamp(actions)
      PROVE  AppInv'
  BY <1>4, MessageActions, MessageKeeps DEF HandleSendTimestamp
<1>5. ASSUME TakePacketId PROVE AppInv'
  <2>1. packet_ids' \in Seq(ActionNames)
    BY <1>1, <1>5 DEF TakePacketId
  <2> QED BY <1>5, <2>1, ListenerKeeps DEF TakePacketId
<1>6. ASSUME TxInterrupt PROVE AppInv'
  BY <1>1, <1>6, ListenerKeeps DEF TxInterrupt
<1>7. ASSUME NEW found \in BOOLEAN, PollTimestamp(found) PROVE AppInv'
  BY <1>1, <1>7, ListenerKeeps DEF PollTimestamp
<1>8. CASE UNCHANGED appVars
  BY <1>1, <1>8, ListenerKeeps DEF appVars
<1> QED
  BY <1>2, <1>3, <1>4, <1>5, <1>6, <1>7, <1>8, InstanceBmcaKeeps, TimerElapsesKeeps,
     TakeResetKeeps DEF AppNext

(* For any capacities of the channels: no reset of a timer is lost between *)
(* handle_port_actions and statime_timers, in whatever order timers elapse *)
(* and resets are taken.                                                   *)
THEOREM DutiesStayScheduled == AppSpec => []DutiesAreScheduled
<1>1. AppInit => AppInv
  <2> SUFFICES ASSUME AppInit PROVE AppInv
    OBVIOUS
  <2>1. mode # "Running"
    BY DEF AppInit
  <2>2. resets \in Seq(ActionNames) /\ packet_ids \in Seq(ActionNames)
    BY DEF AppInit
  <2> QED BY <2>1, <2>2 DEF AppInit, AppInv
<1>2. AppInv => DutiesAreScheduled
  BY DEF AppInv, DutiesAreScheduled, Duties
<1> QED BY <1>1, <1>2, AppNextKeeps, PTL DEF AppSpec
=============================================================================
