------------------------- MODULE TlvForwarder_proofs -------------------------
(***************************************************************************)
(* TLVs are forwarded in order and once (module TlvForwarder), for any     *)
(* ports, senders, sizes, room in announce messages and capacity of the    *)
(* channel.  The loop of send_announce is dealt with by induction over its *)
(* turns.                                                                  *)
(***************************************************************************)
EXTENDS TlvForwarder, WellFoundedInduction, SequenceTheorems, TLAPS

(* A set of natural numbers that is not empty has a least element. *)
LEMMA LeastElement ==
    ASSUME NEW T, T \subseteq Nat, T # {}
    PROVE  \E n \in T : \A m \in T : n <= m
<1>1. PICK x \in T : \A y \in T : ~ (<<y, x>> \in OpToRel(<, Nat))
  BY WFMin, NatLessThanWellFounded
<1>2. \A y \in T : ~ (y < x)
  BY <1>1 DEF OpToRel
<1> QED BY <1>2

(* Induction, for a set in place of a predicate. *)
LEMMA SetInduction ==
    ASSUME NEW S, 0 \in S, \A n \in Nat : n \in S => n + 1 \in S
    PROVE  \A n \in Nat : n \in S
<1>1. SUFFICES ASSUME Nat \ S # {} PROVE FALSE
  OBVIOUS
<1>2. PICK n \in Nat \ S : \A m \in Nat \ S : n <= m
  BY <1>1, LeastElement
<1>3. n # 0 /\ n - 1 \in Nat
  BY <1>2
<1>4. n - 1 \in S
  BY <1>2, <1>3
<1> QED BY <1>2, <1>3, <1>4

-----------------------------------------------------------------------------
(* The loop of send_announce *)

Start(margin) == [margin |-> margin, message |-> <<>>, taken |-> 0,
                  done |-> FALSE, failed |-> FALSE]

(* f holds the results of the first n turns of the loop in TakeTlvs. *)
IsLoop(f, queue, margin, n) ==
    f = [i \in 0..n |-> IF i = 0 THEN Start(margin) ELSE TakeTlv(f[i - 1], queue[i])]

(* The same, turn by turn. *)
Turns(f, queue, margin, n) ==
    f[0] = Start(margin) /\ \A i \in 1..n : f[i] = TakeTlv(f[i - 1], queue[i])

(* The function of the loop, turn by turn. *)
LEMMA LoopTurns ==
    ASSUME NEW f, NEW queue, NEW margin, NEW n \in Nat, IsLoop(f, queue, margin, n)
    PROVE  Turns(f, queue, margin, n)
<1>1. \A i \in 0..n : f[i] = IF i = 0 THEN Start(margin) ELSE TakeTlv(f[i - 1], queue[i])
  BY Zenon DEF IsLoop
<1>2. f[0] = Start(margin)
  BY <1>1
<1>3. ASSUME NEW i \in 1..n PROVE f[i] = TakeTlv(f[i - 1], queue[i])
  BY <1>1
<1> QED BY <1>2, <1>3 DEF Turns

(* The loop is well defined. *)
LEMMA LoopExists ==
    ASSUME NEW queue, NEW margin
    PROVE  \A n \in Nat : \E f : IsLoop(f, queue, margin, n)
<1> DEFINE S == {n \in Nat : \E f : IsLoop(f, queue, margin, n)}
<1>1. 0 \in S
  <2>1. IsLoop([i \in 0..0 |-> Start(margin)], queue, margin, 0)
    BY DEF IsLoop
  <2> QED BY <2>1
<1>2. ASSUME NEW n \in Nat, n \in S PROVE n + 1 \in S
  <2>1. PICK f : IsLoop(f, queue, margin, n)
    BY <1>2
  <2>2. Turns(f, queue, margin, n)
    BY <2>1, LoopTurns
  <2> DEFINE g == [i \in 0..(n + 1) |-> IF i <= n THEN f[i] ELSE TakeTlv(f[i - 1], queue[i])]
  <2>3. ASSUME NEW i \in 0..(n + 1)
        PROVE  g[i] = IF i = 0 THEN Start(margin) ELSE TakeTlv(g[i - 1], queue[i])
    <3>1. CASE i = 0
      BY <3>1, <2>2 DEF Turns
    <3>2. CASE i # 0
      <4>1. g[i - 1] = f[i - 1]
        BY <3>2
      <4>2. CASE i <= n
        <5>1. f[i] = TakeTlv(f[i - 1], queue[i])
          BY <2>2, <3>2, <4>2 DEF Turns
        <5> QED BY <3>2, <4>1, <4>2, <5>1
      <4>3. CASE ~(i <= n)
        BY <3>2, <4>1, <4>3
      <4> QED BY <4>2, <4>3
    <3> QED BY <3>1, <3>2
  <2>4. IsLoop(g, queue, margin, n + 1)
    BY <2>3 DEF IsLoop
  <2> QED BY <2>4
<1> HIDE DEF S
<1>3. \A n \in Nat : n \in S
  BY <1>1, <1>2, SetInduction
<1> QED BY <1>3 DEF S

(* What TakeTlvs returns is what the last turn leaves. *)
LEMMA TakenByTurns ==
    ASSUME NEW queue, NEW margin, Len(queue) \in Nat
    PROVE  \E f : Turns(f, queue, margin, Len(queue)) /\ TakeTlvs(queue, margin) = f[Len(queue)]
<1> DEFINE f == CHOOSE g : IsLoop(g, queue, margin, Len(queue))
<1>1. TakeTlvs(queue, margin) = f[Len(queue)]
  BY Zenon DEF TakeTlvs, IsLoop, Start
<1>2. IsLoop(f, queue, margin, Len(queue))
  BY LoopExists, Zenon
<1> HIDE DEF f
<1>3. Turns(f, queue, margin, Len(queue))
  BY <1>2, LoopTurns, Zenon
<1> QED BY <1>1, <1>3

(* What may have been forwarded *)
Tlvs == [id : Nat, sender_identity : Senders, size : Sizes, path_trace : BOOLEAN]

InOrder(queue) == \A i, j \in 1..Len(queue) : i < j => queue[i].id < queue[j].id

(* The loop between two turns: it has taken the first TLVs, up to the one  *)
(* that is too large, and what it put into the message are ids of those,   *)
(* in order.                                                               *)
LoopInv(state, queue, i) ==
    /\ state \in [margin : Int, message : Seq(Nat), taken : 0..i,
                  done : BOOLEAN, failed : BOOLEAN]
    /\ state.done \/ state.failed \/ state.taken = i
    /\ \A k, l \in 1..Len(state.message) : k < l => state.message[k] < state.message[l]
    /\ \A k \in 1..Len(state.message) : \E j \in 1..state.taken : state.message[k] = queue[j].id

(* One turn keeps it. *)
LEMMA TurnInv ==
    ASSUME NEW queue \in Seq(Tlvs), InOrder(queue), NEW i \in Nat, i + 1 <= Len(queue),
           NEW state, LoopInv(state, queue, i)
    PROVE  LoopInv(TakeTlv(state, queue[i + 1]), queue, i + 1)
<1>1. PICK tlv : tlv = queue[i + 1]
  OBVIOUS
<1>2. tlv.id \in Nat /\ tlv.size \in Nat /\ i + 1 \in 1..Len(queue)
  <2>1. queue[i + 1] \in Tlvs /\ i + 1 \in 1..Len(queue)
    OBVIOUS
  <2> QED BY <1>1, <2>1, TlvForwarderAssumption DEF Tlvs
<1>3. PICK new : new = TakeTlv(state, tlv)
  OBVIOUS
<1>4. /\ state \in [margin : Int, message : Seq(Nat), taken : 0..i,
                    done : BOOLEAN, failed : BOOLEAN]
      /\ state.margin \in Int /\ state.message \in Seq(Nat) /\ state.taken \in 0..i
      /\ state.done \in BOOLEAN /\ state.failed \in BOOLEAN
  BY DEF LoopInv
<1> DEFINE States == [margin : Int, message : Seq(Nat), taken : 0..(i + 1),
                      done : BOOLEAN, failed : BOOLEAN]
<1>5. CASE state.done \/ state.failed
  <2>1. new = state
    BY <1>3, <1>5 DEF TakeTlv
  <2>2. state \in States
    BY <1>4
  <2> QED BY <1>1, <1>3, <1>5, <2>1, <2>2 DEF LoopInv
<1>6. CASE ~state.done /\ ~state.failed /\ tlv.size >= state.margin
  <2>1. new = [state EXCEPT !.done = TRUE] \/ new = [state EXCEPT !.failed = TRUE]
    BY <1>2, <1>3, <1>4, <1>6 DEF TakeTlv
  <2>2. /\ new \in States /\ (new.done \/ new.failed)
        /\ new.taken = state.taken /\ new.message = state.message
    <3>1. state \in States
      BY <1>4
    <3>2. CASE new = [state EXCEPT !.done = TRUE]
      BY <3>1, <3>2
    <3>3. CASE new = [state EXCEPT !.failed = TRUE]
      BY <3>1, <3>3
    <3> QED BY <2>1, <3>2, <3>3
  <2> QED BY <1>1, <1>3, <2>2 DEF LoopInv
<1>7. CASE ~state.done /\ ~state.failed /\ tlv.size < state.margin
  <2>1. state.taken = i
    BY <1>7 DEF LoopInv
  <2>2. new = IF Propagates(tlv)
              THEN [state EXCEPT !.taken = @ + 1, !.margin = @ - tlv.size,
                                 !.message = Append(@, tlv.id)]
              ELSE [state EXCEPT !.taken = @ + 1]
    BY <1>2, <1>3, <1>4, <1>7 DEF TakeTlv
  <2>3. CASE ~Propagates(tlv)
    <3>1. new \in States /\ new.taken = i + 1 /\ new.message = state.message
      BY <1>4, <2>1, <2>2, <2>3
    <3>2. \A j \in 1..i : j \in 1..(i + 1)
      OBVIOUS
    <3> QED BY <1>1, <1>3, <2>1, <3>1, <3>2 DEF LoopInv
  <2>4. CASE Propagates(tlv)
    <3>1. PICK m : m = Append(state.message, tlv.id)
      OBVIOUS
    <3>2. PICK n : n = Len(state.message)
      OBVIOUS
    <3>3. /\ n \in Nat /\ m \in Seq(Nat) /\ Len(m) = n + 1 /\ m[n + 1] = tlv.id
          /\ \A k \in 1..n : m[k] = state.message[k]
      BY <1>2, <1>4, <3>1, <3>2
    <3>4. new \in States /\ new.taken = i + 1 /\ new.message = m
      <4>1. PICK taken, margin : taken = state.taken + 1 /\ margin = state.margin - tlv.size
        OBVIOUS
      <4>2. taken = i + 1 /\ taken \in 0..(i + 1) /\ margin \in Int
        BY <1>2, <1>4, <2>1, <4>1
      <4>3. new = [state EXCEPT !.taken = taken, !.margin = margin, !.message = m]
        BY <2>2, <2>4, <3>1, <4>1
      <4>4. new = [margin |-> margin, message |-> m, taken |-> taken,
                   done |-> state.done, failed |-> state.failed]
        BY <1>4, <4>3
      <4> QED BY <1>4, <3>3, <4>2, <4>4
    <3>5. ASSUME NEW k \in 1..n
          PROVE  m[k] \in Nat /\ m[k] < tlv.id /\ \E j \in 1..i : m[k] = queue[j].id
      <4>1. PICK j \in 1..i : m[k] = queue[j].id
        BY <2>1, <3>2, <3>3 DEF LoopInv
      <4>2. queue[j].id < queue[i + 1].id
        BY <1>2 DEF InOrder
      <4> QED BY <1>1, <3>3, <4>1, <4>2
    <3>6. ASSUME NEW k \in 1..(n + 1), NEW l \in 1..(n + 1), k < l PROVE m[k] < m[l]
      <4>1. k \in 1..n
        BY <3>3, <3>6
      <4>2. CASE l = n + 1
        BY <3>3, <3>5, <4>1, <4>2
      <4>3. CASE l \in 1..n
        BY <3>2, <3>3, <3>6, <4>1, <4>3 DEF LoopInv
      <4> QED BY <3>3, <4>2, <4>3
    <3>7. ASSUME NEW k \in 1..(n + 1) PROVE \E j \in 1..(i + 1) : m[k] = queue[j].id
      <4>1. CASE k = n + 1
        <5>1. i + 1 \in 1..(i + 1)
          OBVIOUS
        <5> QED BY <1>1, <3>3, <4>1, <5>1
      <4>2. CASE k \in 1..n
        BY <3>5, <4>2
      <4> QED BY <3>3, <4>1, <4>2
    <3> QED BY <1>1, <1>3, <3>3, <3>4, <3>6, <3>7 DEF LoopInv
  <2> QED BY <2>3, <2>4
<1> QED BY <1>2, <1>4, <1>5, <1>6, <1>7

(* So it holds when the loop ends. *)
LEMMA TakeTlvsInv ==
    ASSUME NEW queue \in Seq(Tlvs), InOrder(queue), NEW margin \in Margins
    PROVE  LoopInv(TakeTlvs(queue, margin), queue, Len(queue))
<1>1. Len(queue) \in Nat
  OBVIOUS
<1>2. PICK f : /\ Turns(f, queue, margin, Len(queue))
               /\ TakeTlvs(queue, margin) = f[Len(queue)]
  BY <1>1, TakenByTurns, Zenon
<1> DEFINE S == {i \in Nat : i <= Len(queue) => LoopInv(f[i], queue, i)}
<1>3. 0 \in S
  <2>1. f[0] = Start(margin) /\ margin \in Int
    BY <1>2, TlvForwarderAssumption DEF Turns
  <2>2. LoopInv(Start(margin), queue, 0)
    BY <2>1 DEF LoopInv, Start
  <2> QED BY <2>1, <2>2
<1>4. ASSUME NEW n \in Nat, n \in S PROVE n + 1 \in S
  <2>1. SUFFICES ASSUME n + 1 <= Len(queue) PROVE LoopInv(f[n + 1], queue, n + 1)
    OBVIOUS
  <2>2. n <= Len(queue) /\ n + 1 \in 1..Len(queue) /\ n + 1 - 1 = n
    BY <1>1, <2>1
  <2>3. LoopInv(f[n], queue, n)
    BY <1>4, <2>2
  <2>4. f[n + 1] = TakeTlv(f[n], queue[n + 1])
    BY <1>2, <2>2 DEF Turns
  <2> QED BY <2>1, <2>3, <2>4, TurnInv
<1> HIDE DEF S
<1>5. \A n \in Nat : n \in S
  BY <1>3, <1>4, SetInduction
<1> QED BY <1>1, <1>2, <1>5 DEF S

-----------------------------------------------------------------------------
(* One port: what its receiver holds (queue), what waits in peek (first),  *)
(* what it has sent, and the number of TLVs forwarded (next).              *)
PortInv(queue, first, ids, next) ==
    /\ queue \in Seq(Tlvs) /\ InOrder(queue) /\ Len(queue) <= Capacity
    /\ ids \in Seq(Nat)
    /\ \A i, j \in 1..Len(ids) : i < j => ids[i] < ids[j]
    /\ first # None => /\ first \in Tlvs /\ first.id < next
                       /\ \A j \in 1..Len(queue) : first.id < queue[j].id
                       /\ \A i \in 1..Len(ids) : ids[i] < first.id
    /\ \A j \in 1..Len(queue) : queue[j].id < next
    /\ \A i \in 1..Len(ids) : ids[i] < next
    /\ \A i \in 1..Len(ids), j \in 1..Len(queue) : ids[i] < queue[j].id

(* All that waits for a port, which is Queue of the specification *)
Waiting(queue, first) == (IF first = None THEN <<>> ELSE <<first>>) \o queue

(* It is in order too, and later than all that was sent. *)
LEMMA WaitingInOrder ==
    ASSUME NEW queue, NEW first, NEW ids, NEW next \in Nat, PortInv(queue, first, ids, next)
    PROVE  LET all == Waiting(queue, first) IN
           /\ all \in Seq(Tlvs) /\ InOrder(all) /\ Len(all) <= Capacity + 1
           /\ \A j \in 1..Len(all) : all[j].id < next
           /\ \A i \in 1..Len(ids), j \in 1..Len(all) : ids[i] < all[j].id
<1>1. PICK all : all = Waiting(queue, first)
  OBVIOUS
<1>2. PICK n : n = Len(queue)
  OBVIOUS
<1>3. queue \in Seq(Tlvs) /\ n \in Nat /\ n <= Capacity /\ Capacity \in Nat
  BY <1>2, TlvForwarderAssumption DEF PortInv
<1>4. CASE first = None
  <2>1. all = queue
    BY <1>1, <1>3, <1>4 DEF Waiting
  <2> QED BY <1>1, <1>2, <1>3, <2>1 DEF PortInv
<1>5. CASE first # None
  <2>1. first \in Tlvs
    BY <1>5 DEF PortInv
  <2>2. all = <<first>> \o queue
    BY <1>1, <1>5 DEF Waiting
  <2>3. /\ all \in Seq(Tlvs) /\ Len(all) = n + 1 /\ all[1] = first
        /\ \A j \in 1..n : all[j + 1] = queue[j]
    BY <1>2, <1>3, <2>1, <2>2
  <2>4. ASSUME NEW j \in 1..(n + 1) PROVE j = 1 \/ (j - 1 \in 1..n /\ all[j] = queue[j - 1])
    <3>1. j # 1 => j - 1 \in 1..n /\ j - 1 + 1 = j
      BY <1>3
    <3> QED BY <2>3, <3>1
  <2>5. \A j \in 1..(n + 1) : all[j].id < next
    BY <1>2, <1>5, <2>3, <2>4 DEF PortInv
  <2>6. \A i \in 1..Len(ids), j \in 1..(n + 1) : ids[i] < all[j].id
    BY <1>2, <1>5, <2>3, <2>4 DEF PortInv
  <2>7. ASSUME NEW i \in 1..(n + 1), NEW j \in 1..(n + 1), i < j PROVE all[i].id < all[j].id
    <3>1. j - 1 \in 1..n /\ all[j] = queue[j - 1]
      BY <1>3, <2>4, <2>7
    <3>2. CASE i = 1
      BY <1>2, <1>5, <2>3, <3>1, <3>2 DEF PortInv
    <3>3. CASE i # 1
      <4>1. i - 1 \in 1..n /\ all[i] = queue[i - 1] /\ i - 1 < j - 1
        BY <2>4, <2>7, <3>3
      <4> QED BY <1>2, <3>1, <4>1 DEF PortInv, InOrder
    <3> QED BY <3>2, <3>3
  <2>8. n + 1 <= Capacity + 1
    BY <1>3
  <2> QED BY <1>1, <2>3, <2>5, <2>6, <2>7, <2>8 DEF InOrder
<1> QED BY <1>4, <1>5

(* A sequence without its first elements *)
LEMMA LaterPart ==
    ASSUME NEW s \in Seq(Tlvs), NEW d \in Nat, NEW t, t = SubSeq(s, d + 1, Len(s))
    PROVE  /\ t \in Seq(Tlvs) /\ (d <= Len(s) => Len(t) = Len(s) - d)
           /\ (d > Len(s) => Len(t) = 0)
           /\ \A j \in 1..Len(t) : j + d \in 1..Len(s) /\ t[j] = s[j + d]
<1>1. PICK n : n = Len(s)
  OBVIOUS
<1>2. n \in Nat /\ n \in Int /\ d + 1 \in Int
  BY <1>1
<1>3. \A i \in (d + 1)..n : s[i] \in Tlvs
  BY <1>1, <1>2
<1>4. /\ t \in Seq(Tlvs)
      /\ Len(t) = IF d + 1 <= n THEN n - (d + 1) + 1 ELSE 0
      /\ \A i \in 1..(n - (d + 1) + 1) : t[i] = s[d + 1 + i - 1]
  BY <1>1, <1>2, <1>3, SubSeqProperties
<1>5. ASSUME NEW j \in 1..Len(t) PROVE j + d \in 1..n /\ t[j] = s[j + d]
  <2>1. d + 1 <= n /\ Len(t) = n - (d + 1) + 1
    BY <1>2, <1>4
  <2>2. j \in 1..(n - (d + 1) + 1) /\ d + 1 + j - 1 = j + d /\ j + d \in 1..n
    BY <1>2, <2>1
  <2> QED BY <1>4, <2>2
<1> QED BY <1>1, <1>2, <1>4, <1>5

(* forward: the new TLV is the latest. *)
LEMMA BroadcastInv ==
    ASSUME NEW queue, NEW first, NEW ids, NEW next \in Nat, PortInv(queue, first, ids, next),
           NEW tlv \in Tlvs, tlv.id = next
    PROVE  PortInv(Broadcast(queue, tlv), first, ids, next + 1)
<1>1. PICK n : n = Len(queue)
  OBVIOUS
<1>2. queue \in Seq(Tlvs) /\ n \in Nat /\ n <= Capacity /\ Capacity \in Nat /\ Capacity >= 1
  BY <1>1, TlvForwarderAssumption DEF PortInv
<1> DEFINE Rest(t, d) ==
        /\ t \in Seq(Tlvs) /\ Len(t) = n - d /\ Broadcast(queue, tlv) = Append(t, tlv)
        /\ n - d + 1 <= Capacity /\ n - d \in Nat
        /\ \A k \in 1..(n - d) : k + d \in 1..n /\ t[k] = queue[k + d]
<1>3. n < Capacity => Rest(queue, 0)
  BY <1>1, <1>2 DEF Broadcast
<1>4. ~(n < Capacity) => Rest(Tail(queue), 1)
  BY <1>1, <1>2 DEF Broadcast
<1>5. \E t : \E d \in Nat : Rest(t, d)
  <2> HIDE DEF Rest
  <2>1. 0 \in Nat /\ 1 \in Nat
    OBVIOUS
  <2> QED BY <1>3, <1>4, <2>1, Zenon
<1>6. PICK t : \E d \in Nat : Rest(t, d)
  BY <1>5, Zenon
<1>7. PICK d \in Nat : Rest(t, d)
  BY <1>6, Zenon
<1>8. PICK r : r = n - d
  OBVIOUS
<1>9. PICK new : new = Append(t, tlv)
  OBVIOUS
<1>10. /\ r \in Nat /\ t \in Seq(Tlvs) /\ Len(t) = r /\ r + 1 <= Capacity
       /\ Broadcast(queue, tlv) = new
       /\ \A k \in 1..r : k + d \in 1..n /\ t[k] = queue[k + d]
  BY <1>7, <1>8, <1>9
<1>11. /\ new \in Seq(Tlvs) /\ Len(new) = r + 1 /\ new[r + 1] = tlv
       /\ \A k \in 1..r : k + d \in 1..n /\ new[k] = queue[k + d]
  BY <1>9, <1>10
<1>12. ASSUME NEW k \in 1..(r + 1)
       PROVE  /\ new[k].id \in Nat /\ new[k].id < next + 1
              /\ k # r + 1 => /\ k \in 1..r /\ new[k].id < next
                              /\ k + d \in 1..n /\ new[k] = queue[k + d]
  <2>1. new[k].id \in Nat
    <3>1. new[k] \in Tlvs
      BY <1>11
    <3> QED BY <3>1 DEF Tlvs
  <2>2. CASE k = r + 1
    BY <1>11, <2>1, <2>2
  <2>3. CASE k # r + 1
    <3>1. k \in 1..r
      BY <1>10, <2>3
    <3>2. k + d \in 1..n /\ new[k] = queue[k + d]
      BY <1>11, <3>1
    <3>3. new[k].id < next
      BY <1>1, <3>2 DEF PortInv
    <3> QED BY <2>1, <3>1, <3>2, <3>3
  <2> QED BY <2>2, <2>3
<1>13. InOrder(new)
  <2>1. ASSUME NEW k \in 1..(r + 1), NEW l \in 1..(r + 1), k < l PROVE new[k].id < new[l].id
    <3>1. k # r + 1
      BY <1>10, <2>1
    <3>2. CASE l = r + 1
      BY <1>11, <1>12, <3>1, <3>2
    <3>3. CASE l # r + 1
      <4>1. k + d < l + d
        BY <2>1
      <4> QED BY <1>1, <1>12, <3>1, <3>3, <4>1 DEF PortInv, InOrder
    <3> QED BY <3>2, <3>3
  <2> QED BY <1>11, <2>1 DEF InOrder
<1>14. first # None => /\ first \in Tlvs /\ first.id < next + 1
                       /\ \A j \in 1..(r + 1) : first.id < new[j].id
                       /\ \A i \in 1..Len(ids) : ids[i] < first.id
  <2>1. SUFFICES ASSUME first # None
                 PROVE  /\ first.id < next + 1
                        /\ \A j \in 1..(r + 1) : first.id < new[j].id
    BY DEF PortInv
  <2>2. first.id \in Nat /\ first.id < next
    BY <2>1 DEF PortInv, Tlvs
  <2>3. ASSUME NEW j \in 1..(r + 1) PROVE first.id < new[j].id
    <3>1. CASE j = r + 1
      BY <1>11, <2>2, <3>1
    <3>2. CASE j # r + 1
      BY <1>1, <1>12, <2>1, <3>2 DEF PortInv
    <3> QED BY <3>1, <3>2
  <2> QED BY <2>2, <2>3
<1>15. ASSUME NEW i \in 1..Len(ids)
       PROVE  /\ ids[i] < next + 1
              /\ \A j \in 1..(r + 1) : ids[i] < new[j].id
  <2>1. ids[i] \in Nat /\ ids[i] < next
    BY DEF PortInv
  <2>2. ASSUME NEW j \in 1..(r + 1) PROVE ids[i] < new[j].id
    <3>1. CASE j = r + 1
      BY <1>11, <2>1, <3>1
    <3>2. CASE j # r + 1
      BY <1>1, <1>12, <3>2 DEF PortInv
    <3> QED BY <3>1, <3>2
  <2> QED BY <2>1, <2>2
<1>16. /\ ids \in Seq(Nat)
       /\ \A i, j \in 1..Len(ids) : i < j => ids[i] < ids[j]
  BY DEF PortInv
<1>17. PortInv(new, first, ids, next + 1)
  BY <1>10, <1>11, <1>12, <1>13, <1>14, <1>15, <1>16 DEF PortInv
<1> QED BY <1>10, <1>17

(* send_announce: what it puts into the message was the first to wait, and *)
(* what remains is later.                                                  *)
LEMMA AnnounceInv ==
    ASSUME NEW queue, NEW first, NEW ids, NEW next \in Nat, PortInv(queue, first, ids, next),
           NEW margin \in Margins, NEW all, all = Waiting(queue, first),
           NEW end, end = TakeTlvs(all, margin)
    PROVE  PortInv(SubSeq(all, end.taken + 2, Len(all)), PeekAfter(all, end.taken),
                   ids \o end.message, next)
<1>1. /\ all \in Seq(Tlvs) /\ InOrder(all) /\ Len(all) <= Capacity + 1
      /\ \A j \in 1..Len(all) : all[j].id < next
      /\ \A i \in 1..Len(ids), j \in 1..Len(all) : ids[i] < all[j].id
  BY WaitingInOrder
<1>2. LoopInv(end, all, Len(all))
  BY <1>1, TakeTlvsInv
<1>3. PICK n : n = Len(all)
  OBVIOUS
<1>4. PICK m : m = end.message
  OBVIOUS
<1>5. PICK d : d = end.taken
  OBVIOUS
<1>6. /\ n \in Nat /\ n <= Capacity + 1 /\ Capacity \in Nat /\ d \in 0..n /\ m \in Seq(Nat)
      /\ \A k, l \in 1..Len(m) : k < l => m[k] < m[l]
      /\ \A k \in 1..Len(m) : \E j \in 1..d : m[k] = all[j].id
  BY <1>1, <1>2, <1>3, <1>4, <1>5, TlvForwarderAssumption DEF LoopInv
<1>7. PICK rest : rest = SubSeq(all, d + 2, n)
  OBVIOUS
<1>8. /\ rest \in Seq(Tlvs) /\ Len(rest) <= Capacity /\ Len(rest) \in Nat
      /\ \A j \in 1..Len(rest) : j + (d + 1) \in 1..n /\ rest[j] = all[j + (d + 1)]
  <2>1. d + 1 \in Nat /\ d + 1 + 1 = d + 2
    BY <1>6
  <2>2. rest = SubSeq(all, d + 1 + 1, Len(all))
    BY <1>3, <1>7, <2>1
  <2>3. /\ rest \in Seq(Tlvs) /\ (d + 1 <= n => Len(rest) = n - (d + 1))
        /\ (d + 1 > n => Len(rest) = 0)
        /\ \A j \in 1..Len(rest) : j + (d + 1) \in 1..n /\ rest[j] = all[j + (d + 1)]
    <3>1. PICK c \in Nat : c = d + 1
      BY <2>1
    <3>2. rest = SubSeq(all, c + 1, Len(all)) /\ all \in Seq(Tlvs)
      BY <1>1, <2>2, <3>1
    <3>3. /\ rest \in Seq(Tlvs) /\ (c <= Len(all) => Len(rest) = Len(all) - c)
          /\ (c > Len(all) => Len(rest) = 0)
          /\ \A j \in 1..Len(rest) : j + c \in 1..Len(all) /\ rest[j] = all[j + c]
      BY ONLY <3>2, c \in Nat, LaterPart
    <3> QED BY <1>3, <3>1, <3>3, Zenon
  <2>4. Len(rest) <= Capacity /\ Len(rest) \in Nat
    BY <1>6, <2>3
  <2> QED BY <2>3, <2>4
<1>9. InOrder(rest)
  <2>1. ASSUME NEW i \in 1..Len(rest), NEW j \in 1..Len(rest), i < j
        PROVE  rest[i].id < rest[j].id
    <3>1. i + (d + 1) < j + (d + 1)
      BY <1>6, <2>1
    <3> QED BY <1>1, <1>3, <1>8, <3>1 DEF InOrder
  <2> QED BY <2>1 DEF InOrder
<1>10. PICK peeked : peeked = PeekAfter(all, d)
  OBVIOUS
<1>11. peeked # None => d + 1 \in 1..n /\ peeked = all[d + 1]
  BY <1>3, <1>6, <1>10 DEF PeekAfter
<1>12. PICK out : out = ids \o m
  OBVIOUS
<1>13. PICK k : k = Len(ids)
  OBVIOUS
<1>14. ids \in Seq(Nat) /\ k \in Nat /\ \A i, j \in 1..k : i < j => ids[i] < ids[j]
  BY <1>13 DEF PortInv
<1>15. /\ out \in Seq(Nat) /\ Len(out) = k + Len(m) /\ Len(m) \in Nat
       /\ \A i \in 1..k : out[i] = ids[i]
       /\ \A i \in 1..Len(m) : out[k + i] = m[i]
  BY <1>6, <1>12, <1>13, <1>14
<1>16. ASSUME NEW i \in 1..(k + Len(m))
       PROVE  \/ i \in 1..k /\ out[i] = ids[i]
              \/ i - k \in 1..Len(m) /\ out[i] = m[i - k]
  <2>1. i > k => i - k \in 1..Len(m) /\ k + (i - k) = i
    BY <1>14, <1>15
  <2>2. i <= k => i \in 1..k
    BY <1>14
  <2>3. i > k \/ i <= k
    BY <1>14
  <2> QED BY <1>15, <2>1, <2>2, <2>3
<1>17. \A j \in 1..n : all[j].id \in Nat
  <2>1. ASSUME NEW j \in 1..n PROVE all[j].id \in Nat
    <3>1. all[j] \in Tlvs
      BY <1>1, <1>3
    <3> QED BY <3>1 DEF Tlvs
  <2> QED BY <2>1
<1>18. ASSUME NEW i \in 1..(k + Len(m)), NEW j \in (d + 1)..n PROVE out[i] < all[j].id
  <2>1. j \in 1..n
    BY <1>6
  <2>2. CASE i \in 1..k /\ out[i] = ids[i]
    BY <1>1, <1>3, <1>13, <2>1, <2>2
  <2>3. CASE i - k \in 1..Len(m) /\ out[i] = m[i - k]
    <3>1. PICK l \in 1..d : m[i - k] = all[l].id
      BY <1>6, <2>3
    <3>2. l \in 1..n /\ l < j
      BY <1>6
    <3> QED BY <1>1, <1>3, <2>1, <2>3, <3>1, <3>2 DEF InOrder
  <2> QED BY <1>16, <2>2, <2>3
<1>19. ASSUME NEW i \in 1..(k + Len(m)) PROVE out[i] < next
  <2>1. CASE i \in 1..k /\ out[i] = ids[i]
    BY <1>13, <2>1 DEF PortInv
  <2>2. CASE i - k \in 1..Len(m) /\ out[i] = m[i - k]
    <3>1. PICK l \in 1..d : m[i - k] = all[l].id
      BY <1>6, <2>2
    <3>2. l \in 1..n
      BY <1>6
    <3> QED BY <1>1, <1>3, <2>2, <3>1, <3>2
  <2> QED BY <1>16, <2>1, <2>2
<1>20. ASSUME NEW i \in 1..(k + Len(m)), NEW j \in 1..(k + Len(m)), i < j
       PROVE  out[i] < out[j]
  <2>1. CASE j \in 1..k /\ out[j] = ids[j]
    <3>1. i \in 1..k
      BY <1>14, <1>20, <2>1
    <3> QED BY <1>14, <1>15, <1>20, <2>1, <3>1
  <2>2. CASE i - k \in 1..Len(m) /\ out[i] = m[i - k]
    <3>1. i > k /\ j > k
      BY <1>14, <1>20, <2>2
    <3>2. j - k \in 1..Len(m) /\ out[j] = m[j - k] /\ i - k < j - k
      BY <1>14, <1>16, <1>20, <3>1
    <3> QED BY <1>6, <2>2, <3>2
  <2>3. CASE i \in 1..k /\ out[i] = ids[i] /\ j - k \in 1..Len(m) /\ out[j] = m[j - k]
    <3>1. PICK l \in 1..d : m[j - k] = all[l].id
      BY <1>6, <2>3
    <3>2. l \in 1..n
      BY <1>6
    <3> QED BY <1>1, <1>3, <1>13, <2>3, <3>1, <3>2
  <2> QED BY <1>16, <2>1, <2>2, <2>3
<1>21. \A j \in 1..Len(rest) : /\ j + (d + 1) \in (d + 1)..n /\ j + (d + 1) \in 1..n
                               /\ rest[j] = all[j + (d + 1)]
  BY <1>6, <1>8
<1>22. /\ \A j \in 1..Len(rest) : rest[j].id < next
       /\ \A i \in 1..Len(out), j \in 1..Len(rest) : out[i] < rest[j].id
  BY <1>1, <1>3, <1>15, <1>18, <1>21
<1>23. peeked # None => /\ peeked \in Tlvs /\ peeked.id < next
                        /\ \A j \in 1..Len(rest) : peeked.id < rest[j].id
                        /\ \A i \in 1..Len(out) : out[i] < peeked.id
  <2>1. SUFFICES ASSUME d + 1 \in 1..n, peeked = all[d + 1]
                 PROVE  /\ peeked \in Tlvs /\ peeked.id < next
                        /\ \A j \in 1..Len(rest) : peeked.id < rest[j].id
                        /\ \A i \in 1..Len(out) : out[i] < peeked.id
    BY <1>11
  <2>2. peeked \in Tlvs /\ peeked.id < next
    BY <1>1, <1>3, <2>1
  <2>3. \A j \in 1..Len(rest) : d + 1 < j + (d + 1)
    BY <1>6
  <2>4. \A j \in 1..Len(rest) : peeked.id < rest[j].id
    BY <1>1, <1>3, <1>21, <2>1, <2>3 DEF InOrder
  <2>5. d + 1 \in (d + 1)..n
    BY <1>6, <2>1
  <2>6. \A i \in 1..Len(out) : out[i] < peeked.id
    BY <1>15, <1>18, <2>1, <2>5
  <2> QED BY <2>2, <2>4, <2>6
<1>24. PortInv(rest, peeked, out, next)
  BY <1>8, <1>9, <1>15, <1>19, <1>20, <1>22, <1>23 DEF PortInv
<1> QED BY <1>3, <1>4, <1>5, <1>7, <1>10, <1>12, <1>24

-----------------------------------------------------------------------------
(* The steps of the specification *)

(* What every reachable state satisfies: PortInv for every port. *)
IInv ==
    /\ forwarded \in Nat
    /\ receiver \in [Ports -> Seq(Tlvs)] /\ sent \in [Ports -> Seq(Nat)]
    /\ peek \in [Ports -> Tlvs \union {None}]
    /\ \A p \in Ports : PortInv(receiver[p], peek[p], sent[p], forwarded)

(* Queue is what waits. *)
LEMMA QueueIsWaiting ==
    ASSUME NEW p PROVE Queue(p) = Waiting(receiver[p], peek[p])
BY DEF Queue, Waiting

(* Every port begins with nothing. *)
LEMMA InitIInv == Init => IInv
<1> SUFFICES ASSUME Init PROVE IInv
  OBVIOUS
<1>1. PortInv(<<>>, None, <<>>, 0)
  BY TlvForwarderAssumption DEF PortInv, InOrder
<1>2. /\ forwarded = 0 /\ receiver = [p \in Ports |-> <<>>] /\ sent = [p \in Ports |-> <<>>]
      /\ peek = [p \in Ports |-> None]
  BY DEF Init
<1>3. \A p \in Ports : PortInv(receiver[p], peek[p], sent[p], forwarded)
  BY <1>1, <1>2
<1> QED BY <1>2, <1>3 DEF IInv

(* forward *)
LEMMA ForwardKeeps ==
    ASSUME IInv, NEW p \in Ports, NEW sender \in Senders, NEW size \in Sizes,
           NEW path_trace \in BOOLEAN, Forward(p, sender, size, path_trace)
    PROVE  IInv'
<1>1. PICK tlv : tlv = [id |-> forwarded, sender_identity |-> sender, size |-> size,
                        path_trace |-> path_trace]
  OBVIOUS
<1>2. tlv \in Tlvs /\ tlv.id = forwarded /\ forwarded \in Nat
  BY <1>1 DEF IInv, Tlvs
<1>3. /\ receiver' = [q \in Ports |-> Broadcast(receiver[q], tlv)]
      /\ forwarded' = forwarded + 1 /\ peek' = peek /\ sent' = sent
  BY <1>1, Zenon DEF Forward
<1>4. ASSUME NEW q \in Ports
      PROVE  /\ PortInv(receiver'[q], peek'[q], sent'[q], forwarded')
             /\ receiver'[q] \in Seq(Tlvs)
  <2>1. PortInv(receiver[q], peek[q], sent[q], forwarded)
    BY DEF IInv
  <2>2. PortInv(Broadcast(receiver[q], tlv), peek[q], sent[q], forwarded + 1)
    BY <1>2, <2>1, BroadcastInv
  <2>3. Broadcast(receiver[q], tlv) \in Seq(Tlvs)
    BY <2>2 DEF PortInv
  <2> QED BY <1>3, <2>2, <2>3
<1>5. receiver' \in [Ports -> Seq(Tlvs)]
  BY <1>3, <1>4
<1>6. forwarded' \in Nat
  BY <1>2, <1>3
<1> QED BY <1>3, <1>4, <1>5, <1>6 DEF IInv

(* send_announce *)
LEMMA SendAnnounceKeeps ==
    ASSUME IInv, NEW p \in Ports, NEW margin \in Margins, SendAnnounce(p, margin)
    PROVE  IInv'
<1>1. PICK queue : queue = Queue(p)
  OBVIOUS
<1>2. PICK end : end = TakeTlvs(queue, margin)
  OBVIOUS
<1>3. PICK rest : rest = SubSeq(queue, end.taken + 2, Len(queue))
  OBVIOUS
<1>4. PICK first : first = PeekAfter(queue, end.taken)
  OBVIOUS
<1>5. PICK ids : ids = sent[p] \o end.message
  OBVIOUS
<1>6. /\ forwarded' = forwarded /\ peek' = [peek EXCEPT ![p] = first]
      /\ receiver' = [receiver EXCEPT ![p] = rest]
      /\ sent' = [sent EXCEPT ![p] = ids]
  BY <1>1, <1>2, <1>3, <1>4, <1>5, Zenon DEF SendAnnounce
<1>7. PortInv(rest, first, ids, forwarded)
  <2>1. queue = Waiting(receiver[p], peek[p])
    BY <1>1, QueueIsWaiting
  <2>2. PortInv(receiver[p], peek[p], sent[p], forwarded) /\ forwarded \in Nat
    BY DEF IInv
  <2>3. PortInv(SubSeq(queue, end.taken + 2, Len(queue)), PeekAfter(queue, end.taken),
                sent[p] \o end.message, forwarded)
    BY <1>2, <2>1, <2>2, AnnounceInv, Zenon
  <2> QED BY <1>3, <1>4, <1>5, <2>3
<1>8. rest \in Seq(Tlvs) /\ ids \in Seq(Nat) /\ first \in Tlvs \union {None}
  BY <1>7 DEF PortInv
<1>9. /\ receiver' \in [Ports -> Seq(Tlvs)] /\ sent' \in [Ports -> Seq(Nat)]
      /\ peek' \in [Ports -> Tlvs \union {None}]
  BY <1>6, <1>8 DEF IInv
<1>10. ASSUME NEW q \in Ports PROVE PortInv(receiver'[q], peek'[q], sent'[q], forwarded')
  <2>1. CASE q = p
    <3>1. receiver'[q] = rest /\ peek'[q] = first /\ sent'[q] = ids
      BY <1>6, <2>1 DEF IInv
    <3> QED BY <1>6, <1>7, <3>1
  <2>2. CASE q # p
    <3>1. receiver'[q] = receiver[q] /\ peek'[q] = peek[q] /\ sent'[q] = sent[q]
      BY <1>6, <2>2 DEF IInv
    <3> QED BY <1>6, <3>1 DEF IInv
  <2> QED BY <2>1, <2>2
<1>11. forwarded' \in Nat
  BY <1>6 DEF IInv
<1> QED BY <1>9, <1>10, <1>11 DEF IInv

(* A port task resumes, and empty() may leave it nothing. *)
LEMMA ResumeKeeps ==
    ASSUME IInv, NEW p \in Ports, Resume(p)
    PROVE  IInv'
<1>1. forwarded' = forwarded /\ sent' = sent /\ forwarded \in Nat
  BY DEF Resume, IInv
<1>2. \/ receiver' = receiver /\ peek' = peek
      \/ receiver' = [receiver EXCEPT ![p] = <<>>] /\ peek' = [peek EXCEPT ![p] = None]
  BY Zenon DEF Resume
<1>3. CASE receiver' = receiver /\ peek' = peek
  BY <1>1, <1>3 DEF IInv
<1>4. CASE receiver' = [receiver EXCEPT ![p] = <<>>] /\ peek' = [peek EXCEPT ![p] = None]
  <2>1. receiver' \in [Ports -> Seq(Tlvs)] /\ peek' \in [Ports -> Tlvs \union {None}]
    BY <1>4 DEF IInv
  <2>2. ASSUME NEW q \in Ports PROVE PortInv(receiver'[q], peek'[q], sent[q], forwarded)
    <3>1. PortInv(receiver[q], peek[q], sent[q], forwarded)
      BY DEF IInv
    <3>2. CASE q = p
      <4>1. receiver'[q] = <<>> /\ peek'[q] = None
        BY <1>4, <3>2 DEF IInv
      <4>2. PortInv(<<>>, None, sent[q], forwarded)
        BY <3>1, TlvForwarderAssumption DEF PortInv, InOrder
      <4> QED BY <4>1, <4>2
    <3>3. CASE q # p
      <4>1. receiver'[q] = receiver[q] /\ peek'[q] = peek[q]
        BY <1>4, <3>3 DEF IInv
      <4> QED BY <3>1, <4>1
    <3> QED BY <3>2, <3>3
  <2>3. /\ forwarded' \in Nat /\ sent' \in [Ports -> Seq(Nat)]
        /\ \A q \in Ports : PortInv(receiver'[q], peek'[q], sent'[q], forwarded')
    BY <1>1, <2>2 DEF IInv
  <2> QED BY <2>1, <2>3 DEF IInv
<1> QED BY <1>2, <1>3, <1>4

(* Every step keeps the invariant. *)
LEMMA NextKeeps == IInv /\ [Next]_vars => IInv'
<1> SUFFICES ASSUME IInv, [Next]_vars PROVE IInv'
  OBVIOUS
<1>1. ASSUME forwarded' = forwarded, receiver' = receiver, sent' = sent, peek' = peek
      PROVE  IInv'
  BY <1>1 DEF IInv
<1>2. ASSUME NEW states \in [Ports -> {"Master", "Other"}], NEW newParent \in Senders,
             Bmca(states, newParent)
      PROVE  IInv'
  BY <1>1, <1>2 DEF Bmca
<1>3. ASSUME NEW p \in Ports, AnnounceReceiptTimer(p) PROVE IInv'
  BY <1>1, <1>3 DEF AnnounceReceiptTimer
<1>4. CASE UNCHANGED vars
  BY <1>1, <1>4 DEF vars
<1> QED
  BY <1>2, <1>3, <1>4, ForwardKeeps, SendAnnounceKeeps, ResumeKeeps DEF Next

(* For any ports, TLVs of any size and any capacity of the channel: what   *)
(* next_if_smaller delivers to a port is in the order of forward() and     *)
(* later than all the port has sent, whatever was lost to lag or empty().  *)
THEOREM ForwardedInOrderOnce == Spec => []InOrderOnce
<1>1. IInv => InOrderOnce
  <2>1. SUFFICES ASSUME IInv, NEW p \in Ports, NEW queue, queue = Queue(p), NEW ids,
                        ids = sent[p] \o [i \in DOMAIN queue |-> queue[i].id]
                 PROVE  /\ Len(receiver[p]) <= Capacity
                        /\ \A i \in 1..(Len(ids) - 1) : ids[i] < ids[i + 1]
    BY Zenon DEF InOrderOnce
  <2>2. PortInv(receiver[p], peek[p], sent[p], forwarded) /\ forwarded \in Nat
    BY <2>1 DEF IInv
  <2>3. /\ queue \in Seq(Tlvs) /\ InOrder(queue)
        /\ \A i \in 1..Len(sent[p]), j \in 1..Len(queue) : sent[p][i] < queue[j].id
    BY <2>1, <2>2, QueueIsWaiting, WaitingInOrder
  <2>4. PICK wait : wait = [i \in DOMAIN queue |-> queue[i].id]
    OBVIOUS
  <2>5. PICK n : n = Len(queue)
    OBVIOUS
  <2>6. /\ n \in Nat /\ wait \in Seq(Nat) /\ Len(wait) = n
        /\ \A j \in 1..n : wait[j] = queue[j].id
    <3>1. n \in Nat /\ DOMAIN queue = 1..n /\ \A j \in 1..n : queue[j] \in Tlvs
      BY <2>3, <2>5
    <3>2. \A j \in 1..n : wait[j] = queue[j].id /\ queue[j].id \in Nat
      BY <2>4, <3>1 DEF Tlvs
    <3>3. wait = [j \in 1..n |-> wait[j]]
      BY <2>4, <3>1, Zenon
    <3>4. wait \in [1..n -> Nat]
      BY <3>2, <3>3
    <3>5. wait \in Seq(Nat)
      BY <3>1, <3>4, SeqDef
    <3>6. Len(wait) = n
      BY <3>1, <3>4, <3>5, LenProperties
    <3> QED BY <3>1, <3>2, <3>5, <3>6
  <2>7. PICK out : out = sent[p]
    OBVIOUS
  <2>8. PICK k : k = Len(out)
    OBVIOUS
  <2>9. out \in Seq(Nat) /\ k \in Nat /\ \A i, j \in 1..k : i < j => out[i] < out[j]
    BY <2>2, <2>7, <2>8 DEF PortInv
  <2>10. ids = out \o wait
    BY <2>1, <2>4, <2>7
  <2>11. /\ Len(ids) = k + n
         /\ \A i \in 1..k : ids[i] = out[i]
         /\ \A i \in 1..n : ids[k + i] = wait[i]
    <3>1. out \in Seq(Nat) /\ wait \in Seq(Nat)
      BY <2>6, <2>9
    <3>2. /\ Len(ids) = Len(out) + Len(wait)
          /\ \A i \in 1..Len(out) : ids[i] = out[i]
          /\ \A i \in 1..Len(wait) : ids[Len(out) + i] = wait[i]
      BY <2>10, <3>1
    <3> QED BY <2>6, <2>8, <3>2
  <2>12. ASSUME NEW i \in 1..(k + n - 1) PROVE ids[i] < ids[i + 1]
    <3>1. CASE i + 1 <= k
      <4>1. i \in 1..k /\ i + 1 \in 1..k /\ i < i + 1
        BY <2>9, <3>1
      <4> QED BY <2>9, <2>11, <4>1
    <3>2. CASE i = k
      <4>1. i \in 1..k /\ 1 \in 1..n
        BY <2>6, <2>9, <3>2
      <4>2. out[i] < queue[1].id
        BY <2>3, <2>5, <2>7, <2>8, <4>1
      <4> QED BY <2>6, <2>11, <3>2, <4>1, <4>2
    <3>3. CASE i > k
      <4>1. PICK j : j = i - k
        OBVIOUS
      <4>2. j \in 1..n /\ j + 1 \in 1..n /\ j < j + 1 /\ i = k + j /\ i + 1 = k + (j + 1)
        BY <2>6, <2>9, <3>3, <4>1
      <4>3. queue[j].id < queue[j + 1].id
        BY <2>3, <2>5, <4>2 DEF InOrder
      <4> QED BY <2>6, <2>11, <4>2, <4>3
    <3>4. i + 1 <= k \/ i = k \/ i > k
      BY <2>9
    <3> QED BY <3>1, <3>2, <3>3, <3>4, Zenon
  <2>13. Len(receiver[p]) <= Capacity
    BY <2>2 DEF PortInv
  <2>14. Len(ids) - 1 = k + n - 1
    <3>1. Len(ids) = k + n
      BY <2>11
    <3> QED BY <2>6, <2>9, <3>1
  <2> QED BY <2>12, <2>13, <2>14, Zenon
<1> QED BY <1>1, InitIInv, NextKeeps, PTL DEF Spec
==============================================================================
