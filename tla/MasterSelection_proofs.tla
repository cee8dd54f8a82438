----------------------- MODULE MasterSelection_proofs -----------------------
(***************************************************************************)
(* The selection of the best master, for every value of the constants:     *)
(* the fold over announce messages finds the best one of any number of     *)
(* them (module FindBest), and the foreign master list (module             *)
(* ForeignMaster) keeps its promises for any masters, capacities, window   *)
(* and number of sequence ids.                                             *)
(*                                                                         *)
(* Facts about loops are proved by induction: a set of natural numbers     *)
(* that is not empty has a least element, so a set that holds 0 and with   *)
(* every number the next holds all of them.                                *)
(***************************************************************************)
EXTENDS ForeignMaster, FindBest, WellFoundedInduction, SequenceTheorems, TLAPS

(* A set of natural numbers that is not empty has a least element. *)
LEMMA LeastElement ==
    ASSUME NEW T, T \subseteq Nat, T # {}
    PROVE  \E n \in T : \A m \in T : n <= m
<1>1. PICK x \in T : \A y \in T : ~ (<<y, x>> \in OpToRel(<, Nat))
  BY WFMin, NatLessThanWellFounded
<1>2. \A y \in T : ~ (y < x)
  BY <1>1 DEF OpToRel
<1> QED BY <1>2

(* Induction, for a set in place of a predicate. *)
LEMMA SetInduction ==
    ASSUME NEW S, 0 \in S, \A n \in Nat : n \in S => n + 1 \in S
    PROVE  \A n \in Nat : n \in S
<1>1. SUFFICES ASSUME Nat \ S # {} PROVE FALSE
  OBVIOUS
<1>2. PICK n \in Nat \ S : \A m \in Nat \ S : n <= m
  BY <1>1, LeastElement
<1>3. n # 0 /\ n - 1 \in Nat
  BY <1>2
<1>4. n - 1 \in S
  BY <1>2, <1>3
<1> QED BY <1>2, <1>3, <1>4

-----------------------------------------------------------------------------
(* The order of announce messages *)

(* No sequence is before another and after it or equal to it. *)
LEMMA LexAsymmetric ==
    ASSUME NEW s \in Seq(Int), NEW t \in Seq(Int), Len(s) = Len(t), LexLess(s, t)
    PROVE  ~LexLess(t, s)
<1>1. SUFFICES ASSUME LexLess(t, s) PROVE FALSE
  OBVIOUS
<1>2. PICK i \in 1..Len(s) : s[i] < t[i] /\ \A j \in 1..(i - 1) : s[j] = t[j]
  BY DEF LexLess
<1>3. PICK k \in 1..Len(s) : t[k] < s[k] /\ \A j \in 1..(k - 1) : t[j] = s[j]
  BY <1>1 DEF LexLess
<1>4. s[i] \in Int /\ t[i] \in Int /\ s[k] \in Int /\ t[k] \in Int
  OBVIOUS
<1>5. i < k \/ k < i \/ i = k
  OBVIOUS
<1> QED BY <1>2, <1>3, <1>4, <1>5

(* "Not after" is transitive. *)
LEMMA LexTransitive ==
    ASSUME NEW s \in Seq(Int), NEW t \in Seq(Int), NEW u \in Seq(Int),
           Len(s) = Len(t), Len(t) = Len(u), ~LexLess(t, s), ~LexLess(u, t)
    PROVE  ~LexLess(u, s)
<1>1. SUFFICES ASSUME LexLess(u, s) PROVE FALSE
  OBVIOUS
<1>2. PICK i \in 1..Len(s) : u[i] < s[i] /\ \A j \in 1..(i - 1) : u[j] = s[j]
  BY <1>1 DEF LexLess
<1> DEFINE T == {j \in 1..i : t[j] # s[j] \/ t[j] # u[j]}
<1>3. s[i] \in Int /\ t[i] \in Int /\ u[i] \in Int
  OBVIOUS
<1>4. T # {}
  BY <1>2, <1>3
<1>5. PICK k \in T : \A j \in T : k <= j
  <2>1. T \subseteq Nat
    OBVIOUS
  <2> HIDE DEF T
  <2> QED BY <1>4, <2>1, LeastElement
<1>6. \A j \in 1..(k - 1) : t[j] = s[j] /\ u[j] = t[j]
  BY <1>5
<1>7. s[k] \in Int /\ t[k] \in Int /\ u[k] \in Int /\ k \in 1..Len(s)
  OBVIOUS
<1>8. s[k] <= t[k]
  <2>1. SUFFICES ASSUME t[k] < s[k] PROVE FALSE
    BY <1>7
  <2>2. k \in 1..Len(t) /\ \A j \in 1..(k - 1) : t[j] = s[j]
    BY <1>6, <1>7
  <2> QED BY <2>1, <2>2 DEF LexLess
<1>9. t[k] <= u[k]
  <2>1. SUFFICES ASSUME u[k] < t[k] PROVE FALSE
    BY <1>7
  <2>2. k \in 1..Len(u) /\ \A j \in 1..(k - 1) : u[j] = t[j]
    BY <1>6, <1>7
  <2> QED BY <2>1, <2>2 DEF LexLess
<1>10. CASE k = i
  BY <1>10, <1>2, <1>3, <1>7, <1>8, <1>9
<1>11. CASE k < i
  BY <1>11, <1>2, <1>5, <1>7, <1>8, <1>9
<1> QED BY <1>10, <1>11, <1>7

-----------------------------------------------------------------------------
(* A rank is a sequence of ten numbers. *)
LEMMA RankElements ==
    ASSUME NEW x \in Candidates
    PROVE  LET r == RankOf(x) IN
           /\ r \in Seq(Int) /\ Len(r) = 10
           /\ \A i \in 1..5 : r[i] = x.message.grandmaster_attributes[i]
           /\ r[6] = x.message.grandmaster_identity
           /\ r[7] = x.message.steps_removed
           /\ r[8] = x.message.source_port_identity.clock_identity
           /\ r[9] = x.identity.port_number
           /\ r[10] = x.age
<1> DEFINE a == x.message.grandmaster_attributes
           b == <<x.message.grandmaster_identity, x.message.steps_removed,
                  x.message.source_port_identity.clock_identity,
                  x.identity.port_number, x.age>>
<1>1. /\ x.message.grandmaster_identity \in Int /\ x.message.steps_removed \in Int
      /\ x.message.source_port_identity.clock_identity \in Int
      /\ x.identity.port_number \in Int /\ x.age \in Int
  BY CandidatesAssumption DEF PortIdentity
<1>2. a \in Seq(Int) /\ Len(a) = 5
  <2>1. a \in [1..5 -> Nat]
    BY CandidatesAssumption
  <2> HIDE DEF a
  <2>2. a \in [1..5 -> Int] /\ 5 \in Nat /\ DOMAIN a = 1..5
    BY <2>1
  <2>3. a \in Seq(Int)
    BY <2>2, SeqDef
  <2> QED BY <2>2, <2>3, LenProperties
<1>3. b \in Seq(Int) /\ Len(b) = 5
  BY <1>1
<1>4. RankOf(x) = a \o b
  BY DEF RankOf
<1>5. /\ b[1] = x.message.grandmaster_identity /\ b[2] = x.message.steps_removed
      /\ b[3] = x.message.source_port_identity.clock_identity
      /\ b[4] = x.identity.port_number /\ b[5] = x.age
  OBVIOUS
<1> HIDE DEF a, b
<1>6. PICK r : r = a \o b
  OBVIOUS
<1>A. /\ r \in Seq(Int) /\ Len(r) = Len(a) + Len(b)
       /\ \A i \in 1..Len(a) + Len(b) : r[i] = IF i <= Len(a) THEN a[i] ELSE b[i - Len(a)]
  BY <1>2, <1>3, <1>6, ConcatProperties, Zenon
<1>B. Len(a) = 5 /\ Len(b) = 5
  BY <1>2, <1>3
<1>7. /\ r \in Seq(Int) /\ Len(r) = 10
      /\ \A i \in 1..5 : r[i] = a[i]
      /\ \A i \in 6..10 : r[i] = b[i - 5]
  BY <1>A, <1>B
<1>8. 6 \in 6..10 /\ 7 \in 6..10 /\ 8 \in 6..10 /\ 9 \in 6..10 /\ 10 \in 6..10
  OBVIOUS
<1>9. /\ r[6] = b[1] /\ r[7] = b[2] /\ r[8] = b[3]
      /\ r[9] = b[4] /\ r[10] = b[5]
  BY <1>7, <1>8
<1> QED BY <1>4, <1>5, <1>6, <1>7, <1>9 DEF a

(* Messages of one grandmaster: the steps, the sender, the port and the age. *)
LEMMA RankSameIdentity ==
    ASSUME NEW x \in Candidates, NEW y \in Candidates, Agree({x, y}),
           x.message.grandmaster_identity = y.message.grandmaster_identity
    PROVE  LexLess(RankOf(x), RankOf(y)) <=>
             LET s == x.message.steps_removed
                 t == y.message.steps_removed
                 i == x.message.source_port_identity.clock_identity
                 j == y.message.source_port_identity.clock_identity
                 p == x.identity.port_number
                 q == y.identity.port_number
             IN  \/ s < t
                 \/ s = t /\ i < j
                 \/ s = t /\ i = j /\ p < q
                 \/ s = t /\ i = j /\ p = q /\ x.age < y.age
<1>1. PICK r : r = RankOf(x)
  OBVIOUS
<1>2. PICK u : u = RankOf(y)
  OBVIOUS
<1>3. /\ r \in Seq(Int) /\ Len(r) = 10 /\ u \in Seq(Int) /\ Len(u) = 10
      /\ r[7] = x.message.steps_removed /\ u[7] = y.message.steps_removed
      /\ r[8] = x.message.source_port_identity.clock_identity
      /\ u[8] = y.message.source_port_identity.clock_identity
      /\ r[9] = x.identity.port_number /\ u[9] = y.identity.port_number
      /\ r[10] = x.age /\ u[10] = y.age
  BY <1>1, <1>2, RankElements, Zenon
<1>31. r \in Seq(Int) /\ Len(r) = 10 /\ u \in Seq(Int) /\ Len(u) = 10
  BY <1>3
<1>4. \A i \in 1..6 : r[i] = u[i]
  <2>1. x.message.grandmaster_attributes = y.message.grandmaster_attributes
    BY DEF Agree
  <2>2. \A i \in 1..5 : r[i] = u[i]
    BY <1>1, <1>2, <2>1, RankElements, Zenon
  <2>3. r[6] = u[6]
    BY <1>1, <1>2, RankElements, Zenon
  <2> QED BY <2>2, <2>3
<1>5. ASSUME NEW i \in 1..10, r[i] < u[i], \A j \in 1..(i - 1) : r[j] = u[j]
      PROVE  \/ r[7] < u[7]
             \/ r[7] = u[7] /\ r[8] < u[8]
             \/ r[7] = u[7] /\ r[8] = u[8] /\ r[9] < u[9]
             \/ r[7] = u[7] /\ r[8] = u[8] /\ r[9] = u[9] /\ r[10] < u[10]
  <2>1. i \in 1..6 \/ i = 7 \/ i = 8 \/ i = 9 \/ i = 10
    OBVIOUS
  <2>2. \A k \in 1..10 : r[k] \in Int /\ u[k] \in Int
    BY <1>31, ElementOfSeq
  <2>3. ~(i \in 1..6)
    BY <1>4, <1>5, <2>2
  <2> QED BY <1>5, <2>1, <2>3
<1>6. LexLess(r, u) <=> \/ r[7] < u[7]
                        \/ r[7] = u[7] /\ r[8] < u[8]
                        \/ r[7] = u[7] /\ r[8] = u[8] /\ r[9] < u[9]
                        \/ r[7] = u[7] /\ r[8] = u[8] /\ r[9] = u[9] /\ r[10] < u[10]
  <2>1. ASSUME NEW k \in 7..10, r[k] < u[k], \A j \in 7..(k - 1) : r[j] = u[j]
        PROVE  LexLess(r, u)
    <3>1. k \in 1..Len(r) /\ \A j \in 1..(k - 1) : r[j] = u[j]
      BY <1>3, <1>4, <2>1
    <3> QED BY <2>1, <3>1 DEF LexLess
  <2>2. CASE r[7] < u[7]
    <3>1. 7 \in 7..10 /\ \A j \in 7..(7 - 1) : FALSE
      OBVIOUS
    <3> QED BY <2>1, <2>2, <3>1
  <2>3. CASE r[7] = u[7] /\ r[8] < u[8]
    <3>1. 8 \in 7..10 /\ \A j \in 7..(8 - 1) : j = 7
      OBVIOUS
    <3> QED BY <2>1, <2>3, <3>1
  <2>4. CASE r[7] = u[7] /\ r[8] = u[8] /\ r[9] < u[9]
    <3>1. 9 \in 7..10 /\ \A j \in 7..(9 - 1) : j = 7 \/ j = 8
      OBVIOUS
    <3> QED BY <2>1, <2>4, <3>1
  <2>5. CASE r[7] = u[7] /\ r[8] = u[8] /\ r[9] = u[9] /\ r[10] < u[10]
    <3>1. 10 \in 7..10 /\ \A j \in 7..(10 - 1) : j = 7 \/ j = 8 \/ j = 9
      OBVIOUS
    <3> QED BY <2>1, <2>5, <3>1
  <2>6. ASSUME LexLess(r, u)
        PROVE  \E i \in 1..10 : r[i] < u[i] /\ \A j \in 1..(i - 1) : r[j] = u[j]
    BY <1>3, <2>6 DEF LexLess
  <2> QED BY <1>5, <2>2, <2>3, <2>4, <2>5, <2>6
<1>7. LexLess(RankOf(x), RankOf(y)) <=> LexLess(r, u)
  BY <1>1, <1>2
<1> QED BY <1>3, <1>6, <1>7, Zenon

(* What two grandmasters are compared by begins the rank. *)
LEMMA AttributesThenIdentity ==
    ASSUME NEW z \in Candidates
    PROVE  LET v == RankOf(z)
               w == Append(z.message.grandmaster_attributes, z.message.grandmaster_identity)
           IN  /\ v \in Seq(Int) /\ Len(v) = 10 /\ v[6] = z.message.grandmaster_identity
               /\ Len(w) = 6 /\ \A i \in 1..6 : w[i] = v[i]
<1>1. PICK v : v = RankOf(z)
  OBVIOUS
<1>2. PICK a : a = z.message.grandmaster_attributes
  OBVIOUS
<1>3. PICK g : g = z.message.grandmaster_identity
  OBVIOUS
<1>4. a \in [1..5 -> Nat] /\ g \in Nat
  BY <1>2, <1>3, CandidatesAssumption
<1>5. a \in Seq(Nat) /\ Len(a) = 5
  <2>1. 5 \in Nat /\ DOMAIN a = 1..5
    BY <1>4
  <2>2. a \in Seq(Nat)
    BY <1>4, <2>1, SeqDef
  <2> QED BY <2>1, <2>2, LenProperties
<1>6. /\ v \in Seq(Int) /\ Len(v) = 10 /\ v[6] = g
      /\ \A i \in 1..5 : v[i] = a[i]
  BY <1>1, <1>2, <1>3, RankElements, Zenon
<1>7. PICK w : w = Append(a, g)
  OBVIOUS
<1>8. Len(w) = Len(a) + 1 /\ w[Len(a) + 1] = g /\ \A i \in 1..Len(a) : w[i] = a[i]
  <2>1. Len(w) = Len(a) + 1
    BY <1>4, <1>5, <1>7, AppendProperties
  <2>2. w[Len(a) + 1] = g
    <3>1. Append(a, g)[Len(a) + 1] = g
      BY <1>4, <1>5, AppendProperties, Zenon
    <3> QED BY <1>7, <3>1, Zenon
  <2>3. ASSUME NEW i \in 1..Len(a) PROVE w[i] = a[i]
    <3>1. \A k \in 1..Len(a) : Append(a, g)[k] = a[k]
      <4>1. a \in Seq(Nat) /\ g \in Nat
        BY <1>4, <1>5
      <4> QED BY <4>1
    <3> QED BY <1>7, <3>1, Zenon
  <2> QED BY <2>1, <2>2, <2>3
<1>9. Len(w) = 6 /\ w[6] = g /\ \A i \in 1..5 : w[i] = a[i]
  BY <1>5, <1>8
<1>10. \A i \in 1..6 : w[i] = v[i]
  BY <1>6, <1>9
<1> QED BY <1>1, <1>2, <1>3, <1>6, <1>7, <1>9, <1>10, Zenon

(* Messages of two grandmasters: their attributes, then their identities. *)
LEMMA RankDifferentIdentity ==
    ASSUME NEW x \in Candidates, NEW y \in Candidates,
           x.message.grandmaster_identity # y.message.grandmaster_identity
    PROVE  LexLess(RankOf(x), RankOf(y)) <=>
             LexLess(Append(x.message.grandmaster_attributes, x.message.grandmaster_identity),
                     Append(y.message.grandmaster_attributes, y.message.grandmaster_identity))
<1>1. PICK r : r = RankOf(x)
  OBVIOUS
<1>2. PICK u : u = RankOf(y)
  OBVIOUS
<1>4. PICK rr : rr = Append(x.message.grandmaster_attributes, x.message.grandmaster_identity)
  OBVIOUS
<1>5. PICK uu : uu = Append(y.message.grandmaster_attributes, y.message.grandmaster_identity)
  OBVIOUS
<1>6. /\ r \in Seq(Int) /\ Len(r) = 10 /\ r[6] = x.message.grandmaster_identity
      /\ Len(rr) = 6 /\ \A i \in 1..6 : rr[i] = r[i]
  BY <1>1, <1>4, AttributesThenIdentity, Zenon
<1>7. /\ u \in Seq(Int) /\ Len(u) = 10 /\ u[6] = y.message.grandmaster_identity
      /\ Len(uu) = 6 /\ \A i \in 1..6 : uu[i] = u[i]
  BY <1>2, <1>5, AttributesThenIdentity, Zenon
<1>8. r[6] # u[6]
  BY <1>6, <1>7
<1>9. ASSUME LexLess(r, u) PROVE LexLess(rr, uu)
  <2>1. PICK i \in 1..10 : r[i] < u[i] /\ \A j \in 1..(i - 1) : r[j] = u[j]
    BY <1>6, <1>9 DEF LexLess
  <2>2. i <= 6
    BY <1>8, <2>1
  <2>3. i \in 1..Len(rr) /\ rr[i] < uu[i] /\ \A j \in 1..(i - 1) : rr[j] = uu[j]
    BY <1>6, <1>7, <2>1, <2>2
  <2> QED BY <2>3 DEF LexLess
<1>10. ASSUME LexLess(rr, uu) PROVE LexLess(r, u)
  <2>1. PICK i \in 1..6 : rr[i] < uu[i] /\ \A j \in 1..(i - 1) : rr[j] = uu[j]
    BY <1>6, <1>10 DEF LexLess
  <2>2. i \in 1..Len(r) /\ r[i] < u[i] /\ \A j \in 1..(i - 1) : r[j] = u[j]
    BY <1>6, <1>7, <2>1
  <2> QED BY <2>2 DEF LexLess
<1> QED BY <1>1, <1>2, <1>4, <1>5, <1>9, <1>10, Zenon

(* The order of two pairs *)
LEMMA LexPairs ==
    ASSUME NEW i \in Int, NEW p \in Int, NEW j \in Int, NEW q \in Int
    PROVE  LexLess(<<i, p>>, <<j, q>>) <=> i < j \/ (i = j /\ p < q)
<1>1. Len(<<i, p>>) = 2
  OBVIOUS
<1>2. 1..2 = {1, 2} /\ 1..(1 - 1) = {} /\ 1..(2 - 1) = {1}
  OBVIOUS
<1>3. PICK s : s = <<i, p>>
  OBVIOUS
<1>4. PICK t : t = <<j, q>>
  OBVIOUS
<1>5. Len(s) = 2 /\ s[1] = i /\ s[2] = p /\ t[1] = j /\ t[2] = q
  BY <1>3, <1>4
<1>6. LexLess(s, t) <=> i < j \/ (i = j /\ p < q)
  BY <1>2, <1>5 DEF LexLess
<1> QED BY <1>3, <1>4, <1>6

-----------------------------------------------------------------------------
(* Compare of two announce messages of one grandmaster, as a number: the   *)
(* sign of the steps, and of the topology where the steps are equal.       *)
LEMMA OrderingSameIdentity ==
    ASSUME NEW x \in Candidates, NEW y \in Candidates,
           x.message.grandmaster_identity = y.message.grandmaster_identity
    PROVE  LET s == x.message.steps_removed
               t == y.message.steps_removed
               i == x.message.source_port_identity.clock_identity
               j == y.message.source_port_identity.clock_identity
               p == x.identity.port_number
               q == y.identity.port_number
           IN  AsOrdering(Compare(FromAnnounceMessage(x.message, x.identity),
                                  FromAnnounceMessage(y.message, y.identity))) =
                 CASE s < t \/ (s = t /\ (i < j \/ (i = j /\ p < q))) -> 1
                   [] s = t /\ i = j /\ p = q -> 0
                   [] s > t \/ (s = t /\ (i > j \/ (i = j /\ p > q))) -> -1
<1>1. PICK a : a = FromAnnounceMessage(x.message, x.identity)
  OBVIOUS
<1>2. PICK b : b = FromAnnounceMessage(y.message, y.identity)
  OBVIOUS
<1>3. /\ a.gm_identity = b.gm_identity
      /\ a.steps_removed = x.message.steps_removed /\ b.steps_removed = y.message.steps_removed
      /\ a.identity_of_senders = x.message.source_port_identity.clock_identity
      /\ b.identity_of_senders = y.message.source_port_identity.clock_identity
      /\ a.identity_of_receiver = x.identity /\ b.identity_of_receiver = y.identity
  BY <1>1, <1>2 DEF FromAnnounceMessage
<1>4. PICK s, i, p, c : /\ s = x.message.steps_removed
                        /\ i = x.message.source_port_identity.clock_identity
                        /\ p = x.identity.port_number /\ c = x.identity.clock_identity
  OBVIOUS
<1>5. PICK t, j, q, d : /\ t = y.message.steps_removed
                        /\ j = y.message.source_port_identity.clock_identity
                        /\ q = y.identity.port_number /\ d = y.identity.clock_identity
  OBVIOUS
<1>6. /\ s \in Nat /\ i \in Nat /\ p \in Nat /\ c \in Nat /\ i # c
      /\ t \in Nat /\ j \in Nat /\ q \in Nat /\ d \in Nat /\ j # d
  BY <1>4, <1>5, CandidatesAssumption, NotOwnAssumption DEF PortIdentity
<1>7. /\ a.steps_removed = s /\ a.identity_of_senders = i
      /\ a.identity_of_receiver.clock_identity = c /\ a.identity_of_receiver.port_number = p
      /\ b.steps_removed = t /\ b.identity_of_senders = j
      /\ b.identity_of_receiver.clock_identity = d /\ b.identity_of_receiver.port_number = q
  BY <1>3, <1>4, <1>5
<1> DEFINE o == CompareSameIdentity(a, b)
           ta == <<i, p>>
           tb == <<j, q>>
<1>8. Compare(a, b) = o
  BY <1>3 DEF Compare
<1>9. CASE s < t
  <2>1. s - t <= -2 \/ s - t = -1
    BY <1>6, <1>9
  <2>2. o \in {"Better", "BetterByTopology"}
    BY <1>6, <1>7, <2>1 DEF CompareSameIdentity
  <2>3. AsOrdering(o) = 1
    BY <2>2 DEF AsOrdering
  <2> QED BY <1>1, <1>2, <1>4, <1>5, <1>6, <1>8, <1>9, <2>3
<1>10. CASE s > t
  <2>1. s - t >= 2 \/ s - t = 1
    BY <1>6, <1>10
  <2>2. o \in {"Worse", "WorseByTopology"}
    BY <1>6, <1>7, <2>1 DEF CompareSameIdentity
  <2>3. AsOrdering(o) = -1
    BY <2>2 DEF AsOrdering
  <2>4. ~(s < t) /\ s # t
    BY <1>6, <1>10
  <2> QED BY <1>1, <1>2, <1>4, <1>5, <1>8, <1>10, <2>3, <2>4
<1>11. CASE s = t
  <2>1. s - t = 0
    BY <1>6, <1>11
  <2>2. o = CASE LexLess(ta, tb) -> "BetterByTopology"
              [] ta = tb         -> "Error2"
              [] LexLess(tb, ta) -> "WorseByTopology"
    <3>1. /\ a.steps_removed - b.steps_removed = 0
          /\ ta = <<a.identity_of_senders, a.identity_of_receiver.port_number>>
          /\ tb = <<b.identity_of_senders, b.identity_of_receiver.port_number>>
      BY <1>7, <2>1
    <3> HIDE DEF ta, tb
    <3>2. PICK diff : diff = a.steps_removed - b.steps_removed
      OBVIOUS
    <3>3. ~(diff >= 2) /\ ~(diff <= -2) /\ diff # 1 /\ diff # -1 /\ diff = 0
      BY <3>1, <3>2
    <3> QED BY <3>1, <3>2, <3>3, Zenon DEF CompareSameIdentity
  <2>3. /\ LexLess(ta, tb) <=> i < j \/ (i = j /\ p < q)
        /\ LexLess(tb, ta) <=> j < i \/ (j = i /\ q < p)
    BY <1>6, LexPairs
  <2>4. ta = tb <=> i = j /\ p = q
    OBVIOUS
  <2>5. CASE i < j \/ (i = j /\ p < q)
    <3>1. o = "BetterByTopology"
      BY <1>6, <2>2, <2>3, <2>4, <2>5
    <3>2. AsOrdering(o) = 1
      BY <3>1 DEF AsOrdering
    <3> QED BY <1>1, <1>2, <1>4, <1>5, <1>6, <1>8, <1>11, <2>5, <3>2
  <2>6. CASE i = j /\ p = q
    <3>1. o = "Error2"
      BY <1>6, <2>2, <2>3, <2>4, <2>6
    <3>2. AsOrdering(o) = 0
      BY <3>1 DEF AsOrdering
    <3> QED BY <1>1, <1>2, <1>4, <1>5, <1>6, <1>8, <1>11, <2>6, <3>2
  <2>7. CASE j < i \/ (j = i /\ q < p)
    <3>1. o = "WorseByTopology"
      BY <1>6, <2>2, <2>3, <2>4, <2>7
    <3>2. AsOrdering(o) = -1
      BY <3>1 DEF AsOrdering
    <3> QED BY <1>1, <1>2, <1>4, <1>5, <1>6, <1>8, <1>11, <2>7, <3>2
  <2>8. \/ i < j \/ (i = j /\ p < q)
        \/ i = j /\ p = q
        \/ j < i \/ (j = i /\ q < p)
    BY <1>6
  <2> QED BY <2>5, <2>6, <2>7, <2>8, Zenon
<1>12. s < t \/ s > t \/ s = t
  BY <1>6
<1> QED BY <1>9, <1>10, <1>11, <1>12, Zenon

(* Of two announce messages that agree on their grandmaster, the           *)
(* comparison prefers the one that ranks before the other, and no other.   *)
LEMMA CompareBestIsRank ==
    ASSUME NEW x \in Candidates, NEW y \in Candidates, Agree({x, y})
    PROVE  CompareBest(x, y) = 1 <=> LexLess(RankOf(x), RankOf(y))
<1> DEFINE o == AsOrdering(Compare(FromAnnounceMessage(x.message, x.identity),
                                   FromAnnounceMessage(y.message, y.identity)))
<1>1. x.age \in Nat /\ y.age \in Nat
  BY CandidatesAssumption
<1>2. CompareBest(x, y) = IF o # 0 THEN o
                          ELSE CASE x.age < y.age -> 1
                                 [] x.age = y.age -> 0
                                 [] x.age > y.age -> -1
  BY DEF CompareBest
<1>3. CASE x.message.grandmaster_identity = y.message.grandmaster_identity
  <2>1. PICK s, i, p : /\ s = x.message.steps_removed
                       /\ i = x.message.source_port_identity.clock_identity
                       /\ p = x.identity.port_number
    OBVIOUS
  <2>2. PICK t, j, q : /\ t = y.message.steps_removed
                       /\ j = y.message.source_port_identity.clock_identity
                       /\ q = y.identity.port_number
    OBVIOUS
  <2>3. /\ s \in Nat /\ i \in Nat /\ p \in Nat
        /\ t \in Nat /\ j \in Nat /\ q \in Nat
    BY <2>1, <2>2, CandidatesAssumption DEF PortIdentity
  <2>4. o = CASE s < t \/ (s = t /\ (i < j \/ (i = j /\ p < q))) -> 1
              [] s = t /\ i = j /\ p = q -> 0
              [] s > t \/ (s = t /\ (i > j \/ (i = j /\ p > q))) -> -1
    BY <1>3, <2>1, <2>2, OrderingSameIdentity, Zenon
  <2>5. LexLess(RankOf(x), RankOf(y)) <=>
          \/ s < t
          \/ s = t /\ i < j
          \/ s = t /\ i = j /\ p < q
          \/ s = t /\ i = j /\ p = q /\ x.age < y.age
    BY <1>3, <2>1, <2>2, RankSameIdentity, Zenon
  <2> HIDE DEF o
  <2>6. CASE s < t \/ (s = t /\ (i < j \/ (i = j /\ p < q)))
    <3>1. o = 1
      BY <2>3, <2>4, <2>6
    <3> QED BY <1>2, <2>3, <2>5, <2>6, <3>1
  <2>7. CASE s = t /\ i = j /\ p = q
    <3>1. o = 0
      BY <2>3, <2>4, <2>7
    <3> QED BY <1>1, <1>2, <2>3, <2>5, <2>7, <3>1
  <2>8. CASE s > t \/ (s = t /\ (i > j \/ (i = j /\ p > q)))
    <3>1. o = -1
      BY <2>3, <2>4, <2>8
    <3> QED BY <1>2, <2>3, <2>5, <2>8, <3>1
  <2> QED BY <2>3, <2>6, <2>7, <2>8
<1>4. CASE x.message.grandmaster_identity # y.message.grandmaster_identity
  <2> DEFINE less == LexLess(Append(x.message.grandmaster_attributes, x.message.grandmaster_identity),
                             Append(y.message.grandmaster_attributes, y.message.grandmaster_identity))
  <2>1. Compare(FromAnnounceMessage(x.message, x.identity),
                FromAnnounceMessage(y.message, y.identity)) = IF less THEN "Better" ELSE "Worse"
    BY <1>4 DEF Compare, CompareDifferentIdentity, FromAnnounceMessage
  <2>2. o = IF less THEN 1 ELSE -1
    BY <2>1 DEF AsOrdering
  <2>3. LexLess(RankOf(x), RankOf(y)) <=> less
    BY <1>4, RankDifferentIdentity, Zenon
  <2> HIDE DEF o, less
  <2> QED BY <1>2, <2>2, <2>3
<1> QED BY <1>3, <1>4

-----------------------------------------------------------------------------
(* What the fold keeps is one of the messages it has seen. *)
FoldInv ==
    /\ seen \subseteq Candidates
    /\ best # NoMessage => best \in seen
    /\ BestIsBest

(* find_best_announce_message, for any messages in any order and number:   *)
(* the fold keeps one of them, and if they agree on the attributes of      *)
(* their grandmasters, no message it has seen ranks before the one it      *)
(* keeps.                                                                  *)
THEOREM FoldFindsBest == FoldSpec => []BestIsBest
<1>1. FoldInit => FoldInv
  BY DEF FoldInit, FoldInv, BestIsBest
<1>2. FoldInv /\ [FoldNext]_foldVars => FoldInv'
  <2>1. SUFFICES ASSUME FoldInv, NEW x \in Candidates \ seen, NextMessage(x) PROVE FoldInv'
    <3>1. CASE UNCHANGED foldVars
      BY <3>1 DEF foldVars, FoldInv, BestIsBest, Agree
    <3> QED BY <3>1 DEF FoldNext
  <2>2. /\ seen \subseteq Candidates /\ seen' = seen \union {x} /\ x \in Candidates
        /\ best' = IF best # NoMessage /\ CompareBest(best, x) = 1 THEN best ELSE x
    BY <2>1 DEF FoldInv, NextMessage
  <2>3. best' \in seen' /\ seen' \subseteq Candidates
    BY <2>1, <2>2 DEF FoldInv
  <2>4. ASSUME Agree(seen') PROVE \A y \in seen' : ~LexLess(RankOf(y), RankOf(best'))
    <3>1. /\ \A y, z \in seen' : Agree({y, z})
          /\ \A y \in seen : ~LexLess(RankOf(y), RankOf(best))
      BY <2>1, <2>2, <2>4 DEF Agree, FoldInv, BestIsBest
    <3>2. \A y \in Candidates : RankOf(y) \in Seq(Int) /\ Len(RankOf(y)) = 10
      BY RankElements, Zenon
    <3>3. ~LexLess(RankOf(x), RankOf(x))
      BY <2>2, <3>2, LexAsymmetric, Zenon
    <3>4. CASE best # NoMessage /\ CompareBest(best, x) = 1
      <4>1. best' = best /\ best \in seen /\ Agree({best, x})
        BY <2>1, <2>2, <3>1, <3>4 DEF FoldInv
      <4>2. LexLess(RankOf(best), RankOf(x))
        BY <2>2, <3>4, <4>1, CompareBestIsRank
      <4>3. ~LexLess(RankOf(x), RankOf(best))
        BY <2>2, <3>2, <4>1, <4>2, LexAsymmetric
      <4> QED BY <2>2, <3>1, <4>1, <4>3
    <3>5. CASE ~(best # NoMessage /\ CompareBest(best, x) = 1)
      <4>1. best' = x
        BY <2>2, <3>5
      <4>2. ASSUME NEW y \in seen PROVE ~LexLess(RankOf(y), RankOf(x))
        <5>1. best \in seen
          BY <2>1, <4>2 DEF FoldInv, BestIsBest
        <5>2. /\ best \in Candidates /\ best # NoMessage /\ y \in Candidates
              /\ Agree({best, x})
          BY <2>2, <3>1, <5>1, CandidatesAssumption
        <5>3. ~LexLess(RankOf(best), RankOf(x))
          BY <2>2, <3>5, <5>2, CompareBestIsRank
        <5>4. ~LexLess(RankOf(y), RankOf(best))
          BY <3>1
        <5> QED BY <2>2, <3>2, <5>2, <5>3, <5>4, LexTransitive
      <4> QED BY <2>2, <3>3, <4>1, <4>2
    <3> QED BY <3>4, <3>5
  <2> QED BY <2>3, <2>4 DEF FoldInv, BestIsBest
<1>3. FoldInv => BestIsBest
  BY DEF FoldInv
<1> QED BY <1>1, <1>2, <1>3, PTL DEF FoldSpec

-----------------------------------------------------------------------------
(* Retain *)

(* f holds the results of the first turns of the loop in Retain. *)
IsRetainLoop(f, s, keep, n) ==
    f = [i \in 0..n |-> IF i = 0 THEN <<>>
                        ELSE IF i \in keep THEN Append(f[i - 1], s[i]) ELSE f[i - 1]]

(* The same, element by element. *)
RetainTurns(f, s, keep, n) ==
    /\ f[0] = <<>>
    /\ \A i \in 1..n : f[i] = IF i \in keep THEN Append(f[i - 1], s[i]) ELSE f[i - 1]

(* The function of the loop, turn by turn. *)
LEMMA RetainLoopTurns ==
    ASSUME NEW f, NEW s, NEW keep, NEW n \in Nat, IsRetainLoop(f, s, keep, n)
    PROVE  RetainTurns(f, s, keep, n)
<1>1. \A i \in 0..n : f[i] = IF i = 0 THEN <<>>
                             ELSE IF i \in keep THEN Append(f[i - 1], s[i]) ELSE f[i - 1]
  BY Zenon DEF IsRetainLoop
<1>2. f[0] = <<>>
  BY <1>1
<1>3. ASSUME NEW i \in 1..n
      PROVE  f[i] = IF i \in keep THEN Append(f[i - 1], s[i]) ELSE f[i - 1]
  BY <1>1
<1> QED BY <1>2, <1>3 DEF RetainTurns

(* The loop is well defined. *)
LEMMA RetainLoopExists ==
    ASSUME NEW s, NEW keep
    PROVE  \A n \in Nat : \E f : IsRetainLoop(f, s, keep, n)
<1> DEFINE S == {n \in Nat : \E f : IsRetainLoop(f, s, keep, n)}
<1>1. 0 \in S
  <2>1. IsRetainLoop([i \in 0..0 |-> <<>>], s, keep, 0)
    BY DEF IsRetainLoop
  <2> QED BY <2>1
<1>2. ASSUME NEW n \in Nat, n \in S PROVE n + 1 \in S
  <2>1. PICK f : IsRetainLoop(f, s, keep, n)
    BY <1>2
  <2>2. RetainTurns(f, s, keep, n)
    BY <2>1, RetainLoopTurns
  <2> DEFINE g == [i \in 0..(n + 1) |->
                      IF i <= n THEN f[i]
                      ELSE IF i \in keep THEN Append(f[i - 1], s[i]) ELSE f[i - 1]]
  <2>3. ASSUME NEW i \in 0..(n + 1)
        PROVE  g[i] = IF i = 0 THEN <<>>
                      ELSE IF i \in keep THEN Append(g[i - 1], s[i]) ELSE g[i - 1]
    <3>1. CASE i = 0
      BY <3>1, <2>2 DEF RetainTurns
    <3>2. CASE i # 0
      <4>1. g[i - 1] = f[i - 1]
        BY <3>2
      <4>2. CASE i <= n
        <5>1. f[i] = IF i \in keep THEN Append(f[i - 1], s[i]) ELSE f[i - 1]
          BY <2>2, <3>2, <4>2 DEF RetainTurns
        <5> QED BY <3>2, <4>1, <4>2, <5>1
      <4>3. CASE ~(i <= n)
        BY <3>2, <4>1, <4>3
      <4> QED BY <4>2, <4>3
    <3> QED BY <3>1, <3>2
  <2>4. IsRetainLoop(g, s, keep, n + 1)
    BY <2>3 DEF IsRetainLoop
  <2> QED BY <2>4
<1> HIDE DEF S
<1>3. \A n \in Nat : n \in S
  BY <1>1, <1>2, SetInduction
<1> QED BY <1>3 DEF S

(* What Retain returns is what the last turn leaves. *)
LEMMA RetainByTurns ==
    ASSUME NEW T, NEW s \in Seq(T), NEW keep
    PROVE  \E f : RetainTurns(f, s, keep, Len(s)) /\ Retain(s, keep) = f[Len(s)]
<1> DEFINE f == CHOOSE g : IsRetainLoop(g, s, keep, Len(s))
<1>1. Len(s) \in Nat
  OBVIOUS
<1>2. Retain(s, keep) = f[Len(s)]
  BY Zenon DEF Retain, IsRetainLoop
<1>3. IsRetainLoop(f, s, keep, Len(s))
  BY <1>1, RetainLoopExists, Zenon
<1> HIDE DEF f
<1>4. RetainTurns(f, s, keep, Len(s))
  BY <1>1, <1>3, RetainLoopTurns, Zenon
<1> QED BY <1>2, <1>4

(* Elements that are kept from some index on, and no others, are the end   *)
(* of the sequence.                                                        *)
LEMMA RetainSuffix ==
    ASSUME NEW T, NEW s \in Seq(T), NEW keep, NEW m \in 0..Len(s),
           \A i \in 1..Len(s) : i \in keep <=> i > m
    PROVE  Retain(s, keep) = SubSeq(s, m + 1, Len(s))
<1>1. PICK f : RetainTurns(f, s, keep, Len(s)) /\ Retain(s, keep) = f[Len(s)]
  BY RetainByTurns, Zenon
<1> DEFINE P(i) == f[i] = SubSeq(s, m + 1, i)
           S == {i \in Nat : i <= Len(s) => P(i)}
<1>2. 0 \in S
  <2>1. SubSeq(s, m + 1, 0) = <<>>
    BY SubSeqEmpty
  <2> QED BY <1>1, <2>1 DEF RetainTurns
<1>3. ASSUME NEW n \in Nat, n \in S PROVE n + 1 \in S
  <2>1. SUFFICES ASSUME n + 1 <= Len(s) PROVE f[n + 1] = SubSeq(s, m + 1, n + 1)
    OBVIOUS
  <2>2. f[n] = SubSeq(s, m + 1, n) /\ n + 1 \in 1..Len(s) /\ n + 1 - 1 = n
    BY <1>3, <2>1
  <2>20. n + 1 \in 1..Len(s) /\ n + 1 - 1 = n
    BY <2>2
  <2>3. f[n + 1] = IF n + 1 \in keep THEN Append(f[n], s[n + 1]) ELSE f[n]
    BY <1>1, <2>20 DEF RetainTurns
  <2>4. CASE n + 1 > m
    <3>1. SubSeq(s, m + 1, n + 1) = Append(SubSeq(s, m + 1, n), s[n + 1])
      <4>1. PICK a \in Int : a = m + 1
        OBVIOUS
      <4>2. PICK b \in Int : b = n + 1
        OBVIOUS
      <4>3. a \in 1..Len(s) /\ b \in a..Len(s) /\ b - 1 = n
        BY <2>2, <2>4, <4>1, <4>2
      <4>4. SubSeq(s, a, b) = SubSeq(s, a, b - 1) \o <<s[b]>>
        BY <4>3, SubSeqRecursiveSecond
      <4>5. SubSeq(s, a, b - 1) \in Seq(T) /\ s[b] \in T
        BY <4>3, SubSeqProperties
      <4>6. SubSeq(s, a, b - 1) \o <<s[b]>> = Append(SubSeq(s, a, b - 1), s[b])
        BY <4>5, AppendIsConcat
      <4> QED BY <4>1, <4>2, <4>3, <4>4, <4>6
    <3> QED BY <2>2, <2>3, <2>4, <3>1
  <2>5. CASE ~(n + 1 > m)
    <3>1. SubSeq(s, m + 1, n + 1) = <<>> /\ SubSeq(s, m + 1, n) = <<>>
      BY <2>2, <2>5, SubSeqEmpty
    <3> QED BY <2>2, <2>3, <2>5, <3>1
  <2> QED BY <2>4, <2>5
<1> HIDE DEF S
<1>4. \A n \in Nat : n \in S
  BY <1>2, <1>3, SetInduction
<1> QED BY <1>1, <1>4 DEF S

(* In general what is kept is a subsequence: h tells where it comes from. *)
Selects(h, t, s, keep, n) ==
    /\ h \in [1..Len(t) -> 1..n]
    /\ \A k \in 1..Len(t) : h[k] \in keep /\ t[k] = s[h[k]]
    /\ \A k, l \in 1..Len(t) : k < l => h[k] < h[l]
    /\ \A i \in 1..n : i \in keep => \E k \in 1..Len(t) : h[k] = i

(* ArrayVec::retain returns the elements to keep, all of them, each once   *)
(* and in their order.                                                     *)
LEMMA RetainSelects ==
    ASSUME NEW T, NEW s \in Seq(T), NEW keep
    PROVE  /\ Retain(s, keep) \in Seq(T)
           /\ Len(Retain(s, keep)) <= Len(s)
           /\ \E h : Selects(h, Retain(s, keep), s, keep, Len(s))
<1>1. PICK f : RetainTurns(f, s, keep, Len(s)) /\ Retain(s, keep) = f[Len(s)]
  BY RetainByTurns, Zenon
<1> DEFINE P(i) == f[i] \in Seq(T) /\ Len(f[i]) <= i /\ \E h : Selects(h, f[i], s, keep, i)
           S == {i \in Nat : i <= Len(s) => P(i)}
<1>2. 0 \in S
  <2>1. f[0] = <<>>
    BY <1>1 DEF RetainTurns
  <2>2. Selects([k \in 1..0 |-> 0], <<>>, s, keep, 0)
    BY DEF Selects
  <2>3. f[0] \in Seq(T) /\ Len(f[0]) <= 0 /\ \E h : Selects(h, f[0], s, keep, 0)
    BY <2>1, <2>2
  <2> QED BY <2>3
<1>3. ASSUME NEW n \in Nat, n \in S PROVE n + 1 \in S
  <2>1. SUFFICES ASSUME n + 1 <= Len(s) PROVE P(n + 1)
    OBVIOUS
  <2>2. P(n) /\ n + 1 \in 1..Len(s) /\ n + 1 - 1 = n
    BY <1>3, <2>1
  <2>3. f[n + 1] = IF n + 1 \in keep THEN Append(f[n], s[n + 1]) ELSE f[n]
    BY <1>1, <2>2 DEF RetainTurns
  <2>4. PICK h : Selects(h, f[n], s, keep, n)
    BY <2>2
  <2>5. CASE n + 1 \in keep
    <3>1. PICK t : t = f[n]
      OBVIOUS
    <3>2. PICK u : u = Append(t, s[n + 1])
      OBVIOUS
    <3>3. t \in Seq(T) /\ Len(t) <= n /\ s[n + 1] \in T /\ Selects(h, t, s, keep, n)
      BY <2>2, <2>4, <3>1
    <3>4. /\ u \in Seq(T) /\ Len(u) = Len(t) + 1 /\ u[Len(u)] = s[n + 1]
          /\ \A k \in 1..Len(t) : u[k] = t[k]
      BY <3>2, <3>3
    <3> DEFINE g == [k \in 1..Len(u) |-> IF k <= Len(t) THEN h[k] ELSE n + 1]
    <3>5. Selects(g, u, s, keep, n + 1)
      <4>0. Len(t) \in Nat /\ Len(u) = Len(t) + 1
        BY <3>3, <3>4
      <4>1. g \in [1..Len(u) -> 1..(n + 1)]
        BY <3>3, <4>0 DEF Selects
      <4>2. ASSUME NEW k \in 1..Len(u) PROVE g[k] \in keep /\ u[k] = s[g[k]]
        BY <2>5, <3>3, <3>4, <4>0 DEF Selects
      <4>3. ASSUME NEW k \in 1..Len(u), NEW l \in 1..Len(u), k < l PROVE g[k] < g[l]
        <5>1. k \in 1..Len(t) /\ g[k] = h[k] /\ h[k] \in 1..n
          BY <3>3, <4>0, <4>3 DEF Selects
        <5>2. CASE l <= Len(t)
          BY <3>3, <4>3, <5>1, <5>2 DEF Selects
        <5>3. CASE ~(l <= Len(t))
          BY <5>1, <5>3
        <5> QED BY <5>2, <5>3
      <4>4. ASSUME NEW i \in 1..(n + 1), i \in keep PROVE \E k \in 1..Len(u) : g[k] = i
        <5>1. CASE i = n + 1
          BY <4>0, <5>1
        <5>2. CASE i # n + 1
          <6>1. PICK k \in 1..Len(t) : h[k] = i
            BY <3>3, <4>4, <5>2 DEF Selects
          <6>2. k \in 1..Len(u) /\ g[k] = i
            BY <4>0, <6>1
          <6> QED BY <6>2
        <5> QED BY <5>1, <5>2
      <4> HIDE DEF g
      <4> QED BY <4>1, <4>2, <4>3, <4>4 DEF Selects
    <3>6. f[n + 1] = u
      BY <2>3, <2>5, <3>1, <3>2
    <3>7. Len(u) <= n + 1
      BY <3>3, <3>4
    <3> HIDE DEF g
    <3> QED BY <3>4, <3>5, <3>6, <3>7
  <2>6. CASE n + 1 \notin keep
    <3>1. f[n + 1] = f[n]
      BY <2>3, <2>6
    <3>2. Selects(h, f[n], s, keep, n + 1)
      <4>1. PICK t : t = f[n]
        OBVIOUS
      <4>2. Selects(h, t, s, keep, n)
        BY <2>4, <4>1
      <4>3. \A i \in 1..(n + 1) : i \in keep => i \in 1..n
        BY <2>6
      <4>4. h \in [1..Len(t) -> 1..(n + 1)]
        BY <4>2 DEF Selects
      <4>5. Selects(h, t, s, keep, n + 1)
        BY <4>2, <4>3, <4>4 DEF Selects
      <4> QED BY <4>1, <4>5
    <3> QED BY <2>2, <3>1, <3>2
  <2> QED BY <2>5, <2>6
<1> HIDE DEF S
<1>4. \A n \in Nat : n \in S
  BY <1>2, <1>3, SetInduction
<1>5. Len(s) \in Nat
  OBVIOUS
<1>6. P(Len(s))
  BY <1>4, <1>5 DEF S
<1> QED BY <1>1, <1>6

-----------------------------------------------------------------------------
(* The messages of one master *)

(* From the oldest to the newest *)
Descending(ms) == \A k, l \in 1..Len(ms) : k <= l => ms[k].age >= ms[l].age

(* Each would be registered after the one before it. *)
Consecutive(ms) ==
    \A k \in 1..(Len(ms) - 1) : IsNewer(ms[k + 1].sequence_id, ms[k].sequence_id)

NoYounger(ms, low) == \A k \in 1..Len(ms) : ms[k].age >= low

Kept(ms, low) ==
    /\ ms \in Seq(Messages) /\ Len(ms) \in 1..MaxMessages
    /\ Descending(ms) /\ Consecutive(ms) /\ NoYounger(ms, low)

(* Between two runs of bmca() there is nothing to purge. *)
LEMMA PurgeNothing ==
    ASSUME NEW ms \in Seq(Messages)
    PROVE  Purge(ms) = ms
<1> DEFINE keep == {k \in DOMAIN ms : ms[k].age < CutoffAge}
<1>1. ASSUME NEW i \in 1..Len(ms) PROVE i \in keep
  <2>1. i \in DOMAIN ms /\ ms[i] \in Messages
    OBVIOUS
  <2>2. ms[i].age < CutoffAge
    BY <2>1, ForeignMasterAssumption DEF Messages
  <2> QED BY <2>1, <2>2
<1>2. \A i \in 1..Len(ms) : i \in keep <=> i > 0
  BY <1>1
<1>3. Purge(ms) = Retain(ms, keep)
  BY DEF Purge
<1> HIDE DEF keep
<1>4. 0 \in 0..Len(ms)
  OBVIOUS
<1>5. Retain(ms, keep) = SubSeq(ms, 0 + 1, Len(ms))
  BY <1>2, <1>4, RetainSuffix
<1>6. SubSeq(ms, 1, Len(ms)) = ms
  BY SubSeqFull
<1> QED BY <1>3, <1>5, <1>6

(* ForeignMaster::step_age drops the messages that have become too old,    *)
(* which are the first ones.                                               *)
LEMMA StepMessagesKept ==
    ASSUME NEW ms, NEW low \in Nat, Kept(ms, low)
    PROVE  LET t == StepMessages(ms) IN
           /\ t \in Seq(Messages)
           /\ t # <<>> => Kept(t, low + 1)
           /\ Last(ms).age + 1 < CutoffAge =>
                 t # <<>> /\ Last(t) = [Last(ms) EXCEPT !.age = @ + 1]
<1> DEFINE aged == [k \in DOMAIN ms |-> [ms[k] EXCEPT !.age = @ + 1]]
           Old == [sequence_id : 0..(SequenceIds - 1), age : 0..CutoffAge]
           keep == {k \in DOMAIN aged : aged[k].age < CutoffAge}
           n == Len(ms)
<1>1. /\ ms \in Seq(Messages) /\ n \in Nat /\ n >= 1 /\ n <= MaxMessages /\ DOMAIN ms = 1..n
      /\ \A k \in 1..n : ms[k] \in Messages
  BY ForeignMasterAssumption DEF Kept
<1>2. ASSUME NEW k \in 1..n
      PROVE  /\ aged[k] \in Old /\ aged[k].age = ms[k].age + 1
             /\ aged[k].sequence_id = ms[k].sequence_id
             /\ ms[k].age \in Int
             /\ aged[k] = [ms[k] EXCEPT !.age = @ + 1]
  <2>1. ms[k] \in Messages /\ k \in DOMAIN ms
    BY <1>1
  <2>2. aged[k] = [ms[k] EXCEPT !.age = @ + 1]
    BY <2>1
  <2> HIDE DEF aged
  <2> QED BY <2>1, <2>2, ForeignMasterAssumption DEF Messages
<1>20. \A k \in 1..n : /\ aged[k] \in Old /\ aged[k].age = ms[k].age + 1
                       /\ aged[k].sequence_id = ms[k].sequence_id
                       /\ ms[k].age \in Int
  BY <1>2, Zenon
<1>3. aged \in Seq(Old) /\ Len(aged) = n /\ DOMAIN aged = 1..n
  <2>1. aged \in [1..n -> Old] /\ n \in Nat
    <3>1. aged = [k \in 1..n |-> aged[k]]
      BY <1>1
    <3> HIDE DEF aged, Old
    <3> QED BY <1>1, <1>2, <3>1
  <2> HIDE DEF aged, Old, n
  <2>2. aged \in Seq(Old)
    BY <2>1, SeqDef
  <2>3. DOMAIN aged = 1..n /\ Len(aged) \in Nat /\ DOMAIN aged = 1..Len(aged)
    BY <2>1, <2>2, LenProperties
  <2> QED BY <2>1, <2>2, <2>3
<1>4. StepMessages(ms) = Retain(aged, keep)
  BY DEF StepMessages, Purge
<1>5. \A k \in 1..n : k \in keep <=> aged[k].age < CutoffAge
  BY <1>3
<1> HIDE DEF keep, aged, Old
<1>6. PICK m \in 0..n : \A i \in 1..n : i \in keep <=> i > m
  <2> DEFINE K == {i \in 1..n : i \in keep}
  <2>1. CASE K = {}
    <3>1. \A i \in 1..n : i \in keep <=> i > n
      BY <1>1, <2>1
    <3>2. n \in 0..n
      BY <1>1
    <3> HIDE DEF n, K
    <3> QED BY <3>1, <3>2, Zenon
  <2>2. CASE K # {}
    <3>1. PICK first \in K : \A i \in K : first <= i
      <4>1. K \subseteq Nat
        OBVIOUS
      <4> HIDE DEF K
      <4> QED BY <2>2, <4>1, LeastElement
    <3>2. ASSUME NEW i \in 1..n, i >= first PROVE i \in keep
      <4>1. ms[first].age >= ms[i].age
        BY <3>1, <3>2 DEF Kept, Descending
      <4>2. aged[first].age < CutoffAge
        BY <1>5, <3>1
      <4>3. /\ aged[first].age = ms[first].age + 1 /\ aged[i].age = ms[i].age + 1
            /\ ms[first].age \in Int /\ ms[i].age \in Int
        BY <1>20, <3>1
      <4> QED BY <1>5, <4>1, <4>2, <4>3, ForeignMasterAssumption
    <3>3. first - 1 \in 0..n /\ \A i \in 1..n : i \in keep <=> i > first - 1
      BY <1>1, <3>1, <3>2
    <3> QED BY <3>3
  <2> QED BY <2>1, <2>2
<1>7. Retain(aged, keep) = SubSeq(aged, m + 1, n)
  BY <1>3, <1>6, RetainSuffix
<1>8. PICK t : t = StepMessages(ms)
  OBVIOUS
<1>9. /\ Len(t) = n - m /\ t \in Seq(Old)
      /\ \A k \in 1..(n - m) : t[k] = aged[m + k]
  <2>1. t = SubSeq(aged, m + 1, n)
    BY <1>4, <1>7, <1>8
  <2>2. \A i \in (m + 1)..n : aged[i] \in Old
    BY <1>1, <1>20
  <2>3. m + 1 \in Int /\ n \in Int
    BY <1>1
  <2>4. /\ t \in Seq(Old)
        /\ Len(t) = IF m + 1 <= n THEN n - (m + 1) + 1 ELSE 0
        /\ \A i \in 1..(n - (m + 1) + 1) : t[i] = aged[m + 1 + i - 1]
    BY <2>1, <2>2, <2>3, SubSeqProperties
  <2>5. n - (m + 1) + 1 = n - m /\ \A i \in 1..(n - m) : m + 1 + i - 1 = m + i
    BY <1>1
  <2>6. Len(t) = n - m
    <3>1. n \in Int /\ m \in Int /\ m <= n
      BY <1>1
    <3>2. Len(t) = IF m + 1 <= n THEN n - (m + 1) + 1 ELSE 0
      BY <2>4
    <3> HIDE DEF n
    <3> QED BY <3>1, <3>2
  <2> QED BY <2>4, <2>5, <2>6
<1>10. ASSUME NEW k \in 1..Len(t)
       PROVE  /\ m + k \in 1..n /\ t[k] = aged[m + k] /\ t[k] \in Messages
              /\ t[k].age = ms[m + k].age + 1 /\ t[k].sequence_id = ms[m + k].sequence_id
              /\ ms[m + k].age \in Int
  <2>1. m + k \in 1..n /\ m + k > m /\ t[k] = aged[m + k]
    BY <1>1, <1>9
  <2>2. aged[m + k].age < CutoffAge
    BY <1>5, <1>6, <2>1
  <2>3. aged[m + k] \in Messages
    <3>1. aged[m + k] \in Old
      BY <1>20, <2>1
    <3> QED BY <2>2, <3>1, ForeignMasterAssumption DEF Messages, Old
  <2>4. /\ aged[m + k].age = ms[m + k].age + 1 /\ ms[m + k].age \in Int
        /\ aged[m + k].sequence_id = ms[m + k].sequence_id
    BY <1>20, <2>1
  <2> QED BY <2>1, <2>3, <2>4
<1>11. t \in Seq(Messages)
  <2>1. Len(t) \in Nat /\ t \in [1..Len(t) -> Old] /\ \A k \in 1..Len(t) : t[k] \in Messages
    BY <1>9, <1>10, LenProperties
  <2>2. t \in [1..Len(t) -> Messages]
    BY <2>1
  <2> QED BY <2>1, <2>2, SeqDef
<1>12. Len(t) \in 0..MaxMessages /\ (t # <<>> => Len(t) \in 1..MaxMessages)
  BY <1>1, <1>9, <1>11, EmptySeq, ForeignMasterAssumption
<1>13. Descending(t)
  <2>1. ASSUME NEW k \in 1..Len(t), NEW l \in 1..Len(t), k <= l
        PROVE  t[k].age >= t[l].age
    <3>1. ms[m + k].age >= ms[m + l].age
      BY <1>10, <2>1 DEF Kept, Descending
    <3> QED BY <1>10, <3>1
  <2> QED BY <2>1 DEF Descending
<1>14. Consecutive(t)
  <2>1. ASSUME NEW k \in 1..(Len(t) - 1)
        PROVE  IsNewer(t[k + 1].sequence_id, t[k].sequence_id)
    <3>1. k \in 1..Len(t) /\ k + 1 \in 1..Len(t)
      BY <1>9
    <3>2. m + k \in 1..(n - 1) /\ m + (k + 1) = m + k + 1
      BY <1>1, <1>9
    <3>3. IsNewer(ms[m + k + 1].sequence_id, ms[m + k].sequence_id)
      BY <3>2 DEF Kept, Consecutive
    <3>4. t[k].sequence_id = ms[m + k].sequence_id
      BY <1>10, <3>1
    <3>5. t[k + 1].sequence_id = ms[m + (k + 1)].sequence_id
      BY <1>10, <3>1
    <3> QED BY <3>2, <3>3, <3>4, <3>5
  <2> QED BY <2>1 DEF Consecutive
<1>15. NoYounger(t, low + 1)
  <2>1. ASSUME NEW k \in 1..Len(t) PROVE t[k].age >= low + 1
    <3>1. ms[m + k].age >= low
      BY <1>10 DEF Kept, NoYounger
    <3> QED BY <1>10, <3>1
  <2> QED BY <2>1 DEF NoYounger
<1>16. ASSUME Last(ms).age + 1 < CutoffAge
       PROVE  t # <<>> /\ Last(t) = [Last(ms) EXCEPT !.age = @ + 1]
  <2>1. n \in 1..n /\ Last(ms) = ms[n]
    BY <1>1 DEF Last
  <2>2. aged[n].age < CutoffAge /\ aged[n] = [ms[n] EXCEPT !.age = @ + 1]
    BY <1>2, <1>16, <2>1
  <2>3. n > m
    BY <1>5, <1>6, <2>1, <2>2
  <2>4. n - m \in 1..(n - m) /\ m + (n - m) = n
    BY <1>1, <2>3
  <2>5. Last(t) = aged[n]
    BY <1>9, <2>4 DEF Last
  <2>6. t # <<>>
    BY <1>1, <1>9, <2>3
  <2> QED BY <2>1, <2>2, <2>5, <2>6
<1>17. t # <<>> => Kept(t, low + 1)
  BY <1>11, <1>12, <1>13, <1>14, <1>15 DEF Kept
<1> QED BY <1>8, <1>11, <1>16, <1>17

(* A newer message that is no older than the last one *)
LEMMA PushKept ==
    ASSUME NEW ms, NEW old, Kept(ms, old), NEW x \in Messages, NEW low \in Nat,
           IsNewer(x.sequence_id, Last(ms).sequence_id), x.age <= Last(ms).age, low <= x.age
    PROVE  Kept(Push(ms, x), low)
<1>1. PICK n : n = Len(ms)
  OBVIOUS
<1>2. /\ ms \in Seq(Messages) /\ n \in Nat /\ n >= 1 /\ n <= MaxMessages /\ ms # <<>>
      /\ Last(ms) = ms[n]
  BY <1>1, ForeignMasterAssumption DEF Kept, Last
<1> DEFINE Rest(t, d) ==
        /\ t \in Seq(Messages) /\ Len(t) = n - d /\ Push(ms, x) = Append(t, x)
        /\ n - d + 1 <= MaxMessages /\ \A k \in 1..(n - d) : t[k] = ms[k + d]
<1>21. n < MaxMessages => Rest(ms, 0)
  BY <1>1, <1>2, ForeignMasterAssumption DEF Push
<1>22. ~(n < MaxMessages) => Rest(Tail(ms), 1)
  <2>1. /\ Tail(ms) \in Seq(Messages) /\ Len(Tail(ms)) = n - 1
        /\ \A k \in 1..(n - 1) : Tail(ms)[k] = ms[k + 1]
    BY <1>1, <1>2
  <2>2. ~(n < MaxMessages) => Push(ms, x) = Append(Tail(ms), x) /\ n - 1 + 1 <= MaxMessages
    BY <1>1, <1>2 DEF Push
  <2> QED BY <2>1, <2>2
<1>23. PICK t, d : Rest(t, d) /\ d \in {0, 1}
  <2> HIDE DEF Rest
  <2>1. 0 \in {0, 1} /\ 1 \in {0, 1}
    OBVIOUS
  <2> QED BY <1>21, <1>22, <2>1, Zenon
<1>3. /\ d \in {0, 1} /\ t \in Seq(Messages) /\ Len(t) = n - d /\ Push(ms, x) = Append(t, x)
      /\ n - d + 1 <= MaxMessages /\ \A k \in 1..(n - d) : t[k] = ms[k + d]
  BY <1>23
<1> HIDE DEF Rest
<1>4. PICK u : u = Append(t, x)
  OBVIOUS
<1>5. PICK p : p = n - d
  OBVIOUS
<1>6. /\ p \in Nat /\ p + d = n /\ p + 1 <= MaxMessages /\ Len(t) = p
      /\ d \in Int /\ 0 <= d
  BY <1>2, <1>3, <1>5
<1>7. /\ u \in Seq(Messages) /\ Len(u) = p + 1 /\ u[p + 1] = x
      /\ \A k \in 1..p : u[k] = t[k]
  BY <1>3, <1>4, <1>6
<1>8. \A k \in 1..p : u[k] = ms[k + d] /\ k + d \in 1..n
  BY <1>3, <1>5, <1>6, <1>7
<1>9. \A k \in 1..n : ms[k].age \in Int /\ ms[k].age >= x.age
  <2>1. ASSUME NEW k \in 1..n PROVE ms[k].age \in Int /\ ms[k].age >= x.age
    <3>1. ms[k] \in Messages /\ ms[n] \in Messages
      BY <1>1, <1>2
    <3>2. ms[k].age >= ms[n].age
      BY <1>1, <1>2 DEF Kept, Descending
    <3>3. ms[k].age \in Int /\ ms[n].age \in Int /\ x.age \in Int
      BY <3>1, ForeignMasterAssumption DEF Messages
    <3> QED BY <1>2, <3>2, <3>3
  <2> QED BY <2>1
<1>10. x.age \in Int
  BY ForeignMasterAssumption DEF Messages
<1>11. Descending(u)
  <2>1. ASSUME NEW k \in 1..(p + 1), NEW l \in 1..(p + 1), k <= l
        PROVE  u[k].age >= u[l].age
    <3>1. CASE l = p + 1 /\ k = p + 1
      BY <1>7, <1>10, <3>1
    <3>2. CASE l = p + 1 /\ k # p + 1
      <4>1. k \in 1..p
        BY <1>6, <3>2
      <4> QED BY <1>7, <1>8, <1>9, <3>2, <4>1
    <3>3. CASE l # p + 1
      <4>1. k \in 1..p /\ l \in 1..p /\ k + d <= l + d
        BY <1>6, <2>1, <3>3
      <4>2. ms[k + d].age >= ms[l + d].age
        BY <1>1, <1>8, <4>1 DEF Kept, Descending
      <4> QED BY <1>8, <4>1, <4>2
    <3> QED BY <3>1, <3>2, <3>3
  <2> QED BY <1>7, <2>1 DEF Descending
<1>12. Consecutive(u)
  <2>1. ASSUME NEW k \in 1..p
        PROVE  IsNewer(u[k + 1].sequence_id, u[k].sequence_id)
    <3>1. CASE k = p
      <4>1. u[k] = ms[n] /\ u[k + 1] = x
        BY <1>6, <1>7, <1>8, <3>1
      <4> QED BY <1>2, <4>1
    <3>2. CASE k # p
      <4>1. k + 1 \in 1..p /\ k + d \in 1..(n - 1) /\ k + 1 + d = k + d + 1
        BY <1>6, <3>2
      <4>2. IsNewer(ms[k + d + 1].sequence_id, ms[k + d].sequence_id)
        BY <1>1, <4>1 DEF Kept, Consecutive
      <4>3. u[k] = ms[k + d] /\ u[k + 1] = ms[k + 1 + d]
        BY <1>8, <4>1
      <4> QED BY <4>1, <4>2, <4>3
    <3> QED BY <3>1, <3>2
  <2>2. Len(u) - 1 = p
    BY <1>6, <1>7
  <2> QED BY <2>1, <2>2 DEF Consecutive
<1>13. NoYounger(u, low)
  <2>1. ASSUME NEW k \in 1..(p + 1) PROVE u[k].age >= low
    <3>1. CASE k = p + 1
      BY <1>7, <3>1
    <3>2. CASE k # p + 1
      <4>1. k \in 1..p
        BY <1>6, <3>2
      <4>2. u[k].age \in Int /\ u[k].age >= x.age
        BY <1>8, <1>9, <4>1
      <4> QED BY <1>10, <4>2
    <3> QED BY <3>1, <3>2
  <2> QED BY <1>7, <2>1 DEF NoYounger
<1>14. Len(u) \in 1..MaxMessages
  BY <1>6, <1>7, ForeignMasterAssumption
<1> QED BY <1>3, <1>4, <1>7, <1>11, <1>12, <1>13, <1>14 DEF Kept

(* The messages of a qualified master without the newest, which fits back. *)
LEMMA FrontKept ==
    ASSUME NEW ms, NEW low, Kept(ms, low), Len(ms) >= 2
    PROVE  /\ Kept(Front(ms), low)
           /\ Push(Front(ms), Last(ms)) = ms
           /\ IsNewer(Last(ms).sequence_id, Last(Front(ms)).sequence_id)
           /\ Last(ms) \in Messages
<1>1. PICK n : n = Len(ms)
  OBVIOUS
<1>2. PICK t : t = Front(ms)
  OBVIOUS
<1>3. ms \in Seq(Messages) /\ n \in Nat /\ n >= 2 /\ n <= MaxMessages /\ Last(ms) = ms[n]
  BY <1>1, ForeignMasterAssumption DEF Kept, Last
<1>4. /\ t \in Seq(Messages) /\ Len(t) = n - 1 /\ \A k \in 1..(n - 1) : t[k] = ms[k]
  <2>1. t = SubSeq(ms, 1, n - 1)
    BY <1>1, <1>2 DEF Front
  <2>2. \A i \in 1..(n - 1) : ms[i] \in Messages
    BY <1>1, <1>3
  <2>3. /\ t \in Seq(Messages)
        /\ Len(t) = IF 1 <= n - 1 THEN n - 1 - 1 + 1 ELSE 0
        /\ \A i \in 1..(n - 1 - 1 + 1) : t[i] = ms[1 + i - 1]
    BY <1>3, <2>1, <2>2, SubSeqProperties
  <2>4. n - 1 - 1 + 1 = n - 1 /\ \A i \in 1..(n - 1) : 1 + i - 1 = i
    BY <1>3
  <2> QED BY <1>3, <2>3, <2>4
<1>5. Descending(t) /\ Consecutive(t) /\ NoYounger(t, low)
  <2>1. \A k \in 1..(n - 1) : k \in 1..n
    BY <1>3
  <2>2. Descending(t)
    BY <1>1, <1>4, <2>1 DEF Kept, Descending
  <2>3. NoYounger(t, low)
    BY <1>1, <1>4, <2>1 DEF Kept, NoYounger
  <2>4. ASSUME NEW k \in 1..(n - 1 - 1)
        PROVE  IsNewer(t[k + 1].sequence_id, t[k].sequence_id)
    <3>1. k \in 1..(n - 1) /\ k + 1 \in 1..(n - 1)
      BY <1>3
    <3>2. IsNewer(ms[k + 1].sequence_id, ms[k].sequence_id)
      BY <1>1, <3>1 DEF Kept, Consecutive
    <3> QED BY <1>4, <3>1, <3>2
  <2>5. Consecutive(t)
    BY <1>4, <2>4 DEF Consecutive
  <2> QED BY <2>2, <2>3, <2>5
<1>6. Kept(t, low)
  BY <1>3, <1>4, <1>5, ForeignMasterAssumption DEF Kept
<1>7. Push(t, ms[n]) = ms
  <2>1. Push(t, ms[n]) = Append(t, ms[n])
    BY <1>3, <1>4, ForeignMasterAssumption DEF Push
  <2>2. PICK u : u = Append(t, ms[n])
    OBVIOUS
  <2>3. ms[n] \in Messages
    BY <1>1, <1>3
  <2>4. u \in Seq(Messages) /\ Len(u) = n /\ u[n] = ms[n] /\ \A k \in 1..(n - 1) : u[k] = ms[k]
    BY <1>3, <1>4, <2>2, <2>3
  <2>5. \A k \in 1..Len(u) : u[k] = ms[k]
    BY <1>3, <2>4
  <2>6. u = ms
    BY <1>1, <1>3, <2>4, <2>5, SeqEqual
  <2> QED BY <2>1, <2>2, <2>6
<1>8. IsNewer(ms[n].sequence_id, Last(t).sequence_id)
  <2>1. n - 1 \in 1..(n - 1) /\ n - 1 + 1 = n
    BY <1>3
  <2>2. IsNewer(ms[n].sequence_id, ms[n - 1].sequence_id)
    BY <1>1, <2>1 DEF Kept, Consecutive
  <2>3. Last(t) = ms[n - 1]
    BY <1>4, <2>1 DEF Last
  <2> QED BY <2>2, <2>3
<1>9. ms[n] \in Messages
  BY <1>1, <1>3
<1> QED BY <1>2, <1>3, <1>6, <1>7, <1>8, <1>9

-----------------------------------------------------------------------------
(* The list *)

(* The list is consistent with quiet, the runs of bmca() since a message   *)
(* of each master was accepted.                                            *)
ListInv(list, quiet) ==
    /\ list \in Seq(ForeignMasters) /\ Len(list) <= MaxForeignMasters
    /\ \A i \in 1..Len(list) : Kept(list[i].announce_messages, quiet[list[i].source])
    /\ \A i, j \in 1..Len(list) : list[i].source = list[j].source => i = j

(* The fields of an entry of the list. *)
LEMMA ListElements ==
    ASSUME NEW list \in Seq(ForeignMasters), NEW i \in 1..Len(list)
    PROVE  /\ list[i] \in ForeignMasters
           /\ list[i].source \in Masters /\ list[i].source \notin OwnClock \union Distant
           /\ list[i].announce_messages \in Seq(Messages)
<1>1. list[i] \in ForeignMasters
  OBVIOUS
<1> QED BY <1>1 DEF ForeignMasters

(* get_foreign_master *)
LEMMA IndexOfFinds ==
    ASSUME NEW list \in Seq(ForeignMasters), NEW m
    PROVE  \/ IndexOf(list, m) = 0 /\ \A i \in 1..Len(list) : list[i].source # m
           \/ IndexOf(list, m) \in 1..Len(list) /\ list[IndexOf(list, m)].source = m
<1> DEFINE I == {i \in 1..Len(list) : list[i].source = m}
<1>1. IndexOf(list, m) = IF I # {} THEN Min(I) ELSE 0
  BY Zenon DEF IndexOf, SelectInSeq
<1>2. CASE I = {}
  BY <1>1, <1>2
<1>3. CASE I # {}
  <2>1. I \subseteq Nat
    OBVIOUS
  <2> HIDE DEF I
  <2>2. \E i \in I : \A j \in I : i <= j
    BY <1>3, <2>1, LeastElement
  <2>3. Min(I) \in I
    BY <2>2, Zenon DEF Min
  <2>4. IndexOf(list, m) \in I
    BY <1>1, <1>3, <2>3
  <2> QED BY <2>4 DEF I
<1> QED BY <1>2, <1>3

(* Every master has one entry, so it is found where it is. *)
LEMMA IndexOfEntry ==
    ASSUME NEW list \in Seq(ForeignMasters), NEW i \in 1..Len(list),
           \A k, l \in 1..Len(list) : list[k].source = list[l].source => k = l
    PROVE  IndexOf(list, list[i].source) = i
BY IndexOfFinds

(* One element of a sequence replaced, without mention of EXCEPT. *)
Replaced(s, i, e) == [s EXCEPT ![i] = e]

(* Such a sequence, element by element. *)
LEMMA ReplacedSeq ==
    ASSUME NEW S, NEW s \in Seq(S), NEW i \in 1..Len(s), NEW e \in S
    PROVE  /\ Replaced(s, i, e) \in Seq(S) /\ Len(Replaced(s, i, e)) = Len(s)
           /\ \A j \in 1..Len(s) : Replaced(s, i, e)[j] = IF j = i THEN e ELSE s[j]
BY ExceptSeq DEF Replaced

(* One entry of the list with other messages *)
WithMessages(list, i, ms) ==
    Replaced(list, i, [list[i] EXCEPT !.announce_messages = ms])

(* Such a list, entry by entry. *)
LEMMA EntryReplaced ==
    ASSUME NEW list, NEW quiet, ListInv(list, quiet), NEW i \in 1..Len(list),
           NEW ms \in Seq(Messages), NEW new, new = WithMessages(list, i, ms)
    PROVE  /\ new \in Seq(ForeignMasters) /\ Len(new) = Len(list)
           /\ \A j \in 1..Len(list) :
                 /\ new[j].source = list[j].source
                 /\ new[j].announce_messages = IF j = i THEN ms ELSE list[j].announce_messages
<1>1. list \in Seq(ForeignMasters)
  BY DEF ListInv
<1>2. PICK e : e = [list[i] EXCEPT !.announce_messages = ms]
  OBVIOUS
<1>3. e \in ForeignMasters /\ e.source = list[i].source /\ e.announce_messages = ms
  <2>1. list[i] \in ForeignMasters
    BY <1>1
  <2> QED BY <1>2, <2>1 DEF ForeignMasters
<1>4. new = Replaced(list, i, e)
  BY <1>2 DEF WithMessages
<1>5. /\ new \in Seq(ForeignMasters) /\ Len(new) = Len(list)
      /\ \A j \in 1..Len(list) : new[j] = IF j = i THEN e ELSE list[j]
  <2>1. e \in ForeignMasters
    BY <1>3
  <2>2. /\ Replaced(list, i, e) \in Seq(ForeignMasters)
        /\ Len(Replaced(list, i, e)) = Len(list)
        /\ \A j \in 1..Len(list) : Replaced(list, i, e)[j] = IF j = i THEN e ELSE list[j]
    BY ONLY <1>1, <2>1, i \in 1..Len(list), ReplacedSeq
  <2> QED BY <1>4, <2>2, Zenon
<1> QED BY <1>3, <1>5

(* register_announce_message of a message that has just arrived *)
LEMMA RegisterInv ==
    ASSUME NEW list, NEW quiet \in [Masters -> 0..CutoffAge], ListInv(list, quiet),
           NEW m \in Masters, NEW id \in 0..(SequenceIds - 1)
    PROVE  ListInv(Register(list, m, id, 0),
                   IF Accepts(list, m, id) THEN [quiet EXCEPT ![m] = 0] ELSE quiet)
<1> DEFINE new == Register(list, m, id, 0)
           i == IndexOf(list, m)
           x == [sequence_id |-> id, age |-> 0]
           after == [quiet EXCEPT ![m] = 0]
<1>1. list \in Seq(ForeignMasters) /\ x \in Messages /\ x.sequence_id = id /\ x.age = 0
  BY ForeignMasterAssumption DEF ListInv, Messages
<1>2. CASE ~Accepts(list, m, id)
  <2>1. new = list
    BY <1>2 DEF Register
  <2> QED BY <1>2, <2>1
<1>3. CASE Accepts(list, m, id) /\ i # 0
  <2>1. i \in 1..Len(list) /\ list[i].source = m
    BY <1>1, <1>3, IndexOfFinds
  <2>2. PICK ms : ms = list[i].announce_messages
    OBVIOUS
  <2>3. Kept(ms, quiet[m]) /\ ms \in Seq(Messages)
    BY <2>1, <2>2 DEF ListInv, Kept
  <2>4. IsNewer(id, Last(ms).sequence_id)
    <3>1. ms # <<>>
      BY <2>3 DEF Kept
    <3> QED BY <1>3, <2>2, <3>1 DEF Accepts, IsQualified
  <2>5. 0 <= Last(ms).age
    <3>1. Last(ms) \in Messages
      BY <2>3 DEF Kept, Last
    <3> QED BY <3>1, ForeignMasterAssumption DEF Messages
  <2>6. Kept(Push(ms, x), 0)
    BY <1>1, <2>3, <2>4, <2>5, PushKept
  <2>7. new = WithMessages(list, i, Push(ms, x))
    <3>1. Purge(ms) = ms
      BY <2>3, PurgeNothing
    <3>2. new = [list EXCEPT ![i].announce_messages = Push(Purge(@), x)]
      BY <1>3, Zenon DEF Register
    <3> QED BY <2>2, <3>1, <3>2 DEF WithMessages, Replaced
  <2> HIDE DEF new, i, x
  <2>8. PICK after2 : after2 = after
    OBVIOUS
  <2>9. after2[m] = 0 /\ \A p \in Masters : p # m => after2[p] = quiet[p]
    BY <2>8
  <2>10. Push(ms, x) \in Seq(Messages)
    BY <2>6 DEF Kept
  <2>11. /\ new \in Seq(ForeignMasters) /\ Len(new) = Len(list)
         /\ \A j \in 1..Len(list) :
               /\ new[j].source = list[j].source
               /\ new[j].announce_messages =
                     IF j = i THEN Push(ms, x) ELSE list[j].announce_messages
    BY <2>1, <2>7, <2>10, EntryReplaced
  <2>12. ASSUME NEW j \in 1..Len(list)
         PROVE  Kept(new[j].announce_messages, after2[new[j].source])
    <3>1. CASE j = i
      BY <2>1, <2>6, <2>9, <2>11, <3>1
    <3>2. CASE j # i
      <4>1. list[j].source # m /\ list[j].source \in Masters
        BY <1>1, <2>1, <3>2, ListElements DEF ListInv
      <4>2. Kept(list[j].announce_messages, quiet[list[j].source])
        BY DEF ListInv
      <4> QED BY <2>9, <2>11, <3>2, <4>1, <4>2
    <3> QED BY <3>1, <3>2
  <2>13. ListInv(new, after2)
    BY <2>11, <2>12 DEF ListInv
  <2> QED BY <1>3, <2>8, <2>13 DEF new
<1>4. CASE Accepts(list, m, id) /\ i = 0
  <2>1. /\ \A j \in 1..Len(list) : list[j].source # m
        /\ Len(list) < MaxForeignMasters /\ m \notin OwnClock \union Distant
    BY <1>1, <1>4, IndexOfFinds DEF Accepts, IsQualified
  <2>2. PICK e : e = [source |-> m, announce_messages |-> <<x>>]
    OBVIOUS
  <2>3. new = Append(list, e)
    BY <1>4, <2>2, Zenon DEF Register
  <2> HIDE DEF x, new
  <2>4. PICK ms : ms = <<x>>
    OBVIOUS
  <2>5. ms \in Seq(Messages) /\ Len(ms) = 1 /\ ms[1] = x
    BY <1>1, <2>4
  <2>6. Kept(ms, 0)
    <3>1. Len(ms) \in 1..MaxMessages
      BY <2>5, ForeignMasterAssumption
    <3>2. Descending(ms) /\ Consecutive(ms) /\ NoYounger(ms, 0)
      BY <1>1, <2>5 DEF Descending, Consecutive, NoYounger
    <3> QED BY <2>5, <3>1, <3>2 DEF Kept
  <2>7. e \in ForeignMasters /\ e.source = m /\ e.announce_messages = ms
    BY <2>1, <2>2, <2>4, <2>5 DEF ForeignMasters
  <2>8. PICK n : n = Len(list)
    OBVIOUS
  <2>9. /\ new \in Seq(ForeignMasters) /\ Len(new) = n + 1 /\ new[n + 1] = e
        /\ n \in Nat /\ \A j \in 1..n : new[j] = list[j]
    BY <1>1, <2>3, <2>7, <2>8
  <2>10. PICK after2 : after2 = after
    OBVIOUS
  <2>11. after2[m] = 0 /\ \A p \in Masters : p # m => after2[p] = quiet[p]
    BY <2>10
  <2>12. ASSUME NEW j \in 1..(n + 1)
         PROVE  Kept(new[j].announce_messages, after2[new[j].source])
    <3>1. CASE j = n + 1
      BY <2>6, <2>7, <2>9, <2>11, <3>1
    <3>2. CASE j # n + 1
      <4>1. j \in 1..n /\ new[j] = list[j]
        BY <2>9, <3>2
      <4>2. list[j].source # m /\ list[j].source \in Masters
        BY <1>1, <2>1, <2>8, <4>1, ListElements
      <4>3. Kept(list[j].announce_messages, quiet[list[j].source])
        BY <2>8, <4>1 DEF ListInv
      <4> QED BY <2>11, <4>1, <4>2, <4>3
    <3> QED BY <3>1, <3>2
  <2>13. ASSUME NEW j \in 1..(n + 1), NEW k \in 1..(n + 1), new[j].source = new[k].source
         PROVE  j = k
    <3>1. \A l \in 1..(n + 1) : l = n + 1 \/ l \in 1..n
      BY <2>9
    <3>2. \A l \in 1..n : new[l].source # m
      BY <2>1, <2>8, <2>9
    <3>3. new[n + 1].source = m
      BY <2>7, <2>9
    <3>4. \A k1, k2 \in 1..n : new[k1].source = new[k2].source => k1 = k2
      BY <2>8, <2>9 DEF ListInv
    <3> QED BY <2>13, <3>1, <3>2, <3>3, <3>4
  <2>14. Len(new) <= MaxForeignMasters
    BY <2>1, <2>8, <2>9, ForeignMasterAssumption
  <2>15. ListInv(new, after2)
    BY <2>9, <2>12, <2>13, <2>14 DEF ListInv
  <2> QED BY <1>4, <2>10, <2>15 DEF new
<1> QED BY <1>2, <1>3, <1>4

(* A list with the masters of another one, in the same places *)
LEMMA SameSources ==
    ASSUME NEW list, NEW quiet, ListInv(list, quiet),
           NEW new \in Seq(ForeignMasters), Len(new) = Len(list),
           \A j \in 1..Len(list) :
               /\ new[j].source = list[j].source
               /\ Kept(new[j].announce_messages, quiet[list[j].source])
    PROVE  ListInv(new, quiet)
<1>1. \A j \in 1..Len(new) : Kept(new[j].announce_messages, quiet[new[j].source])
  OBVIOUS
<1>2. \A j, k \in 1..Len(new) : new[j].source = new[k].source => j = k
  BY DEF ListInv
<1>3. Len(new) <= MaxForeignMasters
  BY DEF ListInv
<1> QED BY <1>1, <1>2, <1>3 DEF ListInv

(* take_qualified_announce_messages leaves every master a message, as the  *)
(* threshold is at least two.                                              *)
LEMMA TakeInv ==
    ASSUME NEW list, NEW quiet, ListInv(list, quiet)
    PROVE  /\ ListInv(Take(list), quiet) /\ Len(Take(list)) = Len(list)
           /\ \A j \in 1..Len(list) :
                 /\ Take(list)[j].source = list[j].source
                 /\ Take(list)[j].announce_messages =
                       IF Len(list[j].announce_messages) >= Threshold
                       THEN Front(list[j].announce_messages) ELSE list[j].announce_messages
<1>1. PICK n : n = Len(list)
  OBVIOUS
<1>2. list \in Seq(ForeignMasters) /\ n \in Nat /\ DOMAIN list = 1..n
  BY <1>1 DEF ListInv
<1>3. PICK t : t = Take(list)
  OBVIOUS
<1>4. ASSUME NEW j \in 1..n
      PROVE  /\ t[j] \in ForeignMasters /\ t[j].source = list[j].source
             /\ t[j].announce_messages =
                   IF Len(list[j].announce_messages) >= Threshold
                   THEN Front(list[j].announce_messages) ELSE list[j].announce_messages
             /\ Kept(t[j].announce_messages, quiet[list[j].source])
  <2>1. list[j] \in ForeignMasters /\ Kept(list[j].announce_messages, quiet[list[j].source])
    BY <1>1, <1>2 DEF ListInv
  <2>2. t[j] = IF j \in QualifiedMasters(list)
               THEN [list[j] EXCEPT !.announce_messages = Front(@)] ELSE list[j]
    BY <1>2, <1>3, Zenon DEF Take
  <2>3. j \in QualifiedMasters(list) <=> Len(list[j].announce_messages) >= Threshold
    BY <1>2, Zenon DEF QualifiedMasters
  <2>4. CASE Len(list[j].announce_messages) >= Threshold
    <3>1. PICK ms : ms = Front(list[j].announce_messages)
      OBVIOUS
    <3>2. Len(list[j].announce_messages) >= 2
      <4>1. Len(list[j].announce_messages) \in Nat
        BY <2>1 DEF Kept
      <4> QED BY <2>4, <4>1, ForeignMasterAssumption
    <3>3. Kept(ms, quiet[list[j].source])
      BY <2>1, <3>1, <3>2, FrontKept
    <3>4. t[j] = [list[j] EXCEPT !.announce_messages = ms]
      BY <2>2, <2>3, <2>4, <3>1
    <3>5. t[j] \in ForeignMasters /\ t[j].source = list[j].source /\ t[j].announce_messages = ms
      BY <2>1, <3>3, <3>4 DEF ForeignMasters, Kept
    <3> QED BY <2>4, <3>1, <3>3, <3>5
  <2>5. CASE ~(Len(list[j].announce_messages) >= Threshold)
    BY <2>1, <2>2, <2>3, <2>5, Zenon
  <2> QED BY <2>4, <2>5, Zenon
<1>5. t \in Seq(ForeignMasters) /\ Len(t) = n
  <2>1. t = [j \in 1..n |-> t[j]]
    BY <1>2, <1>3, Zenon DEF Take
  <2>2. t \in [1..n -> ForeignMasters]
    BY <1>4, <2>1
  <2>3. t \in Seq(ForeignMasters)
    BY <1>2, <2>2, SeqDef
  <2>4. DOMAIN t = 1..n /\ Len(t) \in Nat /\ DOMAIN t = 1..Len(t)
    BY <2>2, <2>3, LenProperties
  <2> QED BY <1>2, <2>3, <2>4
<1>6. ListInv(t, quiet)
  BY <1>1, <1>4, <1>5, SameSources
<1> QED BY <1>1, <1>3, <1>4, <1>5, <1>6, Zenon

(* The erbest is the newest message of a qualified master. *)
LEMMA BestIsNewest ==
    ASSUME NEW list \in Seq(ForeignMasters), BestOf(list) # None
    PROVE  \E i \in 1..Len(list) :
              /\ Len(list[i].announce_messages) >= Threshold
              /\ BestOf(list) = [source |-> list[i].source,
                                 message |-> Last(list[i].announce_messages)]
<1> DEFINE Q == QualifiedMasters(list)
           i == CHOOSE k \in Q : \A j \in Q : Rank[list[k].source] <= Rank[list[j].source]
           T == {Rank[list[k].source] : k \in Q}
<1>1. DOMAIN list = 1..Len(list)
  OBVIOUS
<1>2. \A k \in Q : k \in 1..Len(list) /\ Len(list[k].announce_messages) >= Threshold
  BY <1>1 DEF QualifiedMasters
<1>3. BestOf(list) = IF Q = {} THEN None
                     ELSE [source |-> list[i].source,
                           message |-> Last(list[i].announce_messages)]
  BY Zenon DEF BestOf
<1>4. Q # {}
  BY <1>3
<1>5. \A k \in Q : Rank[list[k].source] \in Nat
  <2>1. \A k \in Q : list[k].source \in Masters
    BY <1>2, ListElements
  <2> QED BY <2>1, ForeignMasterAssumption
<1> HIDE DEF Q
<1>6. T \subseteq Nat /\ T # {}
  BY <1>4, <1>5
<1>7. \E n \in T : \A m \in T : n <= m
  <2> HIDE DEF T
  <2> QED BY <1>6, LeastElement
<1>8. \E k \in Q : \A j \in Q : Rank[list[k].source] <= Rank[list[j].source]
  BY <1>7, Zenon
<1>9. i \in Q
  BY <1>8, Zenon
<1> HIDE DEF i
<1> QED BY <1>2, <1>3, <1>4, <1>9, Zenon

(* A record of a message is its two fields. *)
LEMMA MessageFields ==
    ASSUME NEW x \in Messages
    PROVE  [sequence_id |-> x.sequence_id, age |-> x.age] = x
BY DEF Messages

(* reregister_announce_message accepts the erbest, and its master has all  *)
(* its messages again.                                                     *)
LEMMA ReregisterInv ==
    ASSUME NEW list, NEW quiet, ListInv(list, quiet), NEW erbest, erbest = BestOf(list)
    PROVE  LET new == Reregister(Take(list), erbest) IN
           /\ ListInv(new, quiet)
           /\ erbest # None =>
                 \E i \in 1..Len(new) :
                    /\ new[i].source = erbest.source
                    /\ Last(new[i].announce_messages) = erbest.message
                    /\ erbest.message \in Messages
<1>1. PICK t : t = Take(list)
  OBVIOUS
<1>2. list \in Seq(ForeignMasters) /\ ListInv(t, quiet) /\ Len(t) = Len(list)
  BY <1>1, TakeInv DEF ListInv
<1>3. CASE erbest = None
  BY <1>1, <1>2, <1>3 DEF Reregister
<1>4. CASE erbest # None
  <2>1. PICK i \in 1..Len(list) :
            /\ Len(list[i].announce_messages) >= Threshold
            /\ erbest = [source |-> list[i].source,
                         message |-> Last(list[i].announce_messages)]
    BY <1>2, <1>4, BestIsNewest
  <2>2. PICK ms : ms = list[i].announce_messages
    OBVIOUS
  <2>3. PICK m : m = list[i].source
    OBVIOUS
  <2>4. erbest.source = m /\ erbest.message = Last(ms)
    BY <2>1, <2>2, <2>3
  <2>5. Kept(ms, quiet[m]) /\ Len(ms) >= 2
    <3>1. Kept(ms, quiet[m])
      BY <2>2, <2>3 DEF ListInv
    <3>2. Len(ms) \in Nat
      BY <3>1 DEF Kept
    <3> QED BY <2>1, <2>2, <3>1, <3>2, ForeignMasterAssumption
  <2>6. /\ Kept(Front(ms), quiet[m]) /\ Push(Front(ms), Last(ms)) = ms
        /\ IsNewer(Last(ms).sequence_id, Last(Front(ms)).sequence_id)
        /\ Last(ms) \in Messages
    BY <2>5, FrontKept
  <2>7. /\ i \in 1..Len(t) /\ t[i].source = m /\ t[i].announce_messages = Front(ms)
        /\ t \in Seq(ForeignMasters)
    <3>1. t[i].source = list[i].source /\ t[i].announce_messages = Front(ms)
      BY <1>1, <2>1, <2>2, TakeInv
    <3> QED BY <1>2, <2>3, <3>1 DEF ListInv
  <2>8. IndexOf(t, m) = i
    <3>1. \A k, l \in 1..Len(t) : t[k].source = t[l].source => k = l
      BY <1>2 DEF ListInv
    <3>2. IndexOf(t, t[i].source) = i
      BY <2>7, <3>1, IndexOfEntry
    <3> QED BY <2>7, <3>2
  <2>9. i # 0 /\ Front(ms) # <<>>
    BY <2>6 DEF Kept
  <2>10. m \notin OwnClock /\ m \notin Distant
    BY <2>7, ListElements
  <2>11. Accepts(t, m, Last(ms).sequence_id)
    BY <2>6, <2>7, <2>8, <2>9, <2>10, Zenon DEF Accepts, IsQualified
  <2>12. PICK new : new = Reregister(t, erbest)
    OBVIOUS
  <2>13. new = Register(t, m, Last(ms).sequence_id, Last(ms).age)
    BY <1>4, <2>4, <2>12, Zenon DEF Reregister
  <2>14. new = WithMessages(t, i, ms)
    <3>1. [sequence_id |-> Last(ms).sequence_id, age |-> Last(ms).age] = Last(ms)
      BY <2>6, MessageFields
    <3>2. new = [t EXCEPT ![i].announce_messages =
                    Push(Purge(@), [sequence_id |-> Last(ms).sequence_id, age |-> Last(ms).age])]
      BY <2>8, <2>9, <2>11, <2>13, Zenon DEF Register
    <3>3. Purge(Front(ms)) = Front(ms)
      BY <2>6, PurgeNothing DEF Kept
    <3>4. Push(Purge(t[i].announce_messages), Last(ms)) = ms
      BY <2>6, <2>7, <3>3
    <3> QED BY <3>1, <3>2, <3>4, Zenon DEF WithMessages, Replaced
  <2>15. /\ new \in Seq(ForeignMasters) /\ Len(new) = Len(t)
         /\ \A j \in 1..Len(t) :
               /\ new[j].source = t[j].source
               /\ new[j].announce_messages = IF j = i THEN ms ELSE t[j].announce_messages
    <3>1. ms \in Seq(Messages)
      BY <2>5 DEF Kept
    <3>2. ListInv(t, quiet) /\ i \in 1..Len(t)
      BY <1>2, <2>7
    <3> QED BY ONLY <2>14, <3>1, <3>2, EntryReplaced
  <2>16. ListInv(new, quiet)
    <3>1. \A j \in 1..Len(t) : Kept(t[j].announce_messages, quiet[t[j].source])
      BY <1>2 DEF ListInv
    <3>2. \A j \in 1..Len(t) : /\ new[j].source = t[j].source
                               /\ Kept(new[j].announce_messages, quiet[t[j].source])
      BY <2>5, <2>7, <2>15, <3>1
    <3> QED BY <1>2, <2>15, <3>2, SameSources
  <2>17. /\ i \in 1..Len(new) /\ new[i].source = erbest.source
         /\ Last(new[i].announce_messages) = erbest.message /\ erbest.message \in Messages
    BY <2>4, <2>6, <2>7, <2>15
  <2> QED BY <1>1, <2>12, <2>16, <2>17
<1> QED BY <1>3, <1>4

(* The ages of all messages after a run of bmca() *)
LEMMA StepAgeInv ==
    ASSUME NEW list, NEW quiet \in [Masters -> 0..CutoffAge], ListInv(list, quiet),
           NEW later,
           \A m \in Masters : later[m] = IF quiet[m] < CutoffAge THEN quiet[m] + 1
                                                                 ELSE CutoffAge
    PROVE  LET new == StepAge(list) IN
           /\ ListInv(new, later)
           /\ \A i \in 1..Len(list) :
                 Last(list[i].announce_messages).age + 1 < CutoffAge =>
                    \E k \in 1..Len(new) :
                       /\ new[k].source = list[i].source
                       /\ Last(new[k].announce_messages) =
                             [Last(list[i].announce_messages) EXCEPT !.age = @ + 1]
<1> DEFINE aged == [i \in DOMAIN list |->
                       [list[i] EXCEPT !.announce_messages = StepMessages(@)]]
           keep == {i \in DOMAIN aged : aged[i].announce_messages # <<>>}
<1>1. PICK n : n = Len(list)
  OBVIOUS
<1>2. /\ list \in Seq(ForeignMasters) /\ n \in Nat /\ DOMAIN list = 1..n
      /\ n <= MaxForeignMasters
  BY <1>1 DEF ListInv
<1>3. StepAge(list) = Retain(aged, keep)
  BY Zenon DEF StepAge
<1>4. ASSUME NEW i \in 1..n
      PROVE  /\ aged[i] \in ForeignMasters /\ aged[i].source = list[i].source
             /\ aged[i].announce_messages = StepMessages(list[i].announce_messages)
  <2>1. list[i] \in ForeignMasters /\ Kept(list[i].announce_messages, quiet[list[i].source])
    BY <1>1, <1>2 DEF ListInv
  <2>2. PICK ms : ms = StepMessages(list[i].announce_messages)
    OBVIOUS
  <2>3. quiet[list[i].source] \in Nat
    <3>1. list[i].source \in Masters
      BY <1>1, <1>2, ListElements
    <3> QED BY <3>1, ForeignMasterAssumption
  <2>4. ms \in Seq(Messages)
    BY <2>1, <2>2, <2>3, StepMessagesKept
  <2>5. aged[i] = [list[i] EXCEPT !.announce_messages = ms]
    BY <1>2, <2>2, Zenon
  <2> HIDE DEF aged
  <2> QED BY <2>1, <2>2, <2>4, <2>5 DEF ForeignMasters
<1>5. aged \in Seq(ForeignMasters) /\ Len(aged) = n /\ DOMAIN aged = 1..n
  <2>1. aged = [j \in 1..n |-> aged[j]]
    BY <1>2, Zenon
  <2> HIDE DEF aged
  <2>2. aged \in [1..n -> ForeignMasters]
    BY <1>4, <2>1
  <2>3. aged \in Seq(ForeignMasters)
    BY <1>2, <2>2, SeqDef
  <2>4. DOMAIN aged = 1..n /\ Len(aged) \in Nat /\ DOMAIN aged = 1..Len(aged)
    BY <2>2, <2>3, LenProperties
  <2> QED BY <1>2, <2>3, <2>4
<1>6. \A i \in 1..n : i \in keep <=> aged[i].announce_messages # <<>>
  BY <1>5
<1> HIDE DEF aged, keep
<1>7. PICK new : new = StepAge(list)
  OBVIOUS
<1>8. new \in Seq(ForeignMasters) /\ Len(new) <= n
  BY <1>3, <1>5, <1>7, RetainSelects
<1>9. PICK h : Selects(h, new, aged, keep, n)
  BY <1>3, <1>5, <1>7, RetainSelects
<1>10. \A k \in 1..Len(new) : /\ h[k] \in 1..n /\ new[k] = aged[h[k]]
                              /\ new[k].announce_messages # <<>>
  BY <1>6, <1>9 DEF Selects
<1>11. ASSUME NEW k \in 1..Len(new)
       PROVE  Kept(new[k].announce_messages, later[new[k].source])
  <2>1. PICK i \in 1..n : i = h[k] /\ new[k] = aged[i]
    BY <1>10
  <2>2. PICK ms : ms = list[i].announce_messages
    OBVIOUS
  <2>3. PICK m : m = list[i].source
    OBVIOUS
  <2>4. Kept(ms, quiet[m])
    BY <1>1, <2>2, <2>3 DEF ListInv
  <2>5. m \in Masters /\ quiet[m] \in Nat
    BY <1>1, <1>2, <2>3, ListElements, ForeignMasterAssumption
  <2>6. quiet[m] < CutoffAge
    <3>1. 1 \in 1..Len(ms) /\ ms[1] \in Messages /\ ms[1].age >= quiet[m]
      BY <2>4 DEF Kept, NoYounger
    <3>2. ms[1].age \in 0..(CutoffAge - 1)
      BY <3>1 DEF Messages
    <3> QED BY <2>5, <3>1, <3>2, ForeignMasterAssumption
  <2>7. later[m] = quiet[m] + 1
    BY <2>5, <2>6
  <2>8. new[k].source = m /\ new[k].announce_messages = StepMessages(ms)
    BY <1>4, <2>1, <2>2, <2>3
  <2>9. StepMessages(ms) # <<>>
    BY <1>10, <2>8
  <2>10. Kept(StepMessages(ms), quiet[m] + 1)
    BY <2>4, <2>5, <2>9, StepMessagesKept
  <2> QED BY <2>7, <2>8, <2>10
<1>12. ASSUME NEW k \in 1..Len(new), NEW l \in 1..Len(new), new[k].source = new[l].source
       PROVE  k = l
  <2>1. h[k] \in 1..n /\ h[l] \in 1..n
    BY <1>10
  <2>2. list[h[k]].source = list[h[l]].source
    BY <1>4, <1>10, <1>12, <2>1
  <2>3. h[k] = h[l]
    BY <1>1, <2>1, <2>2 DEF ListInv
  <2>4. (k < l => h[k] < h[l]) /\ (l < k => h[l] < h[k])
    BY <1>9 DEF Selects
  <2>5. k \in Int /\ l \in Int /\ h[k] \in Int
    BY <2>1
  <2> QED BY <2>3, <2>4, <2>5
<1>13. ListInv(new, later)
  <2>1. Len(new) <= MaxForeignMasters
    BY <1>2, <1>8, ForeignMasterAssumption
  <2> QED BY <1>8, <1>11, <1>12, <2>1 DEF ListInv
<1>14. ASSUME NEW i \in 1..n, Last(list[i].announce_messages).age + 1 < CutoffAge
       PROVE  \E k \in 1..Len(new) :
                 /\ new[k].source = list[i].source
                 /\ Last(new[k].announce_messages) =
                       [Last(list[i].announce_messages) EXCEPT !.age = @ + 1]
  <2>1. PICK ms : ms = list[i].announce_messages
    OBVIOUS
  <2>2. Kept(ms, quiet[list[i].source]) /\ quiet[list[i].source] \in Nat
    <3>1. list[i].source \in Masters
      BY <1>1, <1>2, ListElements
    <3> QED BY <1>1, <2>1, <3>1, ForeignMasterAssumption DEF ListInv
  <2>3. /\ StepMessages(ms) # <<>>
        /\ Last(StepMessages(ms)) = [Last(ms) EXCEPT !.age = @ + 1]
    BY <1>14, <2>1, <2>2, StepMessagesKept
  <2>4. i \in keep
    BY <1>4, <1>6, <2>1, <2>3
  <2>5. PICK k \in 1..Len(new) : h[k] = i
    BY <1>9, <2>4 DEF Selects
  <2>6. new[k].source = list[i].source /\ new[k].announce_messages = StepMessages(ms)
    BY <1>4, <1>10, <2>1, <2>5
  <2> QED BY <2>1, <2>3, <2>6
<1> QED BY <1>1, <1>7, <1>13, <1>14

-----------------------------------------------------------------------------
(* The steps of the specification *)

(* What every reachable state satisfies: TypeOK, and for every master in   *)
(* the list that its messages are in order by age and by sequence id and   *)
(* none is younger than the silence of that master.                        *)
ForeignInv == TypeOK /\ ListInv(foreign_masters, silence)

(* ListInv gives the parts of TypeOK that are about the list. *)
LEMMA ListIsTyped ==
    ASSUME NEW list, NEW quiet, ListInv(list, quiet)
    PROVE  /\ list \in Seq(ForeignMasters)
           /\ Len(list) <= MaxForeignMasters
           /\ \A i \in DOMAIN list :
                 /\ Len(list[i].announce_messages) \in 1..MaxMessages
                 /\ \A j \in DOMAIN list : list[i].source = list[j].source => i = j
<1>1. list \in Seq(ForeignMasters) /\ Len(list) <= MaxForeignMasters
  BY DEF ListInv
<1>2. DOMAIN list = 1..Len(list)
  BY <1>1
<1>3. \A i \in 1..Len(list) : Len(list[i].announce_messages) \in 1..MaxMessages
  BY DEF ListInv, Kept
<1>4. \A i, j \in 1..Len(list) : list[i].source = list[j].source => i = j
  BY DEF ListInv
<1> QED BY <1>1, <1>2, <1>3, <1>4

(* The empty list satisfies the invariant. *)
LEMMA ForeignInit ==
    Init => ForeignInv
<1> SUFFICES ASSUME Init PROVE ForeignInv
  OBVIOUS
<1>1. foreign_masters = <<>> /\ ListInv(<<>>, silence)
  BY ForeignMasterAssumption DEF Init, ListInv
<1>2. silence \in [Masters -> 0..CutoffAge] /\ next_id \in [Masters -> 0..(SequenceIds - 1)]
  BY ForeignMasterAssumption DEF Init
<1>3. network = {}
  BY DEF Init
<1>4. ListInv(foreign_masters, silence)
  BY <1>1
<1> QED BY <1>2, <1>3, <1>4, ListIsTyped DEF ForeignInv, TypeOK

(* What a run of bmca() does to the list, in one *)
LEMMA BmcaList ==
    ASSUME ForeignInv, Bmca
    PROVE  /\ ListInv(foreign_masters', silence')
           /\ silence' \in [Masters -> 0..CutoffAge]
           /\ BestOf(foreign_masters) # None =>
                 (BestOf(foreign_masters).message.age + 1 < CutoffAge =>
                    \E k \in 1..Len(foreign_masters') :
                       /\ foreign_masters'[k].source = BestOf(foreign_masters).source
                       /\ Last(foreign_masters'[k].announce_messages) =
                             [BestOf(foreign_masters).message EXCEPT !.age = @ + 1])
<1>1. PICK erbest : erbest = BestOf(foreign_masters)
  OBVIOUS
<1>2. PICK list : list = Reregister(Take(foreign_masters), erbest)
  OBVIOUS
<1>3. /\ ListInv(foreign_masters, silence) /\ silence \in [Masters -> 0..CutoffAge]
      /\ foreign_masters' = StepAge(list)
  BY <1>1, <1>2, Zenon DEF ForeignInv, TypeOK, Bmca
<1>4. /\ ListInv(list, silence)
      /\ erbest # None =>
            \E i \in 1..Len(list) : /\ list[i].source = erbest.source
                                    /\ Last(list[i].announce_messages) = erbest.message
                                    /\ erbest.message \in Messages
  BY <1>1, <1>2, <1>3, ReregisterInv
<1>5. \A m \in Masters : silence'[m] = IF silence[m] < CutoffAge THEN silence[m] + 1
                                                                 ELSE CutoffAge
  BY Zenon DEF Bmca
<1>6. silence' \in [Masters -> 0..CutoffAge]
  <2>1. \A m \in Masters : silence[m] \in 0..CutoffAge
    BY <1>3
  <2>2. \A m \in Masters : silence'[m] \in 0..CutoffAge
    BY <1>5, <2>1, ForeignMasterAssumption
  <2>3. silence' = [m \in Masters |-> silence'[m]]
    BY Zenon DEF Bmca
  <2> QED BY <2>2, <2>3
<1>7. PICK new : new = foreign_masters'
  OBVIOUS
<1>8. PICK later : later = silence'
  OBVIOUS
<1>9. /\ ListInv(new, later)
      /\ \A i \in 1..Len(list) :
            Last(list[i].announce_messages).age + 1 < CutoffAge =>
               \E k \in 1..Len(new) :
                  /\ new[k].source = list[i].source
                  /\ Last(new[k].announce_messages) =
                        [Last(list[i].announce_messages) EXCEPT !.age = @ + 1]
  <2>1. /\ silence \in [Masters -> 0..CutoffAge] /\ ListInv(list, silence)
        /\ new = StepAge(list)
        /\ \A m \in Masters : later[m] = IF silence[m] < CutoffAge THEN silence[m] + 1
                                                                   ELSE CutoffAge
    BY <1>3, <1>4, <1>5, <1>7, <1>8
  <2>2. PICK quiet : quiet = silence
    OBVIOUS
  <2> QED BY ONLY <2>1, <2>2, StepAgeInv
<1>10. ASSUME erbest # None, erbest.message.age + 1 < CutoffAge
       PROVE  \E k \in 1..Len(new) :
                  /\ new[k].source = erbest.source
                  /\ Last(new[k].announce_messages) =
                        [erbest.message EXCEPT !.age = @ + 1]
  BY <1>4, <1>9, <1>10, Zenon
<1> QED BY <1>1, <1>6, <1>7, <1>8, <1>9, <1>10, Zenon

(* Every step of the port, the masters and the network keeps the invariant. *)
LEMMA ForeignNext ==
    ForeignInv /\ [Next]_vars => ForeignInv'
<1> SUFFICES ASSUME ForeignInv, [Next]_vars PROVE ForeignInv'
  OBVIOUS
<1>1. /\ ListInv(foreign_masters, silence)
      /\ network \subseteq [source : Masters, sequence_id : 0..(SequenceIds - 1)]
      /\ next_id \in [Masters -> 0..(SequenceIds - 1)]
      /\ silence \in [Masters -> 0..CutoffAge]
  BY DEF ForeignInv, TypeOK
<1> DEFINE After ==
        /\ ListInv(foreign_masters', silence')
        /\ network' \subseteq [source : Masters, sequence_id : 0..(SequenceIds - 1)]
        /\ next_id' \in [Masters -> 0..(SequenceIds - 1)]
        /\ silence' \in [Masters -> 0..CutoffAge]
<1>2. ASSUME NEW x \in network, HandleAnnounce(x) PROVE After
  <2>1. x.source \in Masters /\ x.sequence_id \in 0..(SequenceIds - 1)
    BY <1>1
  <2>2. PICK accepted \in BOOLEAN :
            accepted <=> Accepts(foreign_masters, x.source, x.sequence_id)
    OBVIOUS
  <2>3. /\ foreign_masters' = Register(foreign_masters, x.source, x.sequence_id, 0)
        /\ silence' = IF Accepts(foreign_masters, x.source, x.sequence_id)
                      THEN [silence EXCEPT ![x.source] = 0] ELSE silence
    BY <1>2, Zenon DEF HandleAnnounce
  <2>4. ListInv(foreign_masters', silence')
    <3>1. ListInv(Register(foreign_masters, x.source, x.sequence_id, 0),
                  IF Accepts(foreign_masters, x.source, x.sequence_id)
                  THEN [silence EXCEPT ![x.source] = 0] ELSE silence)
      BY <1>1, <2>1, RegisterInv, Zenon
    <3> QED BY <2>3, <3>1, Zenon
  <2>5. silence' \in [Masters -> 0..CutoffAge]
    <3>1. [silence EXCEPT ![x.source] = 0] \in [Masters -> 0..CutoffAge]
      BY <1>1, ForeignMasterAssumption
    <3> QED BY <1>1, <2>3, <3>1, Zenon
  <2>6. network' \subseteq network /\ next_id' = next_id
    BY <1>2 DEF HandleAnnounce
  <2> QED BY <1>1, <2>4, <2>5, <2>6
<1>3. ASSUME NEW x \in network, Lose(x) PROVE After
  BY <1>1, <1>3 DEF Lose
<1>4. ASSUME Bmca PROVE After
  <2>1. network' = network /\ next_id' = next_id
    BY <1>4 DEF Bmca
  <2> QED BY <1>1, <1>4, <2>1, BmcaList
<1>5. ASSUME NEW m \in Masters, Send(m) PROVE After
  <2>1. foreign_masters' = foreign_masters /\ silence' = silence
    BY <1>5 DEF Send
  <2>2. network' \subseteq [source : Masters, sequence_id : 0..(SequenceIds - 1)]
    <3>1. next_id[m] \in 0..(SequenceIds - 1)
      BY <1>1
    <3> QED BY <1>1, <1>5, <3>1 DEF Send
  <2>3. next_id' \in [Masters -> 0..(SequenceIds - 1)]
    <3>1. (next_id[m] + 1) % SequenceIds \in 0..(SequenceIds - 1)
      BY <1>1, ForeignMasterAssumption
    <3> QED BY <1>1, <1>5, <3>1 DEF Send
  <2> QED BY <1>1, <2>1, <2>2, <2>3
<1>6. ASSUME NEW m \in Masters, Restart(m) PROVE After
  <2>1. next_id' \in [Masters -> 0..(SequenceIds - 1)]
    BY <1>1, <1>6, ForeignMasterAssumption DEF Restart
  <2> QED BY <1>1, <1>6, <2>1 DEF Restart
<1>7. ASSUME UNCHANGED vars PROVE After
  <2>1. /\ foreign_masters' = foreign_masters /\ next_id' = next_id
        /\ network' = network /\ silence' = silence
    BY <1>7 DEF vars
  <2> QED BY <1>1, <2>1
<1>8. After
  <2> HIDE DEF After
  <2>1. CASE Next
    BY <1>2, <1>3, <1>4, <1>5, <1>6, <2>1, Zenon DEF Next
  <2> QED BY <1>7, <2>1
<1>9. ListInv(foreign_masters', silence')
  BY <1>8
<1>10. TypeOK'
  <2>1. PICK list : list = foreign_masters'
    OBVIOUS
  <2>2. /\ list \in Seq(ForeignMasters)
        /\ Len(list) <= MaxForeignMasters
        /\ \A i \in DOMAIN list :
              /\ Len(list[i].announce_messages) \in 1..MaxMessages
              /\ \A j \in DOMAIN list : list[i].source = list[j].source => i = j
    BY <1>9, <2>1, ListIsTyped
  <2> QED BY <1>8, <2>1, <2>2, Zenon DEF TypeOK
<1> QED BY <1>9, <1>10 DEF ForeignInv

(* The invariant of the foreign master list holds always. *)
LEMMA ForeignInvariant == Spec => []ForeignInv
BY ForeignInit, ForeignNext, PTL DEF Spec

(* The list keeps within its fixed capacities, holds a master once, never  *)
(* a master without messages, nor a message older than the window.         *)
THEOREM ForeignMasterTypeCorrect == Spec => []TypeOK
<1>1. ForeignInv => TypeOK
  BY DEF ForeignInv
<1> QED BY <1>1, ForeignInvariant, PTL

(* Messages that are registered, taken, put back and aged in any order are *)
(* kept from the oldest to the newest, for any number of masters, ids that *)
(* roll over anywhere and any messages lost, doubled or reordered.         *)
THEOREM NewestIsLast == Spec => []NewestLast
<1>1. ASSUME ForeignInv PROVE NewestLast
  <2>1. ListInv(foreign_masters, silence)
    BY <1>1 DEF ForeignInv
  <2>2. DOMAIN foreign_masters = 1..Len(foreign_masters)
    BY <2>1 DEF ListInv
  <2>3. ASSUME NEW i \in 1..Len(foreign_masters), NEW ms,
               ms = foreign_masters[i].announce_messages, NEW k \in 1..(Len(ms) - 1)
        PROVE  ms[k].age >= ms[k + 1].age
    <3>1. Descending(ms) /\ Len(ms) \in Nat
      BY <2>1, <2>3 DEF ListInv, Kept
    <3>2. k \in 1..Len(ms) /\ k + 1 \in 1..Len(ms) /\ k <= k + 1
      BY <3>1
    <3> QED BY <3>1, <3>2 DEF Descending
  <2> QED BY <2>2, <2>3, Zenon DEF NewestLast
<1> QED BY <1>1, ForeignInvariant, PTL

(* A master whose last accepted message is as old as the time window is    *)
(* out of the list, however often that message was the erbest and was put  *)
(* back by reregister_announce_message.                                    *)
THEOREM SilentMastersAreForgotten == Spec => []SilentIsForgotten
<1>1. ASSUME ForeignInv PROVE SilentIsForgotten
  <2>1. ListInv(foreign_masters, silence) /\ silence \in [Masters -> 0..CutoffAge]
    BY <1>1 DEF ForeignInv, TypeOK
  <2>2. foreign_masters \in Seq(ForeignMasters)
    BY <2>1 DEF ListInv
  <2>3. ASSUME NEW i \in 1..Len(foreign_masters)
        PROVE  silence[foreign_masters[i].source] < CutoffAge
    <3>1. PICK ms : ms = foreign_masters[i].announce_messages
      OBVIOUS
    <3>2. PICK m : m = foreign_masters[i].source
      OBVIOUS
    <3>3. Kept(ms, silence[m])
      BY <2>1, <3>1, <3>2 DEF ListInv
    <3>4. m \in Masters
      BY <2>2, <3>2, ListElements
    <3>5. 1 \in 1..Len(ms) /\ ms[1] \in Messages /\ ms[1].age >= silence[m]
      BY <3>3 DEF Kept, NoYounger
    <3>6. ms[1].age \in 0..(CutoffAge - 1) /\ silence[m] \in 0..CutoffAge
      BY <2>1, <3>4, <3>5 DEF Messages
    <3>7. silence[m] < CutoffAge
      BY <3>5, <3>6, ForeignMasterAssumption
    <3> QED BY <3>2, <3>7
  <2> QED BY <2>2, <2>3 DEF SilentIsForgotten
<1> QED BY <1>1, ForeignInvariant, PTL

(* The erbest of a run of bmca() is in the list after it, as the newest    *)
(* message of its master, unless it became too old in that run: the        *)
(* sequence id check never refuses it when it is put back.                 *)
THEOREM ErbestStays == Spec => ErbestIsKept
<1> DEFINE Keeps ==
        LET erbest == BestOf(foreign_masters) IN
        (/\ erbest # None /\ erbest.message.age + 1 < CutoffAge
         /\ silence'[erbest.source] > silence[erbest.source]) =>
            \E i \in DOMAIN foreign_masters' :
               /\ foreign_masters'[i].source = erbest.source
               /\ Last(foreign_masters'[i].announce_messages) =
                     [erbest.message EXCEPT !.age = @ + 1]
<1>1. ASSUME ForeignInv, [Next]_vars PROVE Keeps
  <2>1. PICK erbest : erbest = BestOf(foreign_masters)
    OBVIOUS
  <2>2. SUFFICES ASSUME erbest # None, erbest.message.age + 1 < CutoffAge,
                        silence'[erbest.source] > silence[erbest.source]
                 PROVE  \E i \in DOMAIN foreign_masters' :
                           /\ foreign_masters'[i].source = erbest.source
                           /\ Last(foreign_masters'[i].announce_messages) =
                                 [erbest.message EXCEPT !.age = @ + 1]
    BY <2>1, Zenon
  <2>3. silence \in [Masters -> 0..CutoffAge] /\ ListInv(foreign_masters, silence)
    BY <1>1 DEF ForeignInv, TypeOK
  <2>4. erbest.source \in Masters
    <3>1. foreign_masters \in Seq(ForeignMasters)
      BY <2>3 DEF ListInv
    <3>2. PICK i \in 1..Len(foreign_masters) :
             erbest = [source |-> foreign_masters[i].source,
                       message |-> Last(foreign_masters[i].announce_messages)]
      BY <2>1, <2>2, <3>1, BestIsNewest
    <3> QED BY <3>1, <3>2, ListElements
  <2>5. silence[erbest.source] \in 0..CutoffAge
    BY <2>3, <2>4
  <2>6. silence' # silence
    BY <2>2, <2>5, ForeignMasterAssumption
  <2>7. ~ \E x \in network : HandleAnnounce(x)
    <3>1. SUFFICES ASSUME NEW x \in network, HandleAnnounce(x) PROVE FALSE
      OBVIOUS
    <3>2. silence' = [silence EXCEPT ![x.source] = 0]
      BY <2>6, <3>1, Zenon DEF HandleAnnounce
    <3>3. silence'[erbest.source] = 0 \/ silence'[erbest.source] = silence[erbest.source]
      BY <2>3, <2>4, <3>2
    <3> QED BY <2>2, <2>5, <3>3, ForeignMasterAssumption
  <2>8. Bmca
    BY <1>1, <2>6, <2>7 DEF Next, vars, Lose, Send, Restart
  <2>9. PICK new : new = foreign_masters'
    OBVIOUS
  <2>10. /\ ListInv(new, silence')
         /\ \E k \in 1..Len(new) :
               /\ new[k].source = erbest.source
               /\ Last(new[k].announce_messages) = [erbest.message EXCEPT !.age = @ + 1]
    BY <1>1, <2>1, <2>2, <2>8, <2>9, BmcaList, Zenon
  <2>11. DOMAIN new = 1..Len(new)
    BY <2>10 DEF ListInv
  <2> QED BY <2>9, <2>10, <2>11, Zenon
<1>2. ForeignInv /\ [Next]_vars => [Keeps]_vars
  BY <1>1
<1>3. ErbestIsKept <=> [][Keeps]_vars
  BY DEF ErbestIsKept
<1> HIDE DEF Keeps
<1> QED BY <1>2, <1>3, ForeignInvariant, PTL DEF Spec
=============================================================================
