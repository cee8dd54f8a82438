------------------------- MODULE DatasetComparison -------------------------
(***************************************************************************)
(* The data set comparison algorithm of IEEE 1588 9.3.4 as implemented in  *)
(* statime/src/bmc/dataset_comparison.rs, and the order that               *)
(* statime/src/bmc/bmca.rs builds on it to choose between announce         *)
(* messages.                                                               *)
(*                                                                         *)
(* Clock identities are arrays of eight bytes in the code and are only     *)
(* compared; here they are natural numbers.  The five attributes of a      *)
(* grandmaster that are compared one after the other (priority_1, class,   *)
(* accuracy, variance, priority_2) are a sequence of natural numbers.      *)
(***************************************************************************)
EXTENDS Integers, Sequences

PortIdentity == [clock_identity : Nat, port_number : Nat]

(* s is before t in the lexicographic order of sequences of equal length. *)
LexLess(s, t) ==
    \E i \in 1..Len(s) : s[i] < t[i] /\ \A j \in 1..(i - 1) : s[j] = t[j]

(* ComparisonDataset::from_announce_message *)
FromAnnounceMessage(message, receiver) ==
    [gm_attributes        |-> message.grandmaster_attributes,
     gm_identity          |-> message.grandmaster_identity,
     steps_removed        |-> message.steps_removed,
     identity_of_senders  |-> message.source_port_identity.clock_identity,
     identity_of_receiver |-> receiver]

(* ComparisonDataset::from_own_data *)
FromOwnData(data) ==
    [gm_attributes        |-> data.attributes,
     gm_identity          |-> data.clock_identity,
     steps_removed        |-> 0,
     identity_of_senders  |-> data.clock_identity,
     identity_of_receiver |-> [clock_identity |-> data.clock_identity,
                               port_number    |-> 0]]

(* The grandmasters differ: their attributes decide, then their identity. *)
CompareDifferentIdentity(a, b) ==
    IF LexLess(Append(a.gm_attributes, a.gm_identity),
               Append(b.gm_attributes, b.gm_identity))
    THEN "Better" ELSE "Worse"

CompareSameIdentitySwapped(a, b) ==
    LET diff == a.steps_removed - b.steps_removed IN
    IF diff # 0 THEN IF diff > 0 THEN "Better" ELSE "Worse" ELSE "Error2"

(* The same grandmaster along two paths: the number of steps decides, then *)
(* the topology.                                                           *)
CompareSameIdentity(a, b) ==
    LET diff == a.steps_removed - b.steps_removed
        Closer(d, less, greater) ==
            CASE d.identity_of_receiver.clock_identity < d.identity_of_senders -> less
              [] d.identity_of_receiver.clock_identity = d.identity_of_senders -> "Error1"
              [] d.identity_of_receiver.clock_identity > d.identity_of_senders -> greater
        Topology(d) == <<d.identity_of_senders, d.identity_of_receiver.port_number>>
    IN  CASE diff >= 2  -> "Worse"
          [] diff <= -2 -> "Better"
          [] diff = 1   -> Closer(a, "Worse", "WorseByTopology")
          [] diff = -1  -> Closer(b, "Better", "BetterByTopology")
          [] diff = 0   -> CASE LexLess(Topology(a), Topology(b)) -> "BetterByTopology"
                             [] Topology(a) = Topology(b)         -> "Error2"
                             [] LexLess(Topology(b), Topology(a)) -> "WorseByTopology"

(* ComparisonDataset::compare *)
Compare(a, b) ==
    IF a.gm_identity = b.gm_identity
    THEN CompareSameIdentity(a, b) ELSE CompareDifferentIdentity(a, b)

(* DatasetOrdering::as_ordering, read as a number: 1 for Greater, 0 for    *)
(* Equal, -1 for Less.                                                     *)
AsOrdering(o) ==
    CASE o \in {"Better", "BetterByTopology"} -> 1
      [] o \in {"Error1", "Error2"}           -> 0
      [] o \in {"WorseByTopology", "Worse"}   -> -1

(* BestAnnounceMessage::compare: the data sets, then the younger message. *)
CompareBest(x, y) ==
    LET o == AsOrdering(Compare(FromAnnounceMessage(x.message, x.identity),
                                FromAnnounceMessage(y.message, y.identity)))
    IN  IF o # 0 THEN o
        ELSE CASE x.age < y.age -> 1
               [] x.age = y.age -> 0
               [] x.age > y.age -> -1
=============================================================================
