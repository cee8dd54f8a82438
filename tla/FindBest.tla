------------------------------ MODULE FindBest ------------------------------
(***************************************************************************)
(* Bmca::find_best_announce_message (statime/src/bmc/bmca.rs): the best of *)
(* a collection of announce messages, found by Iterator::max_by, one       *)
(* pairwise comparison after the other.  The same fold chooses the erbest  *)
(* of a port among its foreign masters and the ebest of the instance among *)
(* its ports.  The order in which the messages come is whatever order the  *)
(* foreign masters were first heard in, so the fold must not depend on it. *)
(***************************************************************************)
EXTENDS DatasetComparison, FiniteSets

CONSTANTS Candidates,   \* the messages with the age and the port they have
          MaxCandidates \* how many of them one call compares

NoMessage == [none |-> TRUE]

ASSUME CandidatesAssumption ==
    /\ NoMessage \notin Candidates
    /\ \A x \in Candidates :
          /\ x.message.grandmaster_identity \in Nat
          /\ x.message.grandmaster_attributes \in [1..5 -> Nat]
          /\ x.message.steps_removed \in Nat
          /\ x.message.source_port_identity \in PortIdentity
          /\ x.identity \in PortIdentity
          /\ x.age \in Nat
    /\ MaxCandidates \in Nat

(* No message was sent by the clock that received it: the foreign master   *)
(* list refuses those.                                                     *)
ASSUME NotOwnAssumption ==
    \A x \in Candidates :
        x.identity.clock_identity # x.message.source_port_identity.clock_identity

VARIABLES seen, \* the messages the iterator has produced
          best  \* the best of them so far, NoMessage before the first

foldVars == <<seen, best>>

FoldInit == seen = {} /\ best = NoMessage

(* One step of max_by: of two equal messages the later one is kept. *)
NextMessage(x) ==
    /\ Cardinality(seen) < MaxCandidates
    /\ seen' = seen \union {x}
    /\ best' = IF best # NoMessage /\ CompareBest(best, x) = 1 THEN best ELSE x

FoldNext == \E x \in Candidates \ seen : NextMessage(x)

FoldSpec == FoldInit /\ [][FoldNext]_foldVars

-----------------------------------------------------------------------------
(* What the pairwise comparisons amount to: one ranking of all messages,   *)
(* by the grandmaster's attributes and identity, then the steps removed,   *)
(* the sender, the receiving port and the age.                             *)
RankOf(x) == x.message.grandmaster_attributes \o
           <<x.message.grandmaster_identity,
             x.message.steps_removed,
             x.message.source_port_identity.clock_identity,
             x.identity.port_number,
             x.age>>

(* The messages that name one grandmaster agree on its attributes.         *)
(* Nothing in the code sees to that: while a grandmaster changes them, the *)
(* old ones and the new ones are heard side by side.                       *)
Agree(messages) ==
    \A x, y \in messages :
        x.message.grandmaster_identity = y.message.grandmaster_identity =>
            x.message.grandmaster_attributes = y.message.grandmaster_attributes

(* The fold ends with one of its messages, whatever they are; and while    *)
(* they agree on their grandmasters it is the best one in the sense of     *)
(* that one ranking: no message the fold has seen ranks before the one it  *)
(* keeps, in whatever order they came, although the code only ever         *)
(* compares neighbours with a comparison whose cases (same or different    *)
(* grandmaster, steps apart by none, one or more) do not form an order on  *)
(* the face of it.                                                         *)
BestIsBest ==
    /\ seen # {} => best \in seen
    /\ Agree(seen) => \A x \in seen : ~LexLess(RankOf(x), RankOf(best))
=============================================================================
