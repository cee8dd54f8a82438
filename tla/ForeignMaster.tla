--------------------------- MODULE ForeignMaster ---------------------------
(***************************************************************************)
(* The foreign master list of one port (statime/src/bmc/foreign_master.rs) *)
(* and its use by the best master clock algorithm (bmc/bmca.rs): announce  *)
(* messages are registered as they arrive, bmca() takes the newest message *)
(* of every qualified master, puts the best one back and lets time pass.   *)
(*                                                                         *)
(* The masters of the network send announce messages with consecutive      *)
(* sequence ids, may start again from 0 and may fall silent; the network   *)
(* loses, delays, reorders and duplicates messages.  Which master is the   *)
(* better one is settled by Rank (module FindBest: RankOf); the ages count *)
(* runs of bmca().                                                         *)
(***************************************************************************)
EXTENDS Integers, Sequences, SequencesExt

CONSTANTS
    Masters,            \* port identities of foreign masters
    Rank,               \* Rank[m]: the smaller, the better a master m is
    OwnClock,           \* those that have our own clock identity
    Distant,            \* those that are 255 steps or more removed
    MaxForeignMasters,  \* MAX_FOREIGN_MASTERS
    MaxMessages,        \* MAX_ANNOUNCE_MESSAGES
    Threshold,          \* FOREIGN_MASTER_THRESHOLD
    CutoffAge,          \* FOREIGN_MASTER_TIME_WINDOW announce intervals
    SequenceIds,        \* number of sequence ids (2^16)
    MaxInFlight,        \* bound: messages on the network at a time
    Duplication,        \* whether the network may deliver a message twice
    None

ASSUME ForeignMasterAssumption ==
    /\ Rank \in [Masters -> Nat]
    /\ \A m, n \in Masters : Rank[m] = Rank[n] => m = n
    /\ MaxForeignMasters \in Nat \ {0} /\ MaxMessages \in Nat /\ Threshold \in Nat
    /\ MaxMessages >= Threshold /\ Threshold > 1
    /\ CutoffAge \in Nat \ {0} /\ SequenceIds \in Nat /\ SequenceIds > 4
    /\ MaxInFlight \in Nat \ {0}
    /\ Duplication \in BOOLEAN

VARIABLES
    foreign_masters, \* sequence of [source, announce_messages]
    next_id,         \* the sequence id each master uses next
    network,         \* announce messages in flight
    silence          \* history: runs of bmca() since a message of a master was
                     \* accepted last, counted up to CutoffAge

vars == <<foreign_masters, next_id, network, silence>>

Init ==
    /\ foreign_masters = <<>>
    /\ next_id = [m \in Masters |-> 0]
    /\ network = {}
    /\ silence = [m \in Masters |-> CutoffAge]

-----------------------------------------------------------------------------
(* The list. *)

(* ArrayVec::retain: the elements at the indices in keep, in their order. *)
Retain(s, keep) ==
    LET kept[i \in 0..Len(s)] ==
            IF i = 0 THEN <<>>
            ELSE IF i \in keep THEN Append(kept[i - 1], s[i]) ELSE kept[i - 1]
    IN  kept[Len(s)]

(* purge_old_messages *)
Purge(messages) ==
    Retain(messages, {k \in DOMAIN messages : messages[k].age < CutoffAge})

IndexOf(list, m) == SelectInSeq(list, LAMBDA fm : fm.source = m)

(* The sequence id comparison, with the roll-over of u16. *)
IsNewer(id, last) == (id - last) % SequenceIds < (SequenceIds - 1) \div 2

(* is_announce_message_qualified *)
IsQualified(list, m, id) ==
    LET i == IndexOf(list, m) IN
    /\ m \notin OwnClock
    /\ i # 0 /\ list[i].announce_messages # <<>> =>
          IsNewer(id, Last(list[i].announce_messages).sequence_id)
    /\ m \notin Distant

PushAtFront(messages, x) ==
    IF Len(messages) < MaxMessages THEN <<x>> \o messages
                                   ELSE <<x>> \o Front(messages)

(* ForeignMaster::register_announce_message: the oldest makes room. *)
Push(messages, x) ==
    IF Len(messages) < MaxMessages THEN Append(messages, x)
                                   ELSE Append(Tail(messages), x)

(* The message is qualified and its sender known, or there is room for it. *)
Accepts(list, m, id) ==
    IsQualified(list, m, id) /\ (IndexOf(list, m) # 0 \/ Len(list) < MaxForeignMasters)

(* ForeignMasterList::register_announce_message; the first message of a    *)
(* master starts with age zero.                                            *)
Register(list, m, id, age) ==
    LET i == IndexOf(list, m)
        message == [sequence_id |-> id, age |-> IF i = 0 THEN 0 ELSE age]
    IN  CASE ~Accepts(list, m, id) -> list
          [] Accepts(list, m, id) /\ i # 0 ->
                [list EXCEPT ![i].announce_messages = Push(Purge(@), message)]
          [] Accepts(list, m, id) /\ i = 0 ->
                Append(list, [source |-> m, announce_messages |-> <<message>>])

StepMessagesSaturating(messages) ==
    Purge([k \in DOMAIN messages |->
        IF messages[k].age + 1 < CutoffAge THEN [messages[k] EXCEPT !.age = @ + 1]
                                           ELSE messages[k]])

(* ForeignMaster::step_age, by one run of bmca() *)
StepMessages(messages) ==
    Purge([k \in DOMAIN messages |-> [messages[k] EXCEPT !.age = @ + 1]])

StepAgeKeepsEmpty(list) ==
    [i \in DOMAIN list |->
        [list[i] EXCEPT !.announce_messages = StepMessages(@)]]

(* ForeignMasterList::step_age; masters without messages are removed. *)
StepAge(list) ==
    LET aged == [i \in DOMAIN list |->
                    [list[i] EXCEPT !.announce_messages = StepMessages(@)]]
    IN  Retain(aged, {i \in DOMAIN aged : aged[i].announce_messages # <<>>})

(* take_qualified_announce_messages *)
QualifiedMasters(list) ==
    {i \in DOMAIN list : Len(list[i].announce_messages) >= Threshold}

Take(list) ==
    [i \in DOMAIN list |->
        IF i \in QualifiedMasters(list)
        THEN [list[i] EXCEPT !.announce_messages = Front(@)] ELSE list[i]]

ReregisterNot(list, best) == list

(* reregister_announce_message: the erbest goes back, with the age it had. *)
Reregister(list, best) ==
    IF best = None THEN list
    ELSE Register(list, best.source, best.message.sequence_id, best.message.age)

(* take_best_port_announce_message *)
BestOf(list) ==
    LET qualified == QualifiedMasters(list) IN
    IF qualified = {} THEN None
    ELSE LET i == CHOOSE i \in qualified : \A j \in qualified :
                     Rank[list[i].source] <= Rank[list[j].source]
         IN  [source |-> list[i].source, message |-> Last(list[i].announce_messages)]

-----------------------------------------------------------------------------
(* The port's side. *)

(* Bmca::register_announce_message, for a message that arrives. *)
HandleAnnounce(x) ==
    /\ x \in network
    /\ foreign_masters' = Register(foreign_masters, x.source, x.sequence_id, 0)
    /\ \/ network' = network \ {x}
       \/ Duplication /\ network' = network
    /\ silence' = IF Accepts(foreign_masters, x.source, x.sequence_id)
                  THEN [silence EXCEPT ![x.source] = 0] ELSE silence
    /\ UNCHANGED next_id

(* What bmca() does to the list: take the erbest, and step the ages. *)
Bmca ==
    LET best == BestOf(foreign_masters) IN
    /\ foreign_masters' = StepAge(Reregister(Take(foreign_masters), best))
    /\ silence' = [m \in Masters |-> IF silence[m] < CutoffAge THEN silence[m] + 1
                                                               ELSE CutoffAge]
    /\ UNCHANGED <<next_id, network>>

(* The other side: masters and network. *)

Send(m) ==
    /\ Cardinality(network) < MaxInFlight
    /\ network' = network \union {[source |-> m, sequence_id |-> next_id[m]]}
    /\ next_id' = [next_id EXCEPT ![m] = (@ + 1) % SequenceIds]
    /\ UNCHANGED <<foreign_masters, silence>>

Restart(m) ==
    /\ next_id[m] # 0
    /\ next_id' = [next_id EXCEPT ![m] = 0]
    /\ UNCHANGED <<foreign_masters, network, silence>>

Lose(x) ==
    /\ x \in network
    /\ network' = network \ {x}
    /\ UNCHANGED <<foreign_masters, next_id, silence>>

Next ==
    \/ \E x \in network : HandleAnnounce(x) \/ Lose(x)
    \/ Bmca
    \/ \E m \in Masters : Send(m) \/ Restart(m)

Spec == Init /\ [][Next]_vars

-----------------------------------------------------------------------------
Messages == [sequence_id : 0..(SequenceIds - 1), age : 0..(CutoffAge - 1)]

ForeignMasters ==
    [source : Masters \ (OwnClock \union Distant), announce_messages : Seq(Messages)]

(* The list keeps within its fixed capacities, holds a master once, never  *)
(* a master without messages, nor a message older than the window.         *)
TypeOK ==
    /\ foreign_masters \in Seq(ForeignMasters)
    /\ Len(foreign_masters) <= MaxForeignMasters
    /\ \A i \in DOMAIN foreign_masters :
          /\ Len(foreign_masters[i].announce_messages) \in 1..MaxMessages
          /\ \A j \in DOMAIN foreign_masters :
                foreign_masters[i].source = foreign_masters[j].source => i = j
    /\ network \subseteq [source : Masters, sequence_id : 0..(SequenceIds - 1)]
    /\ next_id \in [Masters -> 0..(SequenceIds - 1)]
    /\ silence \in [Masters -> 0..CutoffAge]

(* The messages of a master are kept from the oldest to the newest: the    *)
(* one that is taken for the decision is the newest, and the one that is   *)
(* thrown out of a full list is the oldest.  Putting the erbest back at    *)
(* the end keeps it that way.                                              *)
NewestLast ==
    \A i \in DOMAIN foreign_masters :
        LET ms == foreign_masters[i].announce_messages IN
        \A k \in 1..(Len(ms) - 1) : ms[k].age >= ms[k + 1].age

(* The erbest of a run of bmca() stays in the list until it is too old:    *)
(* the sequence id check, against the message before it, never refuses it  *)
(* when it is put back.  It is bmca() alone that lets time pass.           *)
ErbestIsKept ==
    [][LET best == BestOf(foreign_masters) IN
       (/\ best # None /\ best.message.age + 1 < CutoffAge
        /\ silence'[best.source] > silence[best.source]) =>
           \E i \in DOMAIN foreign_masters' :
              /\ foreign_masters'[i].source = best.source
              /\ Last(foreign_masters'[i].announce_messages) =
                    [best.message EXCEPT !.age = @ + 1]]_vars

(* A master that is not heard any more is forgotten when the time window   *)
(* has passed since its last message that was accepted: it does not remain *)
(* the erbest on the strength of a message that is put back again and      *)
(* again, and the messages of a master before its restart lock it out for  *)
(* no longer than that.                                                    *)
SilentIsForgotten ==
    \A i \in DOMAIN foreign_masters : silence[foreign_masters[i].source] < CutoffAge
=============================================================================
