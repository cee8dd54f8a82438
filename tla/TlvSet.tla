-------------------------------- MODULE TlvSet --------------------------------
(***************************************************************************)
(* TLVs at the end of a message (statime/src/datastructures/common/tlv.rs):*)
(* the set is kept as the octets it has on the wire, is validated once     *)
(* when the message is read and then walked by an iterator that relies on  *)
(* that.                                                                   *)
(*                                                                         *)
(* Of the octets only the length fields decide anything.  A set is its     *)
(* length in octets and, for every offset at which a TLV may start, what   *)
(* the two octets of the length field of a TLV there read.                 *)
(***************************************************************************)
EXTENDS Integers, Sequences, SequencesExt

(* A set of octets octets, whose length fields are lengths[offset]. *)
Octets(octets, lengths) == [octets |-> octets, lengths |-> lengths]

(* Type and length. *)
TlvHeader == 4

MoreOrEqual(n) == n >= TlvHeader

(* The loop conditions of TlvSet::deserialize and TlvSetIterator::next. *)
ValidatorGoesOn(n) == n > TlvHeader

IteratorGoesOn(n) == n > TlvHeader

-----------------------------------------------------------------------------
(* TlvSet::deserialize *)
DeserializeTlvSet(set) ==
    LET From[offset \in 0..set.octets] ==
          LET left == set.octets - offset
              length == set.lengths[offset]
          IN  CASE ~ValidatorGoesOn(left) ->
                        IF left = 0 THEN "Ok" ELSE "BufferTooShort"
                [] ValidatorGoesOn(left) /\ length % 2 # 0 -> "Invalid"
                [] ValidatorGoesOn(left) /\ length % 2 = 0 /\ TlvHeader + length > left ->
                        "BufferTooShort"
                [] OTHER -> From[offset + TlvHeader + length]
    IN  From[0]

Panic == -1

(* TlvSetIterator: the lengths of the values it yields, and Panic when     *)
(* its assertion fails or Tlv::deserialize refuses what is left.           *)
IterateTlvSet(set) ==
    LET From[offset \in 0..set.octets] ==
          LET left == set.octets - offset
              length == set.lengths[offset]
          IN  CASE ~IteratorGoesOn(left) -> IF left = 0 THEN <<>> ELSE <<Panic>>
                [] IteratorGoesOn(left) /\ TlvHeader + length > left -> <<Panic>>
                [] OTHER -> <<length>> \o From[offset + TlvHeader + length]
    IN  From[0]

(* TlvSetBuilder: TLVs with values of these lengths, one after the other. *)
BuildTlvSet(values) ==
    LET WireSize(value) == TlvHeader + value
        Offset[i \in 1..Len(values) + 1] ==
            IF i = 1 THEN 0 ELSE Offset[i - 1] + WireSize(values[i - 1])
        total == Offset[Len(values) + 1]
    IN  Octets(total, [offset \in 0..total |->
                          IF \E i \in DOMAIN values : Offset[i] = offset
                          THEN values[CHOOSE i \in DOMAIN values : Offset[i] = offset]
                          ELSE 0])

-----------------------------------------------------------------------------
(* TlvType: the code on the wire, and whether a boundary clock passes it on. *)
TlvTypeOf(code) ==
    CASE code \in 1..9 \union {16384, 16385} \union 32768..32777 -> <<"Named", code>>
      [] code \in 8192..8195 -> <<"Legacy", code>>
      [] code \in 8196..8239 \union 32512..32767 -> <<"Experimental", code>>
      [] OTHER -> <<"Reserved", code>>

TlvCode(type) == type[2]

AnnouncePropagate(type) == TlvCode(type) \in {8, 9} \union 16384..32767
===============================================================================
