------------------------------ MODULE WireFormat ------------------------------
(***************************************************************************)
(* PTP messages and their form on the wire (statime/src/datastructures/):  *)
(* the messages an instance makes, serialize and deserialize of the header *)
(* and of the ten kinds of bodies.                                         *)
(*                                                                         *)
(* An octet is a pair of a value and an index: a field of n octets with    *)
(* value v is <<v, 1>>, ..., <<v, n>>, whatever v is, so that a field read *)
(* at another place or in another length than it was written is seen to    *)
(* be garbage.  Octets that are put together from bits (message type,      *)
(* version, flags) are numbers.                                            *)
(***************************************************************************)
EXTENDS TlvSet

Garbage == -1
OldOctet == <<-2, 0>>    \* what an earlier message left in the packet buffer
Padding == <<-3, 0>>     \* what a link adds after a message

Field(v, n) == [k \in 1..n |-> <<v, k>>]

(* A field without octets reads 0. *)
ReadField(octets) ==
    CASE octets = <<>> -> 0
      [] octets # <<>> /\ octets = Field(octets[1][1], Len(octets)) -> octets[1][1]
      [] OTHER -> Garbage

-----------------------------------------------------------------------------
(* Enumerations with their codes. *)
ClockAccuracyOf(code) ==
    CASE code \in 0..22 \union 50..127 \union {255} -> <<"Reserved", 0>>
      [] code \in 128..253 -> <<"ProfileSpecific", code - 128>>
      [] OTHER -> <<"Named", code>>

ClockAccuracyCode(accuracy) ==
    CASE accuracy[1] = "Reserved" -> 0
      [] accuracy[1] = "ProfileSpecific" -> (128 + accuracy[2]) % 256
      [] OTHER -> accuracy[2]

TimeSourceOf(code) ==
    CASE code \in {16, 32, 48, 57, 64, 80, 96, 144, 160} -> <<"Named", code>>
      [] code \in 240..254 -> <<"ProfileSpecific", code - 240>>
      [] code = 255 -> <<"Reserved", 0>>
      [] OTHER -> <<"Unknown", code>>

TimeSourceCode(source) ==
    CASE source[1] = "ProfileSpecific" -> (240 + source[2]) % 256
      [] source[1] = "Reserved" -> 255
      [] OTHER -> source[2]

ManagementActionOf(code) == IF code < 5 THEN code ELSE 5

-----------------------------------------------------------------------------
(* Values that take a fixed number of octets: how many, and their          *)
(* serialize and deserialize.                                              *)
ReadAt(octets, first, n) == ReadField(SubSeq(octets, first, first + n - 1))

EncodeTimestamp(t) == Field(t.seconds, 6) \o Field(t.nanos, 4)
DecodeTimestamp(o) == [seconds |-> ReadAt(o, 1, 6), nanos |-> ReadAt(o, 7, 4)]

EncodePortIdentity(p) == Field(p.clock_identity, 8) \o Field(p.port_number, 2)
DecodePortIdentity(o) == [clock_identity |-> ReadAt(o, 1, 8), port_number |-> ReadAt(o, 9, 2)]

EncodeClockQuality(q) ==
    Field(q.clock_class, 1) \o Field(ClockAccuracyCode(q.clock_accuracy), 1)
    \o Field(q.offset_scaled_log_variance, 2)
DecodeClockQuality(o) ==
    [clock_class |-> ReadAt(o, 1, 1), clock_accuracy |-> ClockAccuracyOf(ReadAt(o, 2, 1)),
     offset_scaled_log_variance |-> ReadAt(o, 3, 2)]

EncodeClockIdentity(c) == Field(c, 8)
DecodeClockIdentity(o) == ReadAt(o, 1, 8)

EncodeTimeInterval(i) == Field(i, 8)
DecodeTimeInterval(o) == ReadAt(o, 1, 8)

Encode(type, v) ==
    CASE type = "timestamp" -> EncodeTimestamp(v)
      [] type = "port_identity" -> EncodePortIdentity(v)
      [] type = "clock_quality" -> EncodeClockQuality(v)
      [] type = "clock_identity" -> EncodeClockIdentity(v)
      [] type = "time_interval" -> EncodeTimeInterval(v)
      [] type = "u16" -> Field(v, 2)
      [] type = "u32" -> Field(v, 4)
      [] type = "time_source" -> Field(TimeSourceCode(v), 1)
      [] OTHER -> Field(v, 1)

Size(type) ==
    CASE type \in {"timestamp", "port_identity"} -> 10
      [] type \in {"clock_identity", "time_interval"} -> 8
      [] type \in {"clock_quality", "u32"} -> 4
      [] type = "u16" -> 2
      [] OTHER -> 1

Decode(type, octets) ==
    CASE type = "timestamp" -> DecodeTimestamp(octets)
      [] type = "port_identity" -> DecodePortIdentity(octets)
      [] type = "clock_quality" -> DecodeClockQuality(octets)
      [] type = "clock_identity" -> DecodeClockIdentity(octets)
      [] type = "time_interval" -> DecodeTimeInterval(octets)
      [] type = "time_source" -> TimeSourceOf(ReadAt(octets, 1, 1))
      [] type = "action" -> ManagementActionOf(ReadAt(octets, 1, 1))
      [] OTHER -> ReadAt(octets, 1, Size(type))

-----------------------------------------------------------------------------
MessageCode ==
    [Sync |-> 0, DelayReq |-> 1, PDelayReq |-> 2, PDelayResp |-> 3, FollowUp |-> 8,
     DelayResp |-> 9, PDelayRespFollowUp |-> 10, Announce |-> 11, Signaling |-> 12,
     Management |-> 13]

MessageTypes == DOMAIN MessageCode

(* TryFrom<u8> for MessageType *)
IsMessageType(code) == \E kind \in MessageTypes : MessageCode[kind] = code
MessageTypeOf(code) == CHOOSE kind \in MessageTypes : MessageCode[kind] = code

(* The bodies: content_size, where serialize_content puts each field and   *)
(* of which type, and where deserialize_content looks for it.              *)
Content(size, writes, reads) == [size |-> size, writes |-> writes, reads |-> reads]

SyncContent ==
    Content(10, [origin_timestamp |-> <<0, "timestamp">>],
                [origin_timestamp |-> <<0, "timestamp">>])

DelayReqContent ==
    Content(10, [origin_timestamp |-> <<0, "timestamp">>],
                [origin_timestamp |-> <<0, "timestamp">>])

FollowUpContent ==
    Content(10, [precise_origin_timestamp |-> <<0, "timestamp">>],
                [precise_origin_timestamp |-> <<0, "timestamp">>])

DelayRespContent ==
    Content(20, [receive_timestamp |-> <<0, "timestamp">>,
                 requesting_port_identity |-> <<10, "port_identity">>],
                [receive_timestamp |-> <<0, "timestamp">>,
                 requesting_port_identity |-> <<10, "port_identity">>])

(* Ten more octets are sent as zeros and not read. *)
PDelayReqContent ==
    Content(20, [origin_timestamp |-> <<0, "timestamp">>],
                [origin_timestamp |-> <<0, "timestamp">>])

PDelayRespContent ==
    Content(20, [request_receive_timestamp |-> <<0, "timestamp">>,
                 requesting_port_identity |-> <<10, "port_identity">>],
                [request_receive_timestamp |-> <<0, "timestamp">>,
                 requesting_port_identity |-> <<10, "port_identity">>])

PDelayRespFollowUpContent ==
    Content(20, [response_origin_timestamp |-> <<0, "timestamp">>,
                 requesting_port_identity |-> <<10, "port_identity">>],
                [response_origin_timestamp |-> <<0, "timestamp">>,
                 requesting_port_identity |-> <<10, "port_identity">>])

SignalingContent ==
    Content(10, [target_port_identity |-> <<0, "port_identity">>],
                [target_port_identity |-> <<0, "port_identity">>])

ManagementContent ==
    Content(14, [target_port_identity |-> <<0, "port_identity">>,
                 starting_boundary_hops |-> <<11, "u8">>, boundary_hops |-> <<12, "u8">>,
                 action |-> <<13, "action">>],
                [target_port_identity |-> <<0, "port_identity">>,
                 starting_boundary_hops |-> <<11, "u8">>, boundary_hops |-> <<12, "u8">>,
                 action |-> <<13, "action">>])

AnnounceContent ==
    Content(30,
        [origin_timestamp |-> <<0, "timestamp">>, current_utc_offset |-> <<10, "u16">>,
         grandmaster_priority_1 |-> <<13, "u8">>,
         grandmaster_clock_quality |-> <<14, "clock_quality">>,
         grandmaster_priority_2 |-> <<18, "u8">>,
         grandmaster_identity |-> <<19, "clock_identity">>,
         steps_removed |-> <<27, "u16">>, time_source |-> <<29, "time_source">>],
        [origin_timestamp |-> <<0, "timestamp">>, current_utc_offset |-> <<10, "u16">>,
         grandmaster_priority_1 |-> <<13, "u8">>,
         grandmaster_clock_quality |-> <<14, "clock_quality">>,
         grandmaster_priority_2 |-> <<18, "u8">>,
         grandmaster_identity |-> <<19, "clock_identity">>,
         steps_removed |-> <<27, "u16">>, time_source |-> <<29, "time_source">>])

BodyOf ==
    [Sync |-> SyncContent, DelayReq |-> DelayReqContent, PDelayReq |-> PDelayReqContent,
     PDelayResp |-> PDelayRespContent, FollowUp |-> FollowUpContent,
     DelayResp |-> DelayRespContent, PDelayRespFollowUp |-> PDelayRespFollowUpContent,
     Announce |-> AnnounceContent, Signaling |-> SignalingContent,
     Management |-> ManagementContent]

ContentSize(kind) == BodyOf[kind].size

-----------------------------------------------------------------------------
HeaderSize == 34

(* Where serialize_header puts its fields: some are made of several values *)
(* of the header, the reserved octets and the control field of none.       *)
HeaderWrites ==
    [sdo_and_type |-> <<0, "u8">>, version |-> <<1, "u8">>, message_length |-> <<2, "u16">>,
     domain_number |-> <<4, "u8">>, low_sdo |-> <<5, "u8">>,
     flags_6 |-> <<6, "u8">>, flags_7 |-> <<7, "u8">>,
     correction_field |-> <<8, "time_interval">>, reserved |-> <<16, "u32">>,
     source_port_identity |-> <<20, "port_identity">>, sequence_id |-> <<30, "u16">>,
     control_field |-> <<32, "u8">>, log_message_interval |-> <<33, "u8">>]

(* ... and where deserialize_header looks for them. *)
HeaderReads ==
    [sdo_and_type |-> <<0, "u8">>, version |-> <<1, "u8">>, message_length |-> <<2, "u16">>,
     domain_number |-> <<4, "u8">>, low_sdo |-> <<5, "u8">>,
     flags_6 |-> <<6, "u8">>, flags_7 |-> <<7, "u8">>,
     correction_field |-> <<8, "time_interval">>,
     source_port_identity |-> <<20, "port_identity">>, sequence_id |-> <<30, "u16">>,
     log_message_interval |-> <<33, "u8">>]

(* The octet and the mask of every flag, as serialize_header sets them. *)
FlagWrites ==
    [alternate_master_flag |-> <<"flags_6", 1>>, two_step_flag |-> <<"flags_6", 2>>,
     unicast_flag |-> <<"flags_6", 4>>, ptp_profile_specific_1 |-> <<"flags_6", 32>>,
     ptp_profile_specific_2 |-> <<"flags_6", 64>>,
     leap61 |-> <<"flags_7", 1>>, leap59 |-> <<"flags_7", 2>>,
     current_utc_offset_valid |-> <<"flags_7", 4>>, ptp_timescale |-> <<"flags_7", 8>>,
     time_tracable |-> <<"flags_7", 16>>, frequency_tracable |-> <<"flags_7", 32>>,
     synchronization_uncertain |-> <<"flags_7", 64>>]

Flags == DOMAIN FlagWrites

FlagReadsSwapped ==
    [FlagWrites EXCEPT !.two_step_flag = <<"flags_6", 4>>, !.unicast_flag = <<"flags_6", 2>>]

(* ... and as deserialize_header tests them. *)
FlagReads ==
    [alternate_master_flag |-> <<"flags_6", 1>>, two_step_flag |-> <<"flags_6", 2>>,
     unicast_flag |-> <<"flags_6", 4>>, ptp_profile_specific_1 |-> <<"flags_6", 32>>,
     ptp_profile_specific_2 |-> <<"flags_6", 64>>,
     leap61 |-> <<"flags_7", 1>>, leap59 |-> <<"flags_7", 2>>,
     current_utc_offset_valid |-> <<"flags_7", 4>>, ptp_timescale |-> <<"flags_7", 8>>,
     time_tracable |-> <<"flags_7", 16>>, frequency_tracable |-> <<"flags_7", 32>>,
     synchronization_uncertain |-> <<"flags_7", 64>>]

(* An octet starts as zero, and every flag that is set adds its bit. *)
FlagOctet(flags, octet) ==
    LET Bit(mask) == IF \E flag \in flags : FlagWrites[flag] = <<octet, mask>>
                     THEN mask ELSE 0
    IN  Bit(1) + Bit(2) + Bit(4) + Bit(8) + Bit(16) + Bit(32) + Bit(64) + Bit(128)

FlagIsSet(octet, mask) == (octet \div mask) % 2 = 1

(* The control field of PTP version 1, which nobody reads. *)
ControlField(kind) ==
    CASE kind = "Sync" -> 0 [] kind = "DelayReq" -> 1 [] kind = "FollowUp" -> 2
      [] kind = "DelayResp" -> 3 [] kind = "Management" -> 4 [] OTHER -> 5

-----------------------------------------------------------------------------
(* The part of buffer from octet at, counted from zero, is overwritten. *)
Put(buffer, at, octets) ==
    [i \in DOMAIN buffer |->
        IF i \in at + 1..at + Len(octets) THEN octets[i - at] ELSE buffer[i]]

(* The octets of the fields of table are overwritten with their values. *)
PutFields(buffer, table, values) ==
    LET Covers(name, i) == i - table[name][1] \in 1..Size(table[name][2])
    IN  [i \in DOMAIN buffer |->
            IF \E name \in DOMAIN table : Covers(name, i)
            THEN LET name == CHOOSE name \in DOMAIN table : Covers(name, i)
                 IN  Encode(table[name][2], values[name])[i - table[name][1]]
            ELSE buffer[i]]

GetFields(buffer, table) ==
    [name \in DOMAIN table |->
        LET first == table[name][1] + 1
            type == table[name][2]
        IN  Decode(type, SubSeq(buffer, first, first + Size(type) - 1))]

OctetAt(buffer, at) == buffer[at + 1][1]

(* SdoId: the high four of its twelve bits, and the low eight. *)
HighByte(sdo_id) == (sdo_id \div 256) % 256
LowByte(sdo_id) == sdo_id % 256

(* PtpVersion *)
AsByte(major, minor) == ((minor * 16) % 256) + major
MajorOf(byte) == byte % 16
MinorOf(byte) == byte \div 16

(* Header::serialize_header *)
HeaderFields(header, kind, content_length) ==
    [sdo_and_type |-> (HighByte(header.sdo_id) % 16) * 16 + MessageCode[kind],
     version |-> AsByte(header.major, header.minor),
     message_length |-> (content_length + HeaderSize) % 65536,
     domain_number |-> header.domain_number,
     low_sdo |-> LowByte(header.sdo_id),
     flags_6 |-> FlagOctet(header.flags, "flags_6"),
     flags_7 |-> FlagOctet(header.flags, "flags_7"),
     correction_field |-> header.correction_field, reserved |-> 0,
     source_port_identity |-> header.source_port_identity,
     sequence_id |-> header.sequence_id, control_field |-> ControlField(kind),
     log_message_interval |-> header.log_message_interval]

SerializeHeader(header, kind, content_length, buffer) ==
    PutFields(buffer, HeaderWrites, HeaderFields(header, kind, content_length))

(* Header::deserialize_header: the header, and the two other fields of     *)
(* DeserializedHeader.                                                     *)
HeaderOf(fields) ==
    [sdo_id |-> (fields.sdo_and_type \div 16) * 256 + fields.low_sdo,
     major |-> MajorOf(fields.version), minor |-> MinorOf(fields.version),
     domain_number |-> fields.domain_number,
     flags |-> {flag \in Flags : FlagIsSet(fields[FlagReads[flag][1]], FlagReads[flag][2])},
     correction_field |-> fields.correction_field,
     source_port_identity |-> fields.source_port_identity,
     sequence_id |-> fields.sequence_id,
     log_message_interval |-> fields.log_message_interval]

TypeCodeOf(fields) == fields.sdo_and_type % 16

(* TLVs as octets, and back. *)
TlvWire(tlv) == Field(tlv.code, 2) \o Field(tlv.length, 2) \o Field(tlv.value, tlv.length)

TlvOctets(tlvs) ==
    LET From[i \in 1..Len(tlvs) + 1] ==
          IF i = Len(tlvs) + 1 THEN <<>> ELSE TlvWire(tlvs[i]) \o From[i + 1]
    IN  From[1]

TlvSetOf(octets) ==
    [octets |-> Len(octets),
     lengths |-> [offset \in 0..Len(octets) |->
                     IF offset + 4 <= Len(octets)
                     THEN ReadAt(octets, offset + 3, 2) ELSE 0]]

(* TlvSetIterator, with the TLVs that Tlv::deserialize makes of the octets *)
TlvsOf(octets) ==
    LET From[offset \in 0..Len(octets)] ==
          LET left == Len(octets) - offset
              length == ReadAt(octets, offset + 3, 2)
          IN  CASE ~IteratorGoesOn(left) -> IF left = 0 THEN <<>> ELSE <<Panic>>
                [] IteratorGoesOn(left) /\ TlvHeader + length > left -> <<Panic>>
                [] OTHER -> <<[code |-> ReadAt(octets, offset + 1, 2), length |-> length,
                               value |-> ReadAt(octets, offset + 5, length)]>>
                            \o From[offset + TlvHeader + length]
    IN  From[0]

-----------------------------------------------------------------------------
WireSize(m) == HeaderSize + ContentSize(m.kind) + Len(TlvOctets(m.suffix))

(* MessageBody::serialize and MessageBody::deserialize *)
SerializeBody(m, buffer) ==
    PutFields(IF m.kind = "PDelayReq" THEN Put(buffer, 10, Field(0, 10)) ELSE buffer,
              BodyOf[m.kind].writes, m.body)

DeserializeBody(kind, content) == GetFields(content, BodyOf[kind].reads)

(* A part of a packet buffer that has been used before. *)
Used(n) == [i \in 1..n |-> OldOctet]

(* Message::serialize: the buffer is split in three. *)
Serialize(m) ==
    LET tlvs == TlvOctets(m.suffix)
    IN  SerializeHeader(m.header, m.kind, ContentSize(m.kind) + Len(tlvs), Used(HeaderSize))
        \o SerializeBody(m, Used(ContentSize(m.kind)))
        \o tlvs

Refused(error) == [error |-> error]

(* The content without the padding that may follow it. *)
ContentOf(buffer, length) == SubSeq(buffer, HeaderSize + 1, length)

(* Message::deserialize: the message, its TLVs as octets, or an error. *)
Deserialize(buffer) ==
    LET fields == GetFields(buffer, HeaderReads)
        code == TypeCodeOf(fields)
        kind == MessageTypeOf(code)
        length == fields.message_length
        content == ContentOf(buffer, length)
        tlvs == SubSeq(content, ContentSize(kind) + 1, Len(content))
    IN  CASE Len(buffer) < HeaderSize -> Refused("BufferTooShort")
          [] Len(buffer) >= HeaderSize /\ ~IsMessageType(code) ->
                Refused("EnumConversionError")
          [] OTHER ->
                IF length < HeaderSize THEN Refused("Invalid")
                ELSE IF length > Len(buffer) \/ Len(content) < ContentSize(kind)
                     THEN Refused("BufferTooShort")
                ELSE IF DeserializeTlvSet(TlvSetOf(tlvs)) # "Ok"
                     THEN Refused(DeserializeTlvSet(TlvSetOf(tlvs)))
                ELSE [header |-> HeaderOf(fields), kind |-> kind, suffix |-> tlvs,
                      body |-> DeserializeBody(kind, content)]

(* is_compatible and parse_and_filter: what a port with this default_ds    *)
(* takes in.                                                               *)
IsCompatible(buffer) ==
    IF Len(buffer) < 2 THEN FALSE ELSE MajorOf(OctetAt(buffer, 1)) = 2

OfDomain(default_ds, m) ==
    IF DOMAIN m = {"error"} THEN m
    ELSE IF m.header.sdo_id # default_ds.sdo_id
            \/ m.header.domain_number # default_ds.domain_number
         THEN Refused("OtherDomain")
    ELSE m

ParseAndFilter(default_ds, buffer) ==
    IF ~IsCompatible(buffer) THEN Refused("Incompatible")
    ELSE OfDomain(default_ds, Deserialize(buffer))

(* The messages that handle_general_internal passes on to a handler, and   *)
(* the ones that handle_event_receive does.                                *)
HandledAsGeneral(kind) == kind \in {"Announce", "FollowUp", "DelayResp", "PDelayRespFollowUp"}

HandledAsEvent(kind) ==
    kind \in {"Sync", "DelayReq", "PDelayReq", "PDelayResp"} \/ HandledAsGeneral(kind)
===============================================================================
