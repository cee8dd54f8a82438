------------------------------- MODULE Messages -------------------------------
(***************************************************************************)
(* The messages an instance makes (the constructors of Message in          *)
(* statime/src/datastructures/messages/mod.rs) and what the data sets take *)
(* from an announce message.                                               *)
(*                                                                         *)
(* A time is a number of units, SubUnits of which are a nanosecond; the    *)
(* correction field counts units as well, CorrectionUnit at a time.        *)
(***************************************************************************)
EXTENDS WireFormat, TimeTypes

(* Header::new *)
NewHeader(minor) ==
    [sdo_id |-> 0, major |-> 2, minor |-> minor, domain_number |-> 0, flags |-> {},
     correction_field |-> 0, source_port_identity |-> [clock_identity |-> 0, port_number |-> 0],
     sequence_id |-> 0, log_message_interval |-> 0]

BaseHeader(default_ds, port_identity, sequence_id, minor) ==
    [NewHeader(minor) EXCEPT !.sdo_id = default_ds.sdo_id,
                             !.domain_number = default_ds.domain_number,
                             !.source_port_identity = port_identity,
                             !.sequence_id = sequence_id]

ZeroTimestamp == [seconds |-> 0, nanos |-> 0]

Message(kind, header, body) == [header |-> header, kind |-> kind, body |-> body, suffix |-> <<>>]

(* The messages that are sent with SendEvent. *)
SentAsEvent(kind) == kind \in {"Sync", "DelayReq", "PDelayReq", "PDelayResp"}

SyncMessage(default_ds, port_identity, sequence_id, minor) ==
    Message("Sync",
            [BaseHeader(default_ds, port_identity, sequence_id, minor)
                EXCEPT !.flags = {"two_step_flag"}],
            [origin_timestamp |-> ZeroTimestamp])

FollowUpWithoutSubnano(default_ds, port_identity, sequence_id, timestamp, minor) ==
    Message("FollowUp", BaseHeader(default_ds, port_identity, sequence_id, minor),
            [precise_origin_timestamp |-> WireTimestamp(timestamp)])

FollowUpMessage(default_ds, port_identity, sequence_id, timestamp, minor) ==
    Message("FollowUp",
            [BaseHeader(default_ds, port_identity, sequence_id, minor)
                EXCEPT !.correction_field = Subnano(timestamp)],
            [precise_origin_timestamp |-> WireTimestamp(timestamp)])

DelayReqMessage(default_ds, port_identity, sequence_id, minor) ==
    Message("DelayReq",
            [BaseHeader(default_ds, port_identity, sequence_id, minor)
                EXCEPT !.log_message_interval = 127],
            [origin_timestamp |-> ZeroTimestamp])

DelayRespWithoutCorrection(request, port_identity, interval, timestamp) ==
    Message("DelayResp",
            [request EXCEPT !.flags = @ \ {"two_step_flag"},
                            !.source_port_identity = port_identity,
                            !.correction_field = Subnano(timestamp),
                            !.log_message_interval = interval],
            [receive_timestamp |-> WireTimestamp(timestamp),
             requesting_port_identity |-> request.source_port_identity])

(* The header of the request goes back with the response. *)
DelayRespMessage(request, port_identity, interval, timestamp) ==
    Message("DelayResp",
            [request EXCEPT !.flags = @ \ {"two_step_flag"},
                            !.source_port_identity = port_identity,
                            !.correction_field = @ + Subnano(timestamp),
                            !.log_message_interval = interval],
            [receive_timestamp |-> WireTimestamp(timestamp),
             requesting_port_identity |-> request.source_port_identity])

PDelayReqMessage(default_ds, port_identity, sequence_id, minor) ==
    Message("PDelayReq", BaseHeader(default_ds, port_identity, sequence_id, minor),
            [origin_timestamp |-> ZeroTimestamp])

PDelayRespMessage(default_ds, port_identity, request, timestamp, minor) ==
    Message("PDelayResp",
            [BaseHeader(default_ds, port_identity, request.sequence_id, minor)
                EXCEPT !.flags = {"two_step_flag"},
                       !.correction_field = request.correction_field],
            [request_receive_timestamp |-> WireTimestamp(timestamp),
             requesting_port_identity |-> request.source_port_identity])

PDelayRespFollowUpMessage(default_ds, port_identity, requestor, sequence_id, timestamp, minor) ==
    Message("PDelayRespFollowUp", BaseHeader(default_ds, port_identity, sequence_id, minor),
            [response_origin_timestamp |-> WireTimestamp(timestamp),
             requesting_port_identity |-> requestor])

-----------------------------------------------------------------------------
NoOffset == -1  \* current_utc_offset is None

AnnounceFlagsOneLeap(time_properties) ==
    {flag \in {"leap59"} : time_properties.leap_indicator # "no_leap"}
    \union (IF time_properties.current_utc_offset # NoOffset
            THEN {"current_utc_offset_valid"} ELSE {})
    \union (time_properties.flags \intersect
            {"ptp_timescale", "time_tracable", "frequency_tracable"})

(* Message::announce, of the data sets in ds. *)
AnnounceFlags(time_properties) ==
    {flag \in {"leap59", "leap61"} : time_properties.leap_indicator = flag}
    \union (IF time_properties.current_utc_offset # NoOffset
            THEN {"current_utc_offset_valid"} ELSE {})
    \union (time_properties.flags \intersect
            {"ptp_timescale", "time_tracable", "frequency_tracable"})

AnnounceMessage(ds, port_identity, sequence_id, minor) ==
    Message("Announce",
            [BaseHeader(ds.default_ds, port_identity, sequence_id, minor)
                EXCEPT !.flags = AnnounceFlags(ds.time_properties)],
            [origin_timestamp |-> ZeroTimestamp,
             current_utc_offset |-> IF ds.time_properties.current_utc_offset = NoOffset
                                    THEN 0 ELSE ds.time_properties.current_utc_offset,
             grandmaster_priority_1 |-> ds.parent.grandmaster_priority_1,
             grandmaster_clock_quality |-> ds.parent.grandmaster_clock_quality,
             grandmaster_priority_2 |-> ds.parent.grandmaster_priority_2,
             grandmaster_identity |-> ds.parent.grandmaster_identity,
             steps_removed |-> ds.steps_removed,
             time_source |-> ds.time_properties.time_source])

(* AnnounceMessage::time_properties *)
TimeProperties(m) ==
    [current_utc_offset |-> IF "current_utc_offset_valid" \in m.header.flags
                            THEN m.body.current_utc_offset ELSE NoOffset,
     leap_indicator |-> CASE "leap59" \in m.header.flags -> "leap59"
                          [] "leap59" \notin m.header.flags
                             /\ "leap61" \in m.header.flags -> "leap61"
                          [] OTHER -> "no_leap",
     flags |-> m.header.flags \intersect
               {"ptp_timescale", "time_tracable", "frequency_tracable"},
     time_source |-> m.body.time_source]

(* steps_removed is a u16, and a release build wraps around. *)
AsU16(n) == n % 65536

(* The data sets of an instance that has made a port a slave by the        *)
(* announce message m (decision code S1, and every later announce of the   *)
(* same parent).                                                           *)
TakeAnnounce(default_ds, m) ==
    [default_ds |-> default_ds,
     steps_removed |-> AsU16(m.body.steps_removed + 1),
     parent |-> [grandmaster_identity |-> m.body.grandmaster_identity,
                 grandmaster_clock_quality |-> m.body.grandmaster_clock_quality,
                 grandmaster_priority_1 |-> m.body.grandmaster_priority_1,
                 grandmaster_priority_2 |-> m.body.grandmaster_priority_2],
     time_properties |-> TimeProperties(m)]

(* announce_propagate_tlv: the TLVs of an announce message that go on. *)
PropagatedOf(tlvs) ==
    LET From[i \in 1..Len(tlvs) + 1] ==
          IF i = Len(tlvs) + 1 THEN <<>>
          ELSE (IF AnnouncePropagate(TlvTypeOf(tlvs[i].code)) THEN <<tlvs[i]>> ELSE <<>>)
               \o From[i + 1]
    IN  From[1]

Propagated(m) == PropagatedOf(TlvsOf(m.suffix))

-----------------------------------------------------------------------------
(* What a field of a message may hold: any numbers, and for an enumeration *)
(* any of its members and any code a sender may have put there.            *)
ClockAccuracies == {"Reserved", "Named", "ProfileSpecific"} \X (0..255)
AllTimeSources == {"Named", "ProfileSpecific", "Reserved", "Unknown"} \X (0..255)
PortIdentities == [clock_identity : Int, port_number : Int]

ValuesOf(type) ==
    CASE type = "timestamp" -> [seconds : Int, nanos : Int]
      [] type = "port_identity" -> PortIdentities
      [] type = "clock_quality" ->
            [clock_class : Int, clock_accuracy : ClockAccuracies,
             offset_scaled_log_variance : Int]
      [] type = "time_source" -> AllTimeSources
      [] type = "action" -> 0..5
      [] OTHER -> Int

(* The members that reading a code makes, and that are sent therefore. *)
IsMember(type, v) ==
    /\ type = "clock_quality" =>
          v.clock_accuracy \in {ClockAccuracyOf(code) : code \in 0..255}
    /\ type = "time_source" => v \in {TimeSourceOf(code) : code \in 0..255}

SdoIds == 0..4095

Headers ==
    [sdo_id : SdoIds, major : {2}, minor : 0..15, domain_number : Int, flags : SUBSET Flags,
     correction_field : Int, source_port_identity : PortIdentities, sequence_id : Int,
     log_message_interval : Int]

WireTlvs == [code : Nat, length : Nat, value : Nat]

(* TLVs of even lengths. *)
AreTlvs(tlvs) ==
    /\ tlvs \in Seq(WireTlvs)
    /\ \A i \in DOMAIN tlvs :
          tlvs[i].length % 2 = 0 /\ (tlvs[i].length = 0 => tlvs[i].value = 0)

(* They can be sent if they are not too long for the length field of a     *)
(* message of this kind; but when the last one is empty the other end      *)
(* takes its header for octets that are left over.                         *)
AreSendable(tlvs, kind) ==
    /\ AreTlvs(tlvs)
    /\ HeaderSize + ContentSize(kind) + Len(TlvOctets(tlvs)) < 65536

EndEmpty(tlvs) == tlvs # <<>> /\ tlvs[Len(tlvs)].length = 0

(* A message to a port with this default_ds, *)
IsAddressed(default_ds, m) ==
    /\ m = [header |-> m.header, kind |-> m.kind, body |-> m.body, suffix |-> m.suffix]
    /\ m.header \in Headers /\ m.kind \in MessageTypes
    /\ m.header.sdo_id = default_ds.sdo_id
    /\ m.header.domain_number = default_ds.domain_number
    /\ m.body = [name \in DOMAIN BodyOf[m.kind].writes |-> m.body[name]]
    /\ \A name \in DOMAIN BodyOf[m.kind].writes :
          m.body[name] \in ValuesOf(BodyOf[m.kind].writes[name][2])
    /\ AreSendable(m.suffix, m.kind)

(* one that the port takes in, *)
IsMessage(default_ds, m) == IsAddressed(default_ds, m) /\ ~EndEmpty(m.suffix)

(* and one that such a port makes. *)
IsSent(default_ds, m) ==
    /\ IsMessage(default_ds, m)
    /\ \A name \in DOMAIN BodyOf[m.kind].writes :
          IsMember(BodyOf[m.kind].writes[name][2], m.body[name])

(* An announce message that such a port takes in and passes on.  What goes *)
(* on of its TLVs has room in a message: the TLV provider sees to that.    *)
IsRelayed(default_ds, m) ==
    /\ IsMessage(default_ds, m)
    /\ m.kind = "Announce"
    /\ AreSendable(PropagatedOf(m.suffix), "Announce")
===============================================================================
