---------------------------- MODULE MCAlgorithms ----------------------------
(***************************************************************************)
(* The pure functions of the library on bounded inputs: one state for      *)
(* every input, and the states of FindBest for the one that folds.         *)
(***************************************************************************)
EXTENDS MCFindBest, Exchange, OverlayClock

VARIABLE input  \* [of |-> the kind of input, ...]

allVars == <<seen, best, input>>

-----------------------------------------------------------------------------
Exchanges ==
    {[of |-> "exchange", t1 |-> t1, theta |-> theta, mean |-> mean,
      asymmetry |-> asymmetry, residence |-> residence, wait |-> wait] :
        t1 \in 24..35, theta \in {-5, 0, 6}, mean \in {5, 8},
        asymmetry \in {-2, 0, 1}, residence \in {0, 9}, wait \in {1, 6}}

ASSUME ExchangesAssumption == \A x \in Exchanges : Measurable(x)

(* Data sets of a grandmaster, or of a boundary clock. *)
Accuracies == {<<"Reserved", 0>>, <<"Named", 32>>, <<"ProfileSpecific", 5>>}
TimeSources == {<<"Named", 32>>, <<"ProfileSpecific", 14>>, <<"Reserved", 0>>, <<"Unknown", 7>>}

DataSets ==
    {[default_ds |-> Ds, steps_removed |-> steps,
      parent |-> [grandmaster_identity |-> 77,
                  grandmaster_clock_quality |-> [clock_class |-> 6, clock_accuracy |-> accuracy,
                                                 offset_scaled_log_variance |-> 900],
                  grandmaster_priority_1 |-> 1, grandmaster_priority_2 |-> 2],
      time_properties |-> [current_utc_offset |-> offset, leap_indicator |-> leap,
                           flags |-> flags, time_source |-> source]] :
        steps \in {0, 254}, accuracy \in Accuracies, offset \in {NoOffset, 0, 37},
        leap \in {"no_leap", "leap59", "leap61"},
        flags \in {{}, {"ptp_timescale"}, {"time_tracable", "frequency_tracable"}},
        source \in TimeSources}

(* A request as it may arrive, with flags of its sender's. *)
Request == [BaseHeader(Ds, Slave, 5, 0) EXCEPT !.correction_field = 9,
                                              !.flags = {"unicast_flag", "two_step_flag"}]

Simple ==
    {SyncMessage(Ds, MasterPort, 7, 1), FollowUpMessage(Ds, MasterPort, 7, 29, 1),
     DelayReqMessage(Ds, Slave, 4, 0), DelayRespMessage(Request, MasterPort, 3, 30),
     PDelayReqMessage(Ds, Slave, 4, 1), PDelayRespMessage(Ds, MasterPort, Request, 31, 1),
     PDelayRespFollowUpMessage(Ds, MasterPort, Slave, 5, 33, 1),
     Message("Signaling", BaseHeader(Ds, MasterPort, 2, 1), [target_port_identity |-> Slave]),
     Message("Management", BaseHeader(Ds, MasterPort, 2, 1),
             [target_port_identity |-> Slave, starting_boundary_hops |-> 1,
              boundary_hops |-> 2, action |-> 4])}

(* TLVs of even lengths, the last of which has a value. *)
Tlv(code, length) ==
    [code |-> code, length |-> length, value |-> IF length = 0 THEN 0 ELSE code + 100]
SentTlvs == {<<>>, <<Tlv(8, 8)>>, <<Tlv(16384, 0), Tlv(8, 2)>>, <<Tlv(8, 6), Tlv(9, 4)>>}

MessagesSent ==
    {[of |-> "message", message |-> m, padding |-> padding] : m \in Simple, padding \in 0..2}
    \union
    {[of |-> "message", padding |-> 1,
      message |-> [AnnounceMessage(ds, MasterPort, 8, 1) EXCEPT !.suffix = suffix]] :
        ds \in {d \in DataSets : d.steps_removed = 0}, suffix \in SentTlvs}

ASSUME MessagesAssumption == \A x \in MessagesSent : IsSent(Ds, x.message)

(* Announce messages of other implementations: any codes and types of      *)
(* TLVs, both leap flags, any number of steps; with an empty TLV that is   *)
(* the last one once those after it have been dropped.                     *)
Announce(code, flags, steps, tlvs) ==
    [header |-> [BaseHeader(Ds, MasterPort, 8, 0) EXCEPT !.flags = flags],
     kind |-> "Announce", suffix |-> tlvs,
     body |-> [origin_timestamp |-> ZeroTimestamp, current_utc_offset |-> 37,
               grandmaster_priority_1 |-> 1,
               grandmaster_clock_quality |->
                   [clock_class |-> 6, clock_accuracy |-> <<"Named", code>>,
                    offset_scaled_log_variance |-> 900],
               grandmaster_priority_2 |-> 2, grandmaster_identity |-> 77,
               steps_removed |-> steps, time_source |-> <<"Unknown", code>>]]

Announced ==
    {[of |-> "announce", message |-> Announce(code, flags, 254, <<>>)] :
        code \in 0..255,
        flags \in {{}, {"leap59", "leap61", "time_tracable"},
                   {"leap61", "current_utc_offset_valid", "synchronization_uncertain"}}}
    \union
    {[of |-> "announce", message |-> Announce(32, {}, steps, <<Tlv(first, length), Tlv(second, 2)>>)] :
        first, second \in {3, 8, 9, 8192, 16384, 32767, 32768}, length \in {0, 4},
        steps \in {0, 255, 65535}}

ASSUME AnnouncedAssumption == \A x \in Announced : IsRelayed(Ds, x.message)

TlvSets ==
    {[of |-> "tlvs", set |-> Octets(octets, [offset \in 0..octets |->
                                                IF offset \in DOMAIN lengths
                                                THEN lengths[offset] ELSE 0])] :
        octets \in 0..13, lengths \in [{0, 4, 6, 8} -> {0, 1, 2, 4, 6}]}

(* An overlay clock after up to three operations at later and later times, *)
(* with twice and four times the speed and steps that these divide.        *)
Speeds == {0, Scale, 3 * Scale}
Operations == {[set |-> TRUE, by |-> ppm] : ppm \in Speeds}
                \union {[set |-> FALSE, by |-> offset] : offset \in {-4, 4}}

Operated(clock, roclock, operation) ==
    IF operation.set THEN SetFrequency(clock, roclock, operation.by)
    ELSE StepClock(clock, roclock, operation.by)

OperatedClocks ==
    LET Two == {Operated(Operated(NewOverlay(3), 5, first), 6, second) :
                    first, second \in Operations}
    IN  Two \union {Operated(clock, 9, third) : clock \in Two, third \in Operations}

Overlays ==
    {[of |-> "overlay", clock |-> clock, roclock |-> roclock, ppm |-> ppm] :
        clock \in OperatedClocks, roclock \in {9, 12}, ppm \in Speeds}

NoInput == [of |-> "fold"]

AInit ==
    /\ FoldInit
    /\ input \in {NoInput} \union Exchanges \union MessagesSent \union Announced
                   \union TlvSets \union Overlays

ANext == input = NoInput /\ FoldNext /\ UNCHANGED input

ASpec == AInit /\ [][ANext]_allVars

-----------------------------------------------------------------------------
(* A message is read by the other end as it was made: every field, flag    *)
(* and TLV, whatever an earlier message has left in the packet buffer,     *)
(* whatever padding the link adds and whatever a transparent clock adds to *)
(* its correction field; and the messages of an instance reach their       *)
(* handlers on the socket that they are sent to.                           *)
ReadAsSent ==
    /\ input.of = "exchange" => ExchangeIsRead(input)
    /\ input.of = "message" =>
          LET m == input.message
              padding == [i \in 1..input.padding |-> Padding]
              read == ParseAndFilter(Ds, Serialize(m) \o padding)
          IN  /\ read = [m EXCEPT !.suffix = TlvOctets(m.suffix)]
              /\ m.kind \notin {"Signaling", "Management"} =>
                    IF SentAsEvent(m.kind) THEN HandledAsEvent(read.kind)
                    ELSE HandledAsGeneral(read.kind)

(* What a boundary clock passes on is what it has understood: the announce *)
(* message it sends as the slave of a parent is read one step further with *)
(* the same grandmaster, the same time properties and the same TLVs to be  *)
(* passed on, even where the message of the parent held codes or flags     *)
(* that the enumerations do not tell apart, and with one step more, or     *)
(* none after 65535 of them.  The one case in which it is not read at all  *)
(* is that the TLVs to be passed on end in an empty one.                   *)
RelaysAnnounce ==
    input.of = "announce" /\ IsRelayed(Ds, input.message) =>
        LET received == ParseAndFilter(Ds, Serialize(input.message))
            ds == TakeAnnounce(Ds, received)
            sent == [AnnounceMessage(ds, Slave, 1, 1) EXCEPT !.suffix = Propagated(received)]
            read == ParseAndFilter(Ds, Serialize(sent))
        IN  IF EndEmpty(sent.suffix) THEN read = Refused("BufferTooShort")
            ELSE /\ TakeAnnounce(Ds, read).time_properties = ds.time_properties
                 /\ TakeAnnounce(Ds, read).parent = ds.parent
                 /\ Propagated(read) = sent.suffix
                 /\ read.body.steps_removed = AsU16(received.body.steps_removed + 1)

(* A set of TLVs that deserialize has accepted is walked to its end: the   *)
(* iterator neither meets a rest that is too short ("we've validated the   *)
(* buffer; this should never fail!") nor leaves octets behind.             *)
ValidatedIsWalked ==
    input.of = "tlvs" =>
        LET values == IterateTlvSet(input.set)
        IN  DeserializeTlvSet(input.set) = "Ok" =>
                /\ \A i \in DOMAIN values : values[i] # Panic
                /\ BuildTlvSet(values).octets = input.set.octets

(* set_frequency of the overlay clock changes its speed and not the time   *)
(* it shows, whatever was done to it before, as its assertion says: the    *)
(* clock goes on from the time it showed, at the new speed.                *)
FrequencyKeepsTime ==
    input.of = "overlay" =>
        LET changed == SetFrequency(input.clock, input.roclock, input.ppm)
            now == TimeFromUnderlying(input.clock, input.roclock)
        IN  /\ TimeFromUnderlying(changed, input.roclock) = now
            /\ TimeFromUnderlying(changed, input.roclock + 2) - now
                  = 2 + (2 * input.ppm) \div Scale

(* OffsetIsExact of module Exchange, for every exchange tried. *)
OffsetsAreExact == input.of = "exchange" => OffsetIsExact(input)

(* DelaysAreCloseTo of module Exchange, for every exchange tried. *)
DelaysAreClose == input.of = "exchange" => DelaysAreCloseTo(input)
=============================================================================
