---------------------------- MODULE KalmanFilter ----------------------------
(***************************************************************************)
(* The Kalman filter (statime/src/filters/kalman.rs): when it accepts a    *)
(* measurement, how it keeps its two estimators and the error estimator in *)
(* step with the clock, and when it steers or steps the clock.             *)
(*                                                                         *)
(* The numbers the filter computes are abstracted: an estimate becomes any *)
(* value from what it was to what was measured, and the comparisons of     *)
(* floating point numbers that decide on the wander are choices.  Times,   *)
(* steps and frequencies are small integers.  Every event_time and every   *)
(* offset comes from readings of the clock that the filter itself steps.   *)
(***************************************************************************)
EXTENDS Integers, FiniteSets

CONSTANTS
    Noise,              \* how far a measured offset is off, either way
    StepThreshold,      \* config.step_threshold
    EstimateThreshold,  \* config.estimate_threshold
    MaxSteer,           \* config.max_steer
    MaxFreqOffset,      \* config.max_freq_offset
    Hysteresis,         \* config.precision_hysteresis
    ScoreMax,           \* i8::MAX
    DataLen,            \* MeasurementErrorEstimator.data.len(): 32
    MaxElapsed,         \* bound: the last tick of the oscillator
    MaxPhase,           \* bound: on the offset of the clock, either way
    MaxPending,         \* bound: exchanges that have not ended yet
    MaxMeasurements,    \* bound: exchanges started
    None

ASSUME KalmanAssumption ==
    /\ Noise \in Nat /\ StepThreshold \in Nat /\ EstimateThreshold \in Nat
    /\ MaxSteer \in Nat /\ MaxFreqOffset \in Nat
    /\ ScoreMax \in Nat /\ Hysteresis \in 0..ScoreMax  \* "max 127"
    /\ DataLen \in Nat \ {0}
    /\ MaxElapsed \in Nat /\ MaxPhase \in Nat
    /\ MaxPending \in Nat /\ MaxMeasurements \in Nat
    /\ None \notin Int /\ None \notin [id : Nat, time : Int]
    /\ None \notin [offset : Int, time : Int]

Times == -MaxPhase..(MaxElapsed + MaxPhase)

VARIABLES
    elapsed,   \* the oscillator of the clock
    phase,     \* the offset of the clock: it shows elapsed + phase
    freq,      \* the frequency the clock was last set to
    pending,   \* exchanges with their time stamp taken, not yet complete
    taken,     \* number of exchanges started
    running,   \* running_filter: None, or its offset and filter_time
    wander,    \* wander_filter: None, or its filter_time
    score,     \* wander_score
    last_sync, last_delay, fill,  \* measurement_error_estimator
    cur_frequency,
    timer,     \* whether the filter update timer of the port runs
    engaged,   \* history: the filter was given an offset
    entries    \* history: the pairs of exchanges the error estimator used

clock == <<elapsed, phase, freq>>
filter == <<running, wander, score, last_sync, last_delay, fill, cur_frequency>>
history == <<engaged, entries>>
vars == <<clock, pending, taken, filter, timer, history>>

Now == elapsed + phase

(* An exchange: its kind is what the measurement will hold. *)
Kinds == {"raw_sync_offset", "raw_delay_offset", "peer_delay"}
Offsets == -(MaxPhase + Noise)..(MaxPhase + Noise)
Exchanges ==
    [kind : Kinds, id : 1..MaxMeasurements, time : Times, offset : Offsets]
Stamps == [id : 1..MaxMeasurements, time : Times]

(* InnerFilter: ventry(0) of its state, and filter_time *)
InnerFilters == [offset : Offsets, time : Int]

Abs(x) == IF x < 0 THEN -x ELSE x
Signum(x) == IF x < 0 THEN -1 ELSE IF x > 0 THEN 1 ELSE 0
Smaller(x, y) == IF x < y THEN x ELSE y
Larger(x, y) == IF x < y THEN y ELSE x

(* KalmanFilter::new, on a clock that has some frequency *)
Init ==
    /\ elapsed = 0 /\ phase \in -MaxPhase..MaxPhase /\ freq \in -MaxFreqOffset..MaxFreqOffset
    /\ pending = {} /\ taken = 0
    /\ running = None /\ wander = None /\ score = 0
    /\ last_sync = None /\ last_delay = None /\ fill = 0
    /\ cur_frequency = None /\ timer = FALSE
    /\ engaged = FALSE /\ entries = {}

-----------------------------------------------------------------------------
(* The environment: time passes, and exchanges get their time stamps. *)

Tick ==
    /\ elapsed < MaxElapsed
    /\ elapsed' = elapsed + 1
    /\ UNCHANGED <<phase, freq, pending, taken, filter, timer, history>>

(* The port takes the time stamp that becomes event_time: of a Sync        *)
(* received, of a Delay_Req or of a Pdelay_Req sent.  One exchange of a    *)
(* kind is under way at a time.  The offset measured is the one that the   *)
(* clock has now.                                                          *)
TakeTimestamp(kind, offset) ==
    /\ taken < MaxMeasurements /\ Cardinality(pending) < MaxPending
    /\ taken' = taken + 1
    /\ pending' = {m \in pending : m.kind # kind}
                    \union {[kind |-> kind, id |-> taken + 1, time |-> Now, offset |-> offset]}
    /\ UNCHANGED <<clock, filter, timer, history>>

-----------------------------------------------------------------------------
(* MeasurementErrorEstimator::absorb_measurement: a sync and a delay       *)
(* offset taken close to each other give one entry; last_sync and          *)
(* last_delay are taken out, whether they are used or not.                 *)
Close(m, last) == last # None /\ Abs(m.time - last.time) < EstimateThreshold

Filled == Smaller(fill + 1, DataLen)

AbsorbKeepsLast(m) ==
    LET stamp == [id |-> m.id, time |-> m.time]
        last == IF m.kind = "raw_sync_offset" THEN last_delay ELSE last_sync
    IN  /\ fill' = IF m.kind = "peer_delay" \/ Close(m, last) THEN Filled ELSE fill
        /\ entries' = IF m.kind # "peer_delay" /\ Close(m, last)
                        THEN entries \union {{m.id, last.id}} ELSE entries
        /\ last_sync' = IF m.kind = "raw_sync_offset" /\ ~Close(m, last) THEN stamp
                        ELSE last_sync
        /\ last_delay' = IF m.kind = "raw_delay_offset" /\ ~Close(m, last) THEN stamp
                         ELSE last_delay

AbsorbMeasurement(m) ==
    LET stamp == [id |-> m.id, time |-> m.time]
        last == IF m.kind = "raw_sync_offset" THEN last_delay ELSE last_sync
    IN  /\ fill' = IF m.kind = "peer_delay" \/ Close(m, last) THEN Filled ELSE fill
        /\ entries' = IF m.kind # "peer_delay" /\ Close(m, last)
                        THEN entries \union {{m.id, last.id}} ELSE entries
        /\ last_sync' = CASE m.kind = "raw_sync_offset" ->
                                IF Close(m, last) THEN last_sync ELSE stamp
                          [] OTHER -> None
        /\ last_delay' = CASE m.kind = "raw_delay_offset" ->
                                IF Close(m, last) THEN last_delay ELSE stamp
                           [] OTHER -> None

-----------------------------------------------------------------------------
(* BaseFilter *)

New(offset, time) == [offset |-> offset, time |-> time]

(* progress_filtertime: a time before that of the filter is refused. *)
Later(filter_time, time) == IF time < filter_time THEN filter_time ELSE time

ProgressRunning(f, time) ==
    IF f = None THEN New(0, time) ELSE [f EXCEPT !.time = Later(@, time)]

ProgressWander(w, time) == IF w = None THEN time ELSE Later(w, time)

(* InnerFilter: the estimate moves towards what was measured; a peer delay *)
(* tells nothing of the offset.                                            *)
AbsorbedByInner(f, m) ==
    IF m.kind = "peer_delay" THEN {f}
    ELSE {[f EXCEPT !.offset = estimate] :
             estimate \in Smaller(f.offset, m.offset)..Larger(f.offset, m.offset)}

(* absorb_sync_offset, absorb_delay_offset, absorb_peer_delay: what a      *)
(* filter may become.  One whose state is too far from the measured offset *)
(* starts again from that.                                                 *)
Absorbed(f, m) ==
    IF m.kind # "peer_delay" /\ Abs(m.offset - f.offset) > StepThreshold
    THEN {New(m.offset, f.time)} ELSE AbsorbedByInner(f, m)

(* absorb_frequency_steer, at the time of the change *)
SteeredRunning(f) == ProgressRunning(f, Now)
SteeredWander(w) == ProgressWander(w, Now)

AfterFilterTime(time) == running # None => time >= running.time

(* wander_score_update, and what update_wander does with the score: the    *)
(* score saturates as an i8, and beyond the hysteresis the wander changes  *)
(* and the score starts again.  What the comparisons say is a choice:      *)
(* "keep" leaves the wander filter as it is, "error" renews it because the *)
(* measurement error went down, the others with a change of the score.     *)
Changes(kind) ==
    IF kind = "peer_delay" THEN {"keep"} ELSE {"keep", "error", "low", "mid", "high"}

Scored(change) ==
    LET s == CASE change = "low" -> IF score = -ScoreMax - 1 THEN score ELSE score - 1
               [] change = "high" -> IF score = ScoreMax THEN score ELSE score + 1
               [] change = "mid" -> score - Signum(score)
               [] OTHER -> score
    IN  IF s < -Hysteresis \/ s > Hysteresis THEN 0 ELSE s

(* update_wander: the wander filter follows to the event_time, or becomes  *)
(* a copy of the running filter, which has not followed yet.               *)
UpdateWander(time, change) ==
    CASE change = "keep" -> ProgressWander(wander, time)
      [] change # "keep" /\ running = None -> None
      [] OTHER -> running.time

-----------------------------------------------------------------------------
(* Steering.  cur and real are the frequency the filter takes the clock to *)
(* have and the one it has; set_frequency and step_clock may fail (ok).    *)

ClampAdjustment(current, error, bound) ==
    CASE current + error > bound -> bound - current
      [] current + error < -bound -> -bound - current
      [] OTHER -> error

Adjusted(cur, error) == cur + ClampAdjustment(cur, error, MaxFreqOffset)

ChangeFrequencyUnchecked(r, w, cur, real, error, ok) ==
    /\ cur_frequency' = IF cur = None THEN None ELSE Adjusted(cur, error)
    /\ freq' = IF cur # None /\ ok THEN Adjusted(cur, error) ELSE real
    /\ running' = r /\ wander' = w

(* change_frequency: both filters follow to the time of the change.        *)
ChangeFrequency(r, w, cur, real, error, ok) ==
    IF cur # None /\ ok
    THEN /\ freq' = Adjusted(cur, error) /\ cur_frequency' = Adjusted(cur, error)
         /\ running' = SteeredRunning(r)
         /\ wander' = SteeredWander(w)
    ELSE /\ freq' = real /\ cur_frequency' = cur
         /\ running' = r /\ wander' = w

ShiftRunningOnly(w, offset) == w

ShiftWander(w, offset) == IF w = None THEN None ELSE w - offset

(* absorb_offset_steer of the running filter, which loses its offset *)
ShiftRunning(r) == [r EXCEPT !.offset = 0, !.time = @ - r.offset]

(* step: the clock and both filters move by the same amount. *)
Step(r, w, cur, real, ok) ==
    /\ phase - r.offset \in -MaxPhase..MaxPhase
    /\ phase' = IF ok THEN phase - r.offset ELSE phase
    /\ running' = IF ok THEN ShiftRunning(r) ELSE r
    /\ wander' = IF ok THEN ShiftWander(w, r.offset) ELSE w
    /\ freq' = real /\ cur_frequency' = cur

(* The targets of steer: against the offset, and at most max_steer. *)
Targets(offset) ==
    CASE offset > 0 -> -MaxSteer..0
      [] offset < 0 -> 0..MaxSteer
      [] OTHER -> {0}

Estimates == -MaxFreqOffset..MaxFreqOffset

Errors(targets) == {target - estimate : target \in targets, estimate \in Estimates}

(* steer: a small offset is corrected by the frequency, and the port is    *)
(* asked to call update later; a large one by a step.                      *)
Steer(r, w, cur, real, ok) ==
    \/ /\ Abs(r.offset) < StepThreshold
       /\ \E error \in Errors(Targets(r.offset)) :
            ChangeFrequency(r, w, cur, real, error, ok)
       /\ timer' = TRUE
       /\ UNCHANGED phase
    \/ /\ Abs(r.offset) >= StepThreshold
       /\ Step(r, w, cur, real, ok)
       /\ UNCHANGED timer

FreqInitsAlways(kind) == IF cur_frequency = None THEN BOOLEAN ELSE {FALSE}

(* ensure_freq_init: the frequency is reset before the filter first        *)
(* controls the clock, for a measurement with an offset, if the clock      *)
(* allows it.                                                              *)
FreqInits(kind) ==
    IF kind # "peer_delay" /\ cur_frequency = None THEN BOOLEAN ELSE {FALSE}

-----------------------------------------------------------------------------
(* KalmanFilter::measurement, of an exchange that is complete *)

Dropped(m) ==
    /\ ~AfterFilterTime(m.time)
    /\ pending' = pending \ {m}
    /\ UNCHANGED <<clock, taken, filter, timer, history>>

Measurement(m, change, init, ok) ==
    /\ AfterFilterTime(m.time)
    /\ pending' = pending \ {m}
    /\ AbsorbMeasurement(m)
    /\ score' = Scored(change)
    /\ engaged' = (engaged \/ m.kind # "peer_delay")
    /\ \E r \in Absorbed(ProgressRunning(running, m.time), m) :
         LET w == UpdateWander(m.time, change) IN
         IF init
         THEN Steer(r, w, 0, 0, ok)
         ELSE Steer(r, w, cur_frequency, freq, ok)
    /\ UNCHANGED <<elapsed, taken>>

(* KalmanFilter::update, when the filter update timer of the port fires *)
Update(error, ok) ==
    /\ timer
    /\ timer' = FALSE
    /\ ChangeFrequency(running, wander, cur_frequency, freq, error, ok)
    /\ UNCHANGED <<elapsed, phase, pending, taken, score, last_sync, last_delay,
                   fill, engaged, entries>>

(* demobilize, and a new filter in its place: the port is no slave any     *)
(* more, and the exchanges with its master are given up.  The filter       *)
(* update timer is not stopped.                                            *)
Demobilize(error, ok) ==
    /\ \/ /\ cur_frequency # None /\ ok
          /\ freq' = Adjusted(cur_frequency, error)
       \/ /\ cur_frequency = None \/ ~ok
          /\ UNCHANGED freq
    /\ running' = None /\ wander' = None /\ score' = 0
    /\ last_sync' = None /\ last_delay' = None /\ fill' = 0
    /\ cur_frequency' = None /\ engaged' = FALSE
    /\ pending' = {m \in pending : m.kind = "peer_delay"}
    /\ UNCHANGED <<elapsed, phase, taken, timer, entries>>

Next ==
    \/ Tick
    \/ \E kind \in Kinds, error \in -Noise..Noise : TakeTimestamp(kind, phase + error)
    \/ \E m \in pending : Dropped(m)
    \/ \E m \in pending, ok \in BOOLEAN :
         \E change \in Changes(m.kind), init \in FreqInits(m.kind) :
            Measurement(m, change, init, ok)
    \/ \E error \in Errors({0}), ok \in BOOLEAN :
         Update(error, ok) \/ Demobilize(error, ok)

Spec == Init /\ [][Next]_vars

-----------------------------------------------------------------------------
TypeOK ==
    /\ elapsed \in 0..MaxElapsed /\ phase \in -MaxPhase..MaxPhase
    /\ freq \in -MaxFreqOffset..MaxFreqOffset
    /\ pending \subseteq Exchanges /\ taken \in 0..MaxMeasurements
    /\ running \in {None} \union InnerFilters
    /\ wander \in {None} \union Int
    /\ score \in -Hysteresis..Hysteresis
    /\ last_sync \in {None} \union Stamps /\ last_delay \in {None} \union Stamps
    /\ fill \in 0..DataLen
    /\ cur_frequency \in {None} \union (-MaxFreqOffset..MaxFreqOffset)
    /\ timer \in BOOLEAN /\ engaged \in BOOLEAN
    /\ entries \subseteq SUBSET (1..MaxMeasurements)

(* The wander filter is never ahead of the running filter, although it is  *)
(* renewed from it in the middle of a measurement and both move with every *)
(* step: the test of event_time against the running filter, at the head of *)
(* measurement, then keeps the wander filter from going back as well.      *)
WanderIsBehind ==
    wander # None => running # None /\ wander <= running.time

(* Every sync or delay offset takes part in at most one entry of the error *)
(* estimator: absorb_measurement takes out what it pairs.                  *)
PairedOnce ==
    /\ last_sync = None \/ last_delay = None
    /\ \A p, q \in entries : p # q => p \intersect q = {}

(* The frequency that the filter computes its corrections from is the one  *)
(* the clock has, whichever calls to the clock failed.                     *)
FrequencyIsKnown == cur_frequency # None => cur_frequency = freq

(* The filter is a servo: see Servo.  A filter without an offset leaves    *)
(* the clock alone, only measurements step it, and the frequency is within *)
(* max_freq_offset.                                                        *)
AsServo == INSTANCE Servo WITH
    Frequencies <- -MaxFreqOffset..MaxFreqOffset, Phases <- -MaxPhase..MaxPhase

ImplementsServo == AsServo!Spec
=============================================================================
