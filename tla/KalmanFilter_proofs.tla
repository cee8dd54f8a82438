------------------------ MODULE KalmanFilter_proofs ------------------------
(***************************************************************************)
(* Proofs about KalmanFilter, for all thresholds, bounds and noise: types, *)
(* the order of the two estimators, the frequency the filter believes in,  *)
(* and that the filter implements Servo.                                   *)
(***************************************************************************)
EXTENDS KalmanFilter, TLAPS

Filters == {None} \union InnerFilters
FilterTimes == {None} \union Int
Known == {None} \union Estimates

(* A wander filter w is not ahead of the running filter r. *)
Behind(r, w) == w # None => r # None /\ w <= r.time

-----------------------------------------------------------------------------
(* The operators *)

(* clamp_adjustment: whatever the correction, the sum is within bounds. *)
LEMMA AdjustedInBounds ==
    ASSUME NEW cur \in Estimates, NEW error \in Int
    PROVE  Adjusted(cur, error) \in Estimates
BY KalmanAssumption DEF Adjusted, ClampAdjustment, Estimates

(* The corrections that steer and update ask for are numbers. *)
LEMMA ErrorsAreIntegers ==
    /\ \A offset \in Int : Errors(Targets(offset)) \subseteq Int
    /\ Errors({0}) \subseteq Int
<1>1. ASSUME NEW offset \in Int
      PROVE  Targets(offset) \subseteq Int
  BY KalmanAssumption DEF Targets
<1>2. ASSUME NEW T, T \subseteq Int
      PROVE  Errors(T) \subseteq Int
  BY <1>2, KalmanAssumption DEF Errors, Estimates
<1> QED
  BY <1>1, <1>2

(* Zero, a measured offset and all between two offsets are offsets. *)
LEMMA OffsetsAreAnInterval ==
    /\ Offsets \subseteq Int
    /\ 0 \in Offsets
    /\ \A x, y \in Offsets : Smaller(x, y)..Larger(x, y) \subseteq Offsets
BY KalmanAssumption DEF Offsets, Smaller, Larger

(* progress_filtertime of both filters, at a time that is not before that  *)
(* of the running filter: they have that time afterwards.                  *)
LEMMA Progressed ==
    ASSUME NEW r \in Filters, NEW time \in Int
    PROVE  /\ ProgressRunning(r, time) \in InnerFilters
           /\ ProgressRunning(r, time).time >= time
           /\ r # None => /\ ProgressRunning(r, time).time >= r.time
                          /\ ProgressRunning(r, time).offset = r.offset
           /\ (r # None => time >= r.time) => ProgressRunning(r, time).time = time
           /\ r = None => ProgressRunning(r, time).offset = 0
<1>1. CASE r = None
  BY <1>1, OffsetsAreAnInterval DEF ProgressRunning, New, InnerFilters
<1>2. CASE r \in InnerFilters
  <2>1. r # None
    BY <1>2, KalmanAssumption, OffsetsAreAnInterval DEF InnerFilters
  <2> QED
    BY <1>2, <2>1 DEF ProgressRunning, Later, InnerFilters
<1> QED
  BY <1>1, <1>2 DEF Filters

(* The wander filter follows like the running filter, or starts at that time. *)
LEMMA WanderProgressed ==
    ASSUME NEW w \in FilterTimes, NEW time \in Int
    PROVE  /\ ProgressWander(w, time) \in Int
           /\ w = None => ProgressWander(w, time) = time
           /\ w # None => ProgressWander(w, time) = Later(w, time)
BY DEF ProgressWander, Later, FilterTimes

(* Absorbing a measurement leaves the time of a filter, and a peer delay   *)
(* its offset too.                                                         *)
LEMMA AbsorbedKeepsTime ==
    ASSUME NEW f \in InnerFilters, NEW m \in Exchanges, NEW r \in Absorbed(f, m)
    PROVE  /\ r \in InnerFilters
           /\ r.time = f.time
           /\ m.kind = "peer_delay" => r = f
<1>1. m.offset \in Offsets /\ f.offset \in Offsets
  BY DEF Exchanges, InnerFilters
<1>2. CASE m.kind = "peer_delay"
  BY <1>2 DEF Absorbed, AbsorbedByInner
<1>3. CASE m.kind # "peer_delay" /\ Abs(m.offset - f.offset) > StepThreshold
  BY <1>1, <1>3 DEF Absorbed, New, InnerFilters
<1>4. CASE m.kind # "peer_delay" /\ ~(Abs(m.offset - f.offset) > StepThreshold)
  <2>1. PICK estimate \in Smaller(f.offset, m.offset)..Larger(f.offset, m.offset) :
            r = [f EXCEPT !.offset = estimate]
    BY <1>4 DEF Absorbed, AbsorbedByInner
  <2>2. estimate \in Offsets
    BY <1>1, OffsetsAreAnInterval
  <2> QED
    BY <1>4, <2>1, <2>2 DEF InnerFilters
<1> QED
  BY <1>2, <1>3, <1>4

-----------------------------------------------------------------------------
(* Steering *)

(* What a filter keeps true when it calls its clock. *)
Steerable(r, w, cur, real) ==
    /\ r \in Filters /\ w \in FilterTimes /\ Behind(r, w)
    /\ cur \in Known /\ real \in Estimates
    /\ cur # None => cur = real

ClockTypeOK ==
    /\ elapsed \in 0..MaxElapsed /\ phase \in -MaxPhase..MaxPhase

(* The clock shows a number. *)
LEMMA NowIsInteger == ClockTypeOK => Now \in Int
BY KalmanAssumption DEF ClockTypeOK, Now

(* change_frequency, whether or not the clock refuses *)
LEMMA ChangeFrequencyKeeps ==
    ASSUME NEW r, NEW w, NEW cur, NEW real, NEW error \in Int, NEW ok,
           ClockTypeOK, Steerable(r, w, cur, real),
           ChangeFrequency(r, w, cur, real, error, ok)
    PROVE  /\ Steerable(running, wander, cur_frequency, freq)'
           /\ cur = None => cur_frequency' = None /\ freq' = real /\ running' = r
           /\ r # None => running' # None /\ running'.offset = r.offset
<1> USE DEF Steerable
<1>1. Now \in Int
  BY NowIsInteger
<1>2. CASE cur # None /\ ok
  <2>1. /\ freq' = Adjusted(cur, error) /\ cur_frequency' = Adjusted(cur, error)
        /\ running' = ProgressRunning(r, Now) /\ wander' = ProgressWander(w, Now)
    BY <1>2 DEF ChangeFrequency, SteeredRunning, SteeredWander
  <2>2. freq' \in Estimates /\ cur_frequency' \in Known
    BY <1>2, <2>1, AdjustedInBounds DEF Known
  <2>3. /\ running' \in InnerFilters /\ running' \in Filters
        /\ running'.time >= Now
        /\ r # None => running'.time >= r.time /\ running'.offset = r.offset
    BY <1>1, <2>1, Progressed DEF Filters
  <2>4. running' # None /\ running'.time \in Int
    BY <2>3, KalmanAssumption, OffsetsAreAnInterval DEF InnerFilters
  <2>5. /\ wander' \in Int /\ wander' \in FilterTimes
        /\ w = None => wander' = Now
        /\ w # None => wander' = Later(w, Now)
    BY <1>1, <2>1, WanderProgressed DEF FilterTimes
  <2>6. CASE w = None
    BY <2>1, <2>2, <2>3, <2>4, <2>5, <2>6, <1>2 DEF Behind
  <2>7. CASE w # None
    <3>1. w \in Int /\ r # None /\ w <= r.time
      BY <2>7 DEF FilterTimes, Behind
    <3>2. r \in InnerFilters /\ r.time \in Int
      BY <3>1 DEF Filters, InnerFilters
    <3>3. wander' <= running'.time
      BY <1>1, <2>3, <2>4, <2>5, <2>7, <3>1, <3>2 DEF Later
    <3> QED
      BY <2>1, <2>2, <2>3, <2>4, <2>5, <3>3, <1>2 DEF Behind
  <2> QED
    BY <2>6, <2>7
<1>3. CASE ~(cur # None /\ ok)
  BY <1>3 DEF ChangeFrequency, Behind
<1> QED
  BY <1>2, <1>3

(* step, whether or not the clock refuses *)
LEMMA StepKeeps ==
    ASSUME NEW r \in InnerFilters, NEW w, NEW cur, NEW real, NEW ok,
           Steerable(r, w, cur, real), Step(r, w, cur, real, ok)
    PROVE  /\ Steerable(running, wander, cur_frequency, freq)'
           /\ phase' \in {phase} \union -MaxPhase..MaxPhase
           /\ cur_frequency' = cur /\ freq' = real
           /\ r.offset = 0 => running'.offset = 0
<1> USE DEF Steerable
<1>1. /\ r.offset \in Int /\ r.offset \in Offsets /\ r.time \in Int /\ r # None
      /\ 0 \in Offsets
  BY OffsetsAreAnInterval, KalmanAssumption DEF InnerFilters
<1>2. CASE ok
  <2>1. running' = [r EXCEPT !.offset = 0, !.time = r.time - r.offset]
    BY <1>2 DEF Step, ShiftRunning
  <2>2. /\ running' \in InnerFilters
        /\ running'.offset = 0 /\ running'.time = r.time - r.offset
    <3>1. r = [offset |-> r.offset, time |-> r.time]
      BY DEF InnerFilters
    <3>2. running' = [offset |-> 0, time |-> r.time - r.offset]
      BY <2>1, <3>1
    <3> QED
      BY <1>1, <3>2 DEF InnerFilters
  <2>3. running' # None /\ running' \in Filters
    BY <2>2, KalmanAssumption, OffsetsAreAnInterval DEF InnerFilters, Filters
  <2>4. /\ w = None => wander' = None
        /\ w # None => wander' = w - r.offset
    BY <1>2 DEF Step, ShiftWander
  <2>5. wander' \in FilterTimes /\ Behind(running', wander')
    <3>1. CASE w = None
      BY <2>4, <3>1 DEF FilterTimes, Behind
    <3>2. CASE w # None
      <4>1. w \in Int /\ w <= r.time
        BY <3>2 DEF FilterTimes, Behind
      <4> QED
        BY <1>1, <2>2, <2>3, <2>4, <3>2, <4>1 DEF FilterTimes, Behind
    <3> QED
      BY <3>1, <3>2
  <2> QED
    BY <1>2, <2>2, <2>3, <2>5 DEF Step, Behind
<1>3. CASE ~ok
  BY <1>1, <1>3 DEF Step, Behind
<1> QED
  BY <1>2, <1>3

-----------------------------------------------------------------------------
(* The inductive invariant *)

Bookkeeping ==
    /\ ClockTypeOK
    /\ pending \subseteq Exchanges /\ taken \in 0..MaxMeasurements
    /\ score \in -Hysteresis..Hysteresis
    /\ last_sync \in {None} \union Stamps /\ last_delay \in {None} \union Stamps
    /\ fill \in 0..DataLen
    /\ timer \in BOOLEAN /\ engaged \in BOOLEAN
    /\ entries \subseteq SUBSET (1..MaxMeasurements)

(* The filter and its clock agree. *)
InStep == Steerable(running, wander, cur_frequency, freq)

(* A filter without an offset has no frequency and nothing to step. *)
Disengaged ==
    ~engaged => cur_frequency = None /\ (running # None => running.offset = 0)

IInv == Bookkeeping /\ InStep /\ Disengaged

(* The invariant implies what the runs check. *)
LEMMA IInvImplies ==
    IInv => TypeOK /\ WanderIsBehind /\ FrequencyIsKnown
BY DEF IInv, Bookkeeping, InStep, Steerable, Filters, FilterTimes, Known, Estimates,
       Behind, ClockTypeOK, TypeOK, WanderIsBehind, FrequencyIsKnown

(* A new filter satisfies the invariant. *)
LEMMA InitIInv == Init => IInv
<1> SUFFICES ASSUME Init PROVE IInv
  OBVIOUS
<1>1. Bookkeeping
  <2>1. ClockTypeOK /\ taken \in 0..MaxMeasurements /\ score \in -Hysteresis..Hysteresis
        /\ fill \in 0..DataLen
    BY KalmanAssumption DEF Init, ClockTypeOK
  <2>2. /\ pending \subseteq Exchanges /\ entries \subseteq SUBSET (1..MaxMeasurements)
        /\ last_sync \in {None} \union Stamps /\ last_delay \in {None} \union Stamps
        /\ timer \in BOOLEAN /\ engaged \in BOOLEAN
    BY DEF Init
  <2> QED
    BY <2>1, <2>2 DEF Bookkeeping
<1>2. InStep
  BY DEF Init, InStep, Steerable, Filters, FilterTimes, Known, Estimates, Behind
<1>3. Disengaged
  BY DEF Init, Disengaged
<1> QED
  BY <1>1, <1>2, <1>3 DEF IInv

(* What a step of the filter must do for the port that has it. *)
ServoStep == [AsServo!Next]_(AsServo!vars)

(* Time passes: nothing of the filter changes. *)
LEMMA TickKeeps == IInv /\ Tick => IInv' /\ ServoStep
<1> SUFFICES ASSUME IInv, Tick PROVE IInv' /\ ServoStep
  OBVIOUS
<1>1. elapsed' \in 0..MaxElapsed
  BY KalmanAssumption DEF Tick, IInv, Bookkeeping, ClockTypeOK
<1>2. /\ UNCHANGED <<phase, freq, pending, taken, timer, running, wander, score, last_sync,
                     last_delay, fill, cur_frequency, engaged, entries>>
  BY DEF Tick, filter, history
<1>3. Bookkeeping'
  BY <1>1, <1>2 DEF IInv, Bookkeeping, ClockTypeOK
<1>4. InStep' /\ Disengaged'
  BY <1>2 DEF IInv, InStep, Steerable, Behind, Disengaged
<1>5. ServoStep
  BY <1>2 DEF ServoStep, AsServo!vars
<1> QED
  BY <1>3, <1>4, <1>5 DEF IInv

(* A new exchange is stamped with a time and an offset of the clock. *)
LEMMA TakeTimestampKeeps ==
    ASSUME IInv, NEW kind \in Kinds, NEW error \in -Noise..Noise,
           TakeTimestamp(kind, phase + error)
    PROVE  IInv' /\ ServoStep
<1>1. /\ elapsed \in 0..MaxElapsed /\ phase \in -MaxPhase..MaxPhase
      /\ taken \in 0..MaxMeasurements /\ pending \subseteq Exchanges
  BY DEF IInv, Bookkeeping, ClockTypeOK
<1>2. taken' = taken + 1 /\ taken' \in 0..MaxMeasurements /\ taken + 1 \in 1..MaxMeasurements
  BY <1>1, KalmanAssumption DEF TakeTimestamp
<1>3. Now \in Times /\ phase + error \in Offsets
  BY <1>1, KalmanAssumption DEF Now, Times, Offsets
<1>4. [kind |-> kind, id |-> taken + 1, time |-> Now, offset |-> phase + error] \in Exchanges
  BY <1>2, <1>3 DEF Exchanges
<1>5. pending' \subseteq Exchanges
  BY <1>1, <1>4 DEF TakeTimestamp
<1>6. UNCHANGED <<elapsed, phase, freq, timer, running, wander, score, last_sync,
                  last_delay, fill, cur_frequency, engaged, entries>>
  BY DEF TakeTimestamp, clock, filter, history
<1>7. Bookkeeping'
  BY <1>2, <1>5, <1>6 DEF IInv, Bookkeeping, ClockTypeOK
<1>8. InStep' /\ Disengaged'
  BY <1>6 DEF IInv, InStep, Steerable, Behind, Disengaged
<1>9. ServoStep
  BY <1>6 DEF ServoStep, AsServo!vars
<1> QED
  BY <1>7, <1>8, <1>9 DEF IInv

(* A measurement from before filter_time is dropped. *)
LEMMA DroppedKeeps ==
    ASSUME IInv, NEW m \in pending, Dropped(m)
    PROVE  IInv' /\ ServoStep
<1>1. UNCHANGED <<elapsed, phase, freq, taken, timer, running, wander, score, last_sync,
                  last_delay, fill, cur_frequency, engaged, entries>>
  BY DEF Dropped, clock, filter, history
<1>2. pending' \subseteq pending
  BY DEF Dropped
<1>3. Bookkeeping'
  BY <1>1, <1>2 DEF IInv, Bookkeeping, ClockTypeOK
<1>4. InStep' /\ Disengaged'
  BY <1>1 DEF IInv, InStep, Steerable, Behind, Disengaged
<1>5. ServoStep
  BY <1>1 DEF ServoStep, AsServo!vars
<1> QED
  BY <1>3, <1>4, <1>5 DEF IInv

-----------------------------------------------------------------------------
(* measurement *)

(* absorb_measurement of the error estimator *)
LEMMA AbsorbKeepsTypes ==
    ASSUME Bookkeeping, NEW m \in Exchanges, AbsorbMeasurement(m)
    PROVE  /\ fill' \in 0..DataLen
           /\ last_sync' \in {None} \union Stamps /\ last_delay' \in {None} \union Stamps
           /\ entries' \subseteq SUBSET (1..MaxMeasurements)
<1> DEFINE last == IF m.kind = "raw_sync_offset" THEN last_delay ELSE last_sync
           stamp == [id |-> m.id, time |-> m.time]
<1>1. /\ fill' = IF m.kind = "peer_delay" \/ Close(m, last) THEN Filled ELSE fill
      /\ entries' = IF m.kind # "peer_delay" /\ Close(m, last)
                        THEN entries \union {{m.id, last.id}} ELSE entries
      /\ last_sync' \in {last_sync, stamp, None}
      /\ last_delay' \in {last_delay, stamp, None}
  BY DEF AbsorbMeasurement
<1>2. fill \in 0..DataLen /\ last \in {None} \union Stamps /\ stamp \in Stamps
  BY DEF Bookkeeping, Exchanges, Stamps
<1>3. Filled \in 0..DataLen
  BY <1>2, KalmanAssumption DEF Filled, Smaller
<1>4. Close(m, last) => {m.id, last.id} \subseteq 1..MaxMeasurements
  BY <1>2 DEF Close, Exchanges, Stamps
<1> HIDE DEF last, stamp
<1>5. fill' \in 0..DataLen
  BY <1>1, <1>2, <1>3
<1>6. entries' \subseteq SUBSET (1..MaxMeasurements)
  BY <1>1, <1>4 DEF Bookkeeping
<1>7. last_sync' \in {None} \union Stamps /\ last_delay' \in {None} \union Stamps
  BY <1>1, <1>2 DEF Bookkeeping
<1> QED
  BY <1>5, <1>6, <1>7

(* wander_score stays within the hysteresis, and so within its i8. *)
LEMMA ScoreInBounds ==
    ASSUME Bookkeeping, NEW change
    PROVE  Scored(change) \in -Hysteresis..Hysteresis
<1>1. score \in Int /\ Hysteresis \in Nat /\ ScoreMax \in Nat /\ score \in -Hysteresis..Hysteresis
  BY KalmanAssumption DEF Bookkeeping
<1>2. Signum(score) \in Int
  BY <1>1 DEF Signum
<1> HIDE DEF Signum
<1>3. CASE change = "low"
  BY <1>1, <1>3 DEF Scored
<1>4. CASE change = "high"
  BY <1>1, <1>4 DEF Scored
<1>5. CASE change = "mid"
  BY <1>1, <1>2, <1>5 DEF Scored
<1>6. CASE change \notin {"low", "high", "mid"}
  BY <1>1, <1>6 DEF Scored
<1> QED
  BY <1>3, <1>4, <1>5, <1>6

(* steer *)
LEMMA SteerKeeps ==
    ASSUME NEW r \in InnerFilters, NEW w, NEW cur, NEW real, NEW ok,
           ClockTypeOK, Steerable(r, w, cur, real), timer \in BOOLEAN,
           Steer(r, w, cur, real, ok)
    PROVE  /\ InStep'
           /\ phase' \in -MaxPhase..MaxPhase
           /\ timer' \in BOOLEAN
           /\ freq' \in {real} \union Estimates
           /\ cur = None => cur_frequency' = None /\ freq' = real
           /\ r.offset = 0 => running'.offset = 0 /\ phase' = phase
<1>1. r # None /\ r.offset \in Int
  BY KalmanAssumption, OffsetsAreAnInterval DEF InnerFilters
<1>2. phase \in -MaxPhase..MaxPhase /\ phase \in Int
  BY KalmanAssumption DEF ClockTypeOK
<1>3. ASSUME NEW error \in Errors(Targets(r.offset)),
             ChangeFrequency(r, w, cur, real, error, ok),
             timer' = TRUE, UNCHANGED phase
      PROVE  /\ InStep'
             /\ phase' \in -MaxPhase..MaxPhase
             /\ timer' \in BOOLEAN
             /\ freq' \in {real} \union Estimates
             /\ cur = None => cur_frequency' = None /\ freq' = real
             /\ r.offset = 0 => running'.offset = 0 /\ phase' = phase
  <2>1. error \in Int
    BY <1>1, ErrorsAreIntegers
  <2>2. /\ InStep'
        /\ cur = None => cur_frequency' = None /\ freq' = real
        /\ running'.offset = r.offset
    BY <1>1, <1>3, <2>1, ChangeFrequencyKeeps DEF InStep
  <2>3. freq' \in Estimates
    BY <2>2 DEF InStep, Steerable
  <2> QED
    BY <1>2, <1>3, <2>2, <2>3
<1>4. ASSUME Step(r, w, cur, real, ok), UNCHANGED timer
      PROVE  /\ InStep'
             /\ phase' \in -MaxPhase..MaxPhase
             /\ timer' \in BOOLEAN
             /\ freq' \in {real} \union Estimates
             /\ cur = None => cur_frequency' = None /\ freq' = real
             /\ r.offset = 0 => running'.offset = 0 /\ phase' = phase
  <2>1. /\ InStep'
        /\ phase' \in {phase} \union -MaxPhase..MaxPhase
        /\ cur_frequency' = cur /\ freq' = real
        /\ r.offset = 0 => running'.offset = 0
    BY <1>4, StepKeeps DEF InStep
  <2>2. r.offset = 0 => phase' = phase
    BY <1>2, <1>4 DEF Step
  <2> QED
    BY <1>2, <1>4, <2>1, <2>2
<1> QED
  BY <1>3, <1>4 DEF Steer

(* A measurement: the whole of KalmanFilter::measurement. *)
LEMMA MeasurementKeeps ==
    ASSUME IInv, NEW m \in pending, NEW change \in Changes(m.kind),
           NEW init \in FreqInits(m.kind), NEW ok \in BOOLEAN,
           Measurement(m, change, init, ok)
    PROVE  IInv' /\ ServoStep
<1> DEFINE cur == IF init THEN 0 ELSE cur_frequency
           real == IF init THEN 0 ELSE freq
           w == UpdateWander(m.time, change)
<1>1. PICK r \in Absorbed(ProgressRunning(running, m.time), m) : Steer(r, w, cur, real, ok)
  BY DEF Measurement
<1>2. m \in Exchanges /\ m.time \in Int
  BY KalmanAssumption DEF IInv, Bookkeeping, Exchanges, Times
<1>3. /\ running \in Filters /\ wander \in FilterTimes /\ Behind(running, wander)
      /\ cur_frequency \in Known /\ freq \in Estimates
      /\ cur_frequency # None => cur_frequency = freq
      /\ running # None => running.time \in Int
  BY DEF IInv, InStep, Steerable, Filters, InnerFilters
<1>4. /\ ProgressRunning(running, m.time) \in InnerFilters
      /\ ProgressRunning(running, m.time).time = m.time
      /\ running # None => ProgressRunning(running, m.time).offset = running.offset
      /\ running = None => ProgressRunning(running, m.time).offset = 0
  BY <1>2, <1>3, Progressed DEF Measurement, AfterFilterTime
<1>5. /\ r \in InnerFilters /\ r.time = m.time
      /\ m.kind = "peer_delay" => r = ProgressRunning(running, m.time)
  BY <1>1, <1>2, <1>4, AbsorbedKeepsTime
<1>6. r # None /\ r \in Filters
  BY <1>5, KalmanAssumption, OffsetsAreAnInterval DEF InnerFilters, Filters
<1>7. w \in FilterTimes /\ Behind(r, w)
  <2>1. CASE change = "keep"
    <3>1. w = ProgressWander(wander, m.time)
      BY <2>1 DEF UpdateWander
    <3>2. ProgressWander(wander, m.time) = m.time
      <4>1. CASE wander = None
        BY <1>2, <1>3, <4>1, WanderProgressed
      <4>2. CASE wander # None
        <5>1. wander \in Int /\ wander <= m.time
          BY <1>2, <1>3, <4>2 DEF FilterTimes, Behind, Measurement, AfterFilterTime
        <5>2. Later(wander, m.time) = m.time
          BY <1>2, <5>1 DEF Later
        <5> QED
          BY <1>2, <1>3, <4>2, <5>2, WanderProgressed
      <4> QED
        BY <4>1, <4>2
    <3> QED
      BY <1>2, <1>5, <1>6, <3>1, <3>2 DEF FilterTimes, Behind
  <2>2. CASE change # "keep" /\ running = None
    BY <2>2 DEF UpdateWander, FilterTimes, Behind
  <2>3. CASE change # "keep" /\ running # None
    BY <1>3, <1>5, <1>6, <2>3 DEF UpdateWander, FilterTimes, Behind, Measurement, AfterFilterTime
  <2> QED
    BY <2>1, <2>2, <2>3
<1>8. 0 \in Estimates /\ 0 # None
  BY KalmanAssumption DEF Estimates
<1>9. Steerable(r, w, cur, real)
  BY <1>3, <1>6, <1>7, <1>8 DEF Steerable, Known
<1> HIDE DEF w, cur, real
<1>10. ClockTypeOK /\ timer \in BOOLEAN /\ engaged \in BOOLEAN
  BY DEF IInv, Bookkeeping
<1>11. /\ InStep'
       /\ phase' \in -MaxPhase..MaxPhase
       /\ timer' \in BOOLEAN
       /\ freq' \in {real} \union Estimates
       /\ cur = None => cur_frequency' = None /\ freq' = real
       /\ r.offset = 0 => running'.offset = 0 /\ phase' = phase
  BY <1>1, <1>5, <1>9, <1>10, SteerKeeps
<1>12. Bookkeeping'
  <2>1. /\ fill' \in 0..DataLen
        /\ last_sync' \in {None} \union Stamps /\ last_delay' \in {None} \union Stamps
        /\ entries' \subseteq SUBSET (1..MaxMeasurements)
    BY <1>2, AbsorbKeepsTypes DEF IInv, Measurement
  <2>2. score' \in -Hysteresis..Hysteresis
    BY ScoreInBounds DEF IInv, Measurement
  <2>3. elapsed' = elapsed /\ taken' = taken /\ pending' \subseteq pending /\ engaged' \in BOOLEAN
    BY DEF Measurement
  <2> QED
    BY <1>11, <2>1, <2>2, <2>3 DEF IInv, Bookkeeping, ClockTypeOK
<1>13. ~engaged' => /\ cur_frequency' = None /\ running'.offset = 0
                    /\ freq' = freq /\ phase' = phase
  <2> SUFFICES ASSUME ~engaged'
               PROVE  /\ cur_frequency' = None /\ running'.offset = 0
                      /\ freq' = freq /\ phase' = phase
    OBVIOUS
  <2>1. ~engaged /\ m.kind = "peer_delay"
    BY DEF Measurement
  <2>2. init = FALSE
    BY <2>1 DEF FreqInits
  <2>3. cur = None /\ real = freq
    BY <2>1, <2>2 DEF cur, real, IInv, Disengaged
  <2>4. r.offset = 0
    BY <1>4, <1>5, <2>1 DEF IInv, Disengaged
  <2> QED
    BY <1>11, <2>3, <2>4
<1>14. ServoStep
  <2>1. engaged' \in {engaged, TRUE}
    BY <1>10 DEF Measurement
  <2>2. freq' \in Estimates
    BY <1>11 DEF InStep, Steerable
  <2>3. AsServo!Measurement
    BY <1>11, <1>13, <2>1, <2>2 DEF AsServo!Measurement, Estimates
  <2> QED
    BY <2>3 DEF ServoStep, AsServo!Next
<1> QED
  BY <1>11, <1>12, <1>13, <1>14 DEF IInv, Disengaged

-----------------------------------------------------------------------------
(* update and demobilize *)
LEMMA UpdateKeeps ==
    ASSUME IInv, NEW error \in Errors({0}), NEW ok \in BOOLEAN, Update(error, ok)
    PROVE  IInv' /\ ServoStep
<1>1. error \in Int
  BY ErrorsAreIntegers
<1>2. UNCHANGED <<elapsed, phase, pending, taken, score, last_sync, last_delay, fill,
                  engaged, entries>> /\ timer' = FALSE
  BY DEF Update
<1>3. /\ InStep'
      /\ cur_frequency = None =>
            cur_frequency' = None /\ freq' = freq /\ running' = running
  BY <1>1, ChangeFrequencyKeeps DEF Update, IInv, InStep, Bookkeeping
<1>4. Bookkeeping'
  BY <1>2 DEF IInv, Bookkeeping, ClockTypeOK
<1>5. Disengaged'
  BY <1>2, <1>3 DEF IInv, Disengaged
<1>6. freq' \in Estimates
  BY <1>3 DEF InStep, Steerable
<1>7. ServoStep
  <2>1. CASE engaged
    BY <1>2, <1>6, <2>1 DEF ServoStep, AsServo!Next, AsServo!Update, Estimates
  <2>2. CASE ~engaged
    BY <1>2, <1>3, <2>2 DEF IInv, Disengaged, ServoStep, AsServo!vars
  <2> QED
    BY <2>1, <2>2
<1> QED
  BY <1>3, <1>4, <1>5, <1>7 DEF IInv

(* demobilize, and the new filter. *)
LEMMA DemobilizeKeeps ==
    ASSUME IInv, NEW error \in Errors({0}), NEW ok \in BOOLEAN, Demobilize(error, ok)
    PROVE  IInv' /\ ServoStep
<1>1. error \in Int
  BY ErrorsAreIntegers
<1>2. /\ running' = None /\ wander' = None /\ score' = 0
      /\ last_sync' = None /\ last_delay' = None /\ fill' = 0
      /\ cur_frequency' = None /\ engaged' = FALSE
      /\ pending' \subseteq pending
      /\ UNCHANGED <<elapsed, phase, taken, timer, entries>>
  BY DEF Demobilize
<1>3. /\ freq' \in Estimates
      /\ cur_frequency = None => freq' = freq
  BY <1>1, AdjustedInBounds DEF Demobilize, IInv, InStep, Steerable, Known
<1>4. Bookkeeping'
  <2>1. score' \in -Hysteresis..Hysteresis /\ fill' \in 0..DataLen
    BY <1>2, KalmanAssumption
  <2> QED
    BY <1>2, <2>1 DEF IInv, Bookkeeping, ClockTypeOK
<1>5. InStep'
  BY <1>2, <1>3 DEF InStep, Steerable, Filters, FilterTimes, Known, Behind
<1>6. Disengaged'
  BY <1>2 DEF Disengaged
<1>7. AsServo!Demobilize
  BY <1>2, <1>3 DEF IInv, Disengaged, AsServo!Demobilize, Estimates
<1> QED
  BY <1>4, <1>5, <1>6, <1>7 DEF IInv, ServoStep, AsServo!Next

-----------------------------------------------------------------------------
(* Every step keeps the invariant and is a step of Servo, or none. *)
LEMMA NextKeeps == IInv /\ [Next]_vars => IInv' /\ ServoStep
<1> SUFFICES ASSUME IInv, [Next]_vars PROVE IInv' /\ ServoStep
  OBVIOUS
<1>1. CASE Tick
  BY <1>1, TickKeeps
<1>2. ASSUME NEW kind \in Kinds, NEW error \in -Noise..Noise,
             TakeTimestamp(kind, phase + error)
      PROVE  IInv' /\ ServoStep
  BY <1>2, TakeTimestampKeeps
<1>3. ASSUME NEW m \in pending, Dropped(m)
      PROVE  IInv' /\ ServoStep
  BY <1>3, DroppedKeeps
<1>4. ASSUME NEW m \in pending, NEW ok \in BOOLEAN, NEW change \in Changes(m.kind),
             NEW init \in FreqInits(m.kind), Measurement(m, change, init, ok)
      PROVE  IInv' /\ ServoStep
  BY <1>4, MeasurementKeeps
<1>5. ASSUME NEW error \in Errors({0}), NEW ok \in BOOLEAN, Update(error, ok)
      PROVE  IInv' /\ ServoStep
  BY <1>5, UpdateKeeps
<1>6. ASSUME NEW error \in Errors({0}), NEW ok \in BOOLEAN, Demobilize(error, ok)
      PROVE  IInv' /\ ServoStep
  BY <1>6, DemobilizeKeeps
<1>7. CASE UNCHANGED vars
  <2>1. UNCHANGED <<elapsed, phase, freq, pending, taken, timer, running, wander, score,
                    last_sync, last_delay, fill, cur_frequency, engaged, entries>>
    BY <1>7 DEF vars, clock, filter, history
  <2>2. Bookkeeping'
    BY <2>1 DEF IInv, Bookkeeping, ClockTypeOK
  <2>3. InStep' /\ Disengaged'
    BY <2>1 DEF IInv, InStep, Steerable, Behind, Disengaged
  <2>4. ServoStep
    BY <2>1 DEF ServoStep, AsServo!vars
  <2> QED
    BY <2>2, <2>3, <2>4 DEF IInv
<1> QED
  BY <1>1, <1>2, <1>3, <1>4, <1>5, <1>6, <1>7 DEF Next

(* IInv holds always. *)
LEMMA Invariance == Spec => []IInv
<1>1. IInv /\ [Next]_vars => IInv'
  BY NextKeeps
<1> QED
  BY <1>1, InitIInv, PTL DEF Spec

(* The state of the filter stays within its types, for every configuration *)
(* that is allowed: in particular the frequency within max_freq_offset,    *)
(* the score within its i8 and the error estimator within its array.       *)
THEOREM KalmanTypeCorrect == Spec => []TypeOK
BY Invariance, IInvImplies, PTL

(* The test of event_time at the head of measurement protects both         *)
(* estimators of the filter, through steps and failed calls to the clock.  *)
THEOREM WanderStaysBehind == Spec => []WanderIsBehind
BY Invariance, IInvImplies, PTL

(* Whichever calls of set_frequency and step_clock fail, the filter takes  *)
(* the clock to have the frequency that it has.                            *)
THEOREM FrequencyStaysKnown == Spec => []FrequencyIsKnown
BY Invariance, IInvImplies, PTL

(* The filter is what a port expects of one: it implements Servo.          *)
THEOREM KalmanImplementsServo == Spec => ImplementsServo
<1>1. Init => AsServo!Init
  BY DEF Init, AsServo!Init
<1>2. IInv /\ [Next]_vars => [AsServo!Next]_(AsServo!vars)
  BY NextKeeps DEF ServoStep
<1> QED
  BY <1>1, <1>2, Invariance, PTL DEF Spec, ImplementsServo, AsServo!Spec

-----------------------------------------------------------------------------
(* The pairs of the error estimator: a measurement that may still be used, *)
(* stored or under way, is in none of them.                                *)
Unused(id) == id \in 1..taken /\ \A p \in entries : id \notin p

StoredOK(last) == last # None => Unused(last.id) /\ \A m \in pending : m.id # last.id

PairInv ==
    /\ PairedOnce
    /\ \A m, n \in pending : m.id = n.id => m = n
    /\ \A m \in pending : Unused(m.id)
    /\ StoredOK(last_sync) /\ StoredOK(last_delay)
    /\ \A p \in entries : p \subseteq 1..taken

(* absorb_measurement takes out what it pairs. *)
LEMMA AbsorbKeepsPairs ==
    ASSUME IInv, PairInv, NEW m \in pending, AbsorbMeasurement(m),
           pending' = pending \ {m}, taken' = taken
    PROVE  PairInv'
<1> DEFINE last == IF m.kind = "raw_sync_offset" THEN last_delay ELSE last_sync
           stamp == [id |-> m.id, time |-> m.time]
           pair == {m.id, last.id}
<1>1. m \in Exchanges
  BY DEF IInv, Bookkeeping
<1>2. CASE m.kind # "peer_delay" /\ Close(m, last)
  <2>1. /\ entries' = entries \union {pair}
        /\ last # None
        /\ last_sync' = None /\ last_delay' = None
    BY <1>1, <1>2 DEF AbsorbMeasurement, Close, PairInv, PairedOnce, Exchanges, Kinds
  <2>2. /\ Unused(m.id) /\ Unused(last.id) /\ m.id # last.id
        /\ \A n \in pending' : n.id \notin pair /\ Unused(n.id)
    BY <2>1 DEF PairInv, StoredOK
  <2> HIDE DEF last
  <2>3. pair \subseteq 1..taken /\ \A p \in entries : p \intersect pair = {}
    BY <2>2 DEF Unused
  <2> HIDE DEF pair
  <2>4. PairedOnce'
    BY <2>1, <2>3 DEF PairInv, PairedOnce
  <2>5. \A n \in pending' : Unused(n.id)'
    BY <2>1, <2>2 DEF Unused
  <2>6. StoredOK(last_sync)' /\ StoredOK(last_delay)'
    BY <2>1 DEF StoredOK
  <2>7. \A p \in entries' : p \subseteq 1..taken'
    BY <2>1, <2>3 DEF PairInv
  <2> QED
    BY <2>4, <2>5, <2>6, <2>7 DEF PairInv
<1>3. CASE ~(m.kind # "peer_delay" /\ Close(m, last))
  <2>1. /\ entries' = entries
        /\ last_sync' \in {stamp, None} /\ last_delay' \in {stamp, None}
        /\ last_sync' = None \/ last_delay' = None
    BY <1>1, <1>3 DEF AbsorbMeasurement, Exchanges, Kinds
  <2>2. \A id : Unused(id)' <=> Unused(id)
    BY <2>1 DEF Unused
  <2>3. PairedOnce'
    BY <2>1 DEF PairInv, PairedOnce
  <2>4. stamp.id = m.id /\ Unused(m.id) /\ \A n \in pending' : n.id # m.id
    BY DEF PairInv
  <2> HIDE DEF stamp, last
  <2>5. StoredOK(last_sync)' /\ StoredOK(last_delay)'
    BY <2>1, <2>2, <2>4 DEF StoredOK
  <2>6. \A p \in entries' : p \subseteq 1..taken'
    BY <2>1 DEF PairInv
  <2> QED
    BY <2>2, <2>3, <2>5, <2>6 DEF PairInv
<1> QED
  BY <1>2, <1>3

(* Every step keeps the pairs disjoint. *)
LEMMA NextKeepsPairs == IInv /\ PairInv /\ [Next]_vars => PairInv'
<1> SUFFICES ASSUME IInv, PairInv, [Next]_vars PROVE PairInv'
  OBVIOUS
<1>1. ASSUME pending' \subseteq pending, UNCHANGED <<taken, entries>>,
             last_sync' \in {last_sync, None}, last_delay' \in {last_delay, None}
      PROVE  PairInv'
  BY <1>1 DEF PairInv, PairedOnce, StoredOK, Unused
<1>2. CASE Tick
  BY <1>1, <1>2 DEF Tick, filter, history
<1>3. ASSUME NEW kind \in Kinds, NEW error \in -Noise..Noise,
             TakeTimestamp(kind, phase + error)
      PROVE  PairInv'
  <2> DEFINE new == [kind |-> kind, id |-> taken + 1, time |-> Now, offset |-> phase + error]
  <2>1. taken \in Nat /\ taken' = taken + 1 /\ new.id = taken + 1
    BY <1>3, KalmanAssumption DEF IInv, Bookkeeping, TakeTimestamp
  <2>2. UNCHANGED <<last_sync, last_delay, entries>>
    BY <1>3 DEF TakeTimestamp, filter, history
  <2>3. pending' \subseteq pending \union {new}
    BY <1>3 DEF TakeTimestamp
  <2>4. 1..taken \subseteq 1..taken' /\ taken + 1 \notin 1..taken /\ taken + 1 \in 1..taken'
    BY <2>1
  <2> HIDE DEF new
  <2>n. PICK next : next = taken + 1
    OBVIOUS
  <2>5. Unused(next)' /\ \A id : Unused(id) => Unused(id)' /\ id # next
    BY <2>2, <2>4, <2>n DEF Unused, PairInv
  <2>6. \A m, n \in pending' : m.id = n.id => m = n
    BY <2>1, <2>3, <2>n, <2>5 DEF PairInv
  <2>7. \A m \in pending' : Unused(m.id)'
    BY <2>1, <2>3, <2>n, <2>5 DEF PairInv
  <2>8. StoredOK(last_sync)' /\ StoredOK(last_delay)'
    BY <2>1, <2>2, <2>3, <2>n, <2>5 DEF PairInv, StoredOK
  <2>9. PairedOnce' /\ \A p \in entries' : p \subseteq 1..taken'
    BY <2>2, <2>4 DEF PairInv, PairedOnce
  <2> QED
    BY <2>6, <2>7, <2>8, <2>9 DEF PairInv
<1>4. ASSUME NEW m \in pending, Dropped(m)
      PROVE  PairInv'
  BY <1>1, <1>4 DEF Dropped, filter, history
<1>5. ASSUME NEW m \in pending, NEW ok \in BOOLEAN, NEW change \in Changes(m.kind),
             NEW init \in FreqInits(m.kind), Measurement(m, change, init, ok)
      PROVE  PairInv'
  BY <1>5, AbsorbKeepsPairs DEF Measurement
<1>6. ASSUME NEW error \in Errors({0}), NEW ok \in BOOLEAN, Update(error, ok)
      PROVE  PairInv'
  BY <1>1, <1>6 DEF Update
<1>7. ASSUME NEW error \in Errors({0}), NEW ok \in BOOLEAN, Demobilize(error, ok)
      PROVE  PairInv'
  BY <1>1, <1>7 DEF Demobilize
<1>8. CASE UNCHANGED vars
  BY <1>1, <1>8 DEF vars, filter, history
<1> QED
  BY <1>2, <1>3, <1>4, <1>5, <1>6, <1>7, <1>8 DEF Next

(* For any number of exchanges, steps and changes of master, no            *)
(* measurement enters the error estimator twice.                           *)
THEOREM NeverPairedTwice == Spec => []PairedOnce
<1>1. Init => PairInv
  BY DEF Init, PairInv, PairedOnce, StoredOK
<1>2. PairInv => PairedOnce
  BY DEF PairInv
<1> QED
  BY <1>1, <1>2, NextKeepsPairs, Invariance, PTL DEF Spec
=============================================================================
