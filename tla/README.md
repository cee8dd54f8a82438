# A TLA+ model of statime

statime is a PTP (IEEE 1588) implementation: a library (`statime/`) that holds
the protocol and does no I/O, and two applications that run it, a Linux daemon
(`statime-linux/`) and one for a microcontroller (`statime-stm32/`). These
modules model the protocol core of the library, its message formats and time
arithmetic, the control of its Kalman filter, and the parts of the applications
in which tasks meet. TLC checks them on small instances; TLAPS proves
the main safety properties for instances of any size.
`PROJECT.json` has the map from definitions to source lines, the runs, the
mutants, the hazards and the theorems.

## The system

| Component | Source | State | Operations |
|---|---|---|---|
| PTP instance | `statime/src/ptp_instance.rs` | default, current, parent, time properties and path trace data sets | `bmca`, `set_clock_quality`, `set_slave_only` |
| Port | `statime/src/port/` | port state, slave exchanges, peer delay exchange, mean delay, sequence ids, multiport disable | one handler per timer and message; `start_bmca`, `end_bmca` |
| BMCA | `statime/src/bmc/` | foreign master list of each port | register, age, take the erbest, compare, decide |
| Filters | `statime/src/filters/` | Kalman or basic servo | `measurement`, `update`, `demobilize` |
| Overlay clock | `statime/src/overlay_clock.rs` | shift, last change, frequency | `now`, `set_frequency`, `step_clock` |
| Messages, TLVs | `statime/src/datastructures/` | none: octets | constructors, `serialize`, `deserialize`, `TlvSet`, its iterator and builder |
| Times | `statime/src/time/`, `datastructures/common/` | none: fixed-point numbers | conversions between `Time`, `Duration`, `WireTimestamp`, `TimeInterval` |
| Main task, port tasks | `statime-linux/src/main.rs` | channels of ports, the order to stop | `run`, `port_task`, `ethernet_port_task` |
| TLV forwarder | `statime-linux/src/tlvforwarder.rs` | broadcast channel, peeked TLV | `forward`, `next_if_smaller`, `empty` |
| Clock task | `statime-linux/src/main.rs` | mode, filter, update timer | `clock_task` |
| stm32 application | `statime-stm32/src/` | the port and its mode, channels of timer resets and packet ids | one task each for the BMCA, the two sockets, the timers, send timestamps |
| Configuration, observability, sockets | the rest | none that matters here | |

How they interact. A port never calls out: its handlers return *actions* (send
this, reset that timer, forward this TLV) that the port task carries out. A
timer therefore runs only if some handler asked for it. Ports of one instance
share its data sets behind a lock and are otherwise independent; each runs in a
task of its own. At every BMCA interval the main task raises an order to stop,
receives every port through a channel, runs `instance.bmca()` on all of them,
which decides on every port's state and rewrites the shared data sets, and
sends the ports back. The network loses, delays, reorders and duplicates
messages, and the send timestamp of a message comes back by another path than
the answer to it.

What is hard: handlers of different ports interleave on shared data sets;
copies of one fact (who the master is) are kept in several places; nothing
moves a port whose timer was not started; halves of an exchange arrive in any
order while the master changes; masters restart with old sequence ids or vanish;
two filters steer one clock while its owner changes; calls to the clock fail;
the tasks wait for each other; queues are bounded. `PROJECT.json` lists these
as hazards, each at its line.

What makes the parts correct:

* instance and ports: one slave at most, that follows the parent of the data
  sets; the parent is acceptable; `bmca` makes a port a slave only of a master that
  it still hears; configuration
  (master-only, slave-only) is respected; timers run; when all masters are gone
  the instance takes over;
* best master: the fold of pairwise comparisons yields the best message, as long as
  there is one;
* foreign master list: bounded, ordered, the erbest survives being taken out and
  put back, silent masters are forgotten in time;
* exchanges: the times that make a measurement belong together;
* tasks: a port is at one place, the BMCA has all of them, nobody waits for ever;
* TLVs: in order and once;
* filter: it leaves the clock alone without a master, its two estimators keep
  their order, and it knows the frequency of the clock whatever call failed;
* clocks: in the end one filter per clock; the overlay clock does not jump when its
  frequency is set;
* messages: read as they were sent, relayed as they were understood; validated
  TLVs can be walked;
* times: the fractions of a nanosecond survive the way through messages;
* stm32: no timer that a duty depends on is lost between the tasks.

## The modules

Each component's module is instantiated for TLC by the module `MC...` of the
same name. In every module a *mutated* definition stands before the one it
mutates (`RegistersAny` before `Registers`); it is used by no specification and
serves to show that the properties tell the difference.

**`DatasetComparison`** (operators only): the comparison of data sets, with its
cases for the same and for different grandmasters, and that of announce
messages. Grandmaster attributes are a sequence of five numbers in the order in
which the code compares them; clock identities are numbers.

**`FindBest`**: the fold `max_by` of `find_best_announce_message`, one message
at a time in any order (`FoldSpec`), against a reference ranking (`RankOf`). Messages
that name one grandmaster with different attributes are among the inputs: the
comparison then has circles, and the ranking is asked for only of messages that
`Agree`.

**`PtpInstance`**: the core. Variables are the port states, `remote_master` of
the slave state, `multiport_disable`, the running timers, the data sets (parent,
current and time properties are always written together and are one record), and
the set of debug assertions that have failed. One action per timer handler,
`HandleAnnounce` for the whole announce handler, two actions for the peer delay
events that move the port state, `Bmca` for a run over all ports,
`SetClockQuality` and `SetSlaveOnly`. Handlers take `&mut self` and the data sets
are locked, so a handler is one step; a run of `bmca()` has all ports
(`BmcaRendezvous` shows that), so it is one too. Abstracted: a timer is running
or not and may go off at any time; the foreign master list is reduced to which
messages may be in it and their ages, counted up in runs of `bmca()` until they are
dropped, and which of them is the erbest is left open (`ForeignMaster` has the list
itself). The ebest is a message that some order of the comparisons ends with: the
best one, or any one of a circle. `u16` addition wraps as in a release build.

**`ForeignMaster`**: the list of one port with sequence ids that roll over, ages,
threshold and capacities, the masters that send and restart, and the network.
`silence` is a history variable: the number of BMCA runs since a master's last
accepted message.

**`SlavePort`**: Sync, FollowUp, DelayResp and send timestamps of a port with the
end-to-end mechanism, the two half exchanges, and changes of master at any
moment. A time is modelled by the event it is the time of, so that a measurement
tells which events it was made from. The filter is the set of measurements it
got since it was new, and is a Kalman or a basic one (`kalman`): they differ in when
they return a mean delay (`FilterUpdates`), which the port keeps in `mean_delay` and
subtracts from later sync offsets. `mean_delay` is the set of masters it was computed
from; the port never resets it, so it outlives a change of master. The filter's
update timer (`HandleFilterUpdateTimer`) writes it too. Ids do not wrap: the bounds
are far below 2^16.

**`PeerDelay`**: the peer delay exchange of one port with several responders, the
faulty state, and the link. The ids wrap; nothing of an exchange with the same
id, 2^16 requests earlier, is still on its way. Losses are decided when a
message is sent, which nobody can tell from a later loss. From some moment on
one device alone may be left and nothing be lost (`LinkIsRepaired`).

**`BmcaRendezvous`**: main task and port tasks, channels of capacity one, the
watch channel with the order to stop. Port k belongs to task k. It implements
**`BmcaRounds`**, what `PtpInstance` takes for granted: in every round between two
runs of `bmca()` each task has its own port exactly once, and `bmca()` is a step by
itself. The refinement mapping (`TurnOf`) says of each port, by the channel or the
task it is in, whether its turn is over, has yet to come or is now.

**`TlvForwarder`**: the broadcast channel with lag, the peeked TLV, the loop of
`send_announce` with its assertion, and the emptying after the BMCA in both kinds
of port task. TLVs are numbered; sizes are small numbers.

**`Servo`**: the abstract specification of a filter, as a port uses it: it touches
the clock only between the first offset from a master and `demobilize`, steps it
only for a measurement, and asks for frequencies that are allowed.

**`KalmanFilter`**: the control of `filters/kalman.rs`. The state is that of the
code (the running filter with its offset and time, the time of the wander filter,
the score, the error estimator's two stored measurements and fill, the frequency)
together with the clock it steers and the exchanges that are under way. Numbers
are small integers, an estimate becomes any value between what it was and what
was measured, and each comparison of floating point values is a choice. Calls to
the clock may fail, the update timer may fire late, exchanges may straddle steps.
`ImplementsServo` is the refinement: with the identity as its mapping, every
behaviour of `KalmanFilter` is one of `Servo`. `engaged` and `entries` are history
variables. The measurements of the clock task, which hold two offsets at once,
are not among the inputs.

**`ClockSteering`**: ports, hardware clocks with their tasks, the system clock, and
the watch channels of modes. Filters are servos with the frequency they believe
in. `AtMostOneSlave` of `PtpInstance` is assumed of the BMCA here.

**`TimeTypes`**: fixed-point times, wire timestamps and correction fields, with
their units as constants.

**`TlvSet`, `WireFormat`, `Messages`**: sets of TLVs with the validating loop and
the iterator, each a recursive function of the offset; the octets of the header
and of the ten bodies, each as the table of where `serialize` puts a field and
where `deserialize` looks for it; the constructors of messages, and what the data
sets take from an announce. `IsSent` and `IsRelayed` say which messages a port can
make and pass on: any numbers and codes in the fields, TLVs of even lengths that
do not end in an empty one (the code refuses those) and fit the length field. What is
passed on of the TLVs may end in an empty one. An octet
is a pair of a value and its place in the field, so a field that is read shifted
or in another width is garbage, however large numbers are on the real wire.

**`Exchange`**: the arithmetic of one exchange end to end: constructor, serialize, a
transparent clock on the way, deserialize, and the sums of `port/slave.rs`. Its
properties speak of exchanges that are `Measurable` (all times fit a wire
timestamp); that their messages are read as they were sent is `ExchangeIsRead`,
part of `ReadAsSent`.

**`OverlayClock`**: time, frequency changes and steps, in integers. The
frequencies are large (twice and four times the speed) instead of parts per
million so that a few ticks show an effect and all divisions are exact.

**`Stm32App`**: the tasks of the microcontroller application, its two channels and
the listener for send timestamps. What is done under the lock of the port is one
action. Event messages are Sync, DelayReq, a PDelayReq, which every port answers and
whose send timestamp makes a follow up, and general messages that come in on the event
socket. A panic (a full channel, a port that is not there) stops the device.

**`MCApplications`** puts `BmcaRendezvous` and `Stm32App` side by side, one of which
is chosen at the start; **`MCAlgorithms`** has one initial state for every input of
the pure functions, and the steps of `FindBest` for the fold.

The modules **`..._proofs`** hold the theorems; see below.

## The runs

| Run | Shows | Bounds |
|---|---|---|
| `boundary_clock` | all safety properties of the core but the one on master-only ports | two ports, one with peer delay; a grandmaster, a relay of it, and a master that is not acceptable; slave-only toggled at run time |
| `takes_over` | `MasterOnlyNeverSlave`, `TakesOver` | a master-only and a normal port that share a network, where port 2 hears the announces of port 1; a relay whose path trace loops, our own quality changing between ordinary, class 6 and best |
| `foreign_masters` | capacity and type, `NewestLast`, `ErbestIsKept`, `SilentIsForgotten` | two masters, two messages each, window of 3 BMCA runs, 5 sequence ids (the least for which newer, same and older differ), restarts and duplicates |
| `slave_exchanges` | `OneExchange`, `OneMaster`, `CompleteIsMeasured` | two masters, two Syncs and two delay requests in all, two messages in flight, which may be doubled: two exchanges overlap; both kinds of filter |
| `peer_delay` | `OneResponder`, `Recovers` | two responders in one or two steps, two ids, two messages in flight after losses |
| `applications` | `StopTheWorld`, `ImplementsRounds`, `StopsOnOrder`, `RoomInChannels`, `DaemonKeepsRunning`; `DutiesAreScheduled` | Linux: three port tasks. stm32: 3 timer resets for 4, 2 packet ids for 16 and one retry for 10, since a full channel stops the device at any size and a listener that gives up is the same after any number of tries |
| `tlv_order` | `InOrderOnce` | four TLVs of two senders and two sizes, two ports of which one is run by the ethernet task, a channel of two, so that it lags |
| `kalman` | `WanderIsBehind`, `PairedOnce`, `FrequencyIsKnown`, `ImplementsServo` | three exchanges, two of them at a time; offsets of the clock up to the step threshold of 2, so that it is steered and stepped, forwards and back; a hysteresis of one, equal to where the score saturates |
| `clock_steering` | `OnlySlavesSteer`, `OneSteerer`, `FrequenciesAgree` | three ports, two with hardware clocks and one with the system clock; two BMCA runs, so that modes change, change back, and a task may miss the one between |
| `algorithms` | `BestIsBest` | up to 3 of 24 messages: two grandmasters with equal attributes and one other, two messages that disagree with the rest on a grandmaster's class, 0 to 3 steps (so that steps differ by none, one and more), senders below and above our identity, two ports, two ages |
| | `ReadAsSent`, `RelaysAnnounce` | every kind of message, with and without TLVs and padding; every code of accuracy and time source, the flags of leap seconds in conflict, TLV types on both sides of every boundary, an empty TLV that becomes the last one; 0, 254, 255 and 65535 steps |
| | `ValidatedIsWalked` | sets of 0 to 13 octets with lengths odd, empty, exact and too long |
| | `FrequencyKeepsTime` | clocks after two and three operations |
| | `OffsetsAreExact`, `DelaysAreClose` | every fraction of a nanosecond (SubUnits = 4) over a few seconds of 3 ns, asymmetry and residence time |
| `takes_over_p2p`, `tlv_cleared` | disagreements, see below | the least that shows them |

Two age rounds and two of everything are enough because each handler relates at
most two exchanges, masters or ports at a time; the proofs remove the bounds for
every safety property.
The announce time window of one BMCA run in the `PtpInstance` runs means that a
message may be gone at every second run; longer windows only delay that. Deadlock is checked except in `algorithms`, where
inputs are single states, in `tlv_order` and `kalman`, where the bounds or a failed
assertion end the behaviour, and in `applications`, where a device that has
panicked stands still.

Fairness. `TakesOver` assumes that the daemon calls `bmca()` at its interval
(`run` loops on a timer) and that a running announce receipt timer goes off (it
is a `select!` branch); nothing is assumed of the network except, in the
property, that it is silent from some time on. `Recovers` assumes that the delay
request timer goes off and that, on a repaired link, what was sent arrives.
`DaemonKeepsRunning` assumes weak fairness of every task and strong fairness of the
branch of `select!` that waits for the order to stop: `select!` polls its
branches in random order, so a branch that is ready every time the task selects
is taken in the end. `FrequenciesAgree` assumes that `run` sends the modes after a
BMCA, that the clock tasks go on measuring (a timer) and see a change of mode, and
that a slave port gets measurements. Nothing is assumed of the stm32 application.

## Disagreements between the code and what is said of it

Runs with an expected violation; `PROJECT.json` quotes the lines.

* `takes_over_p2p`: a peer delay port that was master, became faulty and
  recovered is listening without an announce receipt timer. If nothing is heard
  it stays so, and the BMCA does not move it either.
* `tlv_cleared`: the ethernet port task empties the TLV queue of masters instead
  of that of the others, contrary to its comment.

Met on the way and not kept as runs: the debug assertion on `slave_only`
(`port/bmca.rs:162`) fails when the announce messages of a slave-only slave age
out before its receipt timer fires (a release build goes to Listening as
intended); the announce receipt timer takes a disabled port out of the faulty
state; `handle_announce` takes over the steps removed of a message that the list
refuses for having 255 or more, up to 65535, which is relayed as 0 (a debug build
panics); the check that an announce message is newer
accepts an equal sequence id; a duplicate of a Sync that has been measured
already is measured again; a peer delay request that two devices answered can
still recover the port it disabled. And of the parts modelled later:

* `next_if_smaller` yields TLVs of exactly the size asked for, as its comment says,
  while `send_announce` asserts that they are smaller (`port/master.rs:145`);
* the mean delay of the old master corrects the first offsets of the new one, since
  nothing resets it (`port/slave.rs:424`);
* a grandmaster that is announced with different attributes at the same time makes the
  comparison of messages a circle, so that the order in which they come decides
  (`bmc/bmca.rs:68`);
* an exchange stamped before a step back and measured after it takes the running
  filter ahead of the clock, and the change of frequency that follows is at an
  earlier time: the debug assertion in `progress_filtertime` (`kalman.rs:264`) fails,
  a release build ignores the time. A measurement taken before
  a step can make the filter step a second time, the two measurements that the
  error estimator stores are not shifted by a step, a hysteresis of 127 keeps the
  score from ever exceeding it, and a `difference_estimation_boundary` of zero makes
  an `unwrap` fail;
* a step of the overlay clock does not change its time by the offset, as the trait
  `Clock` asks (`clock.rs:26`): the offset is scaled by the reciprocal of the frequency,
  and the correction made since the last change is lost, because `last_sync` moves
  without it (`overlay_clock.rs:62`). A clock at twice the speed, three units after it was
  set, that is asked to step by -4 shows 5 less;
* `delay_resp` adds the fraction of t4 to the correction field, which the slave
  subtracts: t4 is off by twice its fraction; peer delay responses drop theirs. Both
  delays are right to a nanosecond, which is what `DelaysAreClose` says;
* reserved codes of clock accuracy are all read as 0; octet 12 of an announce body
  and octet 10 of a management body are not written; a set of TLVs that ends in an
  empty TLV is refused, although a boundary clock sends one when what it passes on
  ends so (`RelaysAnnounce` says that this is the only announce that gets lost);
* stm32: a full channel and a packet before the first BMCA panic; a timer that has
  elapsed goes before its own reset in the channel; a send timestamp that is lost
  keeps the listener until the tries are used up.

## The proofs

**`PtpInstance_proofs`**, for any set of ports, announces, qualities and masters.
Only the assumption `PtpInstanceAssumption` is used (types of the constants; the
value None is none of them). The properties are not inductive one by one:

* that at most one port is a slave survives `bmca()` because S1 is recommended
  only to the port of the ebest, which is a single port even when the comparison has
  circles;
* that the slave follows the parent needs that the two data sets sources of a run
  (an S1 and an M1 or M2) never meet, so that the order in which the ports are
  visited does not matter (`NoSlaveWithOwn`);
* that the parent is acceptable needs that everything in the foreign master
  list is (`ForeignIsAcceptable`);
* that timers run for a port that stays slave needs that its `remote_master` is
  set exactly while it is a slave (`RemoteOfSlave`), since the code restarts the
  timers only when the master is another one.

`IInv` is the conjunction of these with the type invariant. One lemma per action
shows that it is preserved, `Invariance` that it always holds, and the theorems
on single properties follow. `HeardMasterOnly` and `SlaveOnlyRespected` are
action properties.

**`MasterSelection_proofs`**, for any announce messages, masters, capacities, time
window and number of sequence ids.

* `FoldFindsBest`: what is kept by the fold is the best by one ranking. The code
  compares pairs with different rules for the same and for different grandmasters
  and for steps that differ by none, one or more; `CompareBestIsRank` shows that for
  two messages that agree on their grandmaster all the cases together are the
  lexicographic order of `RankOf`, which is transitive, so that one pairwise comparison
  per message suffices. Without that agreement, which is a hypothesis in the property
  and no assumption, all that is left is that the fold keeps one of its messages.
* The foreign master list. `ForeignInv` adds to the types that the messages of an
  entry go from the oldest to the newest, that each would be registered after the
  one before it, and that none is younger than its master is silent (`Kept`). The
  second is why putting a message back succeeds, the last is what makes
  `SilentMastersAreForgotten` inductive: a message that is taken and put back
  keeps its age, so it cannot outlive the window. `retain`, `take` and the ageing
  are lemmas on sequences (`RetainSelects`, `TakeInv`, `StepAgeInv`).

**`TlvForwarder_proofs`**, for any ports, senders, sizes and capacity of the
channel. `ForwardedInOrderOnce`: what a port has sent, its peeked TLV and what it
has not yet received from the channel are, in this order, increasing (`PortInv`);
the loop of `send_announce` keeps that turn by turn (`LoopInv`).

**`Applications_proofs`**, for any number of port tasks and any capacities of the
channels. For the daemon `IInv` says where each port is: with the main task, on
the way to its task, with its task or on the way back (`Whereabouts`), as a
function of where `run` and the task are. `RendezvousImplementsRounds` follows from
it: a port's turn is known from its place (`TurnsFollow`), the steps of the main
task but `bmca()` move no port to another turn (`MainTurns`), those of a task move
its own port only. For the stm32 `AppInv` says that until
the first BMCA the port listens and its first timer is pending, and that after it
nothing is pending and the duties of the port are scheduled;
`ActionsHandled` shows that `handle_port_actions` loses neither a reset that
was in the channel nor one it was given, unless it has stopped the device.

**`SlavePort_proofs`**, for any masters and any number of messages. `IInv` adds
to the properties that every time that is stored, not only every time that is
measured, is of the exchange it is stored in and of the present master
(`SyncHalf`, `DelayHalf`), and that a port without a master has a fresh filter
(`OffsetOfMaster`): otherwise a handler could complete an exchange with a time of
another one, or a new master inherit measurements. Of the mean delay `OneMaster` says
that it is of the present master alone as soon as the present filter has been given
one delay; for a Kalman filter that needs the stronger fact that its first
measurement of any kind makes a mean delay (`DelayOfMaster`), since its update timer
may write it at any moment. That both exchanges are never
complete at once (`CompleteIsMeasured`) is needed itself, because the code
measures one exchange for each message. Sequence ids do not wrap in the model, so
the theorems say nothing of a message that is delayed by 65536 others.

**`Measurement_proofs`** goes from the octets of a message to what is measured with
it. In its parts:

* Peer delay, for any devices on the link and ids that roll over. As in
  `SlavePort`, the invariant is about what is stored (`Consistent`): each time that
  an exchange has is of its own request and of the responder it remembers.
* Sets of TLVs, for octets of any number. `ValidatedSetsAreWalked`: by induction over
  the octets left, from every offset from which the validating loop says Ok the
  iterator yields lengths only, and these add up to the octets left.
* `MessagesAreReadAsSent`, for every kind of message with any values in its fields,
  any TLVs and any padding, in a buffer that was used before. The layers are: a
  field that is put into a buffer is read back, whatever was there; no two fields
  of a table share an octet (`HeaderLayout`, `BodyLayouts`), so that all of them are
  where they were put, in whatever order; what `deserialize` looks for is
  among what `serialize` has written, at the same places, for the header and each
  of the ten bodies; flags, versions, sdo ids and codes survive the bits they are
  packed into; the TLVs after the body are found again one by one, from the last
  to the first, and validated; the header's length takes the parts apart, so that
  padding is not read.
* `SlaveOffsetsAreExact` and `MeasuredDelaysAreClose`, for any units of time and any
  times that fit a timestamp: `WireTimestampCuts` and `SubnanoCuts` say what a
  timestamp and a correction field lose, `SyncOffset`, `DelayOffset` and
  `PeerDelayIsClose` follow the fractions through the sums of the slave. That the
  octets carry the messages is no hypothesis but the part before, applied to each
  message of an exchange (`ExchangeMessages`). What is assumed is `Measurable`.
* `AnnounceIsRelayed`, for any announce message that a port takes in, with codes of any
  value, conflicting flags, any number of steps and TLVs of any type: it is read, taken
  into the data sets, announced and read once more, or refused when the TLVs that go on
  end in an empty one (`RestOfTlvs`, `TlvsAreValid`). Reading a code is idempotent although codes
  are merged (all reserved accuracies into one), the flags are rebuilt from the
  properties they were read into, and the TLVs that have gone on once go on again.

**`KalmanFilter_proofs`**, for every configuration and all bounds. `IInv` joins the
order of the estimators and the known frequency with `Disengaged`: a filter without
an offset knows no frequency and has no offset to step by, which is why it leaves the
clock alone. Lemmas follow the operators of the code (`change_frequency`, `step`,
`steer`) and say what each keeps whether or not the clock refuses. One lemma per
action shows at once that it keeps `IInv` and that it is a step of `Servo` or none, so
that `KalmanImplementsServo` follows. `NeverPairedTwice` has an invariant of its own
(`PairInv`): what is stored or under way is in no pair yet.

**`ClockSteering_proofs`**, for any ports, sharing any clocks. `OneSteerer` is about
the moments at which all tasks have seen their modes; the invariant (`ModesFit`) says
that the modes sent last fit the port that is a slave, also after it has left that
state by itself. It rests on at most one slave per run of the BMCA, which
`PtpInstance_proofs` shows of the library. `OverlayKeepsTime` is about the overlay
clock in any state and with any numbers, those included for which the divisions
round; it is about `set_frequency` only, since `step_clock` does not keep what its
trait says (see the disagreements).

Induction. Loops over data are recursive functions in the modules that are proved
about. The library's induction theorems take a predicate as a parameter, which the
provers cannot instantiate; instead, `LeastElement` follows from the order of the
natural numbers being well-founded, and `SetInduction` says that a set that holds 0
and with every number the next holds them all. A fact about a loop is then the
membership in a set that is defined on the spot. That such a function exists is
proved first each time (`HandlingExists`, `RetainLoopExists`, `ValidationExists`,
`ChainExists`).

Left to TLC: liveness (`TakesOver`, `Recovers`, `DaemonKeepsRunning`,
`FrequenciesAgree`), which is out of the prover's reach.

## Not modelled

The numbers of the filters: matrices, variances and the convergence of the
estimates are floating point. The basic filter, which is nothing but numbers.
Conversions of times to floating point and to the types of the standard library.
Sockets, hardware timestamps, system calls, configuration files, metrics and the
observer (I/O, formatting, read-only snapshots). The set-up of the stm32 hardware,
DHCP and the conversion of times for its clock registers. The sizes of real
messages and a sequence id delayed by 65536 others.

## Plan

1. An abstract specification of the instance (one grandmaster followed at a
   time, decided in rounds) and a refinement by `PtpInstance`.
2. The values of the mean delay and of the measured offsets in `SlavePort`, across
   changes of master.
