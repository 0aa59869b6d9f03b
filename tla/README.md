# Verification of dw1000-rs

TLA+ models of the `dw1000-rs` driver and ranging state machine, TLC
configurations that check them on small instances, and TLAPS proofs of all
their safety properties, the refinement of the abstract sessions among them. Paths are relative to the repository; `ranging.rs` is
`src/ranging.rs`, `app.rs` is `examples/embassy-stm32l432/src/app.rs`.

    tlc -workers 2 -config MCFan.cfg MCRanging.tla     # one run
    tlapm RangingProofs.tla                            # the proofs

## 1. Inventory

The program measures distances between *tags* and *anchors*. In one two-way
exchange a tag broadcasts a **Poll**; each listed anchor answers with a **PollAck**
in its reply slot; the tag broadcasts a **Range** with its timestamps; each listed
anchor computes a distance and sends a **RangeReport**, from which the tag computes
its own. Anchors are discovered by **Blink** and **RangingInit**; a coordinating
anchor broadcasts **ScheduleSync**.

| Part | Source | State | Operations | Interacts with |
|---|---|---|---|---|
| Ranging state machine | `ranging.rs` | peer table with sequence numbers, six stamps and range of each peer; `expected`; `last_tx_kind`, `last_tx_destination`; acknowledged and reported lists; session deadline; timers; blink counter | `tick`, `on_tx_done`, `on_rx`, `start`, `recover_link` (blocking and async copies, the same but for `.await`) | calls the radio; is called by the host loop |
| Driver | `async_dw1000.rs`, `dw1000.rs`, `driver_core.rs` | `DriverRuntime`: Idle/Rx/Tx, `permanent_receive`, `rx_after_tx_pending` | `init`, `reconfigure`, `start_receive`, `transmit`, `read_frame`, `clear_events`, `compute_delayed_time` | commands the chip over SPI; the chip raises status bits and the interrupt line |
| Host loop | `app.rs`, `board.rs` | last activity and range times, ticker | `step`: select of ticker and interrupt; `drain_irq`; `recover_stalled_link_if_needed` | interleaves with the chip at every await |
| Protocol | `protocol.rs` | none | encode and parse frames | used by the state machine |
| Time | `time.rs` | none | 40-bit arithmetic, `asymmetric_tof` | used by both ends of an exchange |
| Configuration and tuning | `config.rs`, `driver_core.rs` | the driver's `tx_fctrl` copy; the chip's registers | validation, tuning tables, `reconfigure`, `apply_tuning` | written to the chip access by access, each of which may fail |
| Constants, registers, errors, device types | `constants.rs`, `registers.rs`, `error.rs`, `device.rs` | none | | |
| Board, build script | `board.rs`, `lib.rs`, `bin/`, `build.rs` | pins | start-up, LEDs | |

What is hard in it:

- **Interleaving.** The chip runs while the host awaits SPI transfers. One drain
  round is "read status; `on_tx_done`; `on_rx`; `clear_events` with the status
  read first", and frames arrive and leave between any two of these steps. The
  tick competes with the interrupt, and `select` polls the tick first.
- **Loss.** Every frame may be lost or corrupted, for some receivers only.
- **Timeouts.** A session times out while an answer is under way; a peer is
  pruned in a session; the link supervision resets everything at any moment.
- **Sharing.** An anchor has one `expected` for all tags.
- **Numbers.** The millisecond clock (u32), the device clocks (40 bits) and
  the sequence numbers (u8) wrap, and the code mixes wrapping and saturating
  subtraction.
- **Old clocks.** `step()` reads the millisecond clock before it waits; a tick sets
  and judges deadlines by a value that may be a ticker period old, while
  `drain_irq()` reads the clock anew.
- **Reboots.** A device that starts again restarts its sequence at 0, while the
  other one remembers what it last heard.
- **Partial failure.** A register access may fail in the middle of `init` or
  `reconfigure`, and `select_tuning_values` may reject what `validated_phy` accepted.

What makes the parts correct: the driver never leaves the device deaf and never
takes back a frame it was given; a distance is computed from six stamps of one
exchange; session bookkeeping agrees with the phase and the peer table; sessions
end and rounds go on; timers are judged correctly across a wrap; answers come
within the time they are waited for; devices find each other again after any
trouble; the radio only ever runs on one whole configuration; the time of
flight is exact. `PROJECT.json` lists the hazards one by one, with the lines at
which they bite and the properties that cover them.

## 2. Modules

| Module | Models | Shape |
|---|---|---|
| `Driver` | `DriverRuntime`, the driver's operations and the chip behind them | functions from radio to radio |
| `RangingNode` (EXTENDS `Driver`) | the state of one `RangingNode` and the pieces its handlers consist of | functions from node to node |
| `RangingSystem` (EXTENDS `RangingNode`) | any number of devices: the handlers as actions, the host loop of `app.rs`, the air | state machine |
| `MCRanging` | instances of `RangingSystem` | constants |
| `RangingSession` | what a tag's sessions promise, without frames, radios and clocks | abstract specification |
| `RangingProofs` | theorems about `RangingSystem` that hold whatever happens | proofs |
| `ExchangeProofs` (EXTENDS `RangingProofs`) | theorems about its frames and distances where nothing disturbs them | proofs |
| `PromiseProofs` (EXTENDS `ExchangeProofs`) | `RangingSystem` implements `RangingSession` | proofs |
| `Discovery` | one tag and one anchor over many rounds: Blink, RangingInit, inactivity, reboots and wrapping sequence numbers | state machine |
| `DiscoveryProofs` | theorems about `Discovery` | proofs |
| `ReplySlots` | the times of a round: reply slots, deadlines, ticker, the clock value in use | state machine |
| `ReplySlotsProofs` | theorems about `ReplySlots` | proofs |
| `PhyConfig` | configurations, validation, tuning tables, register contents, frame lengths, receive bias | operators |
| `RadioSetup` (EXTENDS `PhyConfig`) | `new`, `init`, `reconfigure`, `start_receive`, `transmit` as lists of accesses that may fail | state machine |
| `RadioSetupProofs` | theorems about `RadioSetup` and the tables of `PhyConfig` | proofs |
| `MCSetup` | an instance of `RadioSetup` | constants |
| `TickTimers` | one tag's timers and the link supervision on a wrapping clock | state machine |
| `TickTimersProofs` | theorems about `TickTimers` | proofs |
| `TwoWayTime` | one exchange's timestamps as numbers, and `asymmetric_tof` | state machine |
| `TwoWayProofs` | theorems about `TwoWayTime` | proofs |

**Ranging: state and code.** `node[n]` is the `RangingNode` of device `n`. What a
`Peer` holds is spread over functions (`lastSequence`, `stamps`, `range`), whose
values for an absent peer are those of `Peer::new()`. `radio[n]` is `DriverRuntime`
and the chip: `receiving` (RXENAB), `outbox` (the frame handed over with TXSTRT),
`txStamp` (TX_TIME), `status` (SYS_STATUS reduced to TXFRS, a good frame, an error)
and `inbox` (the receive buffer). `at[n]` and `snapshot[n]` are the host loop:

    select --tick--> (one action: the whole of tick_async) --> select
    select --interrupt--> ReadStatus -> OnTxDone -> OnRx... -> ClearStatus -> drain or select

Each `On...` action is one way through `on_rx_async`, from the frame read to the
reply handed to the radio. A handler is one action: what the chip may do between
its awaits changes nothing the handler still reads, except for the frame in the
buffer, which the receiver cannot replace while RXDFR is pending. A tick that
fails, or a handler that fails half way, ends in `recover()`; that is
`Recover` after the whole handler, since `recover()` resets what the handler did.

**Data abstracted.** A timestamp is the sequence number of the frame it measures,
so that "these six stamps belong together" can be said exactly; the numbers are
in `TwoWayTime`. `range` holds the six stamps from which the distance was made.
Times are left out of `RangingSystem`: whether a session or a peer has timed out is
a choice of the action (limited by `Patient`); the numbers are in `TickTimers`.
`RangeFailed` is never sent (`send_range_failed` is dead code), `send_poll` and
`send_range` are only called with `None`; these branches are left out.

**Constants of RangingSystem** that switch behaviour on:

| Constant | TRUE / member | FALSE / not a member |
|---|---|---|
| `Lossy` | any radio may miss a frame or get it corrupted | a frame leaves when everybody listens, and arrives |
| `Patient` | sessions and peers time out, and rounds start, only when nothing sent by or to the node is under way: the configured timeouts (160 ms, 3 s) and the range period (80 ms) outlast replies (12 to 84 ms) | a timeout or a round may come at any tick |
| `Overtaking` | a tick may run with an interrupt pending (what `select` does) | the interrupt is drained first |
| `PromptHost` | a drain round ends before the reply it scheduled has left (12 ms) | it may leave at any time |
| `Recovering` | nodes whose link may be found stalled, or whose SPI may fail | |
| `Pruning` | nodes that may find a peer inactive | |
| `Coordinators` | anchors that send ScheduleSync | |

**TickTimers** keeps one tag's `last_tick_ms`, `last_range_start_ms`, its peer's
`last_activity_ms`, `session_deadline_ms`, and the application's two supervision
times. `seen` is the clock as `step()` read it before waiting: the tick works with
that value, an interrupt with `now`. `silence` and `age` are history variables with the
true elapsed times; they stop at `MaxSilence + 1` and `SessionTimeout`.
The slot is always open (`tag_slot_count` 1, the default); handlers take no time.
What the peer sends is arbitrary, except that it answers each Poll once.

**RangingSession** is the abstract specification of a session: a tag is idle, polling or
ranging, with the sets of anchors that answered and reported, and every pair has
a last distance named by the Poll it began with. `RangingSystem` instantiates it with
the mapping at the end of that module: `phase` from `session_deadline_ms` and
`expected`, the two sets from `poll_acknowledged` and `range_report_received`, the
distance from the `pollSent` stamp of `range_m`. Drain rounds, the air, stale and
foreign frames stutter; `OnPollAck` and `OnLastPollAck` are `Answer`, the ticks are
`Begin`, `StopWaiting`, `Abandon` and `Forget`, `OnRange` is `AnchorMeasures` and
`OnRangeReport` `TagMeasures`. What the abstract guards say is what the handlers never
test: an anchor computes a distance only while the tag still waits for that
anchor's report (it cannot see the tag), the report is of the exchange the
anchor measured, no exchange is measured twice or out of order.

**Discovery** counts time in rounds and follows one pair through losses, reboots and
an anchor busy with other tags, until `calm` (chosen by the environment, at any
time) says that the trouble is over. The sequence circle is `2 * Half`. `quiet`
counts rounds since the peer entry's `last_activity_ms`; a peer may be pruned after
`MinSilence` rounds and is after `MaxSilence`, because a round lasts between 80 and
about 240 ms and the peer timeout is a time. A stale Blink or RangingInit resets
`quiet` all the same, as `ensure_peer()` runs before the freshness test.

**ReplySlots** counts in units of 4 ms with the default schedule. A frame in a radio
has a count down to its last bit; `seen` is the age of the clock value a tick
works with, which every interrupt resets; a tick judges deadlines by that value, and
sets that of the phase it begins from it. The phase begun by the last PollAck, in
an interrupt, has its whole timeout ahead. `table` is the number of anchors.

**RadioSetup** makes one step of every register access. Each may fail, before or after
it took effect. `BaseRegisters` and `TuningRegisters` of `PhyConfig` hold, for each register,
the tuple of the settings its value is computed from; settings that share an
entry of the code's tables (channels 2 and 4 in the synthesiser, codes 1 and 2
in the LDE replica table, ...) are mapped together. The client is the Embassy
application (`init` after any failure, or stopping for good), or a more daring one
that calls `reconfigure` after a failure.

**TwoWayTime** lets two clocks of `Wrap` ticks start anywhere and follows one
exchange after another; a host needs an arbitrary latency between reading the
clock to predict `range_sent` and reading it again in `transmit()`. Assumed of the
chip: a delayed frame passes the antenna at the time written to DX_TIME, which is
what `send_range` expects of it. Antenna delays and the receive power correction
are assumed to be calibrated away, and the clocks to have the same rate.

## 3. Runs

| Run (cfg) | Instance | Shows |
|---|---|---|
| `fan_coherent` (MCFan) | 1 tag, 2 interchangeable anchors, losses, timeouts that outlast replies | `RangesCoherent`, `FramesLeave`, `Promise` with partial answers |
| `rivals_coherent` (MCRivals) | 2 interchangeable tags, 1 anchor | `RangesCoherent` with interrupted exchanges |
| `chaos_safe` (MCChaos) | 1 tag, 1 anchor, all switches at their most permissive, fair | `TypeOK`, `NeverDeaf`, `SessionConsistent`, `SessionsEnd`, `ListensAgain` |
| `timers` (MCTimers) | clock of 24 ticks, several turns | `TypeOK`, `PrunedInTime`, `NeverPrunedEarly`, `SessionsLast`, `PeeredRoundsGoOn` |
| `two_way` (MCTwoWay) | 64 ticks, quantum 4, all offsets | `TypeOK`, `TagExact`, `AnchorNeverShort` |
| `setup` (MCSetup) | 4 configurations (one refused, one that cannot be tuned), every access may fail | `TypeOK`, `OneConfiguration`, `DriverKnowsChip`, `LengthSurvives`, `BiasMonotone` |
| `discovery` (MCDiscovery) | circle of 8 sequence numbers, any trouble before `calm` | `TypeOK`, `HeardWithinHalf`, `MeasuresAgain` |
| `slots` (MCSlots) | default schedule, 1 to 4 anchors; with 1 and 2 anchors also other traffic | `TypeOK`, `RepliesAwaited`, `OneOnAir`, `RoundsBounded`, `CleanRoundsComplete` |
| `sync_overtakes`, `reply_cancelled`, `timers_discovery`, `two_way_sent` | as above | what the code does not do: section 5 |

The properties fit together: `RepliesAwaited` is what `Patient` assumes of the times in
`RangingSystem`; `CleanRoundsComplete` and `MeasuresAgain` say that measuring succeeds when
nothing is lost, `SessionsEnd` and `RoundsBounded` that it ends when everything is.

**Bounds.** `MaxTicks[n]` caps the sequence number below which a tick of `n` starts a
round; replies are not capped. Two to six are enough for discovery (Blink,
RangingInit) followed by one or more exchanges, each with any losses, so that
stamps of a broken exchange are there to be mixed into the next; the mutants
listed in `PROJECT.json` are all found within them. Ranging systems stop when the
bound is used up, so those runs do not check for deadlock. `BlinkPeriod` is 1 or 2
where rediscovery matters and 20 elsewhere. The anchors of `fan_coherent` and the
tags of `rivals_coherent` are symmetric: no definition tells them apart, and neither
run checks liveness.

`MCTimers` keeps the (weak) order of the
real times (timer 80 ms, range period 80, session 160, recovery 1000, inactivity
3000) but not their ratios; the clock must be more than twice the longest of
them. As its session timeout is more than two timer periods, a silent peer is pruned
within three of them, one less than `MaxSilence` allows for any schedule. `PeeredRoundsGoOn` needs a recovery timeout of some five timer periods or
more (the real one has twelve): with less, supervision resets the session before
its round is over, time and again. `MCTwoWay` takes clocks small enough for every pair of offsets and
latencies on either side of a quantum.

`MCSlots` has the library's default schedule with the application's reply delay, in
units of 4 ms: reply delay 12, timer and range period 80, session timeout 160, and 8 for the longest frame.
Phases between ticker and radio are covered by the unit, as any of these times is
a multiple of it. `RepliesAwaited` needs tables with other traffic
(`Disturbed`) to stay below three anchors, the run takes one and two: see section 5. `MCDiscovery` has half a circle of 4 and a peer timeout of one to two rounds;
the theorem of section 4 has any of these. `MCSetup` bounds the failures between
two calls of `init()` to 3: each repeats the same list of accesses from the start.
`client` may stop for good, so that run does not check for deadlock either.

**Fairness.** `FairSpec` of `RangingSystem`: `WF(Host(n))`, the executor polls the host
loop when the interrupt line is high; `WF(Air(n))`, the chip ends a transmission it
was told to make; `WF(Expire(n))`, the ticker keeps firing and a tick tests for an
expired session before anything else. Nothing is assumed of new rounds, of
pruning, of recovery or of what arrives. In `TickTimers`: time passes, the ticker's
branch runs, the link check follows; the peer may be silent for ever. In `Discovery`:
the hosts keep ticking, a frame that is not lost is heard, and a peer that is
overdue is pruned. The air loses nothing after `calm`, and `calm` is never assumed.

Each property of a passing run has a mutant: an operator next to the definition
it mutates ("Mutated form of ...") that drops a guard, a reset or a re-arm, and
makes TLC report that property.

## 4. Proofs

Eight modules hold theorems; none takes anything on trust but the named assumptions
on the constants, which TLC evaluates in the runs. Every invariant and every
action property of a passing run is proved, and the refinement; liveness is not.

| Theorem | Needs |
|---|---|
| all of `RangingProofs`, `DiscoveryProofs`, `TickTimersProofs`, `TwoWayProofs`, `RadioSetupProofs` | the modules' own assumptions on the constants |
| `FramesLeaveHolds`, `RangesCoherentHolds`, `PromiseHolds` | `Undisturbed` |
| `SlotsTyped`, `RepliesAwaitedHolds`, `OneOnAirHolds`, `CleanRoundsCompleteHolds` | `Roomy` |
| `RoundsBoundedHolds` | `Roomy` and `Whole` |

`RangingProofs`, for any sets of tags and anchors, any peer capacities, any
`BlinkPeriod`, and any values of the switches:

- `TypeCorrect`: `Spec => []TypeOK`.
- `NeverDeafHolds`: `Spec => []NeverDeaf`. With the types it is inductive.
  Each driver operation keeps `Reachable`; the crucial lemma is
  `ClearEventsReachable`: whatever mask is cleared, either the receiver is
  restarted or the event that will restart it is not in the mask.
- `SessionConsistentHolds`: `Spec => []SessionConsistent`, inductive with the types.
  Its third conjunct (a tag that expects reports has a deadline and an
  acknowledgement) holds because `begin_range_report_phase` is only reached with a
  non-empty list; the first two because pruning resets the protocol.

The three are proved together. The lemmas of the first sections say what every operation of the driver
and of the node preserves. `TickCommits` and `OnRxCommits` show that every tick
and every way through `on_rx` replaces the node by a well-typed, consistent one and
the radio by itself or by a transmission; `CommitsKeeps` then needs one argument
for all of them, and `AirKeeps`, `ReadStatusKeeps`, `ClearStatusKeeps` and
`RecoverKeeps` cover the rest of `Next`.

`ExchangeProofs`, for any sets of tags and anchors, losses, overtaking ticks and slow
hosts, where `Undisturbed` holds: timeouts outlast replies (`Patient`), no
coordinator, no link recovery. The runs of these properties assume the same, and
section 5 shows what each of the three breaks; `Patient` is what `RepliesAwaited` says of
the times.

- `FramesLeaveHolds`: `Spec => FramesLeave`. The invariant, `Driven`, ties together
  what driver, host loop and chip each believe: the driver of a started device
  listens or sends; while it sends, its frame is in the radio or TX_FRAME_SENT is up;
  a drain round that has read TX_FRAME_SENT has read nothing else, so that
  `on_rx` never runs, and never replies, while the driver sends.
- `RangesCoherentHolds`: `Spec => []RangesCoherent`. The property speaks of stored
  distances; what makes it true is spread over two devices and the air. The
  stamps are taken late, at either end at another time, so the invariant speaks of
  `Seen(n)`, device `n` as it will be once its host has caught up with its radio: then
  what both ends know of a frame agrees from the moment it is sent. `Exchanges` says of
  every tag and anchor that at most one frame of their exchange is on its way
  (`OneAtATime`), that a frame finds its sender in the phase and with the stamps it
  left with (`CallOK`, `ReplyOK`), and that behind it the stamps at both ends are those of
  the same frames (`Agreed`). Each handler then has a lemma that the pair it touches
  keeps its exchange, and one about the pairs it does not (`QuietKeeps`).

`PromiseProofs`, under the same hypothesis:

- `PromiseHolds`: `Spec => Promise`, that is, `RangingSystem` implements `RangingSession`: initial
  states map to initial states, and every step of any handler, host loop or radio
  to one step of one session or to a stutter. The abstract guards need more than
  coherent stamps: that no exchange is measured twice or out of order. `Orders` adds
  that a distance stored at either end belongs to an earlier Poll than the one waited
  for, and is that of the report on its way. It rests on a tag counting its
  frames up and starting no round once the bound is reached (`MaxTicks`, at most
  200), so the promise is proved for runs within one turn of the u8 sequence; what the
  wrap does to freshness is the subject of `Discovery`.

`RadioSetupProofs`, for any set of configurations, payloads and receive powers, and any
number of failures:

- `SetupTyped`, `OneConfigurationHolds`, `DriverKnowsChipHolds`, `LengthSurvivesHolds`: none of
  them is inductive, as they say nothing of a setup half done. `SetupInv` adds how far the
  call under way has got (`Progress`): which accesses are still to come, that the
  registers behind them hold the settings of the configuration in `DriverRuntime`, that
  what `init()` alone provides is there, and that the radio is idle all the while.
  A failure leaves the access done or not done, and the client back at `init()`,
  or, for the daring one, at a `reconfigure()` that writes every register a
  configuration has.
- `BiasMonotoneHolds`: mostly an argument about the tables. The entries of each, signed
  as the code signs them below the table's zero, rise from end to end (`TablesRise`,
  `BiasRises`); twice the bias is the sum of the two entries on either side of the power
  (`BiasSum`), and a stronger signal is read from earlier entries, clamped at both
  ends (`EndsFall`, `BiasFalls`). The invariant `OnAir` says that a radio on the air
  has one of the configurations in `DriverRuntime`, by which the table is chosen.

The proof found a flaw of the model: two guards of the `CASE` in `Returns` overlapped,
which leaves the value open, though TLC takes the first. They are disjoint now.

`ReplySlotsProofs`, for any periods, tables and other traffic:

- `SlotsTyped`, `RepliesAwaitedHolds`, `OneOnAirHolds`, `CleanRoundsCompleteHolds`, under
  `Roomy`: a ticker period, a reply delay, two frames and the last reply slot
  are less than the session timeout, and a frame is shorter than two reply
  delays. The ticker period is there because the deadline of a phase begun by a tick counts
  from a clock value that may be as old. `SlotsInv` says that between rounds nothing is on its way,
  and that in a phase either the tag's frame is (`Calling`), with the deadline beyond the
  last reply it may cause, or replies are (`Answering`), each of this phase, one
  from each anchor that has not answered, as far apart as their slots are,
  and each due before the deadline. For clean rounds `Complete` adds that
  every anchor is ready for the frame or has answered it.
- `RoundsEnd`: wherever `RepliesAwaited` holds, a round is over after two session
  timeouts and four ticker periods. `RoundsBoundedIfAwaited` and `RoundsBoundedHolds`: after two
  timeouts and two periods, which is `RoundsBounded`, if the timeout is a number of whole
  ticker periods (`Whole`). A phase lasts until the loop has read a clock value beyond the
  deadline and the ticker has fired again. The ticker that ends a phase runs from the
  Poll on, so that `Multiple(age - ticker)` is invariant, and with `Whole` one of the two
  waits is saved.

`Roomy` holds with the times of the default schedule (160 ms) for one and two anchors, with
those of the example (`build.rs`: 180 ms) for one to three. With more anchors the
inequality fails and `RepliesAwaited` depends on when frames arrive between two
ticks; for the default schedule without other traffic `slots` checks that it holds. `Whole`
holds for the default schedule and not for the example: there TLC finds rounds
longer than `RoundsBounded` allows (131 units instead of 130 with `TimerPeriod = 20`,
`SessionTimeout = 45`, `RangePeriod = 65`, `ReplyDelay = 3`), and `RoundsEnd` is the bound that applies.

`DiscoveryProofs`, for any `Half` of at least 2 (the code: 128), any `BlinkPeriod` and any peer timeouts:

- `TypeCorrect`: `Spec => []TypeOK`.
- `HeardWithinHalfHolds`: `Spec => []HeardWithinHalf`. The number of frames turned
  down in a row says nothing about where the two sequences are; the invariant adds
  that the distance from what the listener remembers to the sender's next number
  has grown with every one of them. A number is turned down when it is `Half` to
  `2 * Half - 1` ahead (taken for old) or 0 (taken for a duplicate), which makes at
  most `Half + 1` in a row; the next one is 1 ahead and fresh.

`TickTimersProofs`, for any size of the clock, any boot time, and any periods below half a turn:

- `TypeCorrect`: `Spec => []TypeOK`.
- `NeverPrunedEarlyHolds`: `Spec => NeverPrunedEarly`, and `SessionsLastHolds`:
  `Spec => SessionsLast`. What the tick compares are clock values, one of them old;
  what the properties speak of is elapsed time. The invariant links the two by
  distances round the clock: the value read is at most the ticker's count behind
  now (`SeenRecently`); the peer's last activity is exactly `silence` behind now, and the
  value read lies between (`SilenceCounted`); the deadline is ahead of now by what is
  left of the timeout, short of one ticker period (`DeadlineLeft`). Then
  `saturating_sub` measures at most the silence, and `wrapping_sub` of the deadline
  lands in the half circle that means "not yet". The second conjunct of `SilenceCounted` is
  what one would forget: a peer heard after the clock was read would otherwise
  seem to have been silent for a turn.
- `PrunedInTimeHolds`: `Spec => []PrunedInTime`. Once the silence exceeds `reset_period_ms`
  by a ticker period every tick finds the peer inactive, but a tick that finds a
  session expired returns before it prunes. `LateTicks` counts those ticks: the first
  can only leave a session that waits for reports or none, the second none, and
  the third prunes. When the clock has wrapped since the peer was heard the property
  claims nothing, as finding 3 requires.

`TwoWayProofs`, for any `Wrap`, `Quantum`, delays, flights and latencies that meet the
two assumptions of `TwoWayTime` (an exchange is shorter than a turn of the clock, and
the quantum divides it):

- `TypeCorrect`: `Spec => []TypeOK`.
- `AsymmetricTofExact`: on stamps whose round trips exceed the replies inside them by
  twice `t`, `asymmetric_tof` returns `t`: round1 * round2 - reply1 * reply2 is then
  `t` times the denominator, and the division is exact.
- `TagExactHolds`: `Spec => []TagExact`. `TagExact` speaks of the last phase only; the
  inductive invariant adds, phase by phase, how far each clock is from the last
  stamps (`Opening`, `Closing`) and the first round trip once complete (`Round1`).
  Clock values are never compared: everything is said of `Gap`, the distance from
  one value to another round the circle, and `LaterGap` is the one fact about
  passing time.
- `AsymmetricTofAtLeast` and `AnchorNeverShortHolds`: `Spec => []AnchorNeverShort`. The
  `range_sent` in the frame is predicted from an earlier clock value than the one
  the radio is programmed from. Cutting the low bits is monotone (`CutMonotone`), also
  across the wrap as the quantum divides it (`TurnCut`), so the prediction is never
  later than the launch (`Predicted`). With a second reply taken for `q` where it took
  `p2`, the numerator exceeds `t` times the denominator by `(t + p1) * (p2 - q)`, and
  rounding down stays at or above `t`.

Only model-checked: liveness (`SessionsEnd`, `ListensAgain`, `PeeredRoundsGoOn`, `MeasuresAgain`),
which is out of the prover's reach, and `TypeOK`, `RepliesAwaited`, `OneOnAir` and
`CleanRoundsComplete` of `ReplySlots` for the tables that are not `Roomy`, three and four anchors on the
default schedule.

## 5. Findings

1. **A coordinator's tick loses a PollAck timestamp** (`sync_overtakes`). TXFRS of the
   PollAck is pending when the tick is chosen by `select`; `transmit()` of the
   ScheduleSync clears it and `last_tx_kind` is overwritten. The next distance uses
   the `poll_ack_sent` of an older exchange. A tag cannot do this: it starts a round
   only without a session.
2. **A drain round cancels its own reply** (`reply_cancelled`). TXFRS and a frame read
   together: `on_rx` hands over a delayed reply, then `clear_events` with TXFRS in its
   mask takes it for the end of that transmission and restarts the receiver.
3. **A tag without peers stops for ever when the clock wraps** (`timers_discovery`):
   `saturating_sub` against `last_tick_ms`. Link recovery rescues a tag with a peer
   (`PeeredRoundsGoOn`). The same subtraction keeps a peer last heard shortly before
   the wrap from being pruned.
4. **The Range frame's `range_sent` is not when it is sent** (`two_way_sent`): predicted
   by one reading of the clock, programmed by a later one. The anchor's distance
   comes out too long by a fraction of the difference, never too short
   (`AnchorNeverShort`); the tag stores the real time and is exact.

What restricts the positive results:

- A recovery between a transmission and its interrupt also drops that timestamp:
  `RangesCoherent` is checked without recovery (`Recovering = {}`).
- A coordinator's sync, sent while a reply of its own waits in the radio, takes that
  reply back: `FramesLeave` is checked without coordinators, and so is `RangesCoherent`
  because of finding 1.
- `RangesCoherent` and `Promise` need timeouts that outlast the replies (`Patient`).
  `RepliesAwaited` says when the default schedule provides that: for one to four anchors
  when nobody else is on the air, with other traffic only for one or two. With
  `Disturbed = {3}` in `MCSlots.cfg` TLC shows why: the deadline of a phase begun by a tick
  is counted from the clock value read before the wait, which a stranger's frame
  leaves at any age up to the ticker period (`ranging.rs:1034`), and the phase is given
  up before the last reply. The tag
  then ranges with the anchors that answered. "Default schedule for one tag and up
  to four anchors" (`ranging.rs:67`) says nothing of other traffic, so this is
  not counted as a disagreement.

## 6. Not modelled

- **TDMA slots of several tags** (`tag_slot_is_open`). A tag's slot is computed from its
  own clock and the epoch of the last ScheduleSync, so the question needs the clocks
  of a coordinator and two tags on top of `ReplySlots`, more than a run can explore.
  The arithmetic: the tick judges the slot by a value up to a ticker period old, and
  the coordinator's `epoch_ms` is as old when it is sent; a round starts never
  before its slot and at most two ticker periods after the slot's end, and may
  then last into the next. When the coordinator's clock wraps the slots shift, as
  2^32 is no multiple of the frame, until the next sync is heard. Nothing in the
  code claims that slots exclude each other.
- The slot of a RangingInit (`anchor_discovery_delay`) and Blink rounds and
  supervision in `ReplySlots`; `Discovery` lets a RangingInit be lost instead.
- The byte encoding, and the lengths of frames: a Poll takes 9 + 6n bytes with checksum and
  a Range 9 + 17n, so that a Range fits into 127 bytes for at most six anchors; with
  a seventh `send_range` returns `FrameTooLong` and the application recovers, at every
  such tick. What `transmit` does with a length is in `RadioSetup`, the decoders' capacity
  check in `RangingNode` (`Lists`). A frame without payload, which the protocol never
  sends, would be read as its two checksum bytes (`rx_payload_len`); `RadioSetup` assumes one byte at least.
- Delayed and non-permanent receive, `wait_for_response`: the node does not use them.
- OTP, temperature and other reads that keep no state; LED registers count as one
  access without content.
- What `fault_loop` shows on the LEDs; it never returns, and in `RadioSetup` the client
  stops there.
- Clock drift; the conversion to metres and the exponential filter (real arithmetic).
- RXAUTR in `RangingSystem` is taken as set, as the application configures it.

## 7. Plan

Done: the node, the driver and the host loop over the air (`Driver`, `RangingNode`,
`RangingSystem`); the abstract sessions and their refinement (`RangingSession`); time, in
the large (`TickTimers`, `ReplySlots`, `Discovery`) and in the small (`TwoWayTime`); start-up and
configuration (`PhyConfig`, `RadioSetup`); and the proofs of their safety properties. Left,
in this order:

| What | How |
|---|---|
| `RepliesAwaited` for tables that are not `Roomy` | relate the deadline to the ticker: no reply arrives in the unit of a tick, so the clock value in use at a tick is at least a unit old |
| `FramesLeave` and `RangesCoherent` with link recovery of devices that have nothing on their way | `Undisturbed` split into what each lemma needs |
| a bound on what findings 1 and 2 can spoil | with coordinators, a distance differs from a coherent one in `poll_ack_sent` only |
| an abstract radio for any client | refinement of `Driver` with delayed and non-permanent receive |
| slots of several tags | a coordinator and two tags with clocks modulo the frame |
