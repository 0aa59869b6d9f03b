----------------------------- MODULE ReplySlots -----------------------------
(***************************************************************************)
(* The timing of a round between one tag and the anchors of its peer       *)
(* table, in units of 4 ms: reply slots, session deadlines, the ticker,    *)
(* and the clock as the host loop reads it (ranging.rs, app.rs).           *)
(*                                                                         *)
(* step() reads the clock and waits for the ticker or the radio's          *)
(* interrupt.  A tick works with the time read before the wait: seen is    *)
(* how old that is.  An interrupt is handled with the time drain_irq()     *)
(* reads anew, and the next step() reads the clock again, whatever the     *)
(* interrupt was for, a corrupted frame or other devices' frames.          *)
(*                                                                         *)
(* A frame has a count of the units until its last bit has arrived; it is  *)
(* on the air for the last Airtime of them.  A radio with a frame to send  *)
(* does not listen.  Handlers take no time.  Rounds that only blink, peers *)
(* that are pruned and the link supervision are left out.  Disturbed tells *)
(* when there are other devices' frames besides.                           *)
(***************************************************************************)
EXTENDS Integers, FiniteSets

CONSTANTS Tables,         \* sizes of the peer table looked at
          Disturbed,      \* those with other traffic on the air
          ReplyDelay,     \* reply_delay_us
          TimerPeriod,    \* timer_period_ms, also the period of the ticker
          RangePeriod,    \* schedule.range_period_ms
          SessionTimeout, \* schedule.session_timeout_ms
          Airtime         \* the longest frame

ASSUME SlotAssumption ==
    /\ Tables \subseteq Nat \ {0} /\ Disturbed \subseteq Tables
    /\ {ReplyDelay, TimerPeriod, RangePeriod, SessionTimeout, Airtime}
          \subseteq Nat \ {0}

VARIABLES table,       \* number of anchors in the peer table
          ticker,      \* time since the ticker fired
          seen,        \* age of the time step() has read
          sinceTick,   \* time since last_tick_ms
          sinceStart,  \* time since last_range_start_ms
          left,        \* time to session_deadline_ms, or NoDeadline
          expected,    \* what the tag expects
          acked, reported,
          frame,       \* what the tag is sending, or Nothing
          anchor,      \* expected and reply_delay_us of each anchor
          reply,       \* what each anchor is sending, or Nothing
          clean,       \* history: nothing went wrong in this round so far
          age          \* history: time since this round's Poll

timers == <<ticker, sinceTick, sinceStart>>
vars == <<table, seen, timers, left, expected, acked, reported, frame, anchor,
          reply, clean, age>>

NoDeadline == SessionTimeout + 1
Nothing == [kind |-> "None", count |-> 0, targets |-> {}]
Late == RangePeriod + TimerPeriod     \* times from here on are all the same

Anchors == 1..table
Session == left # NoDeadline

\* Mutated forms of ReplySlot: slots twice as far apart, or all the same.
ReplySlotFar(i) == (4 * (i - 1) + 1) * ReplyDelay
ReplySlotSame(i) == ReplyDelay

\* scheduled_reply_delay_us(), for the i-th peer counted from 1.
ReplySlot(i) == (2 * (i - 1) + 1) * ReplyDelay

Init ==
    /\ table \in Tables
    /\ ticker = 0 /\ seen = 0
    /\ sinceTick = 0 /\ sinceStart = Late
    /\ left = NoDeadline /\ expected = "PollAck"
    /\ acked = {} /\ reported = {}
    /\ frame = Nothing
    /\ anchor = [i \in Anchors |-> [expected |-> "Poll", slot |-> 0]]
    /\ reply = [i \in Anchors |-> Nothing]
    /\ clean = FALSE /\ age = 0

-----------------------------------------------------------------------------
(* Sending *)

Sending(kind, delay, targets) ==
    [kind |-> kind, count |-> delay + Airtime, targets |-> targets]

OnAir(f) == f # Nothing /\ f.count <= Airtime

\* Mutated form of Deadline: it counts from the start of the last round.
DeadlineFromStart(old) == SessionTimeout - sinceStart

\* The time left to the deadline of a phase that begins by a clock value this
\* old: seen in a tick, 0 in an interrupt.
Deadline(old) == SessionTimeout - old

BeginPollAckPhase ==
    /\ expected' = "PollAck" /\ acked' = {} /\ reported' = {}
    /\ left' = Deadline(seen)

\* begin_range_report_phase() and send_range(), to those that have answered.
SendRange(answered, old) ==
    /\ expected' = "RangeReport" /\ acked' = answered /\ reported' = {}
    /\ left' = Deadline(old)
    /\ frame' = Sending("Range", ReplyDelay, answered)

ResetProtocolState ==
    /\ expected' = "PollAck" /\ acked' = {} /\ reported' = {}
    /\ left' = NoDeadline

-----------------------------------------------------------------------------
(* tick(), with the time read before the ticker was waited for *)

\* Mutated form of Fires: the loop goes on with the time it had.
FiresUnread == ticker = TimerPeriod /\ ticker' = 0 /\ UNCHANGED seen

Fires == ticker = TimerPeriod /\ ticker' = 0 /\ seen' = 0

\* Mutated form of Expired: only the acknowledgement phase has a deadline.
ExpiredPolling == Session /\ expected = "PollAck" /\ left + seen <= 0

Expired == Session /\ left + seen <= 0

\* finish_timed_out_session()
TickRangesWithSome ==
    /\ Fires /\ Expired /\ expected = "PollAck" /\ acked # {}
    /\ SendRange(acked, seen)
    /\ UNCHANGED <<table, sinceTick, sinceStart, anchor, reply, clean, age>>

TickGivesUp ==
    /\ Fires /\ Expired /\ (expected = "RangeReport" \/ acked = {})
    /\ ResetProtocolState
    /\ UNCHANGED <<table, sinceTick, sinceStart, frame, anchor, reply, clean, age>>

\* The tick timer has run, by the time the loop has read.
TimerRan == sinceTick - seen >= TimerPeriod

RoundDue == ~ Session /\ sinceStart - seen >= RangePeriod

TickIdle ==
    /\ Fires /\ ~ Expired /\ ~ (TimerRan /\ RoundDue)
    /\ sinceTick' = IF TimerRan THEN seen ELSE sinceTick
    /\ UNCHANGED <<table, sinceStart, left, expected, acked, reported, frame,
                   anchor, reply, clean, age>>

\* begin_poll_ack_phase() and send_poll(); the round is clean if each anchor
\* is ready for it.
TickPoll ==
    /\ Fires /\ ~ Expired /\ TimerRan /\ RoundDue
    /\ sinceTick' = seen /\ sinceStart' = seen
    /\ BeginPollAckPhase
    /\ frame' = Sending("Poll", 0, Anchors)
    /\ clean' = (\A i \in Anchors : anchor[i].expected = "Poll"
                                      /\ reply[i] = Nothing)
    /\ age' = 0
    /\ UNCHANGED <<table, anchor, reply>>

-----------------------------------------------------------------------------
(* Arrivals: on_rx() and on_tx_done() *)

\* What anchor i makes of the Poll: a reply, or the end of the last exchange.
OnPoll(i) ==
    IF anchor[i].expected = "Poll"
    THEN <<[expected |-> "Range", slot |-> ReplySlot(i)],
           Sending("PollAck", ReplySlot(i), {})>>
    ELSE <<[anchor[i] EXCEPT !.expected = "Poll"], Nothing>>

\* A Range that does not list the anchor leaves it waiting.
OnRange(i) ==
    CASE anchor[i].expected # "Range" ->
            <<[anchor[i] EXCEPT !.expected = "Poll"], Nothing>>
      [] anchor[i].expected = "Range" /\ i \in frame.targets ->
            <<[anchor[i] EXCEPT !.expected = "Poll"],
              Sending("RangeReport", anchor[i].slot, {})>>
      [] OTHER -> <<anchor[i], Nothing>>

HandledBy(i) == IF frame.kind = "Poll" THEN OnPoll(i) ELSE OnRange(i)

\* The tag's frame has left it, with some of the listening anchors hearing.
TagFrameArrives ==
    /\ frame # Nothing /\ frame.count = 0
    /\ \E hears \in SUBSET {i \in Anchors : reply[i] = Nothing} :
         /\ anchor' = [i \in Anchors |-> IF i \in hears THEN HandledBy(i)[1]
                                         ELSE anchor[i]]
         /\ reply' = [i \in Anchors |-> IF i \in hears THEN HandledBy(i)[2]
                                        ELSE reply[i]]
         /\ clean' = (clean /\ hears = Anchors)
    /\ frame' = Nothing /\ seen' = 0
    /\ UNCHANGED <<table, timers, left, expected, acked, reported, age>>

\* Anchor i's reply has left it; the tag hears it, and reads the clock anew.
\* What a reply of another phase would do is left out: RepliesAwaited says
\* that there is none.
Arrives(i, kind) ==
    /\ reply[i].kind = kind /\ reply[i].count = 0 /\ frame = Nothing
    /\ reply' = [reply EXCEPT ![i] = Nothing]
    /\ seen' = 0
    /\ UNCHANGED <<table, timers, anchor, clean, age>>

TagPollAck(i) ==
    /\ Arrives(i, "PollAck") /\ expected = "PollAck"
    /\ acked \cup {i} # Anchors
    /\ acked' = acked \cup {i}
    /\ UNCHANGED <<left, expected, reported, frame>>

TagLastPollAck(i) ==
    /\ Arrives(i, "PollAck") /\ expected = "PollAck"
    /\ acked \cup {i} = Anchors
    /\ SendRange(Anchors, 0)

TagRangeReport(i) ==
    /\ Arrives(i, "RangeReport") /\ expected = "RangeReport"
    /\ IF Cardinality(reported \cup {i}) >= Cardinality(acked)
       THEN ResetProtocolState
       ELSE /\ reported' = reported \cup {i}
            /\ UNCHANGED <<left, expected, acked>>
    /\ UNCHANGED frame

\* The tag misses it, does not listen, or has an interrupt of a bad frame.
TagMisses(i) ==
    /\ reply[i] # Nothing /\ reply[i].count = 0
    /\ reply' = [reply EXCEPT ![i] = Nothing]
    /\ seen' \in IF frame = Nothing THEN {seen, 0} ELSE {seen}
    /\ clean' = FALSE
    /\ UNCHANGED <<table, timers, left, expected, acked, reported, frame,
                   anchor, age>>

\* An interrupt for a frame that is nothing to this round.
OtherTraffic ==
    /\ table \in Disturbed /\ frame = Nothing /\ seen # 0
    /\ seen' = 0
    /\ UNCHANGED <<table, timers, left, expected, acked, reported, frame,
                   anchor, reply, clean, age>>

-----------------------------------------------------------------------------

Down(f) == IF f = Nothing THEN f ELSE [f EXCEPT !.count = @ - 1]
Up(t, most) == IF t < most THEN t + 1 ELSE most

\* A unit of time passes when everything due has happened.
Pass ==
    /\ ticker < TimerPeriod
    /\ frame = Nothing \/ frame.count > 0
    /\ \A i \in Anchors : reply[i] = Nothing \/ reply[i].count > 0
    /\ ticker' = ticker + 1 /\ seen' = seen + 1
    /\ sinceTick' = Up(sinceTick, Late) /\ sinceStart' = Up(sinceStart, Late)
    /\ left' = IF Session THEN left - 1 ELSE left
    /\ frame' = Down(frame)
    /\ reply' = [i \in Anchors |-> Down(reply[i])]
    /\ age' = IF Session THEN age + 1 ELSE 0
    /\ UNCHANGED <<table, expected, acked, reported, anchor, clean>>

Next ==
    \/ TickRangesWithSome \/ TickGivesUp \/ TickIdle \/ TickPoll
    \/ TagFrameArrives
    \/ \E i \in Anchors : TagPollAck(i) \/ TagLastPollAck(i)
                            \/ TagRangeReport(i) \/ TagMisses(i)
    \/ OtherTraffic
    \/ Pass

Spec == Init /\ [][Next]_vars

-----------------------------------------------------------------------------
(* Properties *)

TypeOK ==
    /\ table \in Tables
    /\ ticker \in 0..TimerPeriod /\ seen \in 0..TimerPeriod
    /\ sinceTick \in 0..Late /\ sinceStart \in 0..Late
    /\ Session => left \in (- 2 * TimerPeriod)..SessionTimeout
    /\ expected \in {"PollAck", "RangeReport"}
    /\ acked \subseteq Anchors /\ reported \subseteq acked
    /\ \A i \in Anchors :
         /\ anchor[i].expected \in {"Poll", "Range"}
         /\ anchor[i].slot \in {0, ReplySlot(i)}
         /\ reply[i].kind \in {"None", "PollAck", "RangeReport"}
    /\ frame.kind \in {"None", "Poll", "Range"}

\* The timeouts outlast the replies: whatever is lost, the tag never gives a
\* phase up while an anchor has still to answer in it.
RepliesAwaited ==
    \A i \in Anchors :
        /\ reply[i].kind = "PollAck" => Session /\ expected = "PollAck"
        /\ reply[i].kind = "RangeReport" => Session /\ expected = "RangeReport"

\* The reply slots keep the frames of a round apart on the air.
OneOnAir ==
    /\ \A i, j \in Anchors : OnAir(reply[i]) /\ OnAir(reply[j]) => i = j
    /\ OnAir(frame) => \A i \in Anchors : ~ OnAir(reply[i])

\* A round in which every anchor was ready and nothing was lost ends with a
\* report from every anchor, not with a timeout.
CleanRoundsComplete ==
    [][TickRangesWithSome \/ TickGivesUp => ~ clean]_vars

\* However many frames are lost, and however old the time is by which the
\* deadlines are set and judged, a round is over after two session timeouts
\* and two ticker periods.
RoundsBounded == age <= 2 * (SessionTimeout + TimerPeriod)
=============================================================================
