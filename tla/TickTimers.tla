----------------------------- MODULE TickTimers -----------------------------
(***************************************************************************)
(* The timers of one tag: what tick_async() (ranging.rs) and the link      *)
(* supervision of the application (app.rs) decide from a millisecond clock *)
(* that wraps (u32).  Everything is measured modulo Width; the code mixes  *)
(* wrapping_sub() and saturating_sub(), and so does this module.           *)
(*                                                                         *)
(* The host loop reads the clock, then waits for its ticker or for an      *)
(* interrupt, and passes the value it read BEFORE the wait to the tick:    *)
(* that is seen.  After each of the two it checks for a stalled link.      *)
(* One peer stands for the peer table.  Handlers take no time, no radio    *)
(* access fails and tag_slot_count is 1, so that the slot is always open.  *)
(*                                                                         *)
(* silence and age are history: the true time since the peer was heard and *)
(* since the current session phase began.  unacknowledged is the peer's    *)
(* (external): it has a Poll to answer, and answers each one once.         *)
(***************************************************************************)
EXTENDS Naturals

CONSTANTS Width,              \* the clock's modulus, 2^32
          TimerPeriod,        \* timer_period_ms, the ticker's period too
          RangePeriod,        \* range_period_ms
          SessionTimeout,     \* session_timeout_ms
          ResetPeriod,        \* reset_period_ms
          RecoveryTimeout,    \* DW1000_LINK_RECOVERY_TIMEOUT_MS
          Boot                \* the clock when the device starts

ASSUME TimerAssumption ==
    /\ {TimerPeriod, RangePeriod, SessionTimeout, ResetPeriod, RecoveryTimeout}
          \subseteq 1..((Width \div 2) - 1)
    /\ Width \in Nat /\ Boot \in 0..Width - 1

Time == 0..Width - 1
None == Width                        \* an Option<u32> that is None

\* The longest silence of a peer: a tick comes with a period's delay, and with
\* a clock value as old as that, and two ticks may go to a session that has
\* run out, one for each of its phases.
MaxSilence == ResetPeriod + 4 * TimerPeriod

VARIABLES now,          \* the clock
          seen,         \* now as step() read it before its select
          at,           \* "select", or "check" for a stalled link
          ticker,       \* time since the ticker fired
          lastTick,     \* last_tick_ms
          lastRange,    \* last_range_start_ms
          heard,        \* the peer's last_activity_ms, None without a peer
          deadline,     \* session_deadline_ms
          session,      \* what the session waits for: expected, or "none"
          lastRadio,    \* last_radio_activity_ms
          lastUpdate,   \* last_range_update_ms
          unacknowledged,
          silence, age

node  == <<lastTick, lastRange, heard, deadline, session>>
app   == <<lastRadio, lastUpdate>>
vars  == <<now, seen, at, ticker, node, app, unacknowledged, silence, age>>

TypeOK ==
    /\ {now, seen, lastTick, lastRange, lastRadio, lastUpdate} \subseteq Time
    /\ {heard, deadline} \subseteq Time \cup {None}
    /\ session \in {"none", "PollAck", "RangeReport"}
    /\ deadline = None <=> session = "none"
    /\ at \in {"select", "check"}
    /\ ticker \in 0..TimerPeriod
    /\ unacknowledged \in BOOLEAN
    /\ silence \in 0..MaxSilence + 1 /\ age \in 0..SessionTimeout

-----------------------------------------------------------------------------
(* u32 arithmetic *)

WrappingSub(x, y)   == (x + Width - y) % Width
SaturatingSub(x, y) == IF x >= y THEN x - y ELSE 0

\* Mutated form of DeadlineFrom: the addition does not wrap.
DeadlineUnwrapped(t) == t + SessionTimeout

\* session_deadline_ms when a phase begins at t.
DeadlineFrom(t) == (t + SessionTimeout) % Width

-----------------------------------------------------------------------------

\* new() of app.rs: the node and the supervision start at the same instant.
Init ==
    /\ now = Boot /\ seen = Boot /\ ticker = 0
    /\ at = "select"
    /\ lastTick = Boot /\ lastRange = 0
    /\ heard = None /\ deadline = None /\ session = "none"
    /\ lastRadio = Boot /\ lastUpdate = Boot
    /\ unacknowledged = FALSE /\ silence = 0 /\ age = 0

\* A history clock runs while there is something to measure, up to a bound.
Runs(x, measuring, bound) == IF measuring /\ x < bound THEN x + 1 ELSE x

\* The loop is polled in time: the clock waits for a tick that is due.
Advance ==
    /\ at = "select" /\ ticker < TimerPeriod
    /\ now' = (now + 1) % Width
    /\ ticker' = ticker + 1
    /\ silence' = Runs(silence, heard # None, MaxSilence + 1)
    /\ age' = Runs(age, session # "none", SessionTimeout)
    /\ UNCHANGED <<seen, at, node, app, unacknowledged>>

\* The ticker fires; the link check comes after whatever the tick does.
Ticks ==
    /\ at = "select" /\ ticker = TimerPeriod
    /\ ticker' = 0 /\ at' = "check"
    /\ UNCHANGED <<now, seen>>

\* Mutated form of SessionExpired: a plain comparison.
SessionExpiredPlain == deadline # None /\ seen >= deadline

\* session_expired(): the deadline is in the half circle behind seen.
SessionExpired ==
    deadline # None /\ WrappingSub(seen, deadline) < Width \div 2

\* A session phase begins at t: begin_poll_ack_phase() with "PollAck",
\* begin_range_report_phase() with "RangeReport".
BeginPhase(expected, t) ==
    /\ session' = expected /\ deadline' = DeadlineFrom(t) /\ age' = 0

\* reset_protocol_state()
EndSession == session' = "none" /\ deadline' = None /\ age' = 0

\* finish_timed_out_session(): range with the anchors that acknowledged, or
\* give up.  Either changes tx_debug_snapshot(), which counts as activity.
TickExpires ==
    /\ Ticks /\ SessionExpired
    /\ \/ session = "PollAck" /\ BeginPhase("RangeReport", seen)
       \/ EndSession
    /\ lastRadio' = seen
    /\ UNCHANGED <<lastTick, lastRange, heard, lastUpdate, unacknowledged,
                   silence>>

\* Mutated form of PeerInactive: a peer is pruned only between two rounds.
PeerInactiveIdle ==
    /\ heard # None /\ session = "none"
    /\ SaturatingSub(seen, heard) > ResetPeriod

\* prune_inactive_peer()
PeerInactive ==
    heard # None /\ SaturatingSub(seen, heard) > ResetPeriod

TickPrunes ==
    /\ Ticks /\ ~ SessionExpired /\ PeerInactive
    /\ heard' = None /\ silence' = 0 /\ EndSession
    /\ lastRadio' = seen
    /\ UNCHANGED <<lastTick, lastRange, lastUpdate, unacknowledged>>

TimerDue == SaturatingSub(seen, lastTick) >= TimerPeriod

TickTooEarly ==
    /\ Ticks /\ ~ SessionExpired /\ ~ PeerInactive /\ ~ TimerDue
    /\ UNCHANGED <<node, app, unacknowledged, silence, age>>

RangeDue ==
    session = "none" /\ WrappingSub(seen, lastRange) >= RangePeriod

TickRests ==
    /\ Ticks /\ ~ SessionExpired /\ ~ PeerInactive /\ TimerDue /\ ~ RangeDue
    /\ lastTick' = seen
    /\ UNCHANGED <<lastRange, heard, deadline, session, app, unacknowledged,
                   silence, age>>

\* A Poll opens a session; without a peer, or every 20 rounds, it is a Blink.
TickStartsRound ==
    /\ Ticks /\ ~ SessionExpired /\ ~ PeerInactive /\ TimerDue /\ RangeDue
    /\ lastTick' = seen /\ lastRange' = seen /\ lastRadio' = seen
    /\ \/ UNCHANGED <<session, deadline, age, unacknowledged>>
       \/ /\ heard # None /\ BeginPhase("PollAck", seen)
          /\ unacknowledged' = TRUE
    /\ UNCHANGED <<heard, lastUpdate, silence>>

\* drain_irq() reads the clock anew; the radio's activity is recorded.
Interrupt ==
    /\ at = "select" /\ ticker < TimerPeriod
    /\ at' = "check" /\ lastRadio' = now
    /\ UNCHANGED <<now, seen, ticker, lastTick, lastRange>>

\* A transmission has ended, or a frame came that on_rx() does not accept.
Overhear ==
    /\ Interrupt /\ lastRadio # now
    /\ UNCHANGED <<heard, session, deadline, lastUpdate, unacknowledged,
                   silence, age>>

\* What an accepted frame does to the session.  A PollAck completes the
\* acknowledgements, even when no session waits for them; a RangeReport is a
\* range update and may be the last; RangingInit, a new peer or a frame of
\* the wrong phase ends the session; others leave it as it is.
Answered ==
    \/ UNCHANGED <<session, deadline, age, lastUpdate, unacknowledged>>
    \/ /\ unacknowledged /\ session # "RangeReport"
       /\ BeginPhase("RangeReport", now)
       /\ unacknowledged' = FALSE /\ UNCHANGED lastUpdate
    \/ /\ session = "RangeReport" /\ lastUpdate' = now
       /\ EndSession \/ UNCHANGED <<session, deadline, age>>
       /\ UNCHANGED unacknowledged
    \/ EndSession /\ UNCHANGED <<lastUpdate, unacknowledged>>

\* Mutated form of Hear: the frame is not counted as activity of its sender.
HearUnnoticed ==
    /\ Interrupt /\ heard # now
    /\ heard' = IF heard = None THEN now ELSE heard
    /\ silence' = 0
    /\ Answered

\* A frame of the peer is accepted, which joins the table if it is new; a frame
\* is longer than a millisecond, so there is at most one for each.
Hear ==
    /\ Interrupt /\ heard # now
    /\ heard' = now /\ silence' = 0
    /\ Answered

\* recover_stalled_link_if_needed()
LinkStalled ==
    /\ heard # None
    /\ \/ WrappingSub(now, lastRadio) >= RecoveryTimeout
       \/ WrappingSub(now, lastUpdate) >= RecoveryTimeout

\* step() begins again with the clock as it is now.
Loops == /\ at = "check" /\ at' = "select" /\ seen' = now
         /\ UNCHANGED <<now, ticker, unacknowledged, silence>>

CheckPasses ==
    /\ Loops /\ ~ LinkStalled
    /\ UNCHANGED <<node, app, age>>

\* Mutated form of CheckRecovers: last_tick_ms is left as it was.
CheckRecoversLate ==
    /\ Loops /\ LinkStalled
    /\ EndSession
    /\ lastRadio' = now /\ lastUpdate' = now
    /\ UNCHANGED <<lastTick, lastRange, heard>>

\* recover_link_async() restarts the tick timer too.
CheckRecovers ==
    /\ Loops /\ LinkStalled
    /\ EndSession /\ lastTick' = now
    /\ lastRadio' = now /\ lastUpdate' = now
    /\ UNCHANGED <<lastRange, heard>>

Tick == \/ TickExpires \/ TickPrunes \/ TickTooEarly \/ TickRests
        \/ TickStartsRound
Check == CheckPasses \/ CheckRecovers

Next == Advance \/ Tick \/ Overhear \/ Hear \/ Check

Spec == Init /\ [][Next]_vars

\* Time passes, the executor polls the loop; nothing obliges the peer to speak.
Fairness == WF_vars(Advance) /\ WF_vars(Tick) /\ WF_vars(Check)

FairSpec == Spec /\ Fairness

-----------------------------------------------------------------------------
(* Properties *)

\* A peer is pruned only after a true silence of more than reset_period_ms,
\* although the tick works with a clock value read before its wait and the
\* clock may have wrapped in between.
NeverPrunedEarly ==
    [][heard # None /\ heard' = None => silence > ResetPeriod]_vars

\* A peer that says no more is pruned within four ticker periods of the end of
\* reset_period_ms, whatever the tag is about, unless the clock wraps first:
\* saturating_sub() then measures no silence at all.
PrunedInTime == silence > MaxSilence => heard + silence >= Width

\* A session is not given up before its timeout, short of the one ticker
\* period by which the clock value used for its start may have been old.
SessionsLast ==
    [][TickExpires => age + TimerPeriod >= SessionTimeout]_vars

\* A tag that has a peer keeps starting rounds, across the wrap of the clock:
\* the link supervision restarts the tick timer that the wrap has frozen.
PeeredRoundsGoOn ==
    \/ []<><<TickStartsRound>>_vars
    \/ <>[](heard = None)

\* The tick is periodic: a tag starts rounds, discovery at least, for ever.
RoundsGoOn == []<><<TickStartsRound>>_vars
=============================================================================
