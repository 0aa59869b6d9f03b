----------------------------- MODULE TwoWayTime -----------------------------
(***************************************************************************)
(* The timestamps of one two-way exchange as numbers: where each of the    *)
(* six is taken (ranging.rs), how a delayed transmission is timed          *)
(* (async_dw1000.rs, driver_core.rs), and what asymmetric_tof() (time.rs)  *)
(* makes of them at either end.                                            *)
(*                                                                         *)
(* Device clocks count ticks modulo Wrap, start anywhere and run at the    *)
(* same rate; no antenna is longer than the calibration says.  The chip    *)
(* (external) stamps a frame with the clock when it passes the antenna; a  *)
(* delayed one passes it at DX_TIME, which is what send_range() expects.   *)
(***************************************************************************)
EXTENDS Integers

CONSTANTS Wrap,         \* TIME_OVERFLOW, 2^40
          Quantum,      \* a delayed time is a multiple of this, 512
          ReplyDelay,   \* DwTime::from_micros(reply_delay_us)
          AntennaDelay, \* added by compute_delayed_time()
          Flights,      \* times of flight between the two devices
          Latencies     \* times a host needs between two of its accesses

ASSUME ClockAssumption ==
    /\ Wrap \in Nat /\ Quantum \in 1..Wrap /\ Wrap % Quantum = 0
    /\ ReplyDelay \in Quantum..Wrap /\ AntennaDelay \in 0..Wrap - 1
    /\ Flights \subseteq Nat /\ Latencies \subseteq Nat \ {0}

\* An exchange is over long before a clock has gone round.
ASSUME ExchangeAssumption ==
    \A f \in Flights, d, e \in Latencies :
       /\ 2 * f + ReplyDelay + d < Wrap
       /\ 2 * f + d + e + ReplyDelay + AntennaDelay < Wrap

Clock == 0..Wrap - 1

\* A clock that shows c shows this d ticks later.
Later(c, d) == IF c + d < Wrap THEN c + d ELSE c + d - Wrap

\* Mutated form of FiveBytes: every bit is kept.
AllBytes(x) == x

\* to_bytes(): what a register or a frame keeps of a timestamp.
FiveBytes(x) == x % Wrap

\* compute_delayed_time() at clock value c: the low bits are cut off before
\* the antenna delay is added, and the sum may exceed the clock's range.
DelayedTime(c) ==
    LET future == FiveBytes(c + ReplyDelay)
    IN future - (future % Quantum) + AntennaDelay

\* wrapped(): one overflow is undone.
Wrapped(d) == IF d < 0 THEN d + Wrap ELSE d

\* i128 division truncates towards zero; the divisor is positive here.
Quotient(x, y) == IF x >= 0 THEN x \div y ELSE -((-x) \div y)

\* Mutated form of AsymmetricTof: the reply times are not wrapped.
UnwrappedTof(s) ==
    LET round1 == Wrapped(s.pollAckReceived - s.pollSent)
        reply1 == s.pollAckSent - s.pollReceived
        round2 == Wrapped(s.rangeReceived - s.pollAckSent)
        reply2 == s.rangeSent - s.pollAckReceived
        denominator == round1 + round2 + reply1 + reply2
    IN IF denominator = 0 THEN 0
       ELSE Quotient(round1 * round2 - reply1 * reply2, denominator)

AsymmetricTof(s) ==
    LET round1 == Wrapped(s.pollAckReceived - s.pollSent)
        reply1 == Wrapped(s.pollAckSent - s.pollReceived)
        round2 == Wrapped(s.rangeReceived - s.pollAckSent)
        reply2 == Wrapped(s.rangeSent - s.pollAckReceived)
        denominator == round1 + round2 + reply1 + reply2
    IN IF denominator = 0 THEN 0
       ELSE Quotient(round1 * round2 - reply1 * reply2, denominator)

-----------------------------------------------------------------------------

VARIABLES flight,         \* the time of flight
          phase,          \* what happens next
          tag, anchor,    \* the two clocks
          stamps,         \* the six timestamps; rangeSent is TX_TIME
          inFrame,        \* range_sent as the Range frame carries it
          start,          \* DX_TIME of the Range frame
          atTag, atAnchor \* the times of flight computed, or Unknown

vars == <<flight, phase, tag, anchor, stamps, inFrame, start, atTag, atAnchor>>

Unknown == -Wrap

Phases == {"poll", "pollFlies", "reply", "ackFlies", "predict", "command",
           "launch", "rangeFlies", "report"}

StampNames == {"pollSent", "pollReceived", "pollAckSent",
               "pollAckReceived", "rangeSent", "rangeReceived"}

TypeOK ==
    /\ flight \in Flights /\ phase \in Phases
    /\ {tag, anchor, inFrame, start} \subseteq Clock
    /\ stamps \in [StampNames -> Clock]
    /\ {atTag, atAnchor} \subseteq Int

Init ==
    /\ flight \in Flights /\ tag \in Clock /\ anchor \in Clock
    /\ phase = "poll"
    /\ stamps = [s \in StampNames |-> 0]
    /\ inFrame = 0 /\ start = 0
    /\ atTag = Unknown /\ atAnchor = Unknown

Pass(d) == tag' = Later(tag, d) /\ anchor' = Later(anchor, d)

Goes(from, to) == phase = from /\ phase' = to

Stamp(name, c) == stamps' = [stamps EXCEPT ![name] = c]

\* The Poll leaves; on_tx_done() stores its TX_TIME.
PollSent ==
    /\ Goes("poll", "pollFlies")
    /\ \E d \in Latencies : Pass(d)
    /\ Stamp("pollSent", tag')
    /\ atTag' = Unknown /\ atAnchor' = Unknown
    /\ UNCHANGED <<flight, inFrame, start>>

PollReceived ==
    /\ Goes("pollFlies", "reply") /\ Pass(flight)
    /\ Stamp("pollReceived", anchor')
    /\ UNCHANGED <<flight, inFrame, start, atTag, atAnchor>>

\* The anchor answers a reply delay later; TX_TIME is stored once it is known.
PollAckSent ==
    /\ Goes("reply", "ackFlies")
    /\ \E d \in Latencies : Pass(ReplyDelay + d)
    /\ Stamp("pollAckSent", anchor')
    /\ UNCHANGED <<flight, inFrame, start, atTag, atAnchor>>

PollAckReceived ==
    /\ Goes("ackFlies", "predict") /\ Pass(flight)
    /\ Stamp("pollAckReceived", tag')
    /\ UNCHANGED <<flight, inFrame, start, atTag, atAnchor>>

\* send_range() writes the time it computes into every RangeTiming.
RangePredicted ==
    /\ Goes("predict", "command")
    /\ \E d \in Latencies : Pass(d)
    /\ inFrame' = FiveBytes(DelayedTime(tag'))
    /\ UNCHANGED <<flight, stamps, start, atTag, atAnchor>>

\* transmit() computes it again, from the clock as it is by then.
RangeCommanded ==
    /\ Goes("command", "launch")
    /\ \E d \in Latencies : Pass(d)
    /\ start' = FiveBytes(DelayedTime(tag'))
    /\ UNCHANGED <<flight, stamps, inFrame, atTag, atAnchor>>

\* Mutated form of RangeSent: TX_TIME is not stored, the prediction stays.
RangeSentUnread ==
    /\ Goes("launch", "rangeFlies")
    /\ Pass(Wrapped(start - tag))
    /\ Stamp("rangeSent", inFrame)
    /\ UNCHANGED <<flight, inFrame, start, atTag, atAnchor>>

\* The frame leaves at DX_TIME; on_tx_done() stores TX_TIME.
RangeSent ==
    /\ Goes("launch", "rangeFlies")
    /\ Pass(Wrapped(start - tag))
    /\ Stamp("rangeSent", start)
    /\ UNCHANGED <<flight, inFrame, start, atTag, atAnchor>>

\* The anchor computes with the timestamp it was sent.
RangeReceived ==
    /\ Goes("rangeFlies", "report") /\ Pass(flight)
    /\ Stamp("rangeReceived", anchor')
    /\ atAnchor' = AsymmetricTof([stamps' EXCEPT !["rangeSent"] = inFrame])
    /\ UNCHANGED <<flight, inFrame, start, atTag>>

\* The tag computes with its own three and the three of the RangeReport.
ReportReceived ==
    /\ Goes("report", "poll")
    /\ \E d \in Latencies : Pass(d)
    /\ atTag' = AsymmetricTof(stamps)
    /\ UNCHANGED <<flight, stamps, inFrame, start, atAnchor>>

Next == \/ PollSent \/ PollReceived \/ PollAckSent \/ PollAckReceived
        \/ RangePredicted \/ RangeCommanded \/ RangeSent \/ RangeReceived
        \/ ReportReceived

Spec == Init /\ [][Next]_vars

-----------------------------------------------------------------------------
(* Properties *)

\* The tag's distance is exact, wherever the clocks wrap and however late the
\* hosts are: asymmetric_tof() cancels both offsets and both reply times.
TagExact == atTag # Unknown => atTag = flight

\* The anchor's distance is never too short: what transmit() adds to the time
\* that send_range() predicted can only lengthen it.
AnchorNeverShort == atAnchor # Unknown => atAnchor >= flight

\* The range_sent of a Range frame is the time that frame was transmitted.
RangeSentInFrame == phase = "rangeFlies" => inFrame = stamps["rangeSent"]
=============================================================================
