-------------------------- MODULE ReplySlotsProofs --------------------------
(***************************************************************************)
(* The properties of ReplySlots for every schedule that has room (Roomy),  *)
(* any peer table, any number of frames lost and any other traffic.        *)
(*                                                                         *)
(* The inductive invariant SlotsInv says where a round stands: between     *)
(* rounds nothing is on its way; in a phase either the tag's frame is on   *)
(* its way and the deadline is beyond the last reply it can cause, or      *)
(* replies are, each of this phase, each in its slot, each before the      *)
(* deadline.  That the deadline stays beyond the replies needs the room:   *)
(* the deadline is set from a time that may be a ticker period old.        *)
(*                                                                         *)
(* The length of a round needs no room but another invariant, Bounded:     *)
(* each phase ends at most a slack after what it was given.  The slack is  *)
(* two ticker periods, or one where the session timeout is a number of     *)
(* whole periods: the ticker that ends a phase runs from the Poll on.      *)
(***************************************************************************)
EXTENDS ReplySlots, FiniteSetTheorems, TLAPS

\* The schedule has room: a phase that began on a clock value a ticker period
\* old still outlasts its last reply, and a slot is longer than a frame.
Roomy ==
    /\ \A n \in Tables :
          TimerPeriod + ReplyDelay + 2 * Airtime + ReplySlot(n) < SessionTimeout
    /\ Airtime < 2 * ReplyDelay

-----------------------------------------------------------------------------
(* The inductive invariant *)

Frames(kinds) ==
    {Nothing} \cup [kind : kinds, count : Nat, targets : SUBSET Anchors]

Typed ==
    /\ table \in Tables
    /\ ticker \in 0..TimerPeriod /\ seen \in 0..ticker
    /\ sinceTick \in 0..Late /\ sinceStart \in 0..Late
    /\ left \in Int /\ left <= NoDeadline
    /\ expected \in {"PollAck", "RangeReport"}
    /\ acked \subseteq Anchors /\ reported \subseteq acked
    /\ frame \in Frames({"Poll", "Range"})
    /\ reply \in [Anchors -> Frames({"PollAck", "RangeReport"})]
    /\ anchor \in [Anchors -> [expected : {"Poll", "Range"}, slot : Int]]
    /\ clean \in BOOLEAN
    /\ \A i \in Anchors : anchor[i].slot \in {0, ReplySlot(i)}

\* An anchor that waits for a Range has its slot from the Poll before it.
SlotsKept ==
    \A i \in Anchors : anchor[i].expected = "Range" => anchor[i].slot = ReplySlot(i)

\* Whom the phase waits for, and who has answered.
Awaited  == IF expected = "PollAck" THEN Anchors ELSE acked
Answered == IF expected = "PollAck" THEN acked ELSE reported

\* What the tag and the anchors send in the phase.
Calls   == IF expected = "PollAck" THEN "Poll" ELSE "Range"
Replies == IF expected = "PollAck" THEN "PollAck" ELSE "RangeReport"

\* Between two rounds nothing is on its way.
Resting ==
    /\ expected = "PollAck" /\ acked = {}
    /\ frame = Nothing /\ \A i \in Anchors : reply[i] = Nothing

\* The tag's frame is on its way, and the replies to it still fit.
Calling ==
    /\ frame.kind = Calls /\ Answered = {}
    /\ expected = "RangeReport" => frame.targets = acked
    /\ \A i \in Anchors : reply[i] = Nothing
    /\ left > frame.count + ReplySlot(table) + Airtime

\* The replies on their way are those of this phase, one of each anchor that
\* has not answered, each in its slot, and each before the deadline.
Answering ==
    /\ frame = Nothing /\ Answered # Awaited
    /\ \A i \in Anchors : reply[i] # Nothing =>
          /\ reply[i].kind = Replies /\ i \in Awaited \ Answered
          /\ left > reply[i].count
    /\ \A i, j \in Anchors : reply[i] # Nothing /\ reply[j] # Nothing =>
          reply[i].count - reply[j].count = ReplySlot(i) - ReplySlot(j)

\* In a clean round every anchor is ready for the frame, then answers it.
Complete ==
    /\ expected = "RangeReport" => acked = Anchors
    /\ frame # Nothing => \A i \in Anchors :
          anchor[i].expected = IF expected = "PollAck" THEN "Poll" ELSE "Range"
    /\ frame = Nothing => \A i \in Anchors : i \in Answered \/ reply[i] # Nothing
    /\ expected = "PollAck" /\ frame = Nothing =>
          \A i \in Anchors : anchor[i].expected = "Range"

SlotsInv ==
    /\ Typed /\ SlotsKept
    /\ ~ Session => Resting
    /\ Session =>
          /\ left > - (TimerPeriod + ticker)
          /\ expected = "RangeReport" => acked # {}
          /\ Calling \/ Answering
          /\ clean => Complete

-----------------------------------------------------------------------------
(* Lemmas *)

\* The slots are two reply delays apart, so the last is the longest.
LEMMA SlotsApart ==
    ASSUME NEW n \in Nat \ {0}
    PROVE  /\ \A i \in 1..n : ReplySlot(i) \in Nat /\ ReplySlot(i) <= ReplySlot(n)
           /\ \A i, j \in 1..n : i < j =>
                 ReplySlot(j) - ReplySlot(i) >= 2 * ReplyDelay
<1> DEFINE times(d) == d * ReplyDelay
<1>1. ReplyDelay \in Nat
  BY SlotAssumption
<1>2. \A d \in Nat : times(d) \in Nat /\ (d # 0 => times(d) >= ReplyDelay)
  BY <1>1
<1>3. \A i, j \in Nat : i <= j => times(j) = times(i) + times(j - i)
  BY <1>1
<1>4. \A i \in Nat \ {0} : ReplySlot(i) = times(i) + times(i) - ReplyDelay
  BY <1>1 DEF ReplySlot
<1> HIDE DEF times
<1>5. \A i \in 1..n : i \in Nat \ {0} /\ n - i \in Nat /\ i <= n
  OBVIOUS
<1>6. ASSUME NEW i \in 1..n
      PROVE  ReplySlot(i) \in Nat /\ ReplySlot(i) <= ReplySlot(n)
  <2>1. times(n) = times(i) + times(n - i)
    BY <1>3, <1>5
  <2>2. times(n) \in Nat /\ times(i) \in Nat /\ times(n - i) \in Nat
        /\ times(i) >= ReplyDelay
    BY <1>2, <1>5
  <2>3. /\ ReplySlot(i) = times(i) + times(i) - ReplyDelay
        /\ ReplySlot(n) = times(n) + times(n) - ReplyDelay
    BY <1>4, <1>5
  <2> QED BY ONLY <1>1, <2>1, <2>2, <2>3
<1>7. ASSUME NEW i \in 1..n, NEW j \in 1..n, i < j
      PROVE  ReplySlot(j) - ReplySlot(i) >= 2 * ReplyDelay
  <2>1. j - i \in Nat /\ j - i # 0 /\ i <= j
    BY <1>7
  <2>2. times(j) = times(i) + times(j - i)
    BY <1>3, <1>5, <2>1
  <2>3. times(i) \in Nat /\ times(j - i) \in Nat /\ times(j - i) >= ReplyDelay
    BY <1>2, <1>5, <2>1
  <2>4. /\ ReplySlot(i) = times(i) + times(i) - ReplyDelay
        /\ ReplySlot(j) = times(j) + times(j) - ReplyDelay
    BY <1>4, <1>5
  <2> QED BY ONLY <1>1, <2>2, <2>3, <2>4
<1> QED BY <1>6, <1>7

\* The constants are lengths of time, and no deadline is NoDeadline.
LEMMA Times ==
    /\ {ReplyDelay, TimerPeriod, RangePeriod, SessionTimeout, Airtime}
          \subseteq Nat \ {0}
    /\ NoDeadline = SessionTimeout + 1 /\ Late = RangePeriod + TimerPeriod
    /\ \A n \in Tables : n \in Nat \ {0} /\ ReplySlot(n) \in Nat
<1>1. \A n \in Tables : n \in Nat \ {0}
  BY SlotAssumption
<1>2. \A n \in Nat \ {0} : n \in 1..n
  OBVIOUS
<1> QED BY <1>1, <1>2, SlotAssumption, SlotsApart DEF NoDeadline, Late

\* A frame on its way is not Nothing, and its count is a length of time.
LEMMA FrameFacts ==
    ASSUME NEW kinds \in {{"Poll", "Range"}, {"PollAck", "RangeReport"}},
           NEW f \in Frames(kinds)
    PROVE  /\ f.count \in Nat
           /\ f # Nothing => f.kind \in kinds
           /\ f.kind \in kinds => f # Nothing
           /\ f = Nothing => f.kind = "None" /\ f.count = 0
BY DEF Frames, Nothing

\* A frame just sent.
LEMMA SendingFacts ==
    ASSUME NEW kind, NEW delay \in Nat, NEW targets,
           kind # "None"
    PROVE  LET f == Sending(kind, delay, targets) IN
           /\ f # Nothing /\ f.kind = kind /\ f.targets = targets
           /\ f.count = delay + Airtime
           /\ targets \subseteq Anchors => f \in Frames({kind})
BY Times DEF Sending, Nothing, Frames

\* Once the deadline has passed nothing is on its way, and an anchor has not
\* been heard, so the round is not clean.
LEMMA PastDeadline ==
    ASSUME SlotsInv, Session, left <= 0
    PROVE  /\ frame = Nothing /\ \A i \in Anchors : reply[i] = Nothing
           /\ ~ clean
<1>1. Typed /\ (Calling \/ Answering) /\ (clean => Complete)
  BY DEF SlotsInv
<1>2. frame.count \in Nat /\ \A i \in Anchors : reply[i].count \in Nat
  BY <1>1, FrameFacts DEF Typed
<1>4. Answering
  <2>1. frame.count + ReplySlot(table) + Airtime \in Nat /\ left \in Int
    BY <1>1, <1>2, Times DEF Typed
  <2>2. ~ (left > frame.count + ReplySlot(table) + Airtime)
    BY ONLY <2>1, left <= 0
  <2> QED BY <1>1, <2>2 DEF Calling
<1>5. \A i \in Anchors : reply[i] = Nothing
  BY <1>1, <1>2, <1>4 DEF Answering, Typed
<1>6. frame = Nothing /\ Answered # Awaited
  BY <1>4 DEF Answering
<1>7. ~ clean
  <2>1. SUFFICES ASSUME Complete PROVE FALSE
    BY <1>1
  <2>2. \A i \in Anchors : i \in Answered
    BY <1>5, <1>6, <2>1 DEF Complete
  <2>3. Answered \subseteq Awaited /\ Awaited = Anchors
    BY <1>1, <2>1 DEF Complete, Awaited, Answered, Typed
  <2> QED BY <1>6, <2>2, <2>3
<1> QED BY <1>5, <1>6, <1>7

\* The tag sends a frame and waits for the answers to it.
LEMMA Sends ==
    ASSUME Roomy, Typed, Typed', table' = table,
           NEW old \in 0..TimerPeriod, left' = Deadline(old),
           NEW delay \in {0, ReplyDelay},
           frame' = Sending(Calls', delay, IF expected' = "PollAck" THEN Anchors
                                           ELSE acked'),
           Answered' = {}, \A i \in Anchors : reply'[i] = Nothing
    PROVE  Session' /\ Calling' /\ left' > - (TimerPeriod + ticker')
<1>1. /\ left' = SessionTimeout - old /\ old \in 0..TimerPeriod
      /\ ticker' \in 0..TimerPeriod /\ table \in Tables /\ delay \in Nat
  BY Times DEF Deadline, Typed
<1>2. /\ frame'.kind = Calls' /\ frame'.count = delay + Airtime
      /\ frame'.targets = IF expected' = "PollAck" THEN Anchors ELSE acked'
  <2> DEFINE k == Calls'
             t == IF expected' = "PollAck" THEN Anchors ELSE acked'
  <2>1. frame' = Sending(k, delay, t)
    OBVIOUS
  <2> HIDE DEF k, t
  <2>2. frame'.kind = k /\ frame'.count = delay + Airtime /\ frame'.targets = t
    BY ONLY <2>1 DEF Sending
  <2> QED BY <2>2 DEF k, t
<1>3. /\ TimerPeriod + ReplyDelay + 2 * Airtime + ReplySlot(table) < SessionTimeout
      /\ ReplySlot(table) \in Nat
  BY <1>1, Times DEF Roomy
<1>4. delay <= ReplyDelay
  BY Times
<1>5. left' > frame'.count + ReplySlot(table) + Airtime
  BY <1>1, <1>2, <1>3, <1>4, Times
<1>6. left' # NoDeadline /\ left' > - (TimerPeriod + ticker')
  BY <1>1, <1>3, Times
<1> QED BY <1>2, <1>5, <1>6 DEF Session, Calling, Anchors, ReplySlot, NoDeadline

-----------------------------------------------------------------------------
(* Every step keeps the invariant *)

\* finish_timed_out_session(): nothing of the phase is left.
LEMMA TimeoutKeeps ==
    ASSUME Roomy, SlotsInv, TickRangesWithSome \/ TickGivesUp
    PROVE  SlotsInv'
<1>1. /\ table' = table /\ ticker' = 0 /\ seen' = 0 /\ Anchors' = Anchors
      /\ UNCHANGED <<sinceTick, sinceStart, anchor, reply, clean>>
  BY DEF TickRangesWithSome, TickGivesUp, Fires, Anchors
<1>2. Session /\ left <= 0 /\ Typed /\ SlotsKept
  BY DEF TickRangesWithSome, TickGivesUp, Expired, SlotsInv, Typed
<1>3. frame = Nothing /\ (\A i \in Anchors : reply[i] = Nothing) /\ ~ clean
  BY <1>2, PastDeadline
<1>4. SlotsKept'
  BY <1>1, <1>2 DEF SlotsKept, ReplySlot
<1>5. CASE TickRangesWithSome
  <2>1. /\ expected' = "RangeReport" /\ acked' = acked /\ reported' = {}
        /\ left' = Deadline(seen) /\ acked # {}
        /\ frame' = Sending("Range", ReplyDelay, acked)
    BY <1>5 DEF TickRangesWithSome, SendRange
  <2>2. frame' \in Frames({"Range"})
    BY <1>2, <2>1, Times, SendingFacts DEF Typed
  <2>3. Typed'
    <3>1. left' \in Int /\ left' <= NoDeadline
      BY <1>2, <2>1, Times DEF Deadline, Typed
    <3>2. 0 \in 0..TimerPeriod /\ 0 \in 0..0
      BY Times
    <3> QED BY <1>1, <1>2, <2>1, <2>2, <3>1, <3>2 DEF Typed, Frames, ReplySlot
  <2>4. Session' /\ Calling' /\ left' > - (TimerPeriod + ticker')
    <3>1. ReplyDelay \in {0, ReplyDelay} /\ Answered' = {}
      BY <2>1 DEF Answered
    <3>2. frame' = Sending(Calls', ReplyDelay,
                        IF expected' = "PollAck" THEN Anchors ELSE acked')
      BY <2>1 DEF Calls
    <3>3. \A i \in Anchors : reply'[i] = Nothing
      BY <1>1, <1>3
    <3>4. seen \in 0..TimerPeriod
      BY <1>2, Times DEF Typed
    <3> QED BY ONLY Roomy, <1>1, <1>2, <2>1, <2>3, <3>1, <3>2, <3>3, <3>4, Sends
  <2> QED BY <1>1, <1>3, <1>4, <2>1, <2>3, <2>4 DEF SlotsInv
<1>6. CASE TickGivesUp
  <2>1. /\ expected' = "PollAck" /\ acked' = {} /\ reported' = {}
        /\ left' = NoDeadline /\ frame' = frame
    BY <1>6 DEF TickGivesUp, ResetProtocolState
  <2>2. Typed'
    <3>1. NoDeadline \in Int /\ 0 \in 0..TimerPeriod /\ 0 \in 0..0
      BY Times
    <3> QED BY <1>1, <1>2, <2>1, <3>1 DEF Typed, Frames, ReplySlot
  <2>3. ~ Session' /\ Resting'
    BY <1>1, <1>3, <2>1 DEF Session, Resting, NoDeadline, Nothing
  <2> QED BY <1>4, <2>2, <2>3 DEF SlotsInv
<1> QED BY <1>5, <1>6

\* A tick that starts nothing.
LEMMA IdleKeeps ==
    ASSUME SlotsInv, TickIdle
    PROVE  SlotsInv'
<1>1. /\ UNCHANGED <<table, sinceStart, left, expected, acked, reported, frame,
                     anchor, reply, clean>>
      /\ ticker' = 0 /\ seen' = 0 /\ ~ Expired
      /\ sinceTick' \in {seen, sinceTick} /\ Anchors' = Anchors
  BY DEF TickIdle, Fires, Anchors
<1>2. Typed /\ SlotsKept
  BY DEF SlotsInv
<1>3. Typed'
  <2>1. /\ 0 \in 0..TimerPeriod /\ 0 \in 0..0
        /\ \A x \in 0..TimerPeriod : \A y \in 0..x : y \in 0..Late
    BY Times
  <2> QED BY <1>1, <1>2, <2>1 DEF Typed, Frames, ReplySlot
<1>4. SlotsKept'
  BY <1>1, <1>2 DEF SlotsKept, ReplySlot
<1>5. /\ Session' = Session /\ Resting' = Resting /\ Calling' = Calling
      /\ Answering' = Answering /\ Complete' = Complete
  BY <1>1 DEF Session, Resting, Calling, Answering, Complete, Calls, Answered,
     Awaited, Replies, ReplySlot, NoDeadline, Nothing
<1>6. Session => left' > - (TimerPeriod + ticker')
  BY <1>1, <1>2, Times DEF Expired, Typed
<1> QED BY <1>1, <1>3, <1>4, <1>5, <1>6 DEF SlotsInv

\* begin_poll_ack_phase() and send_poll()
LEMMA PollKeeps ==
    ASSUME Roomy, SlotsInv, TickPoll
    PROVE  SlotsInv'
<1>1. /\ table' = table /\ ticker' = 0 /\ seen' = 0 /\ Anchors' = Anchors
      /\ sinceTick' = seen /\ sinceStart' = seen
      /\ expected' = "PollAck" /\ acked' = {} /\ reported' = {}
      /\ left' = Deadline(seen) /\ frame' = Sending("Poll", 0, Anchors)
      /\ clean' = (\A i \in Anchors : anchor[i].expected = "Poll"
                                        /\ reply[i] = Nothing)
      /\ anchor' = anchor /\ reply' = reply
  BY DEF TickPoll, Fires, Anchors, BeginPollAckPhase
<1>2. Typed /\ SlotsKept /\ Resting
  BY DEF SlotsInv, TickPoll, RoundDue
<1>3. frame' \in Frames({"Poll"}) /\ frame' # Nothing
  BY <1>1, SendingFacts
<1>4. Typed'
  <2>1. left' \in Int /\ left' <= NoDeadline
    BY <1>1, <1>2, Times DEF Deadline, Typed
  <2>2. /\ 0 \in 0..TimerPeriod /\ 0 \in 0..0 /\ clean' \in BOOLEAN
        /\ \A x \in 0..TimerPeriod : \A y \in 0..x : y \in 0..Late
    BY <1>1, Times
  <2> QED BY <1>1, <1>2, <1>3, <2>1, <2>2 DEF Typed, Frames, ReplySlot
<1>5. SlotsKept'
  BY <1>1, <1>2 DEF SlotsKept, ReplySlot
<1>6. \A i \in Anchors : reply'[i] = Nothing
  BY <1>1, <1>2 DEF Resting
<1>7. Session' /\ Calling' /\ left' > - (TimerPeriod + ticker')
  <2>1. 0 \in {0, ReplyDelay} /\ Answered' = {}
    BY <1>1 DEF Answered
  <2>2. frame' = Sending(Calls', 0,
                      IF expected' = "PollAck" THEN Anchors ELSE acked')
    BY <1>1 DEF Calls
  <2>3. seen \in 0..TimerPeriod
    BY <1>2, Times DEF Typed
  <2> QED BY ONLY Roomy, <1>1, <1>2, <1>4, <1>6, <2>1, <2>2, <2>3, Sends
<1>8. clean' => Complete'
  BY <1>1, <1>3 DEF Complete
<1> QED BY <1>1, <1>4, <1>5, <1>7, <1>8 DEF SlotsInv

\* What an anchor makes of the frame it hears: it answers in its slot or not at
\* all, and it answers if it was ready.
LEMMA Hears ==
    ASSUME SlotsInv, Calling, NEW i \in Anchors
    PROVE  /\ HandledBy(i)[1] \in [expected : {"Poll", "Range"}, slot : Int]
           /\ HandledBy(i)[1].slot \in {0, ReplySlot(i)}
           /\ HandledBy(i)[1].expected = "Range" => HandledBy(i)[1].slot = ReplySlot(i)
           /\ \/ HandledBy(i)[2] = Nothing
              \/ /\ HandledBy(i)[2] = Sending(Replies, ReplySlot(i), {})
                 /\ i \in Awaited
           /\ anchor[i].expected = (IF expected = "PollAck" THEN "Poll" ELSE "Range")
                 /\ i \in Awaited
              => /\ HandledBy(i)[2] = Sending(Replies, ReplySlot(i), {})
                 /\ expected = "PollAck" => HandledBy(i)[1].expected = "Range"
<1>1. /\ anchor[i] \in [expected : {"Poll", "Range"}, slot : Int]
      /\ anchor[i].slot \in {0, ReplySlot(i)} /\ ReplySlot(i) \in Int
      /\ anchor[i].expected = "Range" => anchor[i].slot = ReplySlot(i)
      /\ expected \in {"PollAck", "RangeReport"}
  <2>1. table \in Nat \ {0} /\ i \in 1..table
    BY Times DEF SlotsInv, Typed, Anchors
  <2>2. ReplySlot(i) \in Int
    BY <2>1, SlotsApart
  <2> QED BY <2>2 DEF SlotsInv, Typed, SlotsKept
<1>2. CASE expected = "PollAck"
  <2>1. HandledBy(i) = OnPoll(i)
    BY <1>2 DEF HandledBy, Calling, Calls
  <2> QED BY <1>1, <1>2, <2>1 DEF OnPoll, Replies, Awaited
<1>3. CASE expected = "RangeReport"
  <2>1. HandledBy(i) = OnRange(i) /\ frame.targets = acked
    BY <1>3 DEF HandledBy, Calling, Calls
  <2>2. CASE anchor[i].expected # "Range"
    <3>1. OnRange(i) = <<[anchor[i] EXCEPT !.expected = "Poll"], Nothing>>
      BY <2>2 DEF OnRange
    <3> QED BY <1>1, <1>3, <2>1, <2>2, <3>1
  <2>3. CASE anchor[i].expected = "Range" /\ i \in frame.targets
    <3>1. OnRange(i) = <<[anchor[i] EXCEPT !.expected = "Poll"],
                         Sending("RangeReport", anchor[i].slot, {})>>
      BY <2>3 DEF OnRange
    <3> QED BY <1>1, <1>3, <2>1, <2>3, <3>1 DEF Replies, Awaited
  <2>4. CASE anchor[i].expected = "Range" /\ i \notin frame.targets
    <3>1. OnRange(i) = <<anchor[i], Nothing>>
      BY <2>4 DEF OnRange
    <3> QED BY <1>1, <1>3, <2>1, <2>4, <3>1 DEF Awaited
  <2> QED BY <2>2, <2>3, <2>4
<1> QED BY <1>1, <1>2, <1>3

\* The tag's frame has left it.
LEMMA FrameArrivesKeeps ==
    ASSUME SlotsInv, TagFrameArrives
    PROVE  SlotsInv'
<1>1. PICK hears \in SUBSET {i \in Anchors : reply[i] = Nothing} :
         /\ anchor' = [i \in Anchors |-> IF i \in hears THEN HandledBy(i)[1]
                                         ELSE anchor[i]]
         /\ reply' = [i \in Anchors |-> IF i \in hears THEN HandledBy(i)[2]
                                        ELSE reply[i]]
         /\ clean' = (clean /\ hears = Anchors)
  BY DEF TagFrameArrives
<1>2. /\ frame # Nothing /\ frame.count = 0 /\ frame' = Nothing /\ seen' = 0
      /\ UNCHANGED <<table, ticker, sinceTick, sinceStart, left, expected, acked,
                     reported>>
      /\ Anchors' = Anchors
  BY DEF TagFrameArrives, timers, Anchors
<1>3. /\ Typed /\ SlotsKept /\ Session /\ Calling
      /\ left > - (TimerPeriod + ticker) /\ (clean => Complete)
      /\ (expected = "RangeReport" => acked # {})
  BY <1>2 DEF SlotsInv, Resting, Answering
<1>4. table \in Nat \ {0} /\ Anchors = 1..table
  BY <1>3, Times DEF Typed, Anchors
<1>5. \A i \in Anchors : reply[i] = Nothing
  BY <1>3 DEF Calling
<1>6. \A i \in Anchors :
        /\ anchor'[i] \in [expected : {"Poll", "Range"}, slot : Int]
        /\ anchor'[i].slot \in {0, ReplySlot(i)}
        /\ anchor'[i].expected = "Range" => anchor'[i].slot = ReplySlot(i)
  BY <1>1, <1>3, Hears DEF Typed, SlotsKept
<1>7. \A i \in Anchors : reply'[i] # Nothing =>
        reply'[i] = Sending(Replies, ReplySlot(i), {}) /\ i \in Awaited
  BY <1>1, <1>3, <1>5, Hears
<1>8. \A i \in Anchors : ReplySlot(i) \in Nat /\ ReplySlot(i) <= ReplySlot(table)
  BY ONLY <1>4, SlotsApart
<1>9. \A i \in Anchors : reply'[i] # Nothing =>
        /\ reply'[i].kind = Replies /\ reply'[i].count = ReplySlot(i) + Airtime
        /\ reply'[i] \in Frames({"PollAck", "RangeReport"})
        /\ i \in Awaited
  <2> TAKE i \in Anchors
  <2> HAVE reply'[i] # Nothing
  <2>1. reply'[i] = Sending(Replies, ReplySlot(i), {}) /\ i \in Awaited
    BY <1>7
  <2>2. Replies \in {"PollAck", "RangeReport"} /\ ReplySlot(i) \in Nat
    BY <1>8 DEF Replies
  <2>3. ReplySlot(i) + Airtime \in Nat /\ {} \in SUBSET Anchors
    BY <2>2, Times
  <2> QED BY <2>1, <2>2, <2>3 DEF Sending, Frames
<1>10. reply' \in [Anchors -> Frames({"PollAck", "RangeReport"})]
  <2>1. \A i \in Anchors : reply'[i] \in Frames({"PollAck", "RangeReport"})
    BY <1>9 DEF Frames
  <2> QED BY <1>1, <2>1
<1>11. anchor' \in [Anchors -> [expected : {"Poll", "Range"}, slot : Int]]
  BY <1>1, <1>6
<1>12. Typed'
  <2>1. 0 \in 0..ticker /\ clean' \in BOOLEAN
    BY <1>1, <1>3 DEF Typed
  <2> QED BY <1>2, <1>3, <1>6, <1>10, <1>11, <2>1 DEF Typed, Frames, ReplySlot
<1>13. SlotsKept'
  BY <1>2, <1>6 DEF SlotsKept, ReplySlot
<1>14. Answered = {} /\ Awaited # {}
  <2>1. 1 \in Anchors
    BY <1>4
  <2> QED BY <1>3, <2>1 DEF Calling, Awaited, Typed
<1>15. /\ Answered' = Answered /\ Awaited' = Awaited /\ Replies' = Replies
       /\ \A i : ReplySlot(i)' = ReplySlot(i)
  BY <1>2 DEF Answered, Awaited, Replies, ReplySlot
<1>16. Answering'
  <2>1. \A i \in Anchors : reply'[i] # Nothing => left > reply'[i].count
    <3>1. left > ReplySlot(table) + Airtime
      BY <1>2, <1>3, <1>4, Times DEF Calling, Typed
    <3>2. left \in Int /\ ReplySlot(table) \in Nat /\ Airtime \in Nat
      BY <1>3, Times DEF Typed
    <3> QED BY ONLY <1>8, <1>9, <3>1, <3>2
  <2>2. \A i, j \in Anchors : reply'[i] # Nothing /\ reply'[j] # Nothing =>
           reply'[i].count - reply'[j].count = ReplySlot(i) - ReplySlot(j)
    BY <1>8, <1>9, Times
  <2> QED BY <1>2, <1>9, <1>14, <1>15, <2>1, <2>2 DEF Answering, ReplySlot, Nothing
<1>17. clean' => Complete'
  <2> SUFFICES ASSUME clean' PROVE Complete'
    OBVIOUS
  <2>1. clean /\ hears = Anchors /\ Complete /\ Awaited = Anchors
    BY <1>1, <1>3 DEF Complete, Awaited, Typed
  <2>2. \A i \in Anchors :
           anchor[i].expected = IF expected = "PollAck" THEN "Poll" ELSE "Range"
    BY <1>2, <2>1 DEF Complete
  <2>3. \A i \in Anchors :
           /\ reply'[i] = Sending(Replies, ReplySlot(i), {})
           /\ expected = "PollAck" => anchor'[i].expected = "Range"
    BY <1>1, <1>3, <2>1, <2>2, Hears
  <2>4. \A i \in Anchors : reply'[i] # Nothing
    <3>1. Replies # "None"
      BY DEF Replies
    <3>2. \A x : Sending(Replies, x, {}) # Nothing
      BY ONLY <3>1 DEF Sending, Nothing
    <3> QED BY ONLY <2>3, <3>2
  <2>5. expected' = "RangeReport" => acked' = Anchors
    BY <1>2, <2>1 DEF Complete
  <2>6. frame' = Nothing /\ Anchors' = Anchors /\ expected' = expected
    BY <1>2
  <2> HIDE DEF Nothing
  <2>7. \A i \in Anchors : expected = "PollAck" => anchor'[i].expected = "Range"
    BY ONLY <2>3
  <2> QED BY ONLY <2>4, <2>5, <2>6, <2>7 DEF Complete, Nothing
<1>18. Session'
  BY <1>2, <1>3 DEF Session, NoDeadline
<1> QED BY <1>2, <1>3, <1>12, <1>13, <1>16, <1>17, <1>18 DEF SlotsInv

\* A reply on its way is one that the phase under way waits for.
LEMMA Expected ==
    ASSUME SlotsInv, NEW i \in Anchors, reply[i] # Nothing
    PROVE  /\ Session /\ Answering /\ frame = Nothing
           /\ reply[i].kind = Replies /\ i \in Awaited \ Answered
           /\ left > - (TimerPeriod + ticker) /\ (clean => Complete)
           /\ expected = "RangeReport" => acked # {}
<1>1. Session
  BY DEF SlotsInv, Resting
<1>2. Answering
  BY <1>1 DEF SlotsInv, Calling
<1> QED BY <1>1, <1>2 DEF SlotsInv, Answering

\* A reply of the phase arrives at the tag, or is lost.
LEMMA ReplyGone ==
    ASSUME SlotsInv, NEW i \in Anchors, reply[i] # Nothing,
           reply' = [reply EXCEPT ![i] = Nothing], UNCHANGED <<table, anchor>>
    PROVE  /\ reply' \in [Anchors -> Frames({"PollAck", "RangeReport"})]
           /\ reply'[i] = Nothing /\ \A j \in Anchors \ {i} : reply'[j] = reply[j]
           /\ Anchors' = Anchors /\ SlotsKept'
<1>1. reply \in [Anchors -> Frames({"PollAck", "RangeReport"})] /\ SlotsKept
  BY DEF SlotsInv, Typed
<1>2. reply' \in [Anchors -> Frames({"PollAck", "RangeReport"})]
  BY <1>1 DEF Frames
<1>3. Anchors' = Anchors
  BY DEF Anchors
<1> QED BY <1>1, <1>2, <1>3 DEF SlotsKept, ReplySlot

\* A reply that is not the last of its phase leaves the phase as it is.
LEMMA StillAnswering ==
    ASSUME SlotsInv, NEW i \in Anchors, reply[i] # Nothing,
           reply' = [reply EXCEPT ![i] = Nothing],
           UNCHANGED <<table, anchor, ticker, sinceTick, sinceStart, left,
                       expected, frame>>,
           seen' \in {0, seen}, clean' \in BOOLEAN, clean' => clean,
           \/ UNCHANGED <<acked, reported>> /\ ~ clean'
           \/ expected = "PollAck" /\ acked' = acked \cup {i} /\ reported' = reported
           \/ expected = "RangeReport" /\ acked' = acked
                /\ reported' = reported \cup {i},
           Answered' # Awaited'
    PROVE  SlotsInv'
<1>1. /\ Session /\ Answering /\ frame = Nothing
      /\ reply[i].kind = Replies /\ i \in Awaited \ Answered
      /\ left > - (TimerPeriod + ticker) /\ (clean => Complete)
      /\ expected = "RangeReport" => acked # {}
  BY Expected
<1>2. /\ reply' \in [Anchors -> Frames({"PollAck", "RangeReport"})]
      /\ reply'[i] = Nothing /\ \A j \in Anchors \ {i} : reply'[j] = reply[j]
      /\ Anchors' = Anchors /\ SlotsKept'
  BY ReplyGone
<1>3. Typed
  BY DEF SlotsInv
<1>4. acked' \subseteq Anchors /\ reported' \subseteq acked'
  BY <1>1, <1>3 DEF Typed, Awaited
<1>5. Typed'
  <2>1. seen' \in 0..ticker
    BY <1>3 DEF Typed
  <2> QED BY <1>2, <1>3, <1>4, <2>1 DEF Typed, Frames, ReplySlot
<1>6. /\ Answered' \in {Answered, Answered \cup {i}} /\ Awaited' = Awaited
      /\ clean' => Answered' = Answered \cup {i}
      /\ Replies' = Replies
  BY <1>2 DEF Answered, Awaited, Replies
<1>7. \A j \in Anchors : reply'[j] # Nothing => j # i /\ reply'[j] = reply[j]
  BY <1>2
<1>8. Answering'
  <2>1. \A j \in Anchors : reply'[j] # Nothing =>
          /\ reply'[j].kind = Replies' /\ j \in Awaited' \ Answered'
          /\ left' > reply'[j].count
    BY <1>1, <1>6, <1>7 DEF Answering
  <2>2. \A j, k \in Anchors : reply'[j] # Nothing /\ reply'[k] # Nothing =>
           reply'[j].count - reply'[k].count = ReplySlot(j) - ReplySlot(k)
    BY <1>1, <1>7 DEF Answering
  <2> QED BY <1>1, <1>2, <2>1, <2>2 DEF Answering, ReplySlot, Nothing
<1>9. clean' => Complete'
  <2> SUFFICES ASSUME clean' PROVE Complete'
    OBVIOUS
  <2>1. Complete /\ acked \subseteq acked' /\ (expected = "RangeReport" => acked' = acked)
    BY <1>1
  <2>2. \A j \in Anchors : j \in Answered' \/ reply'[j] # Nothing
    BY <1>1, <1>2, <1>6, <2>1 DEF Complete
  <2> QED BY <1>1, <1>2, <2>1, <2>2 DEF Complete, Nothing
<1>10. Session' /\ (expected' = "RangeReport" => acked' # {})
  BY <1>1 DEF Session, NoDeadline
<1> QED BY <1>1, <1>2, <1>5, <1>8, <1>9, <1>10 DEF SlotsInv

\* TagMisses, and the acknowledgements but the last.
LEMMA MissKeeps ==
    ASSUME SlotsInv, NEW i \in Anchors, TagMisses(i) \/ TagPollAck(i)
    PROVE  SlotsInv'
<1>1. Typed
  BY DEF SlotsInv
<1>2. /\ reply' = [reply EXCEPT ![i] = Nothing]
      /\ UNCHANGED <<table, anchor, ticker, sinceTick, sinceStart, left,
                     expected, frame>>
      /\ seen' \in {0, seen}
  BY DEF TagMisses, TagPollAck, Arrives, timers
<1>3. CASE TagMisses(i)
  <2>1. reply[i] # Nothing /\ UNCHANGED <<acked, reported>> /\ clean' = FALSE
    BY <1>3 DEF TagMisses
  <2>2. Answering
    BY <2>1, Expected
  <2>3. Answered' # Awaited'
    BY <1>2, <2>1, <2>2 DEF Answering, Answered, Awaited, Anchors
  <2> QED BY <1>2, <2>1, <2>3, StillAnswering
<1>4. CASE TagPollAck(i)
  <2>1. /\ expected = "PollAck" /\ acked' = acked \cup {i} /\ reported' = reported
        /\ clean' = clean /\ acked \cup {i} # Anchors /\ reply[i].kind = "PollAck"
    BY <1>4 DEF TagPollAck, Arrives
  <2>2. reply[i] # Nothing
    BY <2>1 DEF Nothing
  <2>3. Answered' # Awaited' /\ clean' \in BOOLEAN
    BY <1>1, <1>2, <2>1 DEF Answered, Awaited, Anchors, Typed
  <2> QED BY <1>2, <2>1, <2>2, <2>3, StillAnswering
<1> QED BY <1>3, <1>4

\* The last acknowledgement: send_range() to all.
LEMMA LastPollAckKeeps ==
    ASSUME Roomy, SlotsInv, NEW i \in Anchors, TagLastPollAck(i)
    PROVE  SlotsInv'
<1>1. /\ reply[i].kind = "PollAck" /\ seen' = 0
      /\ reply' = [reply EXCEPT ![i] = Nothing]
      /\ UNCHANGED <<table, ticker, sinceTick, sinceStart, anchor, clean>>
      /\ expected = "PollAck" /\ acked \cup {i} = Anchors
      /\ expected' = "RangeReport" /\ acked' = Anchors /\ reported' = {}
      /\ left' = Deadline(0) /\ frame' = Sending("Range", ReplyDelay, Anchors)
  BY DEF TagLastPollAck, Arrives, timers, SendRange
<1>2. reply[i] # Nothing /\ Typed
  BY <1>1 DEF Nothing, SlotsInv
<1>3. Answering /\ frame = Nothing /\ (clean => Complete)
  BY <1>2, Expected
<1>4. /\ reply' \in [Anchors -> Frames({"PollAck", "RangeReport"})]
      /\ reply'[i] = Nothing /\ \A j \in Anchors \ {i} : reply'[j] = reply[j]
      /\ Anchors' = Anchors /\ SlotsKept'
  BY <1>1, <1>2, ReplyGone
<1>5. \A j \in Anchors : reply'[j] = Nothing
  <2>1. \A j \in Anchors \ {i} : j \in Answered
    BY <1>1 DEF Answered
  <2> QED BY <1>3, <1>4, <2>1 DEF Answering
<1>6. frame' \in Frames({"Range"}) /\ frame' # Nothing
  BY <1>1, Times, SendingFacts
<1>7. Typed'
  <2>1. left' \in Int /\ left' <= NoDeadline
    BY <1>1, <1>2, Times DEF Deadline, Typed
  <2>2. 0 \in 0..ticker
    BY <1>2 DEF Typed
  <2> QED BY <1>1, <1>2, <1>4, <1>6, <2>1, <2>2 DEF Typed, Frames, ReplySlot
<1>8. Session' /\ Calling' /\ left' > - (TimerPeriod + ticker')
  <2>1. ReplyDelay \in {0, ReplyDelay} /\ Answered' = {}
    BY <1>1 DEF Answered
  <2>2. frame' = Sending(Calls', ReplyDelay,
                      IF expected' = "PollAck" THEN Anchors ELSE acked')
    BY <1>1 DEF Calls
  <2>3. 0 \in 0..TimerPeriod
    BY Times
  <2> QED BY ONLY Roomy, <1>1, <1>2, <1>5, <1>7, <2>1, <2>2, <2>3, Sends
<1>9. clean' => Complete'
  BY <1>1, <1>3, <1>4, <1>6 DEF Complete, Nothing
<1>10. acked' # {}
  BY <1>1
<1> QED BY <1>4, <1>7, <1>8, <1>9, <1>10 DEF SlotsInv

\* A report, the last of which ends the round.
LEMMA ReportKeeps ==
    ASSUME SlotsInv, NEW i \in Anchors, TagRangeReport(i)
    PROVE  SlotsInv'
<1>1. /\ reply[i].kind = "RangeReport" /\ expected = "RangeReport"
      /\ reply' = [reply EXCEPT ![i] = Nothing] /\ seen' = 0
      /\ UNCHANGED <<table, ticker, sinceTick, sinceStart, anchor, clean, frame>>
  BY DEF TagRangeReport, Arrives, timers
<1>2. reply[i] # Nothing /\ Typed
  BY <1>1 DEF Nothing, SlotsInv
<1>3. Answering /\ frame = Nothing /\ i \in acked \ reported
  BY <1>1, <1>2, Expected DEF Awaited, Answered
<1>4. /\ reply' \in [Anchors -> Frames({"PollAck", "RangeReport"})]
      /\ reply'[i] = Nothing /\ \A j \in Anchors \ {i} : reply'[j] = reply[j]
      /\ Anchors' = Anchors /\ SlotsKept'
  BY <1>1, <1>2, ReplyGone
<1>5. /\ reported \cup {i} \subseteq acked /\ IsFiniteSet(acked)
      /\ Cardinality(reported \cup {i}) >= Cardinality(acked)
            <=> reported \cup {i} = acked
  <2>1. IsFiniteSet(acked)
    <3>1. IsFiniteSet(1..table) /\ acked \subseteq 1..table
      <4>1. 1 \in Int /\ table \in Int /\ acked \subseteq 1..table
        BY <1>2, Times DEF Typed, Anchors
      <4> QED BY ONLY <4>1, FS_Interval
    <3> QED BY <3>1, FS_Subset
  <2>2. reported \cup {i} \subseteq acked
    BY <1>2, <1>3 DEF Typed
  <2>3. /\ IsFiniteSet(reported \cup {i})
        /\ Cardinality(reported \cup {i}) <= Cardinality(acked)
        /\ Cardinality(reported \cup {i}) = Cardinality(acked)
              => reported \cup {i} = acked
    BY <2>1, <2>2, FS_Subset
  <2>4. Cardinality(acked) \in Nat /\ Cardinality(reported \cup {i}) \in Nat
    BY <2>1, <2>3, FS_CardinalityType
  <2> QED BY <2>1, <2>2, <2>3, <2>4
<1>6. CASE reported \cup {i} = acked
  <2>1. /\ expected' = "PollAck" /\ acked' = {} /\ reported' = {}
        /\ left' = NoDeadline
    BY <1>5, <1>6 DEF TagRangeReport, ResetProtocolState
  <2>2. \A j \in Anchors : reply'[j] = Nothing
    BY <1>1, <1>3, <1>4, <1>6 DEF Answering, Awaited, Answered
  <2>3. Typed'
    <3>1. NoDeadline \in Int /\ 0 \in 0..ticker
      BY <1>2, Times DEF Typed
    <3> QED BY <1>1, <1>2, <1>4, <2>1, <3>1 DEF Typed, Frames, ReplySlot
  <2>4. ~ Session' /\ Resting'
    BY <1>1, <1>3, <1>4, <2>1, <2>2 DEF Session, Resting, NoDeadline, Nothing
  <2> QED BY <1>4, <2>3, <2>4 DEF SlotsInv
<1>7. CASE reported \cup {i} # acked
  <2>1. reported' = reported \cup {i} /\ UNCHANGED <<left, expected, acked>>
    BY <1>5, <1>7 DEF TagRangeReport
  <2>2. Answered' # Awaited'
    BY <1>1, <1>7, <2>1 DEF Answered, Awaited
  <2>3. clean' \in BOOLEAN
    BY <1>1, <1>2 DEF Typed
  <2> QED BY <1>1, <1>2, <2>1, <2>2, <2>3, StillAnswering
<1> QED BY <1>6, <1>7

\* An interrupt for somebody else's frame.
LEMMA OtherTrafficKeeps == ASSUME SlotsInv, OtherTraffic PROVE SlotsInv'
<1>1. /\ seen' = 0 /\ Typed
      /\ UNCHANGED <<table, ticker, sinceTick, sinceStart, left, expected, acked,
                     reported, frame, anchor, reply, clean>>
  BY DEF OtherTraffic, timers, SlotsInv
<1>2. Typed'
  <2>1. 0 \in 0..ticker
    BY <1>1 DEF Typed
  <2> QED BY <1>1, <2>1 DEF Typed, Frames, ReplySlot, Anchors
<1>3. /\ Session' = Session /\ Resting' = Resting /\ Calling' = Calling
      /\ Answering' = Answering /\ Complete' = Complete /\ SlotsKept' = SlotsKept
  BY <1>1 DEF Session, Resting, Calling, Answering, Complete, Calls, Answered,
     Awaited, Replies, ReplySlot, NoDeadline, Nothing, SlotsKept, Anchors
<1> QED BY <1>1, <1>2, <1>3 DEF SlotsInv

\* A frame on its way is one unit of time nearer.
LEMMA Nearer ==
    ASSUME NEW kinds \in {{"Poll", "Range"}, {"PollAck", "RangeReport"}},
           NEW f \in Frames(kinds), f = Nothing \/ f.count > 0
    PROVE  /\ Down(f) \in Frames(kinds) /\ (f = Nothing <=> Down(f) = Nothing)
           /\ f # Nothing => /\ Down(f).kind = f.kind /\ Down(f).targets = f.targets
                             /\ Down(f).count = f.count - 1
<1>1. CASE f = Nothing
  BY <1>1 DEF Down
<1>2. CASE f # Nothing
  <2>1. f \in [kind : kinds, count : Nat, targets : SUBSET Anchors]
    BY <1>2 DEF Frames
  <2>2. Down(f) = [f EXCEPT !.count = @ - 1]
    BY <1>2 DEF Down
  <2>3. f.count \in Nat /\ f.count - 1 \in Nat
    BY <1>2, <2>1
  <2>4. /\ Down(f).kind = f.kind /\ Down(f).targets = f.targets
        /\ Down(f).count = f.count - 1
        /\ Down(f) \in [kind : kinds, count : Nat, targets : SUBSET Anchors]
    BY <2>1, <2>2, <2>3
  <2>5. f.kind \in kinds /\ "None" \notin kinds
    BY <2>1
  <2> QED BY <1>2, <2>4, <2>5 DEF Frames, Nothing
<1> QED BY <1>1, <1>2

\* A unit of time: deadlines and frames come nearer by as much.
LEMMA PassKeeps == ASSUME SlotsInv, Pass PROVE SlotsInv'
<1>1. /\ ticker < TimerPeriod /\ ticker' = ticker + 1 /\ seen' = seen + 1
      /\ sinceTick' = Up(sinceTick, Late) /\ sinceStart' = Up(sinceStart, Late)
      /\ left' = IF Session THEN left - 1 ELSE left
      /\ frame' = Down(frame) /\ (frame = Nothing \/ frame.count > 0)
      /\ reply' = [i \in Anchors |-> Down(reply[i])]
      /\ \A i \in Anchors : reply[i] = Nothing \/ reply[i].count > 0
      /\ UNCHANGED <<table, expected, acked, reported, anchor, clean>>
      /\ Anchors' = Anchors
  BY DEF Pass, Anchors
<1>2. Typed /\ SlotsKept
  BY DEF SlotsInv
<1>3. /\ frame' \in Frames({"Poll", "Range"}) /\ (frame = Nothing <=> frame' = Nothing)
      /\ frame # Nothing => /\ frame'.kind = frame.kind
                            /\ frame'.targets = frame.targets
                            /\ frame'.count = frame.count - 1
  BY <1>1, <1>2, Nearer DEF Typed
<1>4. \A i \in Anchors :
        /\ reply'[i] \in Frames({"PollAck", "RangeReport"})
        /\ reply[i] = Nothing <=> reply'[i] = Nothing
        /\ reply[i] # Nothing => /\ reply'[i].kind = reply[i].kind
                                 /\ reply'[i].count = reply[i].count - 1
  BY <1>1, <1>2, Nearer DEF Typed
<1>5. /\ frame # Nothing => frame.count \in Nat
      /\ \A i \in Anchors : reply[i].count \in Nat
      /\ left \in Int /\ ticker \in Nat
      /\ ReplySlot(table) \in Nat /\ Airtime \in Nat /\ TimerPeriod \in Nat
  BY <1>2, FrameFacts, Times DEF Typed
<1>6. Session' = Session
  BY <1>1, <1>2, Times DEF Session, Typed, NoDeadline
<1>7. Typed'
  <2>1. ticker' \in 0..TimerPeriod /\ seen' \in 0..ticker'
    BY <1>1, <1>2, Times DEF Typed
  <2>2. sinceTick' \in 0..Late /\ sinceStart' \in 0..Late
    BY <1>1, <1>2, Times DEF Typed, Up
  <2>3. left' \in Int /\ left' <= NoDeadline
    BY <1>1, <1>2, Times DEF Typed
  <2>4. reply' \in [Anchors -> Frames({"PollAck", "RangeReport"})]
    BY <1>1, <1>4
  <2> QED BY <1>1, <1>2, <1>3, <2>1, <2>2, <2>3, <2>4 DEF Typed, Frames, ReplySlot
<1>8. SlotsKept'
  BY <1>1, <1>2 DEF SlotsKept, ReplySlot
<1>9. Resting => Resting'
  BY <1>1, <1>3, <1>4 DEF Resting, Nothing
<1>10. /\ Calls' = Calls /\ Answered' = Answered /\ Awaited' = Awaited
       /\ Replies' = Replies
  BY <1>1 DEF Calls, Answered, Awaited, Replies
<1>11. ASSUME Session, Calling PROVE Calling'
  <2>1. frame # Nothing
    BY <1>11 DEF Calling, Calls, Nothing
  <2>2. left' > frame'.count + ReplySlot(table) + Airtime
    BY <1>1, <1>3, <1>5, <1>11, <2>1 DEF Calling
  <2>3. \A i \in Anchors : reply'[i] = Nothing
    BY <1>4, <1>11 DEF Calling
  <2> QED BY <1>1, <1>3, <1>10, <1>11, <2>1, <2>2, <2>3
       DEF Calling, ReplySlot, Nothing
<1>12. ASSUME Session, Answering PROVE Answering'
  <2>1. \A i \in Anchors : reply'[i] # Nothing =>
          /\ reply'[i].kind = Replies' /\ i \in Awaited' \ Answered'
          /\ left' > reply'[i].count
    BY <1>1, <1>4, <1>5, <1>10, <1>12 DEF Answering
  <2>2. \A i, j \in Anchors : reply'[i] # Nothing /\ reply'[j] # Nothing =>
           reply'[i].count - reply'[j].count = ReplySlot(i) - ReplySlot(j)
    <3>1. \A x, y \in Nat : (x - 1) - (y - 1) = x - y
      OBVIOUS
    <3> QED BY <1>4, <1>5, <1>12, <3>1 DEF Answering
  <2> QED BY <1>1, <1>3, <1>10, <1>12, <2>1, <2>2 DEF Answering, ReplySlot, Nothing
<1>13. Complete => Complete'
  BY <1>1, <1>3, <1>4, <1>10 DEF Complete, Nothing
<1>14. Session /\ left > - (TimerPeriod + ticker) => left' > - (TimerPeriod + ticker')
  BY <1>1, <1>5
<1> QED BY <1>1, <1>6, <1>7, <1>8, <1>9, <1>11, <1>12, <1>13, <1>14 DEF SlotsInv

\* Before the first round.
LEMMA InitSlots == Init => SlotsInv
<1> SUFFICES ASSUME Init PROVE SlotsInv
  OBVIOUS
<1>1. /\ \A i \in Anchors : /\ reply[i] = Nothing /\ anchor[i].expected = "Poll"
                             /\ anchor[i].slot = 0
      /\ frame = Nothing /\ ~ Session
  BY DEF Init, Session
<1>2. Typed
  <2>1. /\ 0 \in 0..TimerPeriod /\ 0 \in 0..0 /\ 0 \in 0..Late /\ Late \in 0..Late
        /\ NoDeadline \in Int /\ NoDeadline <= NoDeadline
    BY Times
  <2>2. /\ frame \in Frames({"Poll", "Range"})
        /\ reply \in [Anchors -> Frames({"PollAck", "RangeReport"})]
    BY DEF Init, Frames
  <2>3. anchor \in [Anchors -> [expected : {"Poll", "Range"}, slot : Int]]
    BY DEF Init
  <2> QED BY <1>1, <2>1, <2>2, <2>3 DEF Init, Typed
<1>3. SlotsKept /\ Resting
  BY <1>1 DEF Init, SlotsKept, Resting
<1> QED BY <1>1, <1>2, <1>3 DEF SlotsInv

\* Every step.
LEMMA NextSlots == Roomy /\ SlotsInv /\ [Next]_vars => SlotsInv'
<1> SUFFICES ASSUME Roomy, SlotsInv, [Next]_vars PROVE SlotsInv'
  OBVIOUS
<1>1. CASE TickRangesWithSome \/ TickGivesUp
  BY <1>1, TimeoutKeeps
<1>2. CASE TickIdle \/ TickPoll
  BY <1>2, IdleKeeps, PollKeeps
<1>3. CASE TagFrameArrives \/ OtherTraffic \/ Pass
  BY <1>3, FrameArrivesKeeps, OtherTrafficKeeps, PassKeeps
<1>4. ASSUME NEW i \in Anchors,
             \/ TagPollAck(i) \/ TagLastPollAck(i)
             \/ TagRangeReport(i) \/ TagMisses(i)
      PROVE  SlotsInv'
  BY <1>4, MissKeeps, LastPollAckKeeps, ReportKeeps
<1>5. CASE UNCHANGED vars
  <2>1. UNCHANGED <<table, ticker, seen, sinceTick, sinceStart, left, expected,
                    acked, reported, frame, anchor, reply, clean>>
    BY <1>5 DEF vars, timers
  <2>2. /\ Session' = Session /\ Resting' = Resting /\ Calling' = Calling
        /\ Answering' = Answering /\ Complete' = Complete /\ SlotsKept' = SlotsKept
    BY <2>1 DEF Session, Resting, Calling, Answering, Complete, Calls, Answered,
       Awaited, Replies, ReplySlot, NoDeadline, Nothing, SlotsKept, Anchors
  <2>3. Typed' = Typed
    BY <2>1 DEF Typed, Frames, ReplySlot, Anchors, Nothing
  <2> QED BY <2>1, <2>2, <2>3 DEF SlotsInv
<1> QED BY <1>1, <1>2, <1>3, <1>4, <1>5 DEF Next

\* The invariant of the rounds.
LEMMA SlotsInvariant == Roomy => (Spec => []SlotsInv)
<1>1. ASSUME Roomy PROVE Init /\ [][Next]_vars => []SlotsInv
  <2>1. SlotsInv /\ [Next]_vars => SlotsInv'
    BY <1>1, NextSlots
  <2> QED BY InitSlots, <2>1, PTL
<1> QED BY <1>1 DEF Spec

-----------------------------------------------------------------------------
(* The length of a round *)

Multiple(x) == \E m \in Int : x = m * TimerPeriod

\* The session timeout is a multiple of the ticker's period.
Whole == Multiple(SessionTimeout)

\* How long after its deadline a phase may last: until the loop has read a
\* clock value beyond it, and until the ticker fires next.
Slack == IF Whole THEN TimerPeriod ELSE 2 * TimerPeriod

\* Ticks come at multiples of the ticker's period from the Poll on, and the
\* deadline is at most a timeout after the phase has begun; the second phase
\* begins with the last tick of the first, or before.
Bounded ==
    /\ ticker \in 0..TimerPeriod /\ seen \in 0..ticker
    /\ left \in Int /\ left <= NoDeadline /\ age \in Int
    /\ expected \in {"PollAck", "RangeReport"}
    /\ Session =>
          /\ left > - (TimerPeriod + ticker)
          /\ Multiple(age - ticker)
          /\ left + age <= IF expected = "PollAck" THEN SessionTimeout
                           ELSE 2 * SessionTimeout + Slack
    /\ ~ Session => age <= 2 * (SessionTimeout + Slack)

\* What is below a multiple of the period is so by a period.
LEMMA Multiples ==
    /\ Multiple(0)
    /\ \A x, y \in Int : Multiple(x) /\ Multiple(y) =>
          /\ Multiple(x + y)
          /\ x < y => x + TimerPeriod <= y
    /\ Multiple(TimerPeriod)
<1>1. TimerPeriod \in Nat \ {0}
  BY Times
<1>2. /\ 0 = 0 * TimerPeriod /\ TimerPeriod = 1 * TimerPeriod
      /\ \A m, k \in Int : m * TimerPeriod + k * TimerPeriod = (m + k) * TimerPeriod
      /\ \A k \in Int : k * TimerPeriod \in Int
  BY <1>1
<1>3. \A d \in Nat \ {0} : d * TimerPeriod >= TimerPeriod
  BY <1>1
<1>4. \A d \in Nat : d * TimerPeriod >= 0
  BY <1>1
<1>5. ASSUME NEW m \in Int, NEW k \in Int, m * TimerPeriod < k * TimerPeriod
      PROVE  m * TimerPeriod + TimerPeriod <= k * TimerPeriod
  <2> DEFINE a == m * TimerPeriod
             b == k * TimerPeriod
             c == (k - m) * TimerPeriod
             d == (m - k) * TimerPeriod
  <2>1. a + c = b /\ b + d = a /\ a \in Int /\ b \in Int /\ c \in Int /\ d \in Int
    <3> DEFINE times(x) == x * TimerPeriod
    <3>1. m + (k - m) = k /\ k + (m - k) = m /\ k - m \in Int /\ m - k \in Int
      OBVIOUS
    <3>2. /\ \A x, y \in Int : times(x) + times(y) = times(x + y)
          /\ \A x \in Int : times(x) \in Int
      BY <1>2
    <3>3. a = times(m) /\ b = times(k) /\ c = times(k - m) /\ d = times(m - k)
      OBVIOUS
    <3> HIDE DEF times, a, b, c, d
    <3>4. times(m) + times(k - m) = times(k) /\ times(k) + times(m - k) = times(m)
      BY ONLY <3>1, <3>2, m \in Int, k \in Int
    <3>5. a \in Int /\ b \in Int /\ c \in Int /\ d \in Int
      BY <3>1, <3>2, <3>3
    <3> QED BY <3>3, <3>4, <3>5
  <2>2. CASE k > m
    <3>1. c >= TimerPeriod
      BY <1>3, <2>2
    <3> HIDE DEF a, b, c, d
    <3>2. a + TimerPeriod <= b
      BY <1>1, <2>1, <3>1
    <3> QED BY <3>2 DEF a, b
  <2>3. CASE ~ (k > m)
    <3>1. d >= 0
      BY <1>4, <2>3
    <3>2. a < b
      BY <1>5
    <3> HIDE DEF a, b, c, d
    <3> QED BY <2>1, <3>1, <3>2
  <2> QED BY <2>2, <2>3
<1>6. \A x, y \in Int : Multiple(x) /\ Multiple(y) =>
          /\ Multiple(x + y)
          /\ x < y => x + TimerPeriod <= y
  <2> SUFFICES ASSUME NEW x \in Int, NEW y \in Int, Multiple(x), Multiple(y)
               PROVE  /\ Multiple(x + y)
                      /\ x < y => x + TimerPeriod <= y
    OBVIOUS
  <2>1. PICK m \in Int : x = m * TimerPeriod
    BY DEF Multiple
  <2>2. PICK k \in Int : y = k * TimerPeriod
    BY DEF Multiple
  <2>3. Multiple(x + y)
    <3>1. m + k \in Int /\ x + y = (m + k) * TimerPeriod
      BY <1>2, <2>1, <2>2
    <3> QED BY <3>1 DEF Multiple
  <2>4. x < y => x + TimerPeriod <= y
    BY <1>5, <2>1, <2>2
  <2> QED BY <2>3, <2>4
<1>7. Multiple(0)
  <2> SUFFICES \E m \in Int : 0 = m * TimerPeriod
    BY DEF Multiple
  <2> WITNESS 0 \in Int
  <2> QED BY <1>2
<1>8. Multiple(TimerPeriod)
  <2> SUFFICES \E m \in Int : TimerPeriod = m * TimerPeriod
    BY DEF Multiple
  <2> WITNESS 1 \in Int
  <2> QED BY <1>2
<1> QED BY <1>6, <1>7, <1>8

\* A phase ends a little after what it was given.
LEMMA PhaseEnds ==
    ASSUME Bounded, Session
    PROVE  /\ age <= 2 * (SessionTimeout + Slack)
           /\ expected = "PollAck" => age <= SessionTimeout + Slack
<1> DEFINE most == IF expected = "PollAck" THEN SessionTimeout
                   ELSE 2 * SessionTimeout + Slack
<1>1. /\ TimerPeriod \in Nat \ {0} /\ SessionTimeout \in Nat /\ ticker \in 0..TimerPeriod
      /\ age \in Int /\ left \in Int
      /\ left > - (TimerPeriod + ticker) /\ left + age <= most
  BY Times DEF Bounded
<1>2. Slack \in Nat /\ most \in Int
  BY <1>1 DEF Slack
<1>3. age <= most + Slack
  <2>1. CASE ~ Whole
    <3>1. Slack = 2 * TimerPeriod
      BY <2>1 DEF Slack
    <3> HIDE DEF most
    <3> QED BY ONLY <1>1, <1>2, <3>1
  <2>2. CASE Whole
    <3>1. Slack = TimerPeriod
      BY <2>2 DEF Slack
    <3>2. Multiple(most + TimerPeriod)
      <4>1. CASE expected = "PollAck"
        BY <1>1, <2>2, <4>1, Multiples DEF Whole
      <4>2. CASE expected # "PollAck"
        <5>1. Multiple(SessionTimeout + SessionTimeout)
          BY <1>1, <2>2, Multiples DEF Whole
        <5>2. Multiple(TimerPeriod + TimerPeriod)
          BY <1>1, Multiples
        <5>3. Multiple((SessionTimeout + SessionTimeout) + (TimerPeriod + TimerPeriod))
          BY <1>1, <5>1, <5>2, Multiples
        <5>4. most + TimerPeriod
                = (SessionTimeout + SessionTimeout) + (TimerPeriod + TimerPeriod)
          BY <1>1, <3>1, <4>2
        <5> QED BY <5>3, <5>4
      <4> QED BY <4>1, <4>2
    <3> HIDE DEF most
    <3>3. age - ticker < most + TimerPeriod
      BY ONLY <1>1, <1>2
    <3>4. age - ticker \in Int /\ most + TimerPeriod \in Int /\ Multiple(age - ticker)
      BY <1>1, <1>2 DEF Bounded
    <3>5. age - ticker + TimerPeriod <= most + TimerPeriod
      BY ONLY <3>2, <3>3, <3>4, Multiples
    <3> QED BY ONLY <1>1, <1>2, <3>1, <3>5
  <2> QED BY <2>1, <2>2
<1>4. expected = "PollAck" => age <= SessionTimeout + Slack
  BY <1>3
<1>5. most <= 2 * SessionTimeout + Slack
  BY <1>1, <1>2
<1> HIDE DEF most
<1>6. age <= 2 * (SessionTimeout + Slack)
  BY ONLY <1>1, <1>2, <1>3, <1>5
<1> QED BY <1>4, <1>6

\* The phases begin with a deadline that leaves room for a tick.
LEMMA DeadlineFacts ==
    ASSUME Bounded, NEW old \in 0..TimerPeriod, left' = Deadline(old)
    PROVE  /\ left' \in Int /\ left' <= SessionTimeout /\ left' <= NoDeadline
           /\ Session' /\ \A x \in Nat : left' > - (TimerPeriod + x)
<1>1. /\ left' = SessionTimeout - old /\ old \in Nat /\ old <= TimerPeriod
      /\ SessionTimeout \in Nat \ {0} /\ TimerPeriod \in Nat
      /\ NoDeadline = SessionTimeout + 1
  BY Times DEF Deadline
<1>2. left' # NoDeadline
  BY <1>1
<1> QED BY <1>1, <1>2 DEF Session, NoDeadline

\* Every step.
LEMMA NextBounded ==
    ASSUME Bounded, RepliesAwaited, [Next]_vars
    PROVE  Bounded'
<1>0. /\ TimerPeriod \in Nat \ {0} /\ SessionTimeout \in Nat \ {0}
      /\ NoDeadline = SessionTimeout + 1 /\ Multiple(0) /\ Slack \in Nat
  BY Times, Multiples DEF Slack
<1>1. /\ ticker \in 0..TimerPeriod /\ seen \in 0..ticker /\ left \in Int
      /\ age \in Int /\ left <= NoDeadline
      /\ expected \in {"PollAck", "RangeReport"}
      /\ {seen, 0} \subseteq 0..TimerPeriod
  BY Times DEF Bounded
<1>2. age <= 2 * (SessionTimeout + Slack)
  BY <1>0, <1>1, PhaseEnds DEF Bounded
<1>3. Session => Multiple(age - ticker)
  BY DEF Bounded
<1>4. ticker = TimerPeriod /\ Session => Multiple(age - 0)
  <2> SUFFICES ASSUME ticker = TimerPeriod, Session PROVE Multiple(age - 0)
    OBVIOUS
  <2>1. Multiple((age - ticker) + TimerPeriod)
    BY <1>0, <1>1, <1>3, Multiples
  <2>2. (age - ticker) + TimerPeriod = age - 0
    BY <1>0, <1>1
  <2> QED BY <2>1, <2>2
<1>5. CASE TickRangesWithSome
  <2>1. /\ ticker = TimerPeriod /\ ticker' = 0 /\ seen' = 0 /\ Session
        /\ expected = "PollAck" /\ expected' = "RangeReport"
        /\ left' = Deadline(seen) /\ age' = age
    BY <1>5 DEF TickRangesWithSome, Fires, Expired, SendRange
  <2>2. /\ left' \in Int /\ left' <= SessionTimeout /\ left' <= NoDeadline
        /\ Session' /\ \A x \in Nat : left' > - (TimerPeriod + x)
    BY <1>1, <2>1, DeadlineFacts
  <2>3. age <= SessionTimeout + Slack
    BY <1>0, <1>1, <2>1, PhaseEnds
  <2>4. left' + age' <= 2 * SessionTimeout + Slack
    BY <1>0, <1>1, <2>1, <2>2, <2>3
  <2>5. left' > - (TimerPeriod + ticker') /\ 0 \in 0..TimerPeriod /\ 0 \in 0..0
    BY <1>0, <2>1, <2>2
  <2> QED BY <1>1, <1>4, <2>1, <2>2, <2>4, <2>5 DEF Bounded
<1>6. CASE TickGivesUp
  <2>1. ticker' = 0 /\ seen' = 0 /\ expected' = "PollAck" /\ left' = NoDeadline /\ age' = age
    BY <1>6 DEF TickGivesUp, Fires, ResetProtocolState
  <2> QED BY <1>0, <1>1, <1>2, <2>1 DEF Bounded, Session, NoDeadline
<1>7. CASE TickIdle
  <2>1. /\ ticker = TimerPeriod /\ ticker' = 0 /\ seen' = 0
        /\ UNCHANGED <<left, expected, age>> /\ ~ Expired /\ Session' = Session
    BY <1>7 DEF TickIdle, Fires, Session, NoDeadline
  <2>2. Session => left' > - (TimerPeriod + ticker')
    BY <1>0, <1>1, <2>1 DEF Expired
  <2> QED BY <1>0, <1>1, <1>4, <2>1, <2>2 DEF Bounded
<1>8. CASE TickPoll
  <2>1. /\ ticker' = 0 /\ seen' = 0 /\ age' = 0
        /\ expected' = "PollAck" /\ left' = Deadline(seen)
    BY <1>8 DEF TickPoll, Fires, BeginPollAckPhase
  <2>2. /\ left' \in Int /\ left' <= SessionTimeout /\ left' <= NoDeadline
        /\ Session' /\ \A x \in Nat : left' > - (TimerPeriod + x)
    BY <1>1, <2>1, DeadlineFacts
  <2>3. 0 \in Nat /\ 0 - 0 = 0 /\ 0 \in 0..TimerPeriod /\ 0 \in 0..0
    BY <1>0
  <2>4. left' > - (TimerPeriod + 0)
    BY <2>2, <2>3
  <2>5. left' + 0 = left' /\ left' \in Int
    <3>1. \A x \in Int : x + 0 = x
      OBVIOUS
    <3> QED BY ONLY <2>2, <3>1
  <2>6. Multiple(age' - ticker')
    BY <1>0, <2>1, <2>3
  <2>7. left' + age' <= SessionTimeout /\ left' > - (TimerPeriod + ticker')
    BY <2>1, <2>2, <2>4, <2>5
  <2>8. ticker' \in 0..TimerPeriod /\ seen' \in 0..ticker' /\ age' \in Int
    BY <2>1, <2>3
  <2>9. left' <= NoDeadline'
    BY <2>2 DEF NoDeadline
  <2> QED BY ONLY <2>1, <2>2, <2>6, <2>7, <2>8, <2>9 DEF Bounded
<1>9. ASSUME NEW i \in Anchors, TagLastPollAck(i) PROVE Bounded'
  <2>1. /\ ticker' = ticker /\ seen' = 0 /\ age' = age /\ expected = "PollAck"
        /\ expected' = "RangeReport" /\ left' = Deadline(0) /\ reply[i].kind = "PollAck"
    BY <1>9 DEF TagLastPollAck, Arrives, timers, SendRange
  <2>2. Session
    BY <2>1 DEF RepliesAwaited
  <2>3. /\ left' \in Int /\ left' <= SessionTimeout /\ left' <= NoDeadline
        /\ Session' /\ \A x \in Nat : left' > - (TimerPeriod + x)
    BY <1>1, <2>1, DeadlineFacts
  <2>4. age <= SessionTimeout + Slack
    BY <2>1, <2>2, PhaseEnds
  <2>5. /\ left' + age' <= 2 * SessionTimeout + Slack
        /\ left' > - (TimerPeriod + ticker') /\ 0 \in 0..ticker'
    BY <1>0, <1>1, <2>1, <2>3, <2>4
  <2> QED BY <1>1, <1>3, <2>1, <2>2, <2>3, <2>5 DEF Bounded
<1>10. ASSUME UNCHANGED <<ticker, left, expected, age>>, seen' \in {seen, 0}
       PROVE  Bounded'
  <2>1. seen' \in 0..ticker /\ Session' = Session
    BY <1>1, <1>10 DEF Session, NoDeadline
  <2> QED BY <1>10, <2>1 DEF Bounded, NoDeadline, Multiple
<1>11. ASSUME UNCHANGED <<ticker, age>>, seen' = 0, ResetProtocolState PROVE Bounded'
  BY <1>0, <1>1, <1>2, <1>11 DEF Bounded, Session, NoDeadline, ResetProtocolState
<1>12. ASSUME NEW i \in Anchors, TagPollAck(i) \/ TagRangeReport(i) \/ TagMisses(i)
       PROVE  Bounded'
  <2>1. CASE TagPollAck(i)
    BY <1>10, <2>1 DEF TagPollAck, Arrives, timers
  <2>2. CASE TagRangeReport(i)
    BY <1>10, <1>11, <2>2 DEF TagRangeReport, Arrives, timers
  <2>3. CASE TagMisses(i)
    BY <1>10, <2>3 DEF TagMisses, timers
  <2> QED BY <1>12, <2>1, <2>2, <2>3
<1>13. CASE TagFrameArrives \/ OtherTraffic \/ UNCHANGED vars
  BY <1>10, <1>13 DEF TagFrameArrives, OtherTraffic, vars, timers
<1>14. CASE Pass
  <2>1. /\ ticker < TimerPeriod /\ ticker' = ticker + 1 /\ seen' = seen + 1
        /\ left' = (IF Session THEN left - 1 ELSE left)
        /\ age' = (IF Session THEN age + 1 ELSE 0) /\ expected' = expected
    BY <1>14 DEF Pass
  <2>2. ticker' \in 0..TimerPeriod /\ seen' \in 0..ticker'
    BY <1>0, <1>1, <2>1
  <2>3. CASE Session
    <3>1. /\ left' = left - 1 /\ left' # NoDeadline /\ left' \in Int /\ left' < NoDeadline
          /\ age' = age + 1 /\ age' \in Int
          /\ age' - ticker' = age - ticker /\ left' + age' = left + age
          /\ left > - (TimerPeriod + ticker) => left' > - (TimerPeriod + ticker')
      BY <1>0, <1>1, <2>1, <2>3
    <3>2. Session'
      BY <3>1 DEF Session, NoDeadline
    <3>3. Multiple(age' - ticker')
      BY <1>3, <2>3, <3>1
    <3>4. /\ left > - (TimerPeriod + ticker)
          /\ left + age <= IF expected = "PollAck" THEN SessionTimeout
                           ELSE 2 * SessionTimeout + Slack
      BY <2>3 DEF Bounded
    <3>5. left' <= NoDeadline' /\ left' > - (TimerPeriod + ticker')
      BY <1>0, <3>1, <3>4 DEF NoDeadline
    <3>6. left' + age' <= IF expected' = "PollAck" THEN SessionTimeout
                          ELSE 2 * SessionTimeout + Slack
      BY <2>1, <3>1, <3>4
    <3>7. expected' \in {"PollAck", "RangeReport"}
      BY <1>1, <2>1
    <3> QED BY ONLY <2>2, <3>1, <3>2, <3>3, <3>5, <3>6, <3>7 DEF Bounded
  <2>4. CASE ~ Session
    <3>1. ~ Session' /\ left' = left /\ age' = 0
      BY <2>1, <2>4 DEF Session, NoDeadline
    <3> QED BY <1>0, <1>1, <2>1, <2>2, <3>1 DEF Bounded, NoDeadline
  <2> QED BY <2>3, <2>4
<1> QED
  BY <1>5, <1>6, <1>7, <1>8, <1>9, <1>12, <1>13, <1>14 DEF Next

\* Bounded is an invariant where RepliesAwaited is one.
LEMMA BoundedInvariant == Spec /\ []RepliesAwaited => []Bounded
<1>1. Init => Bounded
  <2> SUFFICES ASSUME Init PROVE Bounded
    OBVIOUS
  <2>1. /\ ticker = 0 /\ seen = 0 /\ left = NoDeadline /\ age = 0
        /\ expected = "PollAck"
    BY DEF Init
  <2>2. /\ TimerPeriod \in Nat /\ SessionTimeout \in Nat /\ Slack \in Nat
        /\ NoDeadline = SessionTimeout + 1
    BY Times DEF Slack
  <2> QED BY <2>1, <2>2 DEF Bounded, Session
<1>2. Bounded /\ RepliesAwaited /\ [Next]_vars => Bounded'
  BY NextBounded
<1> QED BY <1>1, <1>2, PTL DEF Spec

-----------------------------------------------------------------------------
(* Theorems *)

\* The timers, the session and the frames of a round are well formed, and a
\* report is only counted of an anchor that has acknowledged (ranging.rs:
\* handle_range_report()).
THEOREM SlotsTyped == Roomy => (Spec => []TypeOK)
<1>1. SlotsInv => TypeOK
  <2> SUFFICES ASSUME SlotsInv PROVE TypeOK
    OBVIOUS
  <2>1. Typed /\ (Session => left > - (TimerPeriod + ticker))
    BY DEF SlotsInv
  <2>2. seen \in 0..TimerPeriod
    BY <2>1, Times DEF Typed
  <2>3. Session => left \in (- 2 * TimerPeriod)..SessionTimeout
    <3>1. /\ TimerPeriod \in Nat /\ SessionTimeout \in Nat /\ left \in Int
          /\ ticker \in 0..TimerPeriod /\ left <= SessionTimeout + 1
          /\ (Session => left # SessionTimeout + 1)
      BY <2>1, Times DEF Typed, Session
    <3> QED BY ONLY <2>1, <3>1
  <2>4. \A i \in Anchors : reply[i].kind \in {"None", "PollAck", "RangeReport"}
    BY <2>1 DEF Typed, Frames, Nothing
  <2>5. frame.kind \in {"None", "Poll", "Range"}
    BY <2>1 DEF Typed, Frames, Nothing
  <2> QED BY <2>1, <2>2, <2>3, <2>4, <2>5 DEF Typed, TypeOK
<1> QED BY <1>1, SlotsInvariant, PTL

\* Where the schedule has room, the tag never gives a phase up while an anchor
\* has still to answer in it, whatever is lost and however often its loop is
\* woken (ranging.rs: begin_poll_ack_phase(), begin_range_report_phase() and
\* finish_timed_out_session()).
THEOREM RepliesAwaitedHolds == Roomy => (Spec => []RepliesAwaited)
<1>1. SlotsInv => RepliesAwaited
  <2> SUFFICES ASSUME SlotsInv, NEW i \in Anchors,
                      reply[i].kind \in {"PollAck", "RangeReport"}
               PROVE  /\ Session /\ reply[i].kind = Replies
                      /\ expected \in {"PollAck", "RangeReport"}
    BY DEF RepliesAwaited, Replies
  <2>1. reply[i] # Nothing
    BY DEF Nothing
  <2> QED BY <2>1, Expected DEF SlotsInv, Typed
<1> QED BY <1>1, SlotsInvariant, PTL

\* Where the schedule has room, the frames of a round do not meet on the air
\* (ranging.rs: scheduled_reply_delay_us()).
THEOREM OneOnAirHolds == Roomy => (Spec => []OneOnAir)
<1> SUFFICES ASSUME Roomy PROVE Spec => []OneOnAir
  OBVIOUS
<1>1. SlotsInv => OneOnAir
  <2> SUFFICES ASSUME SlotsInv PROVE OneOnAir
    OBVIOUS
  <2>1. OnAir(frame) => \A i \in Anchors : ~ OnAir(reply[i])
    BY Expected DEF OnAir
  <2>2. ASSUME NEW i \in Anchors, NEW j \in Anchors,
               OnAir(reply[i]), OnAir(reply[j]), i < j
        PROVE  FALSE
    <3>1. reply[i] # Nothing /\ reply[j] # Nothing
      BY <2>2 DEF OnAir
    <3>2. reply[i].count - reply[j].count = ReplySlot(i) - ReplySlot(j)
      BY <3>1, Expected DEF Answering
    <3>3. /\ ReplySlot(j) - ReplySlot(i) >= 2 * ReplyDelay
          /\ ReplySlot(i) \in Nat /\ ReplySlot(j) \in Nat
      BY <2>2, Times, SlotsApart DEF SlotsInv, Typed, Anchors
    <3>4. /\ reply[i].count \in Nat /\ reply[j].count \in Nat
          /\ reply[i].count <= Airtime /\ reply[j].count <= Airtime
      BY <2>2, FrameFacts DEF SlotsInv, Typed, OnAir
    <3>5. Airtime < 2 * ReplyDelay /\ Airtime \in Nat /\ ReplyDelay \in Nat
      BY Times DEF Roomy
    <3> QED BY ONLY <3>2, <3>3, <3>4, <3>5
  <2>3. \A i, j \in Anchors : i < j \/ j < i \/ i = j
    BY Times DEF SlotsInv, Typed, Anchors
  <2>4. \A i, j \in Anchors : OnAir(reply[i]) /\ OnAir(reply[j]) => i = j
    BY ONLY <2>2, <2>3
  <2> QED BY ONLY <2>1, <2>4 DEF OneOnAir
<1>2. Spec => []SlotsInv
  BY SlotsInvariant
<1> QED BY <1>1, <1>2, PTL

\* Where the schedule has room, a round in which every anchor was ready and
\* nothing was lost does not end with a timeout.
THEOREM CleanRoundsCompleteHolds == Roomy => (Spec => CleanRoundsComplete)
<1>1. SlotsInv /\ [Next]_vars => [TickRangesWithSome \/ TickGivesUp => ~ clean]_vars
  <2> SUFFICES ASSUME SlotsInv, TickRangesWithSome \/ TickGivesUp PROVE ~ clean
    OBVIOUS
  <2>1. Session /\ left + seen <= 0
    BY DEF TickRangesWithSome, TickGivesUp, Expired
  <2>2. left <= 0
    BY <2>1, Times DEF SlotsInv, Typed
  <2> QED BY <2>1, <2>2, PastDeadline
<1> QED BY <1>1, SlotsInvariant, PTL DEF Spec, CleanRoundsComplete

\* Where no phase is given up that an anchor has still to answer, a round is
\* over after two session timeouts and four ticker periods, whatever is lost and
\* however old the time is by which the deadlines are set and judged
\* (ranging.rs: tick() and finish_timed_out_session(); app.rs: step()).
THEOREM RoundsEnd ==
    Spec /\ []RepliesAwaited => [](age <= 2 * (SessionTimeout + 2 * TimerPeriod))
<1>1. Bounded => age <= 2 * (SessionTimeout + 2 * TimerPeriod)
  <2> SUFFICES ASSUME Bounded PROVE age <= 2 * (SessionTimeout + 2 * TimerPeriod)
    OBVIOUS
  <2>1. age <= 2 * (SessionTimeout + Slack)
    BY PhaseEnds DEF Bounded
  <2>2. /\ TimerPeriod \in Nat /\ SessionTimeout \in Nat /\ age \in Int
        /\ Slack \in Nat /\ Slack <= 2 * TimerPeriod
    BY Times DEF Bounded, Slack
  <2> QED BY ONLY <2>1, <2>2
<1> QED BY <1>1, BoundedInvariant, PTL

\* Two ticker periods less where the session timeout is a number of whole
\* ticker periods: the ticker that ends a phase runs from the Poll on.
THEOREM RoundsBoundedIfAwaited ==
    Whole => (Spec /\ []RepliesAwaited => []RoundsBounded)
<1> SUFFICES ASSUME Whole PROVE Spec /\ []RepliesAwaited => []RoundsBounded
  OBVIOUS
<1>1. Bounded => RoundsBounded
  <2> SUFFICES ASSUME Bounded PROVE RoundsBounded
    OBVIOUS
  <2>1. age <= 2 * (SessionTimeout + Slack)
    BY PhaseEnds DEF Bounded
  <2> QED BY <2>1 DEF RoundsBounded, Slack
<1>2. Spec /\ []RepliesAwaited => []Bounded
  BY BoundedInvariant
<1> QED BY <1>1, <1>2, PTL

\* Where the schedule has room as well, no phase is given up early, so that a
\* round is over after two session timeouts and two ticker periods whatever is
\* lost and whatever else is on the air.
THEOREM RoundsBoundedHolds == Roomy /\ Whole => (Spec => []RoundsBounded)
BY RoundsBoundedIfAwaited, RepliesAwaitedHolds, PTL
=============================================================================
