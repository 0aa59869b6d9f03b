---------------------------- MODULE TwoWayProofs ----------------------------
(***************************************************************************)
(* Theorems of TwoWayTime: asymmetric_tof() is exact on six timestamps     *)
(* that really are two round trips and two reply times, whatever the       *)
(* clocks' offsets, and the tag's timestamps really are: the invariant     *)
(* says, phase by phase, how far each clock is from the stamps taken.  The *)
(* anchor's second reply time is a prediction, which is never too long.    *)
(***************************************************************************)
EXTENDS TwoWayTime, TLAPS

\* The ticks from clock value x to clock value y.
Gap(x, y) == Wrapped(y - x)

\* A clock that moves on by less than a turn is that much further away.
LEMMA LaterGap ==
    ASSUME NEW x \in Clock, NEW y \in Clock, NEW d \in Nat,
           Gap(x, y) + d < Wrap
    PROVE  Later(y, d) \in Clock /\ Gap(x, Later(y, d)) = Gap(x, y) + d
BY ClockAssumption DEF Clock, Gap, Wrapped, Later

\* A clock is no way from itself, and every gap is less than a turn.
LEMMA GapType ==
    ASSUME NEW x \in Clock, NEW y \in Clock
    PROVE  Gap(x, y) \in Clock /\ Gap(x, x) = 0
BY ClockAssumption DEF Clock, Gap, Wrapped

\* A product divided by one of its factors is the other.
LEMMA ExactQuotient ==
    ASSUME NEW q \in Nat, NEW y \in Nat \ {0} PROVE Quotient(q * y, y) = q
<1>1. q * y \in Nat
  OBVIOUS
<1>2. (q * y) \div y = q
  OBVIOUS
<1> QED BY <1>1, <1>2 DEF Quotient

\* asymmetric_tof() returns the time of flight t when the two round trips are
\* 2t longer than the replies inside them: the clocks' offsets, their wraps and
\* the two reply times cancel.
THEOREM AsymmetricTofExact ==
    ASSUME NEW s, NEW t \in Nat, NEW p1 \in Nat, NEW p2 \in Nat, p1 > 0,
           Gap(s.pollReceived, s.pollAckSent) = p1,
           Gap(s.pollSent, s.pollAckReceived) = 2 * t + p1,
           Gap(s.pollAckReceived, s.rangeSent) = p2,
           Gap(s.pollAckSent, s.rangeReceived) = 2 * t + p2
    PROVE  AsymmetricTof(s) = t
<1> DEFINE d == (2 * t + p1) + (2 * t + p2) + p1 + p2
           n == (2 * t + p1) * (2 * t + p2) - p1 * p2
<1>1. AsymmetricTof(s) = IF d = 0 THEN 0 ELSE Quotient(n, d)
  BY DEF AsymmetricTof, Gap
<1>2. d \in Nat \ {0}
  OBVIOUS
<1>3. n = t * d
  OBVIOUS
<1> HIDE DEF n, d
<1> QED BY <1>1, <1>2, <1>3, ExactQuotient

-----------------------------------------------------------------------------
(* The exchange *)

Reply1 == Gap(stamps["pollReceived"], stamps["pollAckSent"])
Reply2 == Gap(stamps["pollAckReceived"], stamps["rangeSent"])

\* How far the clocks have moved since the last stamps, phase by phase.
Opening ==
    /\ phase # "poll" => 2 * flight < Wrap
    /\ phase = "pollFlies" => tag = stamps["pollSent"]
    /\ phase = "reply" => /\ anchor = stamps["pollReceived"]
                          /\ Gap(stamps["pollSent"], tag) = flight
    /\ phase = "ackFlies" =>
         /\ anchor = stamps["pollAckSent"]
         /\ Reply1 > 0 /\ 2 * flight + Reply1 < Wrap
         /\ Gap(stamps["pollSent"], tag) = flight + Reply1

Closing ==
    /\ phase = "predict" => /\ tag = stamps["pollAckReceived"]
                            /\ Gap(stamps["pollAckSent"], anchor) = flight
    /\ phase = "command" => \E d \in Latencies :
         /\ Gap(stamps["pollAckReceived"], tag) = d
         /\ Gap(stamps["pollAckSent"], anchor) = flight + d
    /\ phase = "launch" => \E d, e \in Latencies :
         /\ Gap(stamps["pollAckReceived"], tag) = d + e
         /\ Gap(stamps["pollAckSent"], anchor) = flight + d + e
         /\ Wrapped(start - tag) <= ReplyDelay + AntennaDelay
    /\ phase = "rangeFlies" =>
         /\ 2 * flight + Reply2 < Wrap
         /\ Gap(stamps["pollAckSent"], anchor) = flight + Reply2
    /\ phase = "report" =>
         Gap(stamps["pollAckSent"], stamps["rangeReceived"])
            = 2 * flight + Reply2

\* The first round trip, once it is complete.
Round1 ==
    phase \in {"predict", "command", "launch", "rangeFlies", "report"} =>
       /\ Reply1 > 0
       /\ Gap(stamps["pollSent"], stamps["pollAckReceived"])
            = 2 * flight + Reply1

IInv == TypeOK /\ Opening /\ Closing /\ Round1 /\ TagExact

-----------------------------------------------------------------------------

\* What five bytes keep of a number is a clock value.
LEMMA FiveBytesType == ASSUME NEW x \in Int PROVE FiveBytes(x) \in Clock
BY ClockAssumption DEF FiveBytes, Clock

\* Five bytes undo at most one turn of a sum of two clock values.
LEMMA FiveBytesSum ==
    ASSUME NEW x \in 0..2 * Wrap - 1
    PROVE  FiveBytes(x) = IF x < Wrap THEN x ELSE x - Wrap
BY ClockAssumption DEF FiveBytes

\* Cutting the low bits off takes less than Quantum.
LEMMA Cut ==
    ASSUME NEW x \in Nat
    PROVE  x % Quantum \in 0..Quantum - 1 /\ x % Quantum <= x
BY ClockAssumption

\* A delayed time is a clock value no further away than the reply delay and
\* the antenna delay.
LEMMA DelayedTimeAhead ==
    ASSUME NEW c \in Clock, ReplyDelay + AntennaDelay < Wrap
    PROVE  LET dx == FiveBytes(DelayedTime(c))
           IN dx \in Clock /\ Wrapped(dx - c) <= ReplyDelay + AntennaDelay
<1> DEFINE sum == c + ReplyDelay
           future == FiveBytes(sum)
           cut == future % Quantum
           dx == future - cut + AntennaDelay
<1>1. c \in Nat /\ c < Wrap /\ ReplyDelay \in Nat /\ AntennaDelay \in Nat
      /\ Wrap \in Nat /\ Quantum \in Nat /\ Quantum <= ReplyDelay
  BY ClockAssumption DEF Clock
<1>2. future = IF sum < Wrap THEN sum ELSE sum - Wrap
  BY <1>1, FiveBytesSum
<1>3. cut \in 0..Quantum - 1 /\ cut <= future
  BY <1>1, <1>2, Cut
<1>4. dx \in 0..2 * Wrap - 1
  <2> HIDE DEF future, cut
  <2> QED BY <1>1, <1>2, <1>3
<1>5. FiveBytes(dx) = IF dx < Wrap THEN dx ELSE dx - Wrap
  BY <1>4, FiveBytesSum
<1>6. Wrapped(FiveBytes(dx) - c) <= ReplyDelay + AntennaDelay
  <2> HIDE DEF future, cut
  <2> QED BY <1>1, <1>2, <1>3, <1>4, <1>5 DEF Wrapped
<1>7. FiveBytes(dx) \in Clock
  BY <1>4, <1>1, FiveBytesType
<1> QED BY <1>6, <1>7 DEF DelayedTime

\* Five bytes of a delayed time are a clock value.
LEMMA DelayedTimeType ==
    ASSUME NEW c \in Clock PROVE FiveBytes(DelayedTime(c)) \in Clock
<1>1. c + ReplyDelay \in Nat
  BY ClockAssumption DEF Clock
<1>2. FiveBytes(c + ReplyDelay) \in Nat
  BY <1>1, FiveBytesType DEF Clock
<1>3. DelayedTime(c) \in Int
  BY <1>2, Cut, ClockAssumption DEF DelayedTime
<1> QED BY <1>3, FiveBytesType

\* Both clocks move on by what Pass() says.
LEMMA PassMoves ==
    ASSUME TypeOK, NEW d \in Nat, d < Wrap, Pass(d)
    PROVE  /\ tag' \in Clock /\ anchor' \in Clock
           /\ \A x \in Clock : Gap(x, tag) + d < Wrap
                                  => Gap(x, tag') = Gap(x, tag) + d
           /\ \A x \in Clock : Gap(x, anchor) + d < Wrap
                                  => Gap(x, anchor') = Gap(x, anchor) + d
           /\ Gap(tag, tag') = d /\ Gap(anchor, anchor') = d
BY ClockAssumption DEF TypeOK, Pass, Clock, Gap, Wrapped, Later

\* A quotient of integers is one.
LEMMA QuotientType ==
    ASSUME NEW x \in Int, NEW y \in Nat \ {0} PROVE Quotient(x, y) \in Int
BY DEF Quotient

\* asymmetric_tof() of six clock values is a number.
LEMMA TofType ==
    ASSUME NEW s \in [StampNames -> Clock] PROVE AsymmetricTof(s) \in Int
<1> DEFINE round1 == Wrapped(s.pollAckReceived - s.pollSent)
           reply1 == Wrapped(s.pollAckSent - s.pollReceived)
           round2 == Wrapped(s.rangeReceived - s.pollAckSent)
           reply2 == Wrapped(s.rangeSent - s.pollAckReceived)
           d == round1 + round2 + reply1 + reply2
           n == round1 * round2 - reply1 * reply2
<1>1. /\ round1 \in Nat /\ reply1 \in Nat /\ round2 \in Nat /\ reply2 \in Nat
  BY ClockAssumption DEF Clock, Wrapped, StampNames
<1>2. AsymmetricTof(s) = IF d = 0 THEN 0 ELSE Quotient(n, d)
  BY DEF AsymmetricTof
<1>3. d \in Nat /\ n \in Int
  <2> HIDE DEF round1, reply1, round2, reply2
  <2> QED BY <1>1
<1> HIDE DEF d, n
<1> QED BY <1>2, <1>3, QuotientType

\* Storing a clock value keeps the stamps' type and the other five stamps.
LEMMA StampStores ==
    ASSUME TypeOK, NEW c \in Clock, NEW name \in StampNames, Stamp(name, c)
    PROVE  /\ stamps' \in [StampNames -> Clock]
           /\ stamps'[name] = c
           /\ \A o \in StampNames \ {name} : stamps'[o] = stamps[o]
BY DEF TypeOK, Stamp

\* The invariant holds initially.
LEMMA InitTimed == Init => IInv
<1> SUFFICES ASSUME Init PROVE IInv
  OBVIOUS
<1>1. TypeOK
  BY ClockAssumption DEF Init, TypeOK, Clock, Phases, Unknown
<1>2. phase = "poll" /\ atTag = Unknown
  BY DEF Init
<1> QED BY <1>1, <1>2 DEF IInv, Opening, Closing, Round1, TagExact

\* The assumptions leave every exchange less than a turn of the clocks.
LEMMA InTime ==
    ASSUME TypeOK, NEW d \in Latencies, NEW e \in Latencies
    PROVE  /\ flight \in Nat /\ d \in Nat \ {0} /\ e \in Nat \ {0}
           /\ ReplyDelay \in Nat \ {0} /\ AntennaDelay \in Nat /\ Wrap \in Nat
           /\ 2 * flight + ReplyDelay + d < Wrap
           /\ 2 * flight + d + e + ReplyDelay + AntennaDelay < Wrap
BY ClockAssumption, ExchangeAssumption DEF TypeOK

\* A Poll that leaves stamps the tag's clock, and opens an exchange.
LEMMA PollSentKeeps == ASSUME IInv, PollSent PROVE IInv'
<1>1. PICK d \in Latencies : Pass(d)
  BY DEF PollSent
<1>2. d \in Nat /\ d < Wrap /\ 2 * flight < Wrap
  BY <1>1, InTime DEF IInv
<1>3. tag' \in Clock /\ anchor' \in Clock
  BY <1>1, <1>2, PassMoves DEF IInv
<1>4. /\ stamps' \in [StampNames -> Clock] /\ stamps'["pollSent"] = tag'
  BY <1>3, StampStores DEF IInv, PollSent, StampNames
<1>5. phase' = "pollFlies" /\ atTag' = Unknown /\ atAnchor' = Unknown
  BY DEF PollSent, Goes
<1>6. TypeOK'
  BY <1>3, <1>4, <1>5, ClockAssumption
     DEF IInv, TypeOK, PollSent, Phases, Unknown
<1>7. 2 * flight' < Wrap
  BY <1>2 DEF PollSent
<1> QED BY <1>4, <1>5, <1>6, <1>7
        DEF IInv, Opening, Closing, Round1, TagExact

\* The Poll arrives a time of flight later.
LEMMA PollReceivedKeeps == ASSUME IInv, PollReceived PROVE IInv'
<1>1. phase = "pollFlies" /\ phase' = "reply" /\ tag = stamps["pollSent"]
  BY DEF PollReceived, Goes, IInv, Opening
<1>2. flight \in Nat /\ 2 * flight < Wrap
  BY <1>1, ClockAssumption DEF IInv, TypeOK, Opening
<1>3. tag' \in Clock /\ anchor' \in Clock /\ Gap(tag, tag') = flight
  BY <1>2, PassMoves, ClockAssumption DEF IInv, PollReceived
<1>4. /\ stamps' \in [StampNames -> Clock] /\ stamps'["pollReceived"] = anchor'
      /\ stamps'["pollSent"] = stamps["pollSent"]
  BY <1>3, StampStores DEF IInv, PollReceived, StampNames
<1>5. TypeOK'
  BY <1>1, <1>3, <1>4 DEF IInv, TypeOK, PollReceived, Phases
<1> QED BY <1>1, <1>2, <1>3, <1>4, <1>5
        DEF IInv, Opening, Closing, Round1, TagExact, PollReceived

\* The anchor's reply time is more than nothing.
LEMMA PollAckSentKeeps == ASSUME IInv, PollAckSent PROVE IInv'
<1>1. /\ phase = "reply" /\ phase' = "ackFlies"
      /\ anchor = stamps["pollReceived"]
      /\ Gap(stamps["pollSent"], tag) = flight
  BY DEF PollAckSent, Goes, IInv, Opening
<1>2. PICK d \in Latencies : Pass(ReplyDelay + d)
  BY DEF PollAckSent
<1>3. /\ flight \in Nat /\ ReplyDelay + d \in Nat \ {0} /\ Wrap \in Nat
      /\ 2 * flight < Wrap
      /\ 2 * flight + (ReplyDelay + d) < Wrap /\ ReplyDelay + d < Wrap
      /\ stamps["pollSent"] \in Clock
  BY InTime DEF IInv, TypeOK, StampNames
<1>4. /\ tag' \in Clock /\ anchor' \in Clock
      /\ Gap(anchor, anchor') = ReplyDelay + d
      /\ Gap(stamps["pollSent"], tag') = flight + (ReplyDelay + d)
  <2> HIDE DEF Gap
  <2> QED BY <1>1, <1>2, <1>3, PassMoves DEF IInv
<1>5. /\ stamps' \in [StampNames -> Clock] /\ stamps'["pollAckSent"] = anchor'
      /\ stamps'["pollSent"] = stamps["pollSent"]
      /\ stamps'["pollReceived"] = stamps["pollReceived"]
  BY <1>4, StampStores DEF IInv, PollAckSent, StampNames
<1>6. Reply1' = ReplyDelay + d
  BY <1>1, <1>4, <1>5 DEF Reply1
<1>7. TypeOK'
  BY <1>1, <1>4, <1>5 DEF IInv, TypeOK, PollAckSent, Phases
<1>8. Opening'
  BY <1>1, <1>3, <1>4, <1>5, <1>6 DEF Opening, PollAckSent
<1> QED BY <1>1, <1>7, <1>8
        DEF IInv, Closing, Round1, TagExact, PollAckSent

\* The first round trip is two flights and the anchor's reply time.
LEMMA PollAckReceivedKeeps == ASSUME IInv, PollAckReceived PROVE IInv'
<1>1. /\ phase = "ackFlies" /\ phase' = "predict"
      /\ anchor = stamps["pollAckSent"]
      /\ Reply1 > 0 /\ 2 * flight + Reply1 < Wrap
      /\ Gap(stamps["pollSent"], tag) = flight + Reply1
  BY DEF PollAckReceived, Goes, IInv, Opening
<1>2. /\ flight \in Nat /\ 2 * flight < Wrap /\ flight < Wrap
      /\ stamps["pollSent"] \in Clock /\ Reply1 \in Clock
  BY <1>1, ClockAssumption, GapType
     DEF IInv, TypeOK, Opening, StampNames, Reply1
<1>3. /\ tag' \in Clock /\ anchor' \in Clock
      /\ Gap(anchor, anchor') = flight
      /\ Gap(stamps["pollSent"], tag') = (flight + Reply1) + flight
  BY <1>1, <1>2, PassMoves, ClockAssumption DEF IInv, PollAckReceived, Clock
<1>4. /\ stamps' \in [StampNames -> Clock]
      /\ stamps'["pollAckReceived"] = tag'
      /\ stamps'["pollSent"] = stamps["pollSent"]
      /\ stamps'["pollAckSent"] = stamps["pollAckSent"]
      /\ Reply1' = Reply1
  BY <1>3, StampStores DEF IInv, PollAckReceived, StampNames, Reply1
<1>5. TypeOK'
  BY <1>1, <1>3, <1>4 DEF IInv, TypeOK, PollAckReceived, Phases
<1>6. Gap(stamps'["pollSent"], stamps'["pollAckReceived"])
        = 2 * flight + Reply1
  BY <1>2, <1>3, <1>4 DEF Clock
<1>7. Round1' /\ Opening' /\ Closing'
  BY <1>1, <1>2, <1>3, <1>4, <1>6
     DEF Round1, Opening, Closing, PollAckReceived
<1> QED BY <1>5, <1>7 DEF IInv, TagExact, PollAckReceived

\* Predicting range_sent disturbs no stamp.
LEMMA RangePredictedKeeps == ASSUME IInv, RangePredicted PROVE IInv'
<1>1. /\ phase = "predict" /\ phase' = "command"
      /\ tag = stamps["pollAckReceived"]
      /\ Gap(stamps["pollAckSent"], anchor) = flight
      /\ UNCHANGED <<flight, stamps, start, atTag, atAnchor>>
  BY DEF RangePredicted, Goes, IInv, Closing
<1>2. PICK d \in Latencies : Pass(d)
  BY DEF RangePredicted
<1>3. /\ flight \in Nat /\ d \in Nat /\ d < Wrap /\ flight + d < Wrap
      /\ stamps["pollAckSent"] \in Clock
  BY InTime DEF IInv, TypeOK, StampNames
<1>4. /\ tag' \in Clock /\ anchor' \in Clock /\ Gap(tag, tag') = d
      /\ Gap(stamps["pollAckSent"], anchor') = flight + d
  BY <1>1, <1>2, <1>3, PassMoves DEF IInv
<1>5. inFrame' \in Clock
  BY <1>4, DelayedTimeType DEF RangePredicted
<1>6. TypeOK'
  BY <1>1, <1>4, <1>5 DEF IInv, TypeOK, Phases
<1>7. Round1' /\ Opening' /\ Closing'
  BY <1>1, <1>4 DEF Round1, Opening, Closing, IInv, Reply1
<1> QED BY <1>1, <1>6, <1>7 DEF IInv, TagExact

\* The command puts the launch at most a reply delay ahead.
LEMMA RangeCommandedKeeps == ASSUME IInv, RangeCommanded PROVE IInv'
<1>1. /\ phase = "command" /\ phase' = "launch"
      /\ UNCHANGED <<flight, stamps, inFrame, atTag, atAnchor>>
  BY DEF RangeCommanded, Goes
<1>2. PICK d \in Latencies :
         /\ Gap(stamps["pollAckReceived"], tag) = d
         /\ Gap(stamps["pollAckSent"], anchor) = flight + d
  BY <1>1 DEF IInv, Closing
<1>3. PICK e \in Latencies : Pass(e)
  BY DEF RangeCommanded
<1>4. /\ flight \in Nat /\ d \in Nat /\ e \in Nat /\ e < Wrap
      /\ ReplyDelay + AntennaDelay < Wrap
      /\ (flight + d) + e < Wrap /\ d + e < Wrap /\ Wrap \in Nat
      /\ stamps["pollAckSent"] \in Clock /\ stamps["pollAckReceived"] \in Clock
  BY InTime DEF IInv, TypeOK, StampNames
<1>5. /\ tag' \in Clock /\ anchor' \in Clock
      /\ Gap(stamps["pollAckReceived"], tag') = d + e
      /\ Gap(stamps["pollAckSent"], anchor') = flight + d + e
  BY <1>2, <1>3, <1>4, PassMoves DEF IInv
<1>6. start' \in Clock /\ Wrapped(start' - tag') <= ReplyDelay + AntennaDelay
  BY <1>4, <1>5, DelayedTimeAhead DEF RangeCommanded
<1>7. TypeOK'
  BY <1>1, <1>5, <1>6 DEF IInv, TypeOK, Phases
<1>8. Round1' /\ Opening' /\ Closing'
  BY <1>1, <1>5, <1>6 DEF Round1, Opening, Closing, IInv, Reply1
<1> QED BY <1>1, <1>7, <1>8 DEF IInv, TagExact

\* The Range leaves when the tag's clock shows DX_TIME.
LEMMA RangeSentKeeps == ASSUME IInv, RangeSent PROVE IInv'
<1> DEFINE w == Wrapped(start - tag)
<1>1. /\ phase = "launch" /\ phase' = "rangeFlies" /\ Pass(w)
      /\ UNCHANGED <<flight, inFrame, start, atTag, atAnchor>>
  BY DEF RangeSent, Goes
<1>2. PICK d, e \in Latencies :
         /\ Gap(stamps["pollAckReceived"], tag) = d + e
         /\ Gap(stamps["pollAckSent"], anchor) = flight + d + e
         /\ w <= ReplyDelay + AntennaDelay
  BY <1>1 DEF IInv, Closing
<1>3. w \in Clock /\ Later(tag, w) = start
  BY ClockAssumption DEF IInv, TypeOK, Clock, Wrapped, Later
<1>4. /\ flight \in Nat /\ d \in Nat /\ e \in Nat /\ w \in Nat /\ w < Wrap
      /\ 2 * flight + d + e + w < Wrap
      /\ flight + d + e + w < Wrap /\ d + e + w < Wrap
      /\ stamps["pollAckSent"] \in Clock /\ stamps["pollAckReceived"] \in Clock
  <2> HIDE DEF w
  <2> QED BY <1>2, <1>3, InTime DEF IInv, TypeOK, StampNames, Clock
<1>5. /\ tag' \in Clock /\ anchor' \in Clock /\ tag' = start
      /\ Gap(stamps["pollAckReceived"], tag') = d + e + w
      /\ Gap(stamps["pollAckSent"], anchor') = flight + d + e + w
  <2>1. tag' = start
    BY <1>1, <1>3 DEF Pass
  <2> HIDE DEF w
  <2> QED BY <2>1, <1>1, <1>2, <1>4, PassMoves DEF IInv
<1>6. /\ stamps' \in [StampNames -> Clock] /\ stamps'["rangeSent"] = tag'
      /\ \A o \in StampNames \ {"rangeSent"} : stamps'[o] = stamps[o]
  BY <1>5, StampStores DEF IInv, RangeSent, StampNames
<1>7. Reply2' = d + e + w /\ Reply1' = Reply1
  BY <1>5, <1>6 DEF Reply1, Reply2, StampNames
<1>8. TypeOK'
  BY <1>1, <1>5, <1>6 DEF IInv, TypeOK, Phases
<1>9. Closing'
  <2> HIDE DEF w
  <2> QED BY <1>1, <1>4, <1>5, <1>6, <1>7 DEF Closing, StampNames
<1>10. Round1' /\ Opening'
  BY <1>1, <1>6, <1>7 DEF Round1, Opening, IInv, StampNames
<1> QED BY <1>1, <1>8, <1>9, <1>10 DEF IInv, TagExact

\* The second round trip is two flights and the tag's reply time.
LEMMA RangeReceivedKeeps == ASSUME IInv, RangeReceived PROVE IInv'
<1>1. /\ phase = "rangeFlies" /\ phase' = "report" /\ Pass(flight)
      /\ 2 * flight + Reply2 < Wrap
      /\ Gap(stamps["pollAckSent"], anchor) = flight + Reply2
      /\ UNCHANGED <<flight, inFrame, start, atTag>>
  BY DEF RangeReceived, Goes, IInv, Closing
<1>2. /\ flight \in Nat /\ flight < Wrap /\ Reply2 \in Nat
      /\ stamps["pollAckSent"] \in Clock
  BY <1>1, ClockAssumption, GapType
     DEF IInv, TypeOK, Opening, StampNames, Reply2, Clock
<1>3. /\ tag' \in Clock /\ anchor' \in Clock
      /\ Gap(stamps["pollAckSent"], anchor') = 2 * flight + Reply2
  BY <1>1, <1>2, PassMoves DEF IInv
<1>4. /\ stamps' \in [StampNames -> Clock]
      /\ stamps'["rangeReceived"] = anchor'
      /\ \A o \in StampNames \ {"rangeReceived"} : stamps'[o] = stamps[o]
  BY <1>3, StampStores DEF IInv, RangeReceived, StampNames
<1>5. Reply2' = Reply2 /\ Reply1' = Reply1
  BY <1>4 DEF Reply1, Reply2, StampNames
<1>6. atAnchor' \in Int
  <2>1. [stamps' EXCEPT !["rangeSent"] = inFrame] \in [StampNames -> Clock]
    BY <1>4 DEF IInv, TypeOK
  <2> QED BY <2>1, TofType DEF RangeReceived
<1>7. TypeOK'
  BY <1>1, <1>3, <1>4, <1>6 DEF IInv, TypeOK, Phases
<1>8. Closing'
  BY <1>1, <1>3, <1>4, <1>5 DEF Closing, StampNames
<1>9. Round1' /\ Opening'
  BY <1>1, <1>4, <1>5 DEF Round1, Opening, IInv, StampNames
<1> QED BY <1>1, <1>7, <1>8, <1>9 DEF IInv, TagExact

\* With both round trips complete the tag's distance is exact.
LEMMA ReportReceivedKeeps == ASSUME IInv, ReportReceived PROVE IInv'
<1>1. /\ phase = "report" /\ phase' = "poll"
      /\ atTag' = AsymmetricTof(stamps)
      /\ UNCHANGED <<flight, stamps, inFrame, start, atAnchor>>
  BY DEF ReportReceived, Goes
<1>2. PICK d \in Latencies : Pass(d)
  BY DEF ReportReceived
<1>3. d \in Nat /\ d < Wrap
  BY InTime DEF IInv
<1>4. tag' \in Clock /\ anchor' \in Clock
  BY <1>2, <1>3, PassMoves DEF IInv
<1>5. flight \in Nat /\ Reply1 \in Nat /\ Reply2 \in Nat
  BY ClockAssumption, GapType
     DEF IInv, TypeOK, StampNames, Reply1, Reply2, Clock
<1>6. AsymmetricTof(stamps) = flight
  BY <1>1, <1>5, AsymmetricTofExact
     DEF IInv, Round1, Closing, Reply1, Reply2
<1>7. TypeOK'
  BY <1>1, <1>4, <1>5, <1>6 DEF IInv, TypeOK, Phases
<1> QED BY <1>1, <1>6, <1>7 DEF IInv, TagExact, Opening, Closing, Round1

\* Every step of an exchange keeps the clocks and the stamps in step.
LEMMA NextTimed == ASSUME IInv, [Next]_vars PROVE IInv'
<1>1. CASE UNCHANGED vars
  BY <1>1 DEF vars, IInv, TypeOK, Opening, Closing, Round1, TagExact,
              Reply1, Reply2
<1>2. CASE Next
  BY <1>2, PollSentKeeps, PollReceivedKeeps, PollAckSentKeeps,
     PollAckReceivedKeeps, RangePredictedKeeps, RangeCommandedKeeps,
     RangeSentKeeps, RangeReceivedKeeps, ReportReceivedKeeps DEF Next
<1> QED BY <1>1, <1>2

\* The distance a tag computes is the true one, for every size of the clocks,
\* every delay and every time of flight that fit in one turn.
THEOREM TagExactHolds == Spec => []TagExact
<1>1. Init => IInv
  BY InitTimed
<1>2. IInv /\ [Next]_vars => IInv'
  BY NextTimed
<1>3. IInv => TagExact
  BY DEF IInv
<1> QED BY <1>1, <1>2, <1>3, PTL DEF Spec

-----------------------------------------------------------------------------
(* The anchor's distance *)

\* A gap is a number.
LEMMA GapNat ==
    ASSUME NEW x \in Clock, NEW y \in Clock PROVE Gap(x, y) \in Nat
BY ClockAssumption DEF Clock, Gap, Wrapped

\* Division with remainder is unique.
LEMMA Remainder ==
    ASSUME NEW q \in Nat \ {0}, NEW a \in Int, NEW r \in 0..q - 1
    PROVE  (q * a + r) % q = r
OBVIOUS

\* A number is its quotient and its remainder.
LEMMA Divided ==
    ASSUME NEW q \in Nat \ {0}, NEW x \in Int
    PROVE  /\ x \div q \in Int /\ x % q \in 0..q - 1
           /\ x = q * (x \div q) + (x % q)
<1>1. x \div q \in Int
  OBVIOUS
<1>2. x % q \in 0..q - 1
  OBVIOUS
<1>3. x = q * (x \div q) + (x % q)
  OBVIOUS
<1> QED BY <1>1, <1>2, <1>3

\* Cutting the low bits keeps the order.
LEMMA CutMonotone ==
    ASSUME NEW q \in Nat \ {0}, NEW x \in Nat, NEW e \in Nat
    PROVE  x - (x % q) <= (x + e) - ((x + e) % q)
<1> DEFINE a == x \div q
           b == (x + e) \div q
           r == x % q
           s == (x + e) % q
<1>1. a \in Int /\ r \in 0..q - 1 /\ x = q * a + r
  BY Divided
<1>2. b \in Int /\ s \in 0..q - 1 /\ x + e = q * b + s
  <2> DEFINE y == x + e
  <2>1. y \in Int
    OBVIOUS
  <2> HIDE DEF y
  <2>2. y \div q \in Int /\ y % q \in 0..q - 1 /\ y = q * (y \div q) + (y % q)
    BY <2>1, Divided
  <2> QED BY <2>2 DEF y
<1> HIDE DEF a, b, r, s
<1>3. q * a \in Int /\ q * b \in Int
  BY <1>1, <1>2
<1>4. q * a < q * b + q
  <2> DEFINE qa == q * a
             qb == q * b
  <2>1. qa \in Int /\ qb \in Int /\ x = qa + r /\ x + e = qb + s
    BY <1>1, <1>2, <1>3
  <2> HIDE DEF qa, qb
  <2>2. qa < qb + q
    BY <2>1, <1>1, <1>2
  <2> QED BY <2>2 DEF qa, qb
<1>5. a < b + 1
  <2>1. SUFFICES ASSUME a >= b + 1 PROVE FALSE
    BY <1>1, <1>2
  <2>2. q * a >= q * (b + 1)
    BY <2>1, <1>1, <1>2
  <2>3. q * (b + 1) = q * b + q
    BY <1>2
  <2> QED BY <1>3, <1>4, <2>2, <2>3
<1>6. q * a <= q * b
  BY <1>1, <1>2, <1>5
<1>7. x - r <= (x + e) - s
  BY <1>1, <1>2, <1>3, <1>6
<1> QED BY <1>7 DEF r, s

\* A whole turn of the clock changes none of the bits cut off.
LEMMA TurnCut ==
    ASSUME NEW q \in Nat \ {0}, NEW w \in Nat, w % q = 0, NEW x \in Int
    PROVE  (x - w) % q = x % q
<1>1. /\ x \div q \in Int /\ x % q \in 0..q - 1 /\ x = q * (x \div q) + (x % q)
  BY Divided
<1>2. w \div q \in Int /\ w = q * (w \div q)
  BY Divided
<1> DEFINE a == x \div q
           b == w \div q
           r == x % q
<1>3. a \in Int /\ b \in Int /\ r \in 0..q - 1 /\ x - w = q * (a - b) + r
  <2> HIDE DEF a, b, r
  <2>1. x = q * a + r /\ w = q * b /\ a \in Int /\ b \in Int /\ r \in 0..q - 1
    BY <1>1, <1>2 DEF a, b, r
  <2> QED BY <2>1
<1> HIDE DEF a, b
<1>4. (q * (a - b) + r) % q = r
  <2> HIDE DEF r
  <2> QED BY <1>3, Remainder
<1> QED BY <1>3, <1>4

\* A quotient is at least what its dividend is a multiple of.
LEMMA QuotientAtLeast ==
    ASSUME NEW t \in Nat, NEW n \in Int, NEW d \in Nat \ {0}, n >= t * d
    PROVE  Quotient(n, d) >= t
<1>1. t * d \in Nat
  OBVIOUS
<1>2. n \div d \in Int /\ n % d \in 0..d-1 /\ n = d * (n \div d) + (n % d)
  BY Divided
<1> DEFINE a == n \div d
<1> HIDE DEF a
<1>3. a \in Int /\ t * d < d * a + d
  BY <1>2 DEF a
<1>4. t <= a
  <2>1. SUFFICES ASSUME a + 1 <= t PROVE FALSE
    BY <1>3
  <2>2. d * (a + 1) <= d * t
    BY <2>1, <1>3
  <2> QED BY <2>2, <1>3
<1> QED BY <1>1, <1>4 DEF Quotient, a

\* With a second reply taken for shorter than it was, asymmetric_tof() does
\* not fall below the time of flight t.
THEOREM AsymmetricTofAtLeast ==
    ASSUME NEW s, NEW t \in Nat, NEW p1 \in Nat, NEW p2 \in Nat, p1 > 0,
           NEW q \in Nat, q <= p2,
           Gap(s.pollReceived, s.pollAckSent) = p1,
           Gap(s.pollSent, s.pollAckReceived) = 2 * t + p1,
           Gap(s.pollAckReceived, s.rangeSent) = q,
           Gap(s.pollAckSent, s.rangeReceived) = 2 * t + p2
    PROVE  AsymmetricTof(s) >= t
<1> DEFINE d == (2 * t + p1) + (2 * t + p2) + p1 + q
           n == (2 * t + p1) * (2 * t + p2) - p1 * q
<1>1. AsymmetricTof(s) = IF d = 0 THEN 0 ELSE Quotient(n, d)
  BY DEF AsymmetricTof, Gap
<1>2. d \in Nat \ {0} /\ n \in Int
  OBVIOUS
<1>3. n - t * d = (t + p1) * (p2 - q)
  OBVIOUS
<1>4. (t + p1) * (p2 - q) \in Nat
  OBVIOUS
<1>5. t * d \in Nat
  BY <1>2
<1> HIDE DEF n, d
<1>6. n >= t * d
  BY <1>2, <1>3, <1>4, <1>5
<1> QED BY <1>1, <1>2, <1>6, QuotientAtLeast

\* A delayed time is further from any earlier clock value by the two delays
\* less the bits cut off.
LEMMA DelayedTimeGap ==
    ASSUME NEW x \in Clock, NEW c \in Clock,
           Gap(x, c) + ReplyDelay + AntennaDelay < Wrap
    PROVE  Gap(x, FiveBytes(DelayedTime(c)))
             = Gap(x, c) + ReplyDelay + AntennaDelay
                 - ((c + ReplyDelay) % Quantum)
<1> DEFINE sum == c + ReplyDelay
           future == FiveBytes(sum)
           cut == future % Quantum
           dx == future - cut + AntennaDelay
<1>1. /\ x \in Nat /\ x < Wrap /\ c \in Nat /\ c < Wrap
      /\ ReplyDelay \in Nat /\ AntennaDelay \in Nat
      /\ Wrap \in Nat /\ Quantum \in Nat \ {0} /\ Quantum <= ReplyDelay
      /\ Gap(x, c) \in Nat
  BY ClockAssumption, GapType DEF Clock
<1>2. sum \in Nat /\ ReplyDelay + AntennaDelay < Wrap
  BY <1>1
<1>3. future = IF sum < Wrap THEN sum ELSE sum - Wrap
  BY <1>1, <1>2, FiveBytesSum
<1>4. cut = sum % Quantum
  <2>1. CASE sum < Wrap
    BY <2>1, <1>3
  <2>2. CASE sum >= Wrap
    <3>1. future = sum - Wrap
      BY <2>2, <1>1, <1>2, <1>3
    <3>2. (sum - Wrap) % Quantum = sum % Quantum
      <4>1. /\ sum \in Int /\ Quantum \in Nat \ {0} /\ Wrap \in Nat
            /\ Wrap % Quantum = 0
        BY ClockAssumption, <1>2
      <4> HIDE DEF sum
      <4> QED BY <4>1, TurnCut
    <3> QED BY <3>1, <3>2
  <2> QED BY <1>1, <1>2, <2>1, <2>2
<1>5. cut \in 0..Quantum - 1 /\ cut <= future
  <2>1. future \in Nat
    BY <1>1, <1>2, <1>3
  <2> HIDE DEF future
  <2> QED BY <2>1, Cut
<1>6. dx \in 0..2 * Wrap - 1
  <2> HIDE DEF future, cut
  <2> QED BY <1>1, <1>2, <1>3, <1>5
<1>7. FiveBytes(dx) = IF dx < Wrap THEN dx ELSE dx - Wrap
  BY <1>6, FiveBytesSum
<1>8. Gap(x, FiveBytes(dx)) = Gap(x, c) + ReplyDelay + AntennaDelay - cut
  <2> HIDE DEF future, cut
  <2> QED BY <1>1, <1>2, <1>3, <1>5, <1>6, <1>7 DEF Gap, Wrapped
<1> QED BY <1>4, <1>8 DEF DelayedTime

\* What is cut off grows no faster than the clock.
LEMMA CutLater ==
    ASSUME NEW c \in Clock, NEW e \in Nat, e < Wrap
    PROVE  /\ (c + ReplyDelay) % Quantum \in Nat
           /\ (Later(c, e) + ReplyDelay) % Quantum \in Nat
           /\ (Later(c, e) + ReplyDelay) % Quantum
                 <= ((c + ReplyDelay) % Quantum) + e
<1> DEFINE x == c + ReplyDelay
           y == Later(c, e) + ReplyDelay
<1>1. /\ x \in Nat /\ y \in Nat /\ Quantum \in Nat \ {0} /\ Wrap \in Nat
      /\ Wrap % Quantum = 0
      /\ y = x + e \/ y = (x + e) - Wrap
  BY ClockAssumption DEF Clock, Later
<1> HIDE DEF x, y
<1>2. y % Quantum = (x + e) % Quantum
  <2> DEFINE z == x + e
  <2>1. z \in Int
    BY <1>1
  <2> HIDE DEF z
  <2>2. (z - Wrap) % Quantum = z % Quantum
    BY <2>1, <1>1, TurnCut
  <2> QED BY <1>1, <2>2 DEF z
<1>3. x - (x % Quantum) <= (x + e) - ((x + e) % Quantum)
  BY <1>1, CutMonotone
<1>4. /\ x % Quantum \in Nat /\ y % Quantum \in Nat
      /\ (x + e) % Quantum \in Nat
  BY <1>1, Cut
<1>5. y % Quantum <= (x % Quantum) + e
  BY <1>1, <1>2, <1>3, <1>4
<1> QED BY <1>4, <1>5 DEF x, y

\* The range_sent of the frame is never ahead of the time it is sent.
Predicted ==
    /\ phase = "command" => inFrame = FiveBytes(DelayedTime(tag))
    /\ phase = "launch" => Gap(stamps["pollAckReceived"], inFrame)
                             <= Gap(stamps["pollAckReceived"], start)
    /\ phase = "rangeFlies" =>
         Gap(stamps["pollAckReceived"], inFrame) <= Reply2

AnchorInv == IInv /\ Predicted /\ AnchorNeverShort

\* Before the prediction and after the report there is only atAnchor to keep.
LEMMA QuietSteps ==
    ASSUME AnchorInv,
           \/ PollSent \/ PollReceived \/ PollAckSent \/ PollAckReceived
           \/ ReportReceived
    PROVE  Predicted' /\ AnchorNeverShort'
BY DEF AnchorInv, Predicted, AnchorNeverShort, PollSent, PollReceived,
       PollAckSent, PollAckReceived, ReportReceived, Goes

\* The prediction is the delayed time by the clock as it is.
LEMMA PredictionMade ==
    ASSUME AnchorInv, RangePredicted PROVE Predicted' /\ AnchorNeverShort'
BY DEF AnchorInv, Predicted, AnchorNeverShort, RangePredicted, Goes

\* The second reading of the clock gives a launch no earlier than predicted.
LEMMA LaunchNotBeforePrediction ==
    ASSUME AnchorInv, RangeCommanded PROVE Predicted' /\ AnchorNeverShort'
<1> DEFINE x == stamps["pollAckReceived"]
<1>1. /\ phase = "command" /\ phase' = "launch"
      /\ UNCHANGED <<flight, stamps, inFrame, atTag, atAnchor>>
      /\ inFrame = FiveBytes(DelayedTime(tag))
      /\ start' = FiveBytes(DelayedTime(tag'))
  BY DEF RangeCommanded, Goes, AnchorInv, Predicted
<1>2. PICK d \in Latencies : Gap(x, tag) = d
  BY <1>1 DEF AnchorInv, IInv, Closing
<1>3. PICK e \in Latencies : Pass(e)
  BY DEF RangeCommanded
<1>4. /\ d \in Nat /\ e \in Nat /\ e < Wrap /\ d + e < Wrap
      /\ ReplyDelay \in Nat /\ AntennaDelay \in Nat
      /\ d + ReplyDelay + AntennaDelay < Wrap
      /\ d + e + ReplyDelay + AntennaDelay < Wrap
      /\ x \in Clock /\ tag \in Clock
  BY InTime DEF AnchorInv, IInv, TypeOK, StampNames
<1>5. tag' \in Clock /\ tag' = Later(tag, e) /\ Gap(x, tag') = d + e
  BY <1>2, <1>3, <1>4, PassMoves DEF AnchorInv, IInv, Pass
<1>6. Gap(x, inFrame) = d + ReplyDelay + AntennaDelay
                          - ((tag + ReplyDelay) % Quantum)
  BY <1>1, <1>2, <1>4, DelayedTimeGap
<1>7. Gap(x, start') = d + e + ReplyDelay + AntennaDelay
                          - ((tag' + ReplyDelay) % Quantum)
  BY <1>1, <1>4, <1>5, DelayedTimeGap
<1>8. /\ (tag + ReplyDelay) % Quantum \in Nat
      /\ (tag' + ReplyDelay) % Quantum \in Nat
      /\ (tag' + ReplyDelay) % Quantum <= ((tag + ReplyDelay) % Quantum) + e
  BY <1>4, <1>5, CutLater
<1>9. Gap(x, inFrame) <= Gap(x, start')
  <2> DEFINE r == (tag + ReplyDelay) % Quantum
             s == (tag' + ReplyDelay) % Quantum
  <2>1. r \in Nat /\ s \in Nat /\ s <= r + e
    BY <1>8
  <2>2. /\ Gap(x, inFrame) = d + ReplyDelay + AntennaDelay - r
        /\ Gap(x, start') = d + e + ReplyDelay + AntennaDelay - s
    BY <1>6, <1>7
  <2> HIDE DEF r, s
  <2> QED BY <2>1, <2>2, <1>4
<1> QED BY <1>1, <1>9 DEF AnchorInv, Predicted, AnchorNeverShort

\* The frame leaves at the launch time, so its reply was no shorter.
LEMMA LaunchKeepsPrediction ==
    ASSUME AnchorInv, RangeSent PROVE Predicted' /\ AnchorNeverShort'
<1>1. /\ phase = "launch" /\ phase' = "rangeFlies"
      /\ UNCHANGED <<flight, inFrame, start, atTag, atAnchor>>
  BY DEF RangeSent, Goes
<1>2. /\ stamps'["rangeSent"] = start
      /\ stamps'["pollAckReceived"] = stamps["pollAckReceived"]
  <2>1. start \in Clock /\ TypeOK /\ Stamp("rangeSent", start)
    BY DEF AnchorInv, IInv, TypeOK, RangeSent
  <2> QED BY <2>1, StampStores DEF StampNames
<1>3. Reply2' = Gap(stamps["pollAckReceived"], start)
  BY <1>2 DEF Reply2
<1> QED BY <1>1, <1>2, <1>3 DEF AnchorInv, Predicted, AnchorNeverShort

\* The anchor computes with a second reply that is no longer than it was.
LEMMA ReceptionKeeps ==
    ASSUME AnchorInv, RangeReceived, IInv' PROVE Predicted' /\ AnchorNeverShort'
<1> DEFINE s == [stamps' EXCEPT !["rangeSent"] = inFrame]
<1>1. /\ phase = "rangeFlies" /\ phase' = "report" /\ flight' = flight
      /\ inFrame' = inFrame /\ atAnchor' = AsymmetricTof(s)
  BY DEF RangeReceived, Goes
<1>2. /\ stamps' \in [StampNames -> Clock] /\ inFrame \in Clock
      /\ flight \in Nat
  BY <1>1, ClockAssumption DEF AnchorInv, IInv, TypeOK
<1>3. stamps'["pollAckReceived"] = stamps["pollAckReceived"] /\ Reply2' = Reply2
  <2>1. anchor' \in Clock
    BY DEF IInv, TypeOK
  <2>2. TypeOK /\ Stamp("rangeReceived", anchor')
    BY DEF AnchorInv, IInv, RangeReceived
  <2> QED BY <2>1, <2>2, StampStores DEF StampNames, Reply2
<1>4. /\ s.pollReceived = stamps'["pollReceived"]
      /\ s.pollAckSent = stamps'["pollAckSent"]
      /\ s.pollSent = stamps'["pollSent"]
      /\ s.pollAckReceived = stamps'["pollAckReceived"]
      /\ s.rangeReceived = stamps'["rangeReceived"]
      /\ s.rangeSent = inFrame
  BY <1>2 DEF StampNames
<1>5. /\ Reply1' \in Nat /\ Reply1' > 0 /\ Reply2' \in Nat
      /\ Gap(s.pollReceived, s.pollAckSent) = Reply1'
      /\ Gap(s.pollSent, s.pollAckReceived) = 2 * flight + Reply1'
      /\ Gap(s.pollAckSent, s.rangeReceived) = 2 * flight + Reply2'
  <2>1. Reply1' \in Nat /\ Reply2' \in Nat
    BY <1>2, GapType, ClockAssumption DEF Reply1, Reply2, StampNames, Clock
  <2> QED BY <1>1, <1>4, <2>1 DEF IInv, Round1, Closing, Reply1
<1>6. /\ Gap(s.pollAckReceived, s.rangeSent) \in Nat
      /\ Gap(s.pollAckReceived, s.rangeSent) <= Reply2'
  <2>1. stamps["pollAckReceived"] \in Clock
    BY DEF AnchorInv, IInv, TypeOK, StampNames
  <2>2. Gap(stamps["pollAckReceived"], inFrame) <= Reply2
    BY <1>1 DEF AnchorInv, Predicted
  <2>3. Gap(stamps["pollAckReceived"], inFrame) \in Nat
    BY <1>2, <2>1, GapNat
  <2> HIDE DEF s
  <2> QED BY <1>3, <1>4, <2>2, <2>3
<1>7. AsymmetricTof(s) >= flight
  <2> HIDE DEF s
  <2> QED BY <1>2, <1>5, <1>6, AsymmetricTofAtLeast
<1> QED BY <1>1, <1>7 DEF Predicted, AnchorNeverShort

\* The invariant with the prediction holds initially, and every step keeps it.
LEMMA InitAnchored == Init => AnchorInv
BY InitTimed DEF Init, AnchorInv, Predicted, AnchorNeverShort

\* One case for the steps that use the prediction, one for the rest.
LEMMA NextAnchored == ASSUME AnchorInv, [Next]_vars PROVE AnchorInv'
<1>1. IInv'
  BY NextTimed DEF AnchorInv
<1>2. CASE UNCHANGED vars
  BY <1>1, <1>2 DEF vars, AnchorInv, Predicted, AnchorNeverShort, Reply2
<1>3. CASE Next
  BY <1>1, <1>3, QuietSteps, PredictionMade, LaunchNotBeforePrediction,
     LaunchKeepsPrediction, ReceptionKeeps DEF Next, AnchorInv
<1> QED BY <1>2, <1>3

\* No distance an anchor computes is shorter than the true one, for every size
\* of the clocks, every quantum, delay and time of flight that fit in one turn.
THEOREM AnchorNeverShortHolds == Spec => []AnchorNeverShort
<1>1. Init => AnchorInv
  BY InitAnchored
<1>2. AnchorInv /\ [Next]_vars => AnchorInv'
  BY NextAnchored
<1>3. AnchorInv => AnchorNeverShort
  BY DEF AnchorInv
<1> QED BY <1>1, <1>2, <1>3, PTL DEF Spec

\* Every stamp, start time and frame content stays a clock value.
THEOREM TypeCorrect == Spec => []TypeOK
<1>1. Init => IInv
  BY InitTimed
<1>2. IInv /\ [Next]_vars => IInv'
  BY NextTimed
<1>3. IInv => TypeOK
  BY DEF IInv
<1> QED BY <1>1, <1>2, <1>3, PTL DEF Spec
=============================================================================
