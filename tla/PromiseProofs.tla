---------------------------- MODULE PromiseProofs ----------------------------
(***************************************************************************)
(* RangingSystem implements RangingSession where nothing disturbs it: every *)
(* step of a host loop or of the air is a step of the abstract sessions or  *)
(* changes none of their state.                                             *)
(*                                                                         *)
(* Exchanges (ExchangeProofs) says which frames may be on their way and     *)
(* what they carry.  What is missing is an order: a distance is that of an  *)
(* earlier Poll than the one being waited for, which holds because a tag    *)
(* counts its frames up and stops starting rounds before the count wraps    *)
(* (MaxTicks).                                                              *)
(***************************************************************************)
EXTENDS ExchangeProofs

-----------------------------------------------------------------------------
(* The order of the distances *)

Earlier(x, y) == x = NoStamp \/ x < y

\* Of a tag t, seen as v and about to number a frame next, and an anchor a,
\* seen as w: every distance belongs to a Poll that was sent, an anchor that is
\* waited for has been measured with an earlier Poll only, and one whose report
\* is on its way has measured with this one.
Ordered(t, a, v, w, next) ==
    LET poll == v.held[a]["pollSent"]
        its  == w.range[t]["pollSent"]
        mine == v.range[a]["pollSent"]
    IN /\ Earlier(its, next) /\ Earlier(mine, next)
       /\ v.phase = "polling" /\ a \in v.peers =>
             poll < next /\ Earlier(its, poll) /\ Earlier(mine, poll)
       /\ v.phase = "ranging" /\ a \in v.acked \ v.reported =>
             poll < next /\ Earlier(mine, poll)
       /\ \A f \in Calling(a, v) \cup Called(t, a, w) :
             f.kind = "Range" => Earlier(its, poll)
       /\ \A f \in Replying(t, w) \cup Replied(a, t, v) :
             f.kind = "RangeReport" => its = poll

\* A tag's count does not wrap, and nobody reports before the Range.
Counted(t, v, next) ==
    /\ next <= MaxTicks[t] + 1
    /\ v.phase = "polling" => next <= MaxTicks[t] /\ v.reported = {}

Orders ==
    \A t \in Tags :
       /\ Counted(t, Seen(t), node[t].sequence)
       /\ \A a \in Anchors :
             Ordered(t, a, Seen(t), Seen(a), node[t].sequence)

-----------------------------------------------------------------------------
(* What changes of two devices keep the order *)

\* The Poll the tag remembers for an anchor, and the distances at both ends.
PollOf(a, v) == v.held[a]["pollSent"]
Far(n, w)    == w.range[n]["pollSent"]

\* Their frames move on or are lost, and the tag may have counted on.
LEMMA OrderMoves ==
    ASSUME NEW t, NEW a, NEW v, NEW w, NEW v1, NEW w1, NEW q \in Int,
           NEW q1 \in Int, Ordered(t, a, v, w, q), q <= q1,
           Far(t, w) \in Int, Far(a, v) \in Int,
           PollOf(a, v1) = PollOf(a, v), Far(t, w1) = Far(t, w),
           Far(a, v1) = Far(a, v), v1.phase = v.phase, v1.peers = v.peers,
           v1.acked = v.acked, v.reported \subseteq v1.reported,
           PollOf(a, v) \in Int, v1.outbox \subseteq v.outbox,
           \A f \in w1.outbox : f \in w.outbox \/ f.dst # t,
           \A f \in w1.waiting : f \in w.waiting \/ f.src # t \/ f \in v.outbox,
           \A f \in v1.waiting : f \in v.waiting \/ f.src # a \/ f \in w.outbox
    PROVE  Ordered(t, a, v1, w1, q1)
<1>1. /\ Calling(a, v1) \subseteq Calling(a, v)
      /\ Called(t, a, w1) \subseteq Calling(a, v) \cup Called(t, a, w)
      /\ Replying(t, w1) \subseteq Replying(t, w)
      /\ Replied(a, t, v1) \subseteq Replying(t, w) \cup Replied(a, t, v)
  BY DEF Calling, Called, Replying, Replied
<1>2. \A x \in Int : Earlier(x, q) => Earlier(x, q1)
  BY DEF Earlier
<1>3. Earlier(Far(t, w1), q1) /\ Earlier(Far(a, v1), q1)
  BY <1>2 DEF Ordered, Far
<1>4. PollOf(a, v) < q => PollOf(a, v) < q1
  OBVIOUS
<1>5. /\ v1.phase = "polling" /\ a \in v1.peers =>
            /\ PollOf(a, v1) < q1 /\ Earlier(Far(t, w1), PollOf(a, v1))
            /\ Earlier(Far(a, v1), PollOf(a, v1))
      /\ v1.phase = "ranging" /\ a \in v1.acked \ v1.reported =>
            PollOf(a, v1) < q1 /\ Earlier(Far(a, v1), PollOf(a, v1))
  BY <1>4 DEF Ordered, Far, PollOf
<1>6. /\ \A f \in Calling(a, v1) \cup Called(t, a, w1) :
             f.kind = "Range" => Earlier(Far(t, w1), PollOf(a, v1))
      /\ \A f \in Replying(t, w1) \cup Replied(a, t, v1) :
             f.kind = "RangeReport" => Far(t, w1) = PollOf(a, v1)
  BY <1>1 DEF Ordered, Far, PollOf
<1> QED BY <1>3, <1>5, <1>6 DEF Ordered, Far, PollOf

\* The tag has no session: nothing is on its way.
LEMMA OrderIdle ==
    ASSUME NEW t, NEW a, NEW v, NEW w, NEW q, Exchange(t, a, v, w),
           v.phase = "idle", Earlier(Far(t, w), q), Earlier(Far(a, v), q)
    PROVE  Ordered(t, a, v, w, q)
<1>1. /\ Calling(a, v) = {} /\ Called(t, a, w) = {}
      /\ Replying(t, w) = {} /\ Replied(a, t, v) = {}
  BY ExchangeSilent
<1> QED BY <1>1 DEF Ordered, Far

\* The tag polls: what is on its way is no Range and no report.
LEMMA OrderPolls ==
    ASSUME NEW t, NEW a, NEW v, NEW w, NEW q, Exchange(t, a, v, w),
           v.phase = "polling", Earlier(Far(t, w), q), Earlier(Far(a, v), q),
           a \in v.peers => /\ PollOf(a, v) < q
                            /\ Earlier(Far(t, w), PollOf(a, v))
                            /\ Earlier(Far(a, v), PollOf(a, v))
    PROVE  Ordered(t, a, v, w, q)
<1>1. /\ \A f \in Calling(a, v) \cup Called(t, a, w) : f.kind # "Range"
      /\ \A f \in Replying(t, w) \cup Replied(a, t, v) : f.kind # "RangeReport"
  BY DEF Exchange, CallOK, ReplyOK
<1> QED BY <1>1 DEF Ordered, Far, PollOf

\* The tag stops polling and ranges with anchors it has polled.
LEMMA OrderRanges ==
    ASSUME NEW t, NEW a, NEW v, NEW w, NEW v1, NEW q \in Int,
           Ordered(t, a, v, w, q), Exchange(t, a, v, w), Exchange(t, a, v1, w),
           Far(t, w) \in Int, Far(a, v) \in Int, PollOf(a, v) \in Int,
           v.phase = "polling", v1.phase = "ranging", v1.waiting = {},
           v1.acked \subseteq v.peers, PollOf(a, v1) = PollOf(a, v),
           Far(a, v1) = Far(a, v)
    PROVE  Ordered(t, a, v1, w, q + 1)
<1>1. /\ Earlier(Far(t, w), q + 1) /\ Earlier(Far(a, v1), q + 1)
      /\ a \in v.peers => PollOf(a, v1) < q + 1
  BY DEF Ordered, Far, PollOf, Earlier
<1>2. a \in v1.acked => /\ Earlier(Far(t, w), PollOf(a, v1))
                        /\ Earlier(Far(a, v1), PollOf(a, v1))
  BY DEF Ordered, Far, PollOf
<1>3. \A f \in Calling(a, v1) \cup Called(t, a, w) :
         f.kind = "Range" => a \in v1.acked
  BY DEF Exchange, CallOK
<1>4. \A f \in Replying(t, w) \cup Replied(a, t, v1) : f.kind # "RangeReport"
  <2>1. Replied(a, t, v1) = {}
    BY DEF Replied
  <2>2. \A f \in Replying(t, w) : f.kind # "RangeReport"
    BY DEF Exchange, ReplyOK
  <2> QED BY <2>1, <2>2
<1> QED BY <1>1, <1>2, <1>3, <1>4 DEF Ordered, Far, PollOf

\* The tag has measured, and nothing is left on its way.
LEMMA OrderReported ==
    ASSUME NEW t, NEW a, NEW v, NEW w, NEW q, Exchange(t, a, v, w),
           v.phase = "ranging", a \in v.reported,
           Earlier(Far(t, w), q), Earlier(Far(a, v), q)
    PROVE  Ordered(t, a, v, w, q)
<1>1. /\ Calling(a, v) = {} /\ Called(t, a, w) = {}
      /\ Replying(t, w) = {} /\ Replied(a, t, v) = {}
  BY ExchangeSilent
<1> QED BY <1>1 DEF Ordered, Far

\* The anchor has dealt with what was waiting for it; it still has its distance
\* or has forgotten it with no report on its way, and sends no report.
LEMMA OrderAnchor ==
    ASSUME NEW t, NEW a, NEW v, NEW w, NEW w1, NEW q, Ordered(t, a, v, w, q),
           \/ Far(t, w1) = Far(t, w)
           \/ Far(t, w1) = NoStamp /\ Replied(a, t, v) = {},
           w1.waiting = {},
           \A g \in w1.outbox : g.dst = t => g.kind # "RangeReport"
    PROVE  Ordered(t, a, v, w1, q)
<1>1. \A x : Earlier(Far(t, w), x) => Earlier(Far(t, w1), x)
  BY DEF Earlier
<1>2. /\ Called(t, a, w1) = {}
      /\ \A f \in Replying(t, w1) : f.kind # "RangeReport"
  BY DEF Called, Replying
<1>3. \A f \in Replied(a, t, v) :
         f.kind = "RangeReport" => Far(t, w1) = PollOf(a, v)
  BY DEF Ordered, Far, PollOf
<1>4. /\ Earlier(Far(t, w1), q) /\ Earlier(Far(a, v), q)
      /\ v.phase = "polling" /\ a \in v.peers =>
            /\ PollOf(a, v) < q /\ Earlier(Far(t, w1), PollOf(a, v))
            /\ Earlier(Far(a, v), PollOf(a, v))
      /\ v.phase = "ranging" /\ a \in v.acked \ v.reported =>
            PollOf(a, v) < q /\ Earlier(Far(a, v), PollOf(a, v))
      /\ \A f \in Calling(a, v) :
            f.kind = "Range" => Earlier(Far(t, w1), PollOf(a, v))
  BY <1>1 DEF Ordered, Far, PollOf
<1> QED BY <1>2, <1>3, <1>4 DEF Ordered, Far, PollOf

\* A Range that is with an anchor finds the tag ranging with it, and the anchor
\* without this round's distance.
LEMMA CalledRange ==
    ASSUME NEW t, NEW a, NEW v, NEW w, NEW q,
           \E f \in Called(t, a, w) : f.kind = "Range",
           Ordered(t, a, v, w, q), Exchange(t, a, v, w)
    PROVE  /\ v.phase = "ranging" /\ a \in v.acked \ v.reported
           /\ PollOf(a, v) < q /\ Earlier(Far(t, w), PollOf(a, v))
           /\ Earlier(Far(a, v), PollOf(a, v)) /\ Earlier(Far(a, v), q)
           /\ Calling(a, v) = {} /\ Replied(a, t, v) = {}
<1>1. v.phase = "ranging" /\ a \in v.acked \ v.reported
  BY DEF Exchange, CallOK
<1>2. Calling(a, v) = {} /\ Replied(a, t, v) = {}
  BY DEF Exchange, OneAtATime, Called
<1>3. /\ PollOf(a, v) < q /\ Earlier(Far(t, w), PollOf(a, v))
      /\ Earlier(Far(a, v), PollOf(a, v)) /\ Earlier(Far(a, v), q)
  BY <1>1 DEF Ordered, PollOf, Far
<1> QED BY <1>1, <1>2, <1>3

\* The anchor has measured on a Range, and reports.
LEMMA OrderMeasures ==
    ASSUME NEW t, NEW a, NEW v, NEW w1, NEW q,
           v.phase = "ranging", PollOf(a, v) < q,
           Earlier(Far(a, v), PollOf(a, v)), Earlier(Far(a, v), q),
           Calling(a, v) = {}, Replied(a, t, v) = {},
           Far(t, w1) = PollOf(a, v), w1.waiting = {}
    PROVE  Ordered(t, a, v, w1, q)
<1>1. Called(t, a, w1) = {}
  BY DEF Called
<1>2. Earlier(Far(t, w1), q)
  BY DEF Earlier
<1> QED BY <1>1, <1>2 DEF Ordered, PollOf, Far

-----------------------------------------------------------------------------
(* What is known before a step *)

PromiseInv == ExchangeInv /\ Orders

\* The numbers compared above are numbers.
LEMMA SeenNumbers ==
    ASSUME TypeOK, NEW n \in Nodes, NEW m \in Nodes
    PROVE  /\ Far(m, Seen(n)) \in Stamp /\ PollOf(m, Seen(n)) \in Stamp
           /\ node[n].sequence \in Byte
<1>1. node[n] \in Node /\ radio[n] \in Radio
  BY DEF TypeOK
<1>2. LastSeq(radio[n]) \in Stamp
  <2>1. CASE radio[n].outbox = {}
    BY <1>1, <2>1 DEF LastSeq, Radio
  <2>2. CASE radio[n].outbox # {}
    <3>1. (CHOOSE f \in radio[n].outbox : TRUE) \in radio[n].outbox
      BY <2>2
    <3>2. (CHOOSE f \in radio[n].outbox : TRUE) \in Frame
      BY <1>1, <3>1 DEF Radio
    <3> QED BY <2>2, <3>2 DEF LastSeq, Frame, Stamp
  <2> QED BY <2>1, <2>2
<1>3. TxStamped(n, node[n], LastSeq(radio[n])) \in Node
  BY <1>1, <1>2, TxStampedType
<1>4. Seen(n).held \in [Nodes -> Stamps] /\ Seen(n).range \in [Nodes -> Stamps]
  BY <1>1, <1>3 DEF Seen, View, Node
<1>5. "pollSent" \in StampNames
  BY DEF StampNames
<1> HIDE DEF Seen
<1>6. Far(m, Seen(n)) \in Stamp /\ PollOf(m, Seen(n)) \in Stamp
  BY <1>4, <1>5 DEF Far, PollOf, Stamps
<1> QED BY <1>1, <1>6 DEF Node

\* A tag and an anchor.
LEMMA PairKnown ==
    ASSUME PromiseInv, NEW t \in Tags, NEW a \in Anchors
    PROVE  /\ t \in Nodes /\ a \in Nodes /\ t # a
           /\ Ordered(t, a, Seen(t), Seen(a), node[t].sequence)
           /\ Exchange(t, a, Seen(t), Seen(a))
           /\ Counted(t, Seen(t), node[t].sequence)
           /\ Far(t, Seen(a)) \in Int /\ Far(a, Seen(t)) \in Int
           /\ PollOf(a, Seen(t)) \in Int /\ node[t].sequence \in Int
           /\ MaxTicks[t] \in 0..200
<1>1. t \in Nodes /\ a \in Nodes /\ t # a
  BY RoleAssumption
<1>2. Stamp \subseteq Int /\ Byte \subseteq Int
  BY DEF Stamp, Byte, NoStamp
<1>3. TypeOK /\ Exchanges /\ Orders
  BY DEF PromiseInv, ExchangeInv
<1>4. /\ Far(t, Seen(a)) \in Stamp /\ Far(a, Seen(t)) \in Stamp
      /\ PollOf(a, Seen(t)) \in Stamp /\ node[t].sequence \in Byte
  BY ONLY <1>1, <1>3, SeenNumbers
<1>5. Exchange(t, a, Seen(t), Seen(a))
  BY <1>3 DEF Exchanges
<1>6. /\ Ordered(t, a, Seen(t), Seen(a), node[t].sequence)
      /\ Counted(t, Seen(t), node[t].sequence)
  BY <1>3 DEF Orders
<1>7. MaxTicks[t] \in 0..200
  BY <1>1, SystemAssumption
<1> QED BY <1>1, <1>2, <1>4, <1>5, <1>6, <1>7

\* A tag that counts a frame does not come round to zero.
LEMMA NumbersOn ==
    ASSUME PromiseInv, NEW t \in Tags, Numbers(t)
    PROVE  node'[t].sequence = node[t].sequence + 1
<1>1. MaxTicks[t] \in 0..200 /\ node[t].sequence \in Byte
  <2>1. t \in Nodes
    BY RoleAssumption
  <2>2. node[t].sequence \in Byte
    BY <2>1 DEF PromiseInv, ExchangeInv, TypeOK, Node
  <2> QED BY <2>1, <2>2, SystemAssumption
<1>2. node[t].sequence <= MaxTicks[t] + 1
  BY DEF Counted, PromiseInv, Orders
<1>3. \A x \in 0..200, y \in 0..255 : y <= x + 1 => (y + 1) % 256 = y + 1
  OBVIOUS
<1>4. (node[t].sequence + 1) % 256 = node[t].sequence + 1
  BY ONLY <1>1, <1>2, <1>3 DEF Byte
<1> QED BY <1>4 DEF Numbers

-----------------------------------------------------------------------------
(* The abstract state *)

\* The state of RangingSession, and the moves of its sessions over that.
Phases    == [t \in Tags |-> PhaseOf(node[t])]
Answers   == [t \in Tags |-> node[t].pollAcknowledged]
Reports   == [t \in Tags |-> node[t].rangeReportReceived]
Distances == [n \in Nodes |-> [m \in Nodes |-> node[n].range[m]["pollSent"]]]

SessionMoves(t, p, as, rs) ==
    /\ Phases' = [Phases EXCEPT ![t] = p]
    /\ Answers' = [Answers EXCEPT ![t] = as]
    /\ Reports' = [Reports EXCEPT ![t] = rs]

\* A step of one tag is a step of its session.
LEMMA ShowsMoves ==
    ASSUME NEW t \in Tags, NEW p, NEW as, NEW rs, Shows(t, p, as, rs)
    PROVE  SessionMoves(t, p, as, rs)
<1>1. \A u \in Tags : u \in Nodes
  BY RoleAssumption
<1>2. /\ PhaseOf(node[t])' = p /\ node'[t].pollAcknowledged = as
      /\ node'[t].rangeReportReceived = rs
      /\ \A u \in Tags \ {t} :
            /\ PhaseOf(node[u])' = PhaseOf(node[u])
            /\ node'[u].pollAcknowledged = node[u].pollAcknowledged
            /\ node'[u].rangeReportReceived = node[u].rangeReportReceived
  BY <1>1 DEF Shows, Seen, View
<1> QED BY <1>2 DEF SessionMoves, Phases, Answers, Reports

\* What an anchor does changes no session.
LEMMA AnchorLeavesSessions ==
    ASSUME NEW a \in Anchors, AnchorMoves(a)
    PROVE  UNCHANGED <<Phases, Answers, Reports>>
<1>1. \A u \in Tags : u \in Nodes /\ u # a
  BY RoleAssumption
<1>2. \A u \in Tags :
        /\ PhaseOf(node[u])' = PhaseOf(node[u])
        /\ node'[u].pollAcknowledged = node[u].pollAcknowledged
        /\ node'[u].rangeReportReceived = node[u].rangeReportReceived
  BY <1>1 DEF AnchorMoves, Seen, View
<1> QED BY <1>2 DEF Phases, Answers, Reports

\* The distances stay.
LEMMA SameDistances ==
    ASSUME \A n \in Nodes : Seen(n)'.range = Seen(n).range
    PROVE  UNCHANGED Distances
<1>1. \A n \in Nodes : node'[n].range = node[n].range
  BY DEF Seen, View
<1> QED BY <1>1 DEF Distances

\* One distance is replaced.
LEMMA OneDistance ==
    ASSUME NEW n \in Nodes, NEW m \in Nodes, NEW d, Measures(n, m, d),
           \A k \in Nodes \ {n} : Seen(k)' = Seen(k)
    PROVE  Distances' = [Distances EXCEPT ![n][m] = d]
<1>1. /\ node'[n].range[m]["pollSent"] = d
      /\ \A i \in Nodes \ {m} : node'[n].range[i] = node[n].range[i]
      /\ \A k \in Nodes \ {n} : node'[k].range = node[k].range
  BY DEF Measures, Seen, View
<1> QED BY <1>1 DEF Distances

-----------------------------------------------------------------------------
(* From the device that moves to all of them *)

\* A tick and the handling of a frame change no other node.
LEMMA OwnNode ==
    ASSUME PromiseInv, NEW n \in Nodes, Tick(n) \/ (OnRx(n) /\ ~ OnRxError(n))
    PROVE  \A m \in Nodes \ {n} : node'[m] = node[m]
<1>1. TypeOK /\ node \in [Nodes -> Node]
  BY DEF PromiseInv, ExchangeInv, TypeOK
<1>2. Commits(n)
  BY <1>1, TickCommits, OnRxCommits
<1> QED BY <1>1, <1>2 DEF Commits, Becomes, Transmits

\* Only a tag changed.
LEMMA TagOrders ==
    ASSUME PromiseInv, NEW t \in Tags,
           \A m \in Nodes \ {t} : Seen(m)' = Seen(m) /\ node'[m] = node[m],
           Counted(t, Seen(t)', node'[t].sequence),
           \A a \in Anchors :
              Ordered(t, a, Seen(t)', Seen(a), node'[t].sequence)
    PROVE  Orders'
<1>1. ASSUME NEW u \in Tags
      PROVE  /\ Counted(u, Seen(u)', node'[u].sequence)
             /\ \A a \in Anchors :
                   Ordered(u, a, Seen(u)', Seen(a)', node'[u].sequence)
  <2>1. u \in Nodes /\ \A a \in Anchors : a \in Nodes \ {t}
    BY RoleAssumption
  <2>2. \A a \in Anchors : Seen(a)' = Seen(a)
    BY <2>1
  <2>3. CASE u = t
    BY <2>2, <2>3
  <2>4. CASE u # t
    <3>1. Seen(u)' = Seen(u) /\ node'[u] = node[u]
      BY <2>1, <2>4
    <3> QED BY <2>2, <3>1 DEF PromiseInv, Orders
  <2> QED BY <2>3, <2>4
<1> QED BY <1>1 DEF Orders

\* Only an anchor changed.
LEMMA AnchorOrders ==
    ASSUME PromiseInv, NEW a \in Anchors, AnchorMoves(a),
           \A m \in Nodes \ {a} : node'[m] = node[m],
           \A t \in Tags :
              Ordered(t, a, Seen(t), Seen(a)', node[t].sequence)
    PROVE  Orders'
<1>1. ASSUME NEW t \in Tags
      PROVE  /\ Counted(t, Seen(t)', node'[t].sequence)
             /\ \A b \in Anchors :
                   Ordered(t, b, Seen(t)', Seen(b)', node'[t].sequence)
  <2>1. t \in Nodes \ {a} /\ \A b \in Anchors : b \in Nodes
    BY RoleAssumption
  <2>2. Seen(t)' = Seen(t) /\ node'[t] = node[t]
    BY <2>1 DEF AnchorMoves
  <2>3. \A b \in Anchors : b # a => Seen(b)' = Seen(b)
    BY <2>1 DEF AnchorMoves
  <2> HIDE DEF Seen
  <2>4. Counted(t, Seen(t), node[t].sequence)
        /\ \A b \in Anchors : Ordered(t, b, Seen(t), Seen(b), node[t].sequence)
    BY DEF PromiseInv, Orders
  <2> QED BY <2>2, <2>3, <2>4
<1> QED BY <1>1 DEF Orders

-----------------------------------------------------------------------------
(* Steps of a tag *)

\* A tag that ends up without a session.
LEMMA IdleOrders ==
    ASSUME PromiseInv, NEW t \in Tags, Exchanges', Shows(t, "idle", {}, {}),
           \A m \in Nodes \ {t} : node'[m] = node[m],
           node'[t].sequence \in Int, node[t].sequence <= node'[t].sequence,
           node'[t].sequence <= MaxTicks[t] + 1,
           \A a \in Anchors :
              \/ Far(a, Seen(t)') = Far(a, Seen(t))
              \/ Far(a, Seen(t)') = NoStamp
              \/ Far(a, Seen(t)') \in Int /\ Far(a, Seen(t)') < node[t].sequence
    PROVE  Orders'
<1>1. \A m \in Nodes \ {t} : Seen(m)' = Seen(m)
  BY DEF Shows
<1>2. Counted(t, Seen(t)', node'[t].sequence)
  BY DEF Counted, Shows
<1>3. ASSUME NEW a \in Anchors
      PROVE  Ordered(t, a, Seen(t)', Seen(a), node'[t].sequence)
  <2>1. /\ a \in Nodes \ {t} /\ Far(t, Seen(a)) \in Int
        /\ Far(a, Seen(t)) \in Int /\ node[t].sequence \in Int
        /\ Ordered(t, a, Seen(t), Seen(a), node[t].sequence)
    BY PairKnown
  <2>2. Far(t, Seen(a)) = NoStamp \/ Far(t, Seen(a)) < node[t].sequence
    BY <2>1 DEF Ordered, Earlier, Far
  <2>3. Far(a, Seen(t)) = NoStamp \/ Far(a, Seen(t)) < node[t].sequence
    BY <2>1 DEF Ordered, Earlier, Far
  <2>4. Exchange(t, a, Seen(t)', Seen(a))
    BY <1>1, <2>1 DEF Exchanges
  <2>5. Seen(t)'.phase = "idle"
    BY DEF Shows
  <2> HIDE DEF Seen
  <2>6. /\ Earlier(Far(t, Seen(a)), node'[t].sequence)
        /\ Far(a, Seen(t)') = Far(a, Seen(t)) \/ Far(a, Seen(t)') = NoStamp
              => Earlier(Far(a, Seen(t)'), node'[t].sequence)
    BY <2>1, <2>2, <2>3 DEF Earlier
  <2>7. Earlier(Far(a, Seen(t)'), node'[t].sequence)
    <3>1. Far(a, Seen(t)') \in Int /\ Far(a, Seen(t)') < node[t].sequence
             => Earlier(Far(a, Seen(t)'), node'[t].sequence)
      BY <2>1 DEF Earlier
    <3> QED BY <2>6, <3>1
  <2> QED BY <2>4, <2>5, <2>6, <2>7, OrderIdle
<1> QED BY <1>1, <1>2, <1>3, TagOrders

\* What is known of a tag alone.
LEMMA TagNumbers ==
    ASSUME PromiseInv, NEW t \in Tags
    PROVE  /\ t \in Nodes /\ node[t].sequence \in Int
           /\ MaxTicks[t] \in 0..200
           /\ Counted(t, Seen(t), node[t].sequence)
           /\ Local(t, Seen(t))
<1>1. t \in Nodes
  BY RoleAssumption
<1>2. node[t].sequence \in Byte
  BY <1>1 DEF PromiseInv, ExchangeInv, TypeOK, Node
<1>3. Counted(t, Seen(t), node[t].sequence) /\ Local(t, Seen(t))
  BY <1>1 DEF PromiseInv, ExchangeInv, Exchanges, Orders
<1> QED BY <1>1, <1>2, <1>3, SystemAssumption DEF Byte

\* The tag keeps its distances.
LEMMA TagUnmeasured ==
    ASSUME NEW t \in Tags, NEW p, NEW as, NEW rs, Shows(t, p, as, rs),
           Seen(t)'.range = Seen(t).range
    PROVE  /\ UNCHANGED Distances
           /\ \A a \in Anchors : Far(a, Seen(t)') = Far(a, Seen(t))
<1>1. \A n \in Nodes : Seen(n)'.range = Seen(n).range
  BY DEF Shows
<1> QED BY <1>1, SameDistances DEF Far

\* tick_async() ranges with the anchors that have acknowledged.
LEMMA PollAckTimeoutPromised ==
    ASSUME Undisturbed, PromiseInv, NEW t \in Tags, TickPollAckTimeout(t)
    PROVE  Orders' /\ Session!StopWaiting(t)
<1>1. /\ Exchanges' /\ Seen(t).phase = "polling" /\ Seen(t).acked # {}
      /\ Shows(t, "ranging", Seen(t).acked, {}) /\ SamePolls(t)
      /\ node'[t].sequence = node[t].sequence + 1
  BY TickPollAckTimeoutKeeps, NumbersOn DEF PromiseInv
<1>2. \A m \in Nodes \ {t} : Seen(m)' = Seen(m) /\ node'[m] = node[m]
  BY <1>1, TagNumbers, OwnNode DEF Shows, Tick
<1>3. /\ t \in Nodes /\ node[t].sequence \in Int /\ MaxTicks[t] \in 0..200
      /\ Counted(t, Seen(t), node[t].sequence) /\ Local(t, Seen(t))
  BY TagNumbers
<1>4. Seen(t)'.range = Seen(t).range
  BY <1>1 DEF SamePolls
<1>5. Session!StopWaiting(t)
  <2>1. UNCHANGED Distances /\ SessionMoves(t, "ranging", Seen(t).acked, {})
    BY <1>1, <1>4, ShowsMoves, TagUnmeasured
  <2>2. Seen(t).phase = PhaseOf(node[t]) /\ Seen(t).acked = node[t].pollAcknowledged
    BY <1>3, SeenFields
  <2> QED BY <1>1, <2>1, <2>2
       DEF Session!StopWaiting, Session!Unmeasured, Session!Moves,
           SessionMoves, Phases, Answers, Reports, Distances
<1>6. Counted(t, Seen(t)', node'[t].sequence)
  <2>1. node[t].sequence <= MaxTicks[t] /\ Seen(t)'.phase = "ranging"
    BY <1>1, <1>3 DEF Counted, Shows
  <2> HIDE DEF Seen
  <2> QED BY <1>1, <1>3, <2>1 DEF Counted
<1>7. ASSUME NEW a \in Anchors
      PROVE  Ordered(t, a, Seen(t)', Seen(a), node'[t].sequence)
  <2>1. /\ a \in Nodes /\ t # a
        /\ Ordered(t, a, Seen(t), Seen(a), node[t].sequence)
        /\ Exchange(t, a, Seen(t), Seen(a))
        /\ Far(t, Seen(a)) \in Int /\ Far(a, Seen(t)) \in Int
        /\ PollOf(a, Seen(t)) \in Int
    BY PairKnown
  <2>2. Exchange(t, a, Seen(t)', Seen(a))
    BY <1>1, <1>2, <2>1 DEF Exchanges
  <2>3. PollOf(a, Seen(t)') = PollOf(a, Seen(t)) /\ Far(a, Seen(t)') = Far(a, Seen(t))
    BY <1>1, <1>4, <2>1 DEF SamePolls, PollOf, Far
  <2>4. /\ Seen(t)'.phase = "ranging" /\ Seen(t)'.waiting = {}
        /\ Seen(t)'.acked \subseteq Seen(t).peers
    BY <1>1, <1>3 DEF Shows, Local
  <2> QED BY <1>1, <1>3, <2>1, <2>2, <2>3, <2>4, OrderRanges
<1> QED BY <1>2, <1>5, <1>6, <1>7, TagOrders

\* tick_async() gives a session up.
LEMMA SessionTimeoutPromised ==
    ASSUME Undisturbed, PromiseInv, NEW t \in Tags, TickSessionTimeout(t)
    PROVE  Orders' /\ Session!Abandon(t)
<1>1. /\ Exchanges' /\ Seen(t).phase # "idle" /\ Shows(t, "idle", {}, {})
      /\ Seen(t)'.range = Seen(t).range
      /\ node'[t].sequence = node[t].sequence
  BY TickSessionTimeoutKeeps DEF PromiseInv, SameNumber
<1>2. /\ t \in Nodes /\ node[t].sequence \in Int /\ MaxTicks[t] \in 0..200
      /\ node[t].sequence <= MaxTicks[t] + 1
  BY TagNumbers DEF Counted
<1>3. \A m \in Nodes \ {t} : node'[m] = node[m]
  BY <1>2, OwnNode DEF Tick
<1>4. /\ UNCHANGED Distances /\ SessionMoves(t, "idle", {}, {})
      /\ \A a \in Anchors : Far(a, Seen(t)') = Far(a, Seen(t))
  BY <1>1, ShowsMoves, TagUnmeasured
<1>5. Session!Abandon(t)
  <2>1. Seen(t).phase = PhaseOf(node[t])
    BY <1>2, SeenFields
  <2> QED BY <1>1, <1>4, <2>1
       DEF Session!Abandon, Session!Unmeasured, Session!Moves,
           SessionMoves, Phases, Answers, Reports, Distances
<1> HIDE DEF Seen
<1>6. Orders'
  BY <1>1, <1>2, <1>3, <1>4, IdleOrders
<1> QED BY <1>5, <1>6

\* A tag drops a peer it has not heard for long: the session it may be in ends,
\* and so does the peer's distance if there is one.
LEMMA TagPrunePromised ==
    ASSUME Undisturbed, PromiseInv, NEW t \in Tags, TickPrunePeer(t)
    PROVE  Orders' /\ [Session!Next]_(Session!vars)
<1>1. /\ Exchanges' /\ Shows(t, "idle", {}, {})
      /\ node'[t].sequence = node[t].sequence
  BY TagPruneKeeps DEF PromiseInv, SameNumber
<1>2. PICK m \in Nodes : Forgets(t, m)
  BY TagPruneKeeps DEF PromiseInv
<1>3. /\ t \in Nodes /\ node[t].sequence \in Int /\ MaxTicks[t] \in 0..200
      /\ node[t].sequence <= MaxTicks[t] + 1 /\ Local(t, Seen(t))
  BY TagNumbers DEF Counted
<1>4. \A i \in Nodes \ {t} : node'[i] = node[i]
  BY <1>3, OwnNode DEF Tick
<1>5. Measures(t, m, NoStamp)
  BY <1>2 DEF Forgets, Measures, NoStamps, StampNames
<1>6. Orders'
  <2>1. \A a \in Anchors :
          Far(a, Seen(t)') = Far(a, Seen(t)) \/ Far(a, Seen(t)') = NoStamp
    BY <1>5, RoleAssumption DEF Measures, Far
  <2> HIDE DEF Seen
  <2> QED BY <1>1, <1>3, <1>4, <2>1, IdleOrders
<1>7. /\ SessionMoves(t, "idle", {}, {})
      /\ Distances' = [Distances EXCEPT ![t][m] = NoStamp]
  <2>1. SessionMoves(t, "idle", {}, {})
    BY <1>1, ShowsMoves
  <2>2. \A k \in Nodes \ {t} : Seen(k)' = Seen(k)
    BY <1>1 DEF Shows
  <2>3. Distances' = [Distances EXCEPT ![t][m] = NoStamp]
    BY <1>3, <1>5, <2>2, OneDistance
  <2> QED BY <2>1, <2>3
<1>8. CASE Distances[t][m] # NoStamp
  <2>1. Session!Forget(t, m)
    BY <1>7, <1>8 DEF Session!Forget, Session!Moves, SessionMoves,
           Phases, Answers, Reports, Distances
  <2>2. t \in Session!Devices /\ m \in Session!Devices
    BY <1>3, RoleAssumption DEF Session!Devices
  <2> QED BY <1>6, <2>1, <2>2 DEF Session!Next
<1>9. CASE Distances[t][m] = NoStamp
  <2>1. Distances' = Distances
    <3>1. Distances \in [Nodes -> [Nodes -> {Distances[n][i] : n, i \in Nodes}]]
      BY DEF Distances
    <3> QED BY ONLY <1>3, <1>7, <1>9, <3>1, m \in Nodes
  <2>2. CASE Seen(t).phase # "idle"
    <3>1. Seen(t).phase = PhaseOf(node[t])
      BY <1>3, SeenFields
    <3>2. Session!Abandon(t)
      BY <1>7, <2>1, <2>2, <3>1
       DEF Session!Abandon, Session!Unmeasured, Session!Moves,
           SessionMoves, Phases, Answers, Reports, Distances
    <3> QED BY <1>6, <3>2 DEF Session!Next
  <2>3. CASE Seen(t).phase = "idle"
    <3>1. /\ PhaseOf(node[t]) = "idle" /\ node[t].pollAcknowledged = {}
          /\ node[t].rangeReportReceived = {}
      BY <1>3, <2>3, SeenFields DEF Local
    <3>2. UNCHANGED Session!vars
      BY <1>7, <2>1, <3>1 DEF Session!vars, SessionMoves, Phases, Answers, Reports,
           Distances
    <3> QED BY <1>6, <3>2
  <2> QED BY <2>2, <2>3
<1> QED BY <1>8, <1>9

\* A tag without a session does something that leaves it without one.
LEMMA IdleStutters ==
    ASSUME PromiseInv, NEW t \in Tags, Seen(t).phase = "idle",
           Shows(t, "idle", {}, {}), Seen(t)'.range = Seen(t).range
    PROVE  UNCHANGED Session!vars
<1>1. t \in Nodes /\ Local(t, Seen(t))
  BY TagNumbers
<1>2. /\ PhaseOf(node[t]) = "idle" /\ node[t].pollAcknowledged = {}
      /\ node[t].rangeReportReceived = {}
  BY <1>1, SeenFields DEF Local
<1>3. UNCHANGED Distances /\ SessionMoves(t, "idle", {}, {})
  BY ShowsMoves, TagUnmeasured
<1> QED BY <1>2, <1>3 DEF Session!vars, SessionMoves, Phases, Answers, Reports,
           Distances

\* A tag blinks.
LEMMA BlinkPromised ==
    ASSUME Undisturbed, PromiseInv, NEW t \in Tags, TickBlink(t)
    PROVE  Orders' /\ UNCHANGED Session!vars
<1>1. /\ Exchanges' /\ Seen(t).phase = "idle" /\ Shows(t, "idle", {}, {})
      /\ Seen(t)'.range = Seen(t).range
      /\ node'[t].sequence = node[t].sequence + 1
      /\ node[t].sequence < MaxTicks[t]
  BY TickBlinkKeeps, NumbersOn DEF PromiseInv
<1>2. t \in Nodes /\ node[t].sequence \in Int /\ MaxTicks[t] \in 0..200
  BY TagNumbers
<1>3. \A m \in Nodes \ {t} : node'[m] = node[m]
  BY <1>2, OwnNode DEF Tick
<1>4. \A a \in Anchors : Far(a, Seen(t)') = Far(a, Seen(t))
  BY <1>1, TagUnmeasured
<1>5. UNCHANGED Session!vars
  BY <1>1, IdleStutters
<1> HIDE DEF Seen
<1>6. Orders'
  BY <1>1, <1>2, <1>3, <1>4, IdleOrders
<1> QED BY <1>5, <1>6

\* A tag without a session hears a RangingInit.
LEMMA RangingInitPromised ==
    ASSUME PromiseInv, NEW n \in Nodes, NEW f \in radio[n].inbox,
           OnRangingInit(n, f)
    PROVE  Orders' /\ UNCHANGED Session!vars
<1>1. /\ Exchanges' /\ n \in Tags
      /\ Seen(n).phase = "idle" /\ Shows(n, "idle", {}, {})
      /\ Seen(n)'.range = Seen(n).range
      /\ node'[n].sequence = node[n].sequence
  BY OnRangingInitKeeps DEF PromiseInv, SameNumber
<1>2. /\ node[n].sequence \in Int /\ MaxTicks[n] \in 0..200
      /\ node[n].sequence <= MaxTicks[n] + 1
  BY <1>1, TagNumbers DEF Counted
<1>3. \A m \in Nodes \ {n} : node'[m] = node[m]
  BY OwnNode DEF OnRx, OnRangingInit, OnRxError, Reads
<1>4. \A a \in Anchors : Far(a, Seen(n)') = Far(a, Seen(n))
  BY <1>1, TagUnmeasured
<1>5. UNCHANGED Session!vars
  BY <1>1, IdleStutters
<1> HIDE DEF Seen
<1>6. Orders'
  BY <1>1, <1>2, <1>3, <1>4, IdleOrders
<1> QED BY <1>5, <1>6

\* A tag polls its peers.
LEMMA PollPromised ==
    ASSUME Undisturbed, PromiseInv, NEW t \in Tags, TickPoll(t)
    PROVE  Orders' /\ Session!Begin(t)
<1>1. /\ Exchanges' /\ Seen(t).phase = "idle" /\ Shows(t, "polling", {}, {})
      /\ Seen(t)'.range = Seen(t).range
      /\ node'[t].sequence = node[t].sequence + 1
      /\ node[t].sequence < MaxTicks[t]
      /\ \A a \in Seen(t)'.peers :
            Seen(t)'.held[a]["pollSent"] = node[t].sequence
  BY TickPollKeeps, NumbersOn DEF PromiseInv
<1>2. t \in Nodes /\ node[t].sequence \in Int /\ MaxTicks[t] \in 0..200
  BY TagNumbers
<1>3. \A m \in Nodes \ {t} : Seen(m)' = Seen(m) /\ node'[m] = node[m]
  BY <1>1, <1>2, OwnNode DEF Tick, Shows
<1>4. /\ UNCHANGED Distances /\ SessionMoves(t, "polling", {}, {})
      /\ \A a \in Anchors : Far(a, Seen(t)') = Far(a, Seen(t))
  BY <1>1, ShowsMoves, TagUnmeasured
<1>5. Session!Begin(t)
  <2>1. Seen(t).phase = PhaseOf(node[t])
    BY <1>2, SeenFields
  <2> QED BY <1>1, <1>4, <2>1
       DEF Session!Begin, Session!Unmeasured, Session!Moves,
           SessionMoves, Phases, Answers, Reports, Distances
<1>6. Seen(t)'.phase = "polling" /\ Seen(t)'.reported = {}
  BY <1>1 DEF Shows
<1>7. Counted(t, Seen(t)', node'[t].sequence)
  <2> HIDE DEF Seen
  <2> QED BY <1>1, <1>2, <1>6 DEF Counted
<1>8. ASSUME NEW a \in Anchors
      PROVE  Ordered(t, a, Seen(t)', Seen(a), node'[t].sequence)
  <2>1. /\ a \in Nodes /\ t # a
        /\ Ordered(t, a, Seen(t), Seen(a), node[t].sequence)
        /\ Far(t, Seen(a)) \in Int /\ Far(a, Seen(t)) \in Int
    BY PairKnown
  <2>2. Exchange(t, a, Seen(t)', Seen(a))
    BY <1>1, <1>3, <2>1 DEF Exchanges
  <2>3. a \in Seen(t)'.peers => PollOf(a, Seen(t)') = node[t].sequence
    BY <1>1 DEF PollOf
  <2>4. /\ Earlier(Far(t, Seen(a)), node[t].sequence)
        /\ Earlier(Far(a, Seen(t)'), node[t].sequence)
    BY <1>4, <2>1 DEF Ordered, Far
  <2> HIDE DEF Seen
  <2>5. \A x \in Int : Earlier(x, node[t].sequence)
                           => Earlier(x, node'[t].sequence)
    BY <1>1, <1>2 DEF Earlier
  <2>6. /\ Earlier(Far(t, Seen(a)), node'[t].sequence)
        /\ Earlier(Far(a, Seen(t)'), node'[t].sequence)
    BY <1>4, <2>1, <2>4, <2>5
  <2>7. node[t].sequence < node'[t].sequence
    BY <1>1, <1>2
  <2> QED BY <1>6, <2>2, <2>3, <2>4, <2>6, <2>7, OrderPolls
<1> QED BY <1>3, <1>5, <1>7, <1>8, TagOrders

\* With acknowledgements still out, the tag waits on.
LEMMA PollAckPromised ==
    ASSUME PromiseInv, NEW n \in Nodes, NEW f \in radio[n].inbox,
           OnPollAck(n, f)
    PROVE  Orders' /\ n \in Tags /\ f.src \in Anchors /\ Session!Answer(n, f.src)
<1>1. /\ Exchanges' /\ n \in Tags /\ f.src \in Anchors
      /\ Seen(n).phase = "polling" /\ f.src \notin Seen(n).acked
      /\ Shows(n, "polling", Seen(n).acked \cup {f.src}, Seen(n).reported)
      /\ SamePolls(n) /\ node'[n].sequence = node[n].sequence
  BY OnPollAckKeeps DEF PromiseInv, SameNumber
<1>2. /\ node[n].sequence \in Int /\ MaxTicks[n] \in 0..200
      /\ Counted(n, Seen(n), node[n].sequence)
  BY <1>1, TagNumbers
<1>3. \A m \in Nodes \ {n} : Seen(m)' = Seen(m) /\ node'[m] = node[m]
  BY <1>1, OwnNode DEF OnRx, OnPollAck, OnRxError, Reads, Shows
<1>4. Seen(n).reported = {} /\ Seen(n)'.range = Seen(n).range
  BY <1>1, <1>2 DEF Counted, SamePolls
<1>5. Session!Answer(n, f.src)
  <2>1. /\ UNCHANGED Distances
        /\ SessionMoves(n, "polling", Seen(n).acked \cup {f.src}, {})
    BY <1>1, <1>4, ShowsMoves, TagUnmeasured
  <2>2. /\ Seen(n).phase = PhaseOf(node[n])
        /\ Seen(n).acked = node[n].pollAcknowledged
    BY SeenFields
  <2> QED BY <1>1, <2>1, <2>2
       DEF Session!Answer, Session!Unmeasured, Session!Moves,
           SessionMoves, Phases, Answers, Reports, Distances
<1>6. Seen(n)'.phase = "polling" /\ Seen(n)'.reported = {}
  BY <1>1, <1>4 DEF Shows
<1>7. Counted(n, Seen(n)', node'[n].sequence)
  BY <1>1, <1>2, <1>6 DEF Counted
<1>8. ASSUME NEW a \in Anchors
      PROVE  Ordered(n, a, Seen(n)', Seen(a), node'[n].sequence)
  <2>1. /\ a \in Nodes /\ n # a
        /\ Ordered(n, a, Seen(n), Seen(a), node[n].sequence)
    BY <1>1, PairKnown
  <2>2. Exchange(n, a, Seen(n)', Seen(a))
    BY <1>1, <1>3, <2>1 DEF Exchanges
  <2>3. /\ PollOf(a, Seen(n)') = PollOf(a, Seen(n))
        /\ Far(a, Seen(n)') = Far(a, Seen(n))
        /\ Seen(n)'.peers = Seen(n).peers
    BY <1>1, <1>4, <2>1 DEF SamePolls, PollOf, Far
  <2>4. /\ Earlier(Far(n, Seen(a)), node[n].sequence)
        /\ Earlier(Far(a, Seen(n)), node[n].sequence)
        /\ a \in Seen(n).peers =>
              /\ PollOf(a, Seen(n)) < node[n].sequence
              /\ Earlier(Far(n, Seen(a)), PollOf(a, Seen(n)))
              /\ Earlier(Far(a, Seen(n)), PollOf(a, Seen(n)))
    BY <1>1, <2>1 DEF Ordered, Far, PollOf
  <2> HIDE DEF Seen
  <2> QED BY <1>1, <1>6, <2>2, <2>3, <2>4, OrderPolls
<1> QED BY <1>1, <1>3, <1>5, <1>7, <1>8, TagOrders

\* With the last acknowledgement the tag ranges.
LEMMA LastPollAckPromised ==
    ASSUME PromiseInv, NEW n \in Nodes, NEW f \in radio[n].inbox,
           OnLastPollAck(n, f)
    PROVE  Orders' /\ n \in Tags /\ f.src \in Anchors /\ Session!Answer(n, f.src)
<1>1. /\ Exchanges' /\ n \in Tags /\ f.src \in Anchors
      /\ Seen(n).phase = "polling" /\ f.src \in Seen(n).peers
      /\ f.src \notin Seen(n).acked
      /\ Shows(n, "ranging", Seen(n).acked \cup {f.src}, {}) /\ SamePolls(n)
      /\ node'[n].sequence = node[n].sequence + 1
  BY OnLastPollAckKeeps, NumbersOn DEF PromiseInv
<1>2. \A m \in Nodes \ {n} : Seen(m)' = Seen(m) /\ node'[m] = node[m]
  BY <1>1, OwnNode DEF OnRx, OnLastPollAck, OnRxError, Reads, Shows
<1>3. /\ node[n].sequence \in Int /\ MaxTicks[n] \in 0..200
      /\ Counted(n, Seen(n), node[n].sequence) /\ Local(n, Seen(n))
  BY <1>1, TagNumbers
<1>4. Seen(n)'.range = Seen(n).range
  BY <1>1 DEF SamePolls
<1>5. Session!Answer(n, f.src)
  <2>1. /\ UNCHANGED Distances
        /\ SessionMoves(n, "ranging", Seen(n).acked \cup {f.src}, {})
    BY <1>1, <1>4, ShowsMoves, TagUnmeasured
  <2>2. /\ Seen(n).phase = PhaseOf(node[n])
        /\ Seen(n).acked = node[n].pollAcknowledged
    BY SeenFields
  <2> QED BY <1>1, <2>1, <2>2
       DEF Session!Answer, Session!Unmeasured, Session!Moves,
           SessionMoves, Phases, Answers, Reports, Distances
<1>6. Counted(n, Seen(n)', node'[n].sequence)
  <2>1. node[n].sequence <= MaxTicks[n] /\ Seen(n)'.phase = "ranging"
    BY <1>1, <1>3 DEF Counted, Shows
  <2> HIDE DEF Seen
  <2> QED BY <1>1, <1>3, <2>1 DEF Counted
<1>7. ASSUME NEW a \in Anchors
      PROVE  Ordered(n, a, Seen(n)', Seen(a), node'[n].sequence)
  <2>1. /\ a \in Nodes /\ n # a
        /\ Ordered(n, a, Seen(n), Seen(a), node[n].sequence)
        /\ Exchange(n, a, Seen(n), Seen(a))
        /\ Far(n, Seen(a)) \in Int /\ Far(a, Seen(n)) \in Int
        /\ PollOf(a, Seen(n)) \in Int
    BY <1>1, PairKnown
  <2>2. Exchange(n, a, Seen(n)', Seen(a))
    BY <1>1, <1>2, <2>1 DEF Exchanges
  <2>3. PollOf(a, Seen(n)') = PollOf(a, Seen(n)) /\ Far(a, Seen(n)') = Far(a, Seen(n))
    BY <1>1, <1>4, <2>1 DEF SamePolls, PollOf, Far
  <2>4. /\ Seen(n)'.phase = "ranging" /\ Seen(n)'.waiting = {}
        /\ Seen(n)'.acked \subseteq Seen(n).peers
    BY <1>1, <1>3 DEF Shows, Local
  <2> QED BY <1>1, <1>3, <2>1, <2>2, <2>3, <2>4, OrderRanges
<1> QED BY <1>1, <1>2, <1>5, <1>6, <1>7, TagOrders

\* The Poll of an exchange was numbered before the tag's next frame.
LEMMA PollNumbered ==
    ASSUME PromiseInv, NEW t \in Tags, NEW a \in Anchors,
           PollOf(a, Seen(t)) < node[t].sequence
    PROVE  PollOf(a, Seen(t)) \in Byte /\ PollOf(a, Seen(t)) # NoStamp
<1>1. /\ Counted(t, Seen(t), node[t].sequence) /\ MaxTicks[t] \in 0..200
      /\ node[t].sequence \in Int
  BY PairKnown
<1>2. PollOf(a, Seen(t)) \in Stamp
  BY SeenNumbers, RoleAssumption DEF PromiseInv, ExchangeInv
<1>3. node[t].sequence <= MaxTicks[t] + 1
  BY <1>1 DEF Counted
<1> HIDE DEF PollOf, Seen
<1>4. node[t].sequence <= 201
  BY <1>1, <1>3
<1>5. PollOf(a, Seen(t)) # NoStamp
  BY <1>1, <1>4 DEF NoStamp
<1> QED BY <1>2, <1>5 DEF Stamp

\* A report tells the tag what its anchor has just measured.
LEMMA ReportTells ==
    ASSUME PromiseInv, NEW t \in Tags, NEW a \in Anchors,
           NEW f \in Replied(a, t, Seen(t)), f.kind = "RangeReport",
           Seen(t).phase = "ranging", a \in Seen(t).acked,
           a \notin Seen(t).reported
    PROVE  /\ Far(t, Seen(a)) = PollOf(a, Seen(t))
           /\ PollOf(a, Seen(t)) < node[t].sequence
           /\ PollOf(a, Seen(t)) # NoStamp /\ PollOf(a, Seen(t)) \in Int
           /\ Earlier(Far(a, Seen(t)), PollOf(a, Seen(t)))
<1>1. /\ Ordered(t, a, Seen(t), Seen(a), node[t].sequence)
      /\ PollOf(a, Seen(t)) \in Int
  BY PairKnown
<1>2. /\ Far(t, Seen(a)) = PollOf(a, Seen(t))
      /\ PollOf(a, Seen(t)) < node[t].sequence
      /\ Earlier(Far(a, Seen(t)), PollOf(a, Seen(t)))
  BY <1>1 DEF Ordered, Far, PollOf
<1> QED BY <1>1, <1>2, PollNumbered

\* What TagMeasures makes of the session.
TagAdvances(t, a) ==
    IF Reports[t] \cup {a} = Answers[t] THEN SessionMoves(t, "idle", {}, {})
    ELSE SessionMoves(t, "ranging", Answers[t], Reports[t] \cup {a})

\* TagMeasures of RangingSession over the same state.
LEMMA TagMeasuresMeans ==
    ASSUME NEW t, NEW a,
           Phases[t] = "ranging", a \in Answers[t] \ Reports[t],
           Distances[a][t] # NoStamp,
           Session!Later(Distances[a][t], Distances[t][a]),
           Distances' = [Distances EXCEPT ![t][a] = Distances[a][t]],
           TagAdvances(t, a)
    PROVE  Session!TagMeasures(t, a)
BY DEF Session!TagMeasures, Session!Moves, SessionMoves, Phases, Answers,
       Reports, Distances, TagAdvances

\* The abstract tag measures what the anchor has measured.
LEMMA TellsMeasures ==
    ASSUME NEW t \in Tags, NEW a \in Anchors,
           Seen(t).phase = "ranging", a \in Seen(t).acked,
           a \notin Seen(t).reported, Measures(t, a, PollOf(a, Seen(t))),
           \A k \in Nodes \ {t} : Seen(k)' = Seen(k),
           PollOf(a, Seen(t)) \in Int, PollOf(a, Seen(t)) # NoStamp,
           Far(t, Seen(a)) = PollOf(a, Seen(t)), Far(a, Seen(t)) \in Int,
           Earlier(Far(a, Seen(t)), PollOf(a, Seen(t))),
           \/ /\ Seen(t).reported \cup {a} = Seen(t).acked
              /\ SessionMoves(t, "idle", {}, {})
           \/ /\ Seen(t).reported \cup {a} # Seen(t).acked
              /\ SessionMoves(t, "ranging", Seen(t).acked,
                               Seen(t).reported \cup {a})
    PROVE  Session!TagMeasures(t, a)
<1>1. t \in Nodes /\ a \in Nodes
  BY RoleAssumption
<1>2. /\ Seen(t).phase = Phases[t] /\ Seen(t).acked = Answers[t]
      /\ Seen(t).reported = Reports[t]
      /\ Distances[a][t] = Far(t, Seen(a)) /\ Distances[t][a] = Far(a, Seen(t))
  BY <1>1, SeenFields DEF Distances, Far, Phases, Answers, Reports
<1>3. Distances' = [Distances EXCEPT ![t][a] = PollOf(a, Seen(t))]
  BY <1>1, OneDistance DEF Measures
<1> HIDE DEF Seen
<1>4. Session!Later(Distances[a][t], Distances[t][a])
  BY <1>2 DEF Session!Later, Earlier
<1>5. /\ Distances[a][t] # NoStamp
      /\ Distances' = [Distances EXCEPT ![t][a] = Distances[a][t]]
  BY <1>2, <1>3
<1>6. TagAdvances(t, a)
  <2>1. CASE Seen(t).reported \cup {a} = Seen(t).acked
    BY <1>2, <2>1 DEF TagAdvances
  <2>2. CASE Seen(t).reported \cup {a} # Seen(t).acked
    <3>1. SessionMoves(t, "ranging", Seen(t).acked, Seen(t).reported \cup {a})
      BY <2>2
    <3>2. SessionMoves(t, "ranging", Answers[t], Reports[t] \cup {a})
      BY ONLY <3>1, <1>2
    <3>3. Reports[t] \cup {a} # Answers[t]
      BY <1>2, <2>2
    <3> QED BY <3>2, <3>3 DEF TagAdvances
  <2> QED BY <2>1, <2>2
<1> QED BY <1>2, <1>4, <1>5, <1>6, TagMeasuresMeans

\* A report that is not the last one.
LEMMA ReportOnPromised ==
    ASSUME PromiseInv, NEW n \in Nodes, NEW f \in radio[n].inbox,
           OnRangeReport(n, f),
           ~ (Cardinality(Reported(n, f).rangeReportReceived)
                >= Cardinality(Reported(n, f).pollAcknowledged))
    PROVE  Orders' /\ n \in Tags /\ f.src \in Anchors
           /\ Session!TagMeasures(n, f.src)
<1>1. /\ Reads(n, f) /\ AcceptsExpected(n, f) /\ f.kind = "RangeReport"
      /\ Becomes(n, Reported(n, f))
  BY DEF OnRangeReport, Reported
<1>2. /\ Exchanges' /\ n \in Tags /\ f.src \in Anchors
      /\ f \in Replied(f.src, n, Seen(n)) /\ Seen(n).phase = "ranging"
      /\ f.src \in Seen(n).acked /\ f.src \notin Seen(n).reported
      /\ Measures(n, f.src, PollOf(f.src, Seen(n)))
      /\ node'[n].sequence = node[n].sequence
      /\ Shows(n, "ranging", Seen(n).acked, Seen(n).reported \cup {f.src})
      /\ Seen(n)'.held = Seen(n).held
      /\ Seen(n)'.peers = Seen(n).peers /\ Seen(n)'.outbox = {}
      /\ Seen(n).reported \cup {f.src} # Seen(n).acked
  BY <1>1, ReportMovesOn DEF PromiseInv, SameNumber, PollOf
<1>3. \A m \in Nodes \ {n} : Seen(m)' = Seen(m) /\ node'[m] = node[m]
  BY <1>1, <1>2, OwnNode DEF OnRx, OnRxError, Reads, Shows
<1>4. /\ Far(n, Seen(f.src)) = PollOf(f.src, Seen(n))
      /\ PollOf(f.src, Seen(n)) < node[n].sequence
      /\ PollOf(f.src, Seen(n)) # NoStamp /\ PollOf(f.src, Seen(n)) \in Int
      /\ Earlier(Far(f.src, Seen(n)), PollOf(f.src, Seen(n)))
  BY <1>1, <1>2, ReportTells
<1>5. Session!TagMeasures(n, f.src)
  <2>1. SessionMoves(n, "ranging", Seen(n).acked, Seen(n).reported \cup {f.src})
    <3>1. /\ Shows(n, "ranging", Seen(n).acked, Seen(n).reported \cup {f.src})
          /\ n \in Tags
      BY <1>2
    <3> QED BY ONLY <3>1, ShowsMoves
  <2>2. Far(f.src, Seen(n)) \in Int
    <3>1. \A b \in Anchors : Far(b, Seen(n)) \in Int
      BY <1>2, PairKnown
    <3> QED BY <1>2, <3>1
  <2>3. /\ Measures(n, f.src, PollOf(f.src, Seen(n)))
        /\ \A k \in Nodes \ {n} : Seen(k)' = Seen(k)
        /\ Seen(n).reported \cup {f.src} # Seen(n).acked
        /\ SessionMoves(n, "ranging", Seen(n).acked,
                         Seen(n).reported \cup {f.src})
    BY <1>2, <1>3, <2>1
  <2>4. n \in Tags /\ f.src \in Anchors /\ Seen(n).phase = "ranging"
        /\ f.src \in Seen(n).acked /\ f.src \notin Seen(n).reported
    BY <1>2
  <2>5. PollOf(f.src, Seen(n)) \in Int
    BY <1>4
  <2>6. /\ Far(n, Seen(f.src)) = PollOf(f.src, Seen(n))
        /\ PollOf(f.src, Seen(n)) # NoStamp
        /\ Earlier(Far(f.src, Seen(n)), PollOf(f.src, Seen(n)))
    BY <1>4
  <2> HIDE DEF Seen
  <2> QED BY ONLY <2>2, <2>3, <2>4, <2>5, <2>6, TellsMeasures
<1>6. Counted(n, Seen(n)', node'[n].sequence)
  <2>1. Counted(n, Seen(n), node[n].sequence) /\ Seen(n)'.phase = "ranging"
    BY <1>2, TagNumbers DEF Shows
  <2> QED BY <1>2, <2>1 DEF Counted
<1>7. ASSUME NEW a \in Anchors
      PROVE  Ordered(n, a, Seen(n)', Seen(a), node'[n].sequence)
  <2>1. /\ a \in Nodes /\ n # a
        /\ Ordered(n, a, Seen(n), Seen(a), node[n].sequence)
        /\ Far(n, Seen(a)) \in Int /\ Far(a, Seen(n)) \in Int
        /\ PollOf(a, Seen(n)) \in Int /\ node[n].sequence \in Int
    BY <1>2, PairKnown
  <2>2. Exchange(n, a, Seen(n)', Seen(a))
    BY <1>2, <1>3, <2>1 DEF Exchanges
  <2>3. Earlier(Far(n, Seen(a)), node[n].sequence)
    BY <2>1 DEF Ordered, Far
  <2>4. CASE a = f.src
    <3>1. Far(a, Seen(n)') = PollOf(a, Seen(n))
      BY <1>2, <2>4 DEF Measures, Far
    <3>2. Earlier(Far(a, Seen(n)'), node[n].sequence)
      BY <1>4, <2>4, <3>1 DEF Earlier
    <3>3. Seen(n)'.phase = "ranging" /\ a \in Seen(n)'.reported
      BY <1>2, <2>4 DEF Shows
    <3> HIDE DEF Seen
    <3> QED BY <1>2, <2>2, <2>3, <3>2, <3>3, OrderReported
  <2>5. CASE a # f.src
    <3>1. /\ Far(a, Seen(n)') = Far(a, Seen(n))
          /\ PollOf(a, Seen(n)') = PollOf(a, Seen(n))
      BY <1>2, <2>1, <2>5 DEF Measures, Far, PollOf
    <3>2. /\ Seen(n)'.phase = Seen(n).phase /\ Seen(n)'.acked = Seen(n).acked
          /\ Seen(n).reported \subseteq Seen(n)'.reported
          /\ Seen(n)'.waiting = {}
      BY <1>2 DEF Shows
    <3> HIDE DEF Seen
    <3> QED BY <1>2, <2>1, <3>1, <3>2, OrderMoves
  <2> QED BY <2>4, <2>5
<1> QED BY <1>2, <1>3, <1>5, <1>6, <1>7, TagOrders

\* The last report ends the session.
LEMMA ReportEndsPromised ==
    ASSUME PromiseInv, NEW n \in Nodes, NEW f \in radio[n].inbox,
           OnRangeReport(n, f),
           Cardinality(Reported(n, f).rangeReportReceived)
              >= Cardinality(Reported(n, f).pollAcknowledged)
    PROVE  Orders' /\ n \in Tags /\ f.src \in Anchors
           /\ Session!TagMeasures(n, f.src)
<1>1. /\ Reads(n, f) /\ AcceptsExpected(n, f) /\ f.kind = "RangeReport"
      /\ Becomes(n, ResetProtocolState(n, Reported(n, f)))
  BY DEF OnRangeReport, Reported
<1>2. /\ Exchanges' /\ n \in Tags /\ f.src \in Anchors
      /\ f \in Replied(f.src, n, Seen(n)) /\ Seen(n).phase = "ranging"
      /\ f.src \in Seen(n).acked /\ f.src \notin Seen(n).reported
      /\ Measures(n, f.src, PollOf(f.src, Seen(n)))
      /\ node'[n].sequence = node[n].sequence /\ Shows(n, "idle", {}, {})
      /\ Seen(n).reported \cup {f.src} = Seen(n).acked
  BY <1>1, ReportEndsSession DEF PromiseInv, SameNumber, PollOf
<1>3. \A m \in Nodes \ {n} : Seen(m)' = Seen(m) /\ node'[m] = node[m]
  BY <1>1, <1>2, OwnNode DEF OnRx, OnRxError, Reads, Shows
<1>4. /\ Far(n, Seen(f.src)) = PollOf(f.src, Seen(n))
      /\ PollOf(f.src, Seen(n)) < node[n].sequence
      /\ PollOf(f.src, Seen(n)) # NoStamp /\ PollOf(f.src, Seen(n)) \in Int
      /\ Earlier(Far(f.src, Seen(n)), PollOf(f.src, Seen(n)))
  BY <1>1, <1>2, ReportTells
<1>5. Session!TagMeasures(n, f.src)
  <2>1. SessionMoves(n, "idle", {}, {})
    BY <1>2, ShowsMoves
  <2>2. Far(f.src, Seen(n)) \in Int
    <3>1. \A b \in Anchors : Far(b, Seen(n)) \in Int
      BY <1>2, PairKnown
    <3> QED BY <1>2, <3>1
  <2>3. /\ Measures(n, f.src, PollOf(f.src, Seen(n)))
        /\ \A k \in Nodes \ {n} : Seen(k)' = Seen(k)
        /\ Seen(n).reported \cup {f.src} = Seen(n).acked
    BY <1>2, <1>3
  <2>4. n \in Tags /\ f.src \in Anchors /\ Seen(n).phase = "ranging"
        /\ f.src \in Seen(n).acked /\ f.src \notin Seen(n).reported
    BY <1>2
  <2> HIDE DEF Seen
  <2> QED BY ONLY <1>4, <2>1, <2>2, <2>3, <2>4, TellsMeasures
<1>6. /\ node[n].sequence \in Int /\ MaxTicks[n] \in 0..200
      /\ node[n].sequence <= MaxTicks[n] + 1
  BY <1>2, TagNumbers DEF Counted
<1>7. ASSUME NEW a \in Anchors
      PROVE  \/ Far(a, Seen(n)') = Far(a, Seen(n))
             \/ Far(a, Seen(n)') \in Int /\ Far(a, Seen(n)') < node[n].sequence
  <2>1. a \in Nodes
    BY RoleAssumption
  <2>2. CASE a = f.src
    BY <1>2, <1>4, <2>2 DEF Measures, Far
  <2>3. CASE a # f.src
    BY <1>2, <2>1, <2>3 DEF Measures, Far
  <2> QED BY <2>2, <2>3
<1> HIDE DEF Seen
<1>8. Orders'
  BY <1>2, <1>3, <1>6, <1>7, IdleOrders
<1> QED BY <1>2, <1>5, <1>8

-----------------------------------------------------------------------------
(* Steps of an anchor *)

\* An anchor answers without measuring anything.
LEMMA AnswerPromised ==
    ASSUME PromiseInv, NEW a \in Nodes, NEW f \in radio[a].inbox,
           OnBlink(a, f) \/ OnPoll(a, f)
    PROVE  Orders' /\ UNCHANGED Session!vars
<1>1. /\ a \in Anchors /\ AnchorMoves(a) /\ Seen(a)'.range = Seen(a).range
      /\ \A g \in Seen(a)'.outbox : g.kind # "RangeReport"
  BY OnBlinkKeeps, OnPollKeeps DEF PromiseInv
<1>2. \A m \in Nodes \ {a} : node'[m] = node[m]
  BY OwnNode DEF OnRx, OnBlink, OnPoll, OnRxError, Reads
<1>3. UNCHANGED Distances /\ UNCHANGED <<Phases, Answers, Reports>>
  BY <1>1, SameDistances, AnchorLeavesSessions DEF AnchorMoves
<1>4. ASSUME NEW t \in Tags
      PROVE  Ordered(t, a, Seen(t), Seen(a)', node[t].sequence)
  <2>1. Ordered(t, a, Seen(t), Seen(a), node[t].sequence)
    BY <1>1, PairKnown
  <2>2. Far(t, Seen(a)') = Far(t, Seen(a)) /\ Seen(a)'.waiting = {}
    BY <1>1 DEF Far, AnchorMoves
  <2> HIDE DEF Seen
  <2> QED BY <1>1, <2>1, <2>2, OrderAnchor
<1>5. Orders'
  BY <1>1, <1>2, <1>4, AnchorOrders
<1> QED BY <1>3, <1>5 DEF Session!vars, Phases, Answers, Reports, Distances

\* An anchor drops a tag it has not heard for long.
LEMMA AnchorPrunePromised ==
    ASSUME Undisturbed, PromiseInv, NEW a \in Anchors, TickPrunePeer(a)
    PROVE  Orders' /\ [Session!Next]_(Session!vars)
<1>1. /\ AnchorMoves(a) /\ Seen(a)'.outbox = {}
      /\ \A t \in Tags : Replied(a, t, Seen(t)) = {}
  BY AnchorPruneKeeps DEF PromiseInv
<1>2. PICK m \in Nodes : Forgets(a, m)
  BY AnchorPruneKeeps DEF PromiseInv
<1>3. a \in Nodes /\ a \notin Tags /\ \A t \in Tags : t \in Nodes
  BY RoleAssumption
<1>4. \A i \in Nodes \ {a} : node'[i] = node[i]
  BY <1>3, OwnNode DEF Tick
<1>5. Measures(a, m, NoStamp)
  BY <1>2 DEF Forgets, Measures, NoStamps, StampNames
<1>6. ASSUME NEW t \in Tags
      PROVE  Ordered(t, a, Seen(t), Seen(a)', node[t].sequence)
  <2>1. Ordered(t, a, Seen(t), Seen(a), node[t].sequence)
    BY PairKnown
  <2>2. /\ Far(t, Seen(a)') = Far(t, Seen(a)) \/ Far(t, Seen(a)') = NoStamp
        /\ Seen(a)'.waiting = {}
    BY <1>1, <1>3, <1>5 DEF Far, AnchorMoves, Measures
  <2> HIDE DEF Seen
  <2> QED BY <1>1, <2>1, <2>2, OrderAnchor
<1>7. Orders'
  BY <1>1, <1>4, <1>6, AnchorOrders
<1>8. /\ UNCHANGED <<Phases, Answers, Reports>>
      /\ Distances' = [Distances EXCEPT ![a][m] = NoStamp]
  <2>1. UNCHANGED <<Phases, Answers, Reports>>
    BY <1>1, AnchorLeavesSessions
  <2>2. \A k \in Nodes \ {a} : Seen(k)' = Seen(k)
    BY <1>1 DEF AnchorMoves
  <2>3. Distances' = [Distances EXCEPT ![a][m] = NoStamp]
    BY <1>3, <1>5, <2>2, OneDistance
  <2> QED BY <2>1, <2>3
<1>9. CASE Distances[a][m] # NoStamp
  <2>1. Session!Forget(a, m)
    BY <1>3, <1>8, <1>9
       DEF Session!Forget, Phases, Answers, Reports, Distances
  <2>2. a \in Session!Devices /\ m \in Session!Devices
    BY <1>3, RoleAssumption DEF Session!Devices
  <2> QED BY <1>7, <2>1, <2>2 DEF Session!Next
<1>10. CASE Distances[a][m] = NoStamp
  <2>1. Distances' = Distances
    <3>1. Distances \in [Nodes -> [Nodes -> {Distances[n][i] : n, i \in Nodes}]]
      BY DEF Distances
    <3> QED BY ONLY <1>3, <1>8, <1>10, <3>1, m \in Nodes
  <2> QED BY <1>7, <1>8, <2>1
           DEF Session!vars, Phases, Answers, Reports, Distances
<1> QED BY <1>9, <1>10

\* AnchorMeasures of RangingSession over the same state.
LEMMA AnchorMeasuresMeans ==
    ASSUME NEW a, NEW t, NEW poll \in Byte, Distances'[a][t] = poll,
           Phases[t] = "ranging", a \in Answers[t] \ Reports[t],
           Session!Later(poll, Distances[a][t]),
           Distances' = [Distances EXCEPT ![a][t] = poll],
           UNCHANGED <<Phases, Answers, Reports>>
    PROVE  Session!AnchorMeasures(a, t)
BY DEF Session!AnchorMeasures, Phases, Answers, Reports, Distances

\* An anchor measures on a Range.
LEMMA RangePromised ==
    ASSUME PromiseInv, NEW a \in Nodes, NEW f \in radio[a].inbox, OnRange(a, f)
    PROVE  Orders' /\ a \in Anchors /\ f.src \in Tags
           /\ Session!AnchorMeasures(a, f.src)
<1>1. /\ a \in Anchors /\ f.src \in Tags /\ AnchorMoves(a)
      /\ f \in Called(f.src, a, Seen(a)) /\ f.kind = "Range"
      /\ Measures(a, f.src, PollOf(a, Seen(f.src)))
      /\ \A g \in Seen(a)'.outbox : g.dst = f.src
  BY OnRangeKeeps DEF PromiseInv, PollOf
<1>2. \A m \in Nodes \ {a} : Seen(m)' = Seen(m) /\ node'[m] = node[m]
  BY <1>1, OwnNode DEF OnRx, OnRange, OnRxError, Reads, AnchorMoves
<1>3. /\ Ordered(f.src, a, Seen(f.src), Seen(a)', node[f.src].sequence)
      /\ Seen(f.src).phase = "ranging"
      /\ a \in Seen(f.src).acked \ Seen(f.src).reported
      /\ PollOf(a, Seen(f.src)) < node[f.src].sequence
      /\ Earlier(Far(f.src, Seen(a)), PollOf(a, Seen(f.src)))
      /\ Far(f.src, Seen(a)) \in Int
  <2>1. /\ Ordered(f.src, a, Seen(f.src), Seen(a), node[f.src].sequence)
        /\ Exchange(f.src, a, Seen(f.src), Seen(a))
        /\ Far(f.src, Seen(a)) \in Int
    BY <1>1, PairKnown
  <2>2. /\ Far(f.src, Seen(a)') = PollOf(a, Seen(f.src))
        /\ Seen(a)'.waiting = {}
    BY <1>1 DEF Far, Measures, AnchorMoves
  <2>3. \E g \in Called(f.src, a, Seen(a)) : g.kind = "Range"
    BY <1>1
  <2> HIDE DEF Seen
  <2>4. /\ Seen(f.src).phase = "ranging"
        /\ a \in Seen(f.src).acked \ Seen(f.src).reported
        /\ PollOf(a, Seen(f.src)) < node[f.src].sequence
        /\ Earlier(Far(f.src, Seen(a)), PollOf(a, Seen(f.src)))
        /\ Earlier(Far(a, Seen(f.src)), PollOf(a, Seen(f.src)))
        /\ Earlier(Far(a, Seen(f.src)), node[f.src].sequence)
        /\ Calling(a, Seen(f.src)) = {} /\ Replied(a, f.src, Seen(f.src)) = {}
    BY ONLY <2>1, <2>3, CalledRange
  <2>5. Ordered(f.src, a, Seen(f.src), Seen(a)', node[f.src].sequence)
    BY ONLY <2>2, <2>4, OrderMeasures
  <2> QED BY <2>1, <2>4, <2>5
<1>4. ASSUME NEW t \in Tags
      PROVE  Ordered(t, a, Seen(t), Seen(a)', node[t].sequence)
  <2>1. CASE t = f.src
    BY <1>3, <2>1
  <2>2. CASE t # f.src
    <3>1. t \in Nodes /\ Ordered(t, a, Seen(t), Seen(a), node[t].sequence)
      BY <1>1, PairKnown
    <3>2. /\ Far(t, Seen(a)') = Far(t, Seen(a)) /\ Seen(a)'.waiting = {}
          /\ \A g \in Seen(a)'.outbox : g.dst # t
      BY <1>1, <2>2, <3>1 DEF Far, Measures, AnchorMoves
    <3> HIDE DEF Seen
    <3> QED BY <3>1, <3>2, OrderAnchor
  <2> QED BY <2>1, <2>2
<1>5. Orders'
  BY <1>1, <1>2, <1>4, AnchorOrders
<1>6. Session!AnchorMeasures(a, f.src)
  <2>1. f.src \in Nodes
    BY <1>1, RoleAssumption
  <2>2. PICK poll : poll = PollOf(a, Seen(f.src))
    OBVIOUS
  <2>3. poll \in Byte
    BY <1>1, <1>3, <2>2, PollNumbered
  <2>4. /\ Seen(f.src).phase = Phases[f.src] /\ Seen(f.src).acked = Answers[f.src]
        /\ Seen(f.src).reported = Reports[f.src]
        /\ Distances[a][f.src] = Far(f.src, Seen(a))
    BY <1>1, <2>1, SeenFields DEF Distances, Far, Phases, Answers, Reports
  <2>5. /\ Distances' = [Distances EXCEPT ![a][f.src] = poll]
        /\ UNCHANGED <<Phases, Answers, Reports>>
    BY <1>1, <1>2, <2>1, <2>2, OneDistance, AnchorLeavesSessions DEF Measures
  <2>6. Distances'[a][f.src] = poll
    <3>1. Seen(a)'.range[f.src]["pollSent"] = poll
      BY <1>1, <2>2 DEF Measures
    <3>2. node'[a].range[f.src]["pollSent"] = poll
      BY <3>1 DEF Seen, View
    <3> QED BY <2>1, <3>2 DEF Distances
  <2> HIDE DEF Seen
  <2>7. Session!Later(poll, Distances[a][f.src])
    BY <1>3, <2>2, <2>3, <2>4 DEF Session!Later, Earlier, Byte
  <2>8. /\ Phases[f.src] = "ranging"
        /\ a \in Answers[f.src] \ Reports[f.src]
    BY <1>3, <2>4
  <2> QED BY ONLY <2>3, <2>5, <2>6, <2>7, <2>8, AnchorMeasuresMeans
<1> QED BY <1>1, <1>5, <1>6

-----------------------------------------------------------------------------
(* Steps that only move frames on *)

\* Frames that move on or are lost leave the order and the sessions alone.
LEMMA QuietPromised ==
    ASSUME PromiseInv, Quiet, \A t \in Tags : SameNumber(t)
    PROVE  Orders' /\ UNCHANGED Session!vars
<1>1. Exchanges
  BY DEF PromiseInv, ExchangeInv
<1>2. \A m \in Nodes : Same(Seen(m)', Seen(m))
  BY DEF Quiet
<1>3. ASSUME NEW t \in Tags, NEW a \in Anchors
      PROVE  Ordered(t, a, Seen(t)', Seen(a)', node'[t].sequence)
  <2>1. /\ t \in Nodes /\ a \in Nodes /\ t # a
        /\ Ordered(t, a, Seen(t), Seen(a), node[t].sequence)
        /\ Far(t, Seen(a)) \in Int /\ Far(a, Seen(t)) \in Int
        /\ PollOf(a, Seen(t)) \in Int /\ node[t].sequence \in Int
        /\ node'[t].sequence = node[t].sequence
    BY PairKnown DEF SameNumber
  <2>2. /\ PollOf(a, Seen(t)') = PollOf(a, Seen(t))
        /\ Far(t, Seen(a)') = Far(t, Seen(a)) /\ Far(a, Seen(t)') = Far(a, Seen(t))
        /\ Seen(t)'.phase = Seen(t).phase /\ Seen(t)'.peers = Seen(t).peers
        /\ Seen(t)'.acked = Seen(t).acked /\ Seen(t)'.reported = Seen(t).reported
    BY <1>2, <2>1 DEF Same, Far, PollOf
  <2>3. \A k \in Nodes : \A f \in Seen(k).outbox : f.src = k
    BY <1>1 DEF Exchanges, Local
  <2>4. /\ Seen(t)'.outbox \subseteq Seen(t).outbox
        /\ Seen(a)'.outbox \subseteq Seen(a).outbox
    BY <2>1 DEF Quiet
  <2>5. /\ \A f \in Seen(a)'.waiting :
              f \in Seen(a).waiting \/ f.src # t \/ f \in Seen(t).outbox
        /\ \A f \in Seen(t)'.waiting :
              f \in Seen(t).waiting \/ f.src # a \/ f \in Seen(a).outbox
    BY <2>1, <2>3 DEF Quiet
  <2> HIDE DEF Seen
  <2>6. /\ Seen(t).reported \subseteq Seen(t)'.reported
        /\ \A f \in Seen(a)'.outbox : f \in Seen(a).outbox \/ f.dst # t
        /\ node[t].sequence <= node[t].sequence
    BY <2>1, <2>2, <2>4
  <2> QED BY ONLY <2>1, <2>2, <2>4, <2>5, <2>6, OrderMoves
<1>4. ASSUME NEW t \in Tags
      PROVE  Counted(t, Seen(t)', node'[t].sequence)
  <2>1. /\ Counted(t, Seen(t), node[t].sequence)
        /\ node'[t].sequence = node[t].sequence /\ Same(Seen(t)', Seen(t))
    BY <1>2, TagNumbers DEF SameNumber
  <2> HIDE DEF Seen
  <2> QED BY <2>1 DEF Counted, Same
<1>5. Orders'
  BY <1>3, <1>4 DEF Orders
<1>6. UNCHANGED Distances
  BY <1>2, SameDistances DEF Same
<1>7. UNCHANGED <<Phases, Answers, Reports>>
  <2>1. \A t \in Tags :
           /\ PhaseOf(node[t])' = PhaseOf(node[t])
           /\ node'[t].pollAcknowledged = node[t].pollAcknowledged
           /\ node'[t].rangeReportReceived = node[t].rangeReportReceived
    BY <1>2, RoleAssumption DEF Same, Seen, View
  <2> QED BY <2>1 DEF Phases, Answers, Reports
<1> QED BY <1>5, <1>6, <1>7 DEF Session!vars, Phases, Answers, Reports, Distances

\* on_tx_done() counts no frame, and the air knows no counts.
LEMMA QuietNumbers ==
    ASSUME PromiseInv, NEW n \in Nodes,
           \/ Air(n) \/ ReadStatus(n) \/ OnTxDone(n)
           \/ OnRxError(n) \/ ClearStatus(n)
    PROVE  \A t \in Tags : SameNumber(t)
<1>1. node \in [Nodes -> Node]
  BY DEF PromiseInv, ExchangeInv, TypeOK
<1>2. CASE OnTxDone(n)
  <2>1. TxStamped(n, node[n], radio[n].txStamp).sequence = node[n].sequence
    BY <1>1 DEF TxStamped, Stamped, Node
  <2>2. node' = [node EXCEPT ![n] = TxStamped(n, node[n], radio[n].txStamp)]
    BY <1>2 DEF OnTxDone, Becomes
  <2> QED BY <1>1, <2>1, <2>2, RoleAssumption DEF SameNumber
<1>3. CASE Air(n)
  <2>1. node' = node
    BY <1>3, AirSteps DEF PromiseInv, ExchangeInv
  <2> QED BY <2>1 DEF SameNumber
<1>4. CASE ReadStatus(n) \/ OnRxError(n) \/ ClearStatus(n)
  BY <1>4 DEF ReadStatus, OnRxError, ClearStatus, SameNumber
<1> QED BY <1>2, <1>3, <1>4

\* Frames that an anchor only notes, or is reset by, and frames ignored.
LEMMA NotedPromised ==
    ASSUME PromiseInv, NEW n \in Nodes, NEW f \in radio[n].inbox,
           OnUnlisted(n, f) \/ OnUnexpected(n, f) \/ OnIgnored(n, f)
    PROVE  Orders' /\ UNCHANGED Session!vars
<1>1. ExchangeInv
  BY DEF PromiseInv
<1>2. CASE OnIgnored(n, f)
  <2>1. Quiet /\ UNCHANGED node
    BY <1>1, <1>2, OnIgnoredKeeps
  <2> QED BY <2>1, QuietPromised DEF SameNumber
<1>3. CASE OnUnlisted(n, f) \/ OnUnexpected(n, f)
  <2>1. Quiet /\ n \in Anchors
    BY <1>1, <1>3, OnUnlistedKeeps, OnUnexpectedKeeps
  <2>2. \A m \in Nodes \ {n} : node'[m] = node[m]
    BY <1>3, OwnNode DEF OnRx, OnRxError, OnUnlisted, OnUnexpected, Reads
  <2>3. \A t \in Tags : SameNumber(t)
    BY <2>1, <2>2, RoleAssumption DEF SameNumber
  <2> QED BY <2>1, <2>3, QuietPromised
<1> QED BY <1>2, <1>3

-----------------------------------------------------------------------------
(* The theorem *)

\* Every step keeps the order, and is a step of the sessions or changes none.
LEMMA StepPromise ==
    ASSUME Undisturbed, PromiseInv, [Next]_vars
    PROVE  Orders' /\ [Session!Next]_(Session!vars)
<1>1. CASE UNCHANGED vars
  <2>1. \A m \in Nodes : Seen(m)' = Seen(m)
    BY <1>1 DEF vars, Seen
  <2>2. Quiet
    BY <2>1 DEF Quiet, Same
  <2>3. \A t \in Tags : SameNumber(t)
    BY <1>1 DEF vars, SameNumber
  <2> QED BY <2>2, <2>3, QuietPromised
<1>2. CASE Next
  <2>1. PICK n \in Nodes : Tick(n) \/ Host(n) \/ Recover(n) \/ Air(n)
    BY <1>2 DEF Next
  <2>2. ~ Recover(n) /\ ~ TickScheduleSync(n)
    BY DEF Recover, TickScheduleSync, Undisturbed
  <2>3. n \in Tags \/ n \in Anchors
    BY RoleAssumption
  <2>4. CASE Tick(n)
    <3>1. CASE TickPollAckTimeout(n)
      <4>1. n \in Tags
        BY <3>1 DEF TickPollAckTimeout
      <4>2. Orders' /\ Session!StopWaiting(n)
        BY <3>1, <4>1, PollAckTimeoutPromised
      <4> QED BY <4>1, <4>2 DEF Session!Next
    <3>2. CASE TickSessionTimeout(n)
      <4>1. n \in Tags
        BY <3>2 DEF TickSessionTimeout
      <4>2. Orders' /\ Session!Abandon(n)
        BY <3>2, <4>1, SessionTimeoutPromised
      <4> QED BY <4>1, <4>2 DEF Session!Next
    <3>3. CASE TickPrunePeer(n)
      BY <2>3, <3>3, TagPrunePromised, AnchorPrunePromised
    <3>4. CASE TickPoll(n)
      <4>1. n \in Tags
        BY <3>4 DEF TickPoll, StartsRound
      <4>2. Orders' /\ Session!Begin(n)
        BY <3>4, <4>1, PollPromised
      <4> QED BY <4>1, <4>2 DEF Session!Next
    <3>5. CASE TickBlink(n)
      BY <3>5, BlinkPromised DEF TickBlink, StartsRound
    <3> QED BY <2>2, <2>4, <3>1, <3>2, <3>3, <3>4, <3>5 DEF Tick
  <2>5. CASE Air(n)
    BY <2>5, AirQuiet, QuietNumbers, QuietPromised DEF PromiseInv, ExchangeInv
  <2>6. CASE ReadStatus(n) \/ OnTxDone(n) \/ OnRxError(n) \/ ClearStatus(n)
    BY <2>6, HostQuiet, QuietNumbers, QuietPromised DEF PromiseInv, ExchangeInv
  <2>7. CASE OnRx(n) /\ ~ OnRxError(n)
    <3>1. PICK f \in radio[n].inbox :
        \/ OnBlink(n, f) \/ OnScheduleSync(n, f) \/ OnRangingInit(n, f)
        \/ OnUnexpected(n, f) \/ OnUnlisted(n, f) \/ OnPoll(n, f)
        \/ OnPollAck(n, f) \/ OnLastPollAck(n, f) \/ OnRange(n, f)
        \/ OnRangeReport(n, f) \/ OnIgnored(n, f)
      BY <2>7 DEF OnRx
    <3>2. ~ OnScheduleSync(n, f)
      BY NoScheduleSync DEF OnScheduleSync, PromiseInv
    <3>3. CASE OnBlink(n, f) \/ OnPoll(n, f)
      BY <3>3, AnswerPromised
    <3>4. CASE OnRangingInit(n, f)
      BY <3>4, RangingInitPromised
    <3>5. CASE OnUnexpected(n, f) \/ OnUnlisted(n, f) \/ OnIgnored(n, f)
      BY <3>5, NotedPromised
    <3>6. CASE OnPollAck(n, f) \/ OnLastPollAck(n, f)
      <4>1. /\ Orders' /\ n \in Tags /\ f.src \in Anchors
            /\ Session!Answer(n, f.src)
        BY <3>6, PollAckPromised, LastPollAckPromised
      <4> QED BY <4>1 DEF Session!Next
    <3>7. CASE OnRange(n, f)
      <4>1. /\ Orders' /\ n \in Anchors /\ f.src \in Tags
            /\ Session!AnchorMeasures(n, f.src)
        BY <3>7, RangePromised
      <4> QED BY <4>1 DEF Session!Next
    <3>8. CASE OnRangeReport(n, f)
      <4>1. /\ Orders' /\ n \in Tags /\ f.src \in Anchors
            /\ Session!TagMeasures(n, f.src)
        BY <3>8, ReportOnPromised, ReportEndsPromised
      <4> QED BY <4>1 DEF Session!Next
    <3> QED BY <3>1, <3>2, <3>3, <3>4, <3>5, <3>6, <3>7, <3>8
  <2> QED BY <2>1, <2>2, <2>4, <2>5, <2>6, <2>7 DEF Host
<1> QED BY <1>1, <1>2

\* At first nobody has measured anybody, and no session runs.
LEMMA InitPromise == ASSUME Init PROVE Orders /\ Session!Init
<1>1. ASSUME NEW n \in Nodes
      PROVE  /\ node[n] = NewNode(n) /\ radio[n].outbox = {}
             /\ radio[n].inbox = {}
             /\ PhaseOf(node[n]) = "idle" /\ node[n].pollAcknowledged = {}
             /\ node[n].rangeReportReceived = {} /\ node[n].sequence = 0
             /\ \A m \in Nodes : node[n].range[m]["pollSent"] = NoStamp
  <2>1. node[n] = NewNode(n) /\ radio[n] = StartReceive(Configured, TRUE)
    BY DEF Init
  <2>2. radio[n].outbox = {} /\ radio[n].inbox = {}
    BY <2>1 DEF StartReceive, Acknowledge, Idle, Configured
  <2>3. NoStamps["pollSent"] = NoStamp
    BY DEF NoStamps, StampNames
  <2>4. node[n].range = [m \in Nodes |-> NoStamps]
    BY <2>1 DEF NewNode
  <2>5. /\ ~ node[n].session /\ node[n].pollAcknowledged = {}
        /\ node[n].rangeReportReceived = {} /\ node[n].sequence = 0
    BY <2>1 DEF NewNode
  <2>6. PhaseOf(node[n]) = "idle"
    BY <2>5 DEF PhaseOf
  <2> HIDE DEF NoStamps
  <2> QED BY <2>1, <2>2, <2>3, <2>4, <2>5, <2>6
<1>2. /\ Tags \cup Anchors = Nodes
      /\ \A t \in Tags : t \in Nodes /\ MaxTicks[t] \in 0..200
  BY RoleAssumption, SystemAssumption
<1>3. ASSUME NEW n \in Nodes
      PROVE  /\ Seen(n).outbox = {} /\ Seen(n).waiting = {}
             /\ Seen(n).phase = "idle" /\ Seen(n).reported = {}
             /\ \A m \in Nodes : Far(m, Seen(n)) = NoStamp
  BY <1>1 DEF Seen, View, Far
<1>4. Orders
  <2> HIDE DEF Seen
  <2>1. ASSUME NEW t \in Tags, NEW a \in Anchors
        PROVE  Ordered(t, a, Seen(t), Seen(a), node[t].sequence)
    <3>1. /\ Calling(a, Seen(t)) = {} /\ Called(t, a, Seen(a)) = {}
          /\ Replying(t, Seen(a)) = {} /\ Replied(a, t, Seen(t)) = {}
      BY <1>2, <1>3 DEF Calling, Called, Replying, Replied
    <3>2. /\ Seen(t).phase = "idle" /\ Far(t, Seen(a)) = NoStamp
          /\ Far(a, Seen(t)) = NoStamp
      BY <1>2, <1>3
    <3> QED BY <3>1, <3>2 DEF Ordered, Earlier, Far
  <2>2. ASSUME NEW t \in Tags
        PROVE  Counted(t, Seen(t), node[t].sequence)
    <3>1. /\ node[t].sequence = 0 /\ MaxTicks[t] \in 0..200
          /\ Seen(t).reported = {}
      BY <1>1, <1>2, <1>3
    <3> QED BY <3>1 DEF Counted
  <2> QED BY <2>1, <2>2 DEF Orders
<1>5. Session!Init
  <2>1. /\ Phases = [t \in Tags |-> "idle"] /\ Answers = [t \in Tags |-> {}]
        /\ Reports = [t \in Tags |-> {}]
        /\ Distances = [n \in Nodes |-> [m \in Nodes |-> NoStamp]]
    BY <1>1, <1>2 DEF Phases, Answers, Reports, Distances
  <2> QED BY <1>2, <2>1 DEF Session!Init, Session!Devices, Phases, Answers,
                            Reports, Distances
<1> QED BY <1>4, <1>5

\* Promise: an undisturbed system implements RangingSession, for any number of
\* tags and anchors, any losses and any interleaving of their loops.  An anchor
\* measures only a tag that is ranging and waits for it, both ends measure the
\* same exchange, each exchange once and in order, and what a session has
\* collected is never carried into the next one.
THEOREM PromiseHolds == Undisturbed => (Spec => Promise)
<1> SUFFICES ASSUME Undisturbed PROVE Spec => Promise
  OBVIOUS
<1>1. Init => Orders /\ Session!Init
  BY InitPromise
<1>2. ExchangeInv /\ Orders /\ [Next]_vars
         => Orders' /\ [Session!Next]_(Session!vars)
  BY StepPromise DEF PromiseInv
<1> QED BY <1>1, <1>2, ExchangesHold, TypeCorrect, SessionConsistentHolds,
           DrivenHolds, PTL
        DEF Spec, ExchangeInv, Promise, Session!Spec

=============================================================================
