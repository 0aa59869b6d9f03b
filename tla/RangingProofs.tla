---------------------------- MODULE RangingProofs ----------------------------
(***************************************************************************)
(* Theorems of RangingSystem, for every set of nodes, every peer capacity  *)
(* and every choice of the other constants: the type invariant, that no    *)
(* radio is ever left deaf, and that the session bookkeeping agrees with   *)
(* the phase and the peer table.                                           *)
(*                                                                         *)
(* The first two sections say what each operation of the driver and of the *)
(* node preserves; the actions are compositions of those operations.       *)
(***************************************************************************)
EXTENDS RangingSystem, TLAPS

-----------------------------------------------------------------------------
(* The driver's operations *)

\* clear_events() without the restart stays within the driver's types.
LEMMA AcknowledgeType ==
    ASSUME NEW r \in Radio, NEW mask PROVE Acknowledge(r, mask) \in Radio
BY DEF Acknowledge, Radio

\* idle() stays within the driver's types.
LEMMA IdleType == ASSUME NEW r \in Radio PROVE Idle(r) \in Radio
BY DEF Idle, Radio

\* start_receive() stays within the driver's types.
LEMMA StartReceiveType ==
    ASSUME NEW r \in Radio, NEW p \in BOOLEAN PROVE StartReceive(r, p) \in Radio
<1> DEFINE a == Acknowledge(Idle(r), ReceiveEvents)
<1>1. a \in Radio
  BY IdleType, AcknowledgeType
<1>2. StartReceive(r, p) =
        [a EXCEPT !.state = "Rx", !.permanent = p, !.rxAfterTx = FALSE,
                  !.receiving = TRUE]
  BY DEF StartReceive
<1> HIDE DEF a
<1> QED BY <1>1, <1>2 DEF Radio

\* reconfigure() leaves a radio of the right type.
LEMMA ConfiguredType == Configured \in Radio
BY DEF Configured, Radio, Stamp, NoStamp

\* transmit() stays within the driver's types.
LEMMA TransmitType ==
    ASSUME NEW r \in Radio, NEW f \in Frame PROVE Transmit(r, f) \in Radio
<1> DEFINE a == Acknowledge(Idle(r), {TxDone})
<1>1. a \in Radio
  BY IdleType, AcknowledgeType
<1>2. Transmit(r, f) =
        [a EXCEPT !.state = IF r.permanent THEN "Tx" ELSE "Idle",
                  !.rxAfterTx = r.permanent, !.outbox = {f}]
  BY DEF Transmit
<1>3. {f} \in SUBSET Frame
  OBVIOUS
<1>4. r.permanent \in BOOLEAN
  BY DEF Radio
<1>5. (IF r.permanent THEN "Tx" ELSE "Idle") \in {"Idle", "Rx", "Tx"}
  OBVIOUS
<1> HIDE DEF a
<1> QED BY <1>1, <1>2, <1>3, <1>4, <1>5 DEF Radio

\* clear_events() stays within the driver's types.
LEMMA ClearEventsType ==
    ASSUME NEW r \in Radio, NEW mask PROVE ClearEvents(r, mask) \in Radio
BY AcknowledgeType, StartReceiveType DEF ClearEvents

\* start_receive(true) leaves the device listening.
LEMMA StartReceiveReachable ==
    ASSUME NEW r \in Radio PROVE Reachable(StartReceive(r, TRUE))
<1>1. Acknowledge(Idle(r), ReceiveEvents) \in Radio
  BY IdleType, AcknowledgeType
<1> QED BY <1>1 DEF StartReceive, Reachable, Radio

\* A transmission from permanent receive will listen again when it is done.
LEMMA TransmitReachable ==
    ASSUME NEW r \in Radio, NEW f \in Frame, Reachable(r)
    PROVE  Reachable(Transmit(r, f))
<1>1. Acknowledge(Idle(r), {TxDone}) \in Radio
  BY IdleType, AcknowledgeType
<1>2. Acknowledge(Idle(r), {TxDone}).permanent = r.permanent
  BY DEF Acknowledge, Idle, Radio
<1> QED BY <1>1, <1>2 DEF Transmit, Reachable, Radio

\* Clearing events never takes the last reason to listen again away: either
\* the receiver is restarted or the event that will restart it is left.
LEMMA ClearEventsReachable ==
    ASSUME NEW r \in Radio, NEW mask, Reachable(r)
    PROVE  Reachable(ClearEvents(r, mask))
<1>1. CASE ShouldRestartReceive(r, mask)
  BY <1>1, AcknowledgeType, StartReceiveReachable DEF ClearEvents
<1>2. CASE ~ ShouldRestartReceive(r, mask)
  BY <1>2 DEF ClearEvents, ShouldRestartReceive, Acknowledge, Reachable, Radio
<1> QED BY <1>1, <1>2

\* The end of a transmission keeps the types and can only help reachability.
LEMMA FrameSentKeeps ==
    ASSUME NEW r \in Radio, r.outbox # {}
    PROVE  /\ FrameSent(r) \in Radio
           /\ Reachable(r) => Reachable(FrameSent(r))
<1>1. (CHOOSE f \in r.outbox : TRUE) \in Frame
  BY DEF Radio
<1>2. (CHOOSE f \in r.outbox : TRUE).seq \in Stamp
  BY <1>1 DEF Frame, Stamp
<1> QED BY <1>2 DEF FrameSent, Radio, Reachable, Events, TxDone

\* A frame's arrival keeps the types and reachability.
LEMMA FrameReceivedKeeps ==
    ASSUME NEW r \in Radio, NEW f \in Frame
    PROVE  /\ FrameReceived(r, f) \in Radio
           /\ Reachable(r) => Reachable(FrameReceived(r, f))
BY DEF FrameReceived, Radio, Reachable, Events, ReceiveEvents, RxGood

\* So does a corrupted frame's.
LEMMA FrameCorruptedKeeps ==
    ASSUME NEW r \in Radio
    PROVE  /\ FrameCorrupted(r) \in Radio
           /\ Reachable(r) => Reachable(FrameCorrupted(r))
BY DEF FrameCorrupted, Radio, Reachable, Events, RxError
-----------------------------------------------------------------------------
(* The node's operations *)

\* RangingNode::new() starts from a state of the right type.
LEMMA NewNodeType == ASSUME NEW n \in Nodes PROVE NewNode(n) \in Node
BY CapacityAssumption
   DEF NewNode, Node, IdleKind, NoStamps, Stamps, Stamp, StampNames, NoStamp,
       NoSequence, Byte

\* Pushing and removing a peer keep the node's types.
LEMMA PeerTableType ==
    ASSUME NEW nd \in Node, NEW m \in Nodes
    PROVE  EnsurePeer(nd, m) \in Node /\ RemovePeer(nd, m) \in Node
<1>1. EnsurePeer(nd, m) \in Node
  BY DEF EnsurePeer, Node
<1>2. NoStamps \in Stamps
  BY DEF NoStamps, Stamps, Stamp, NoStamp
<1>3. RemovePeer(nd, m) \in Node
  BY <1>2 DEF RemovePeer, Node
<1> QED BY <1>1, <1>3

\* Noting a frame's sequence number keeps the node's types.
LEMMA ObserveType ==
    ASSUME NEW nd \in Node, NEW f \in Frame PROVE Observe(nd, f) \in Node
BY DEF Observe, Node, Frame

\* The phase changes keep the node's types.
LEMMA PhaseType ==
    ASSUME NEW n \in Nodes, NEW nd \in Node
    PROVE  /\ ResetProtocolState(n, nd) \in Node
           /\ BeginPollAckPhase(nd) \in Node
           /\ BeginRangeReportPhase(nd) \in Node
           /\ CountRound(nd) \in Node
<1>1. ResetProtocolState(n, nd) \in Node
  <2>1. IdleKind(n) \in {"Poll", "PollAck", "Range", "RangeReport"}
    BY DEF IdleKind
  <2> QED BY <2>1 DEF ResetProtocolState, Node
<1>2. BeginPollAckPhase(nd) \in Node
  BY DEF BeginPollAckPhase, Node
<1>3. BeginRangeReportPhase(nd) \in Node
  BY DEF BeginRangeReportPhase, Node
<1>4. CountRound(nd) \in Node
  <2>1. (IF nd.blinkCounter >= BlinkPeriod THEN 0 ELSE nd.blinkCounter + 1)
           \in 0..BlinkPeriod
    BY CapacityAssumption DEF Node
  <2> QED BY <2>1 DEF CountRound, Node
<1> QED BY <1>1, <1>2, <1>3, <1>4

\* next_sequence() wraps within a byte.
LEMMA SendsType ==
    ASSUME NEW nd \in Node, NEW kind \in Kinds,
           NEW dst \in Nodes \cup {Broadcast}
    PROVE  Sends(nd, kind, dst) \in Node
<1> DEFINE next == (nd.sequence + 1) % 256
<1>1. next \in Byte
  BY DEF Node, Byte
<1>2. Sends(nd, kind, dst) = [nd EXCEPT !.sequence = next, !.lastTxKind = kind,
                                        !.lastTxDestination = dst]
  BY DEF Sends, Node
<1> HIDE DEF next
<1> QED BY <1>1, <1>2 DEF Node

\* Writing one stamp of some peers keeps the node's types.
LEMMA StampedType ==
    ASSUME NEW nd \in Node, NEW ms, NEW name \in StampNames, NEW s \in Stamp
    PROVE  Stamped(nd, ms, name, s) \in Node
<1> DEFINE stamps == [m \in Nodes |-> IF m \in ms
                                      THEN [nd.stamps[m] EXCEPT ![name] = s]
                                      ELSE nd.stamps[m]]
<1>1. stamps \in [Nodes -> Stamps]
  BY DEF Node, Stamps
<1>2. Stamped(nd, ms, name, s) = [nd EXCEPT !.stamps = stamps]
  BY DEF Stamped
<1> HIDE DEF stamps
<1> QED BY <1>1, <1>2 DEF Node

\* on_tx_done() keeps the node's types.
LEMMA TxStampedType ==
    ASSUME NEW n \in Nodes, NEW nd \in Node, NEW s \in Stamp
    PROVE  TxStamped(n, nd, s) \in Node
<1>1. {"pollSent", "pollAckSent", "rangeSent"} \subseteq StampNames
  BY DEF StampNames
<1> QED BY <1>1, StampedType DEF TxStamped

\* The stamps a frame brings keep the node's types.
LEMMA RxStampedType ==
    ASSUME NEW n \in Nodes, NEW nd \in Node, NEW f \in Frame
    PROVE  /\ RangeStamped(n, nd, f) \in Node
           /\ ReportStamped(n, nd, f) \in Node
<1> DEFINE t == f.times[n]
           own == nd.stamps[f.src]
           six == [own EXCEPT !["rangeReceived"] = f.seq,
                              !["pollSent"] = t["pollSent"],
                              !["pollAckReceived"] = t["pollAckReceived"],
                              !["rangeSent"] = t["rangeSent"]]
           mix == [own EXCEPT !["pollReceived"] = t["pollReceived"],
                              !["pollAckSent"] = t["pollAckSent"],
                              !["rangeReceived"] = t["rangeReceived"]]
<1>1. t \in Stamps /\ own \in Stamps /\ f.seq \in Stamp /\ f.src \in Nodes
  BY DEF Frame, Node, Stamp
<1>2. six \in Stamps /\ mix \in Stamps
  <2> HIDE DEF t, own
  <2> QED BY <1>1 DEF Stamps, StampNames
<1>3. RangeStamped(n, nd, f) =
        [nd EXCEPT !.stamps[f.src] = six, !.range[f.src] = six]
  BY DEF RangeStamped
<1>4. ReportStamped(n, nd, f) = [nd EXCEPT !.range[f.src] = mix]
  BY DEF ReportStamped
<1> HIDE DEF t, own, six, mix
<1>5. RangeStamped(n, nd, f) \in Node
  <2>1. [nd.stamps EXCEPT ![f.src] = six] \in [Nodes -> Stamps]
    BY <1>1, <1>2 DEF Node
  <2>2. [nd.range EXCEPT ![f.src] = six] \in [Nodes -> Stamps]
    BY <1>1, <1>2 DEF Node
  <2> QED BY <1>3, <2>1, <2>2 DEF Node
<1>6. ReportStamped(n, nd, f) \in Node
  BY <1>1, <1>2, <1>4 DEF Node
<1> QED BY <1>5, <1>6

\* Every send_*() builds a frame of the right type.
LEMMA MessageType ==
    ASSUME NEW n \in Nodes, NEW nd \in Node, NEW kind \in Kinds,
           NEW dst \in Nodes \cup {Broadcast}
    PROVE  Message(n, nd, kind, dst) \in Frame
BY DEF Message, Frame, Node, NoTimes, NoStamps, Stamps, Stamp, NoStamp

\* So do the frames that list anchors or carry timestamps.
LEMMA ListMessageType ==
    ASSUME NEW n \in Nodes, NEW nd \in Node, NEW t \in Nodes
    PROVE  /\ PollMessage(n, nd) \in Frame
           /\ RangeMessage(n, nd) \in Frame
           /\ RangeReportMessage(n, nd, t) \in Frame
<1>1. NoStamps \in Stamps
  BY DEF NoStamps, Stamps, Stamp, NoStamp
<1>2. \A m \in Nodes : nd.stamps[m] \in Stamps
  BY DEF Node
<1>3. nd.sequence \in Stamp
  BY DEF Node, Stamp
<1>4. \A m \in Nodes : RangeTiming(nd, m) \in Stamps
  BY <1>1, <1>2, <1>3 DEF RangeTiming, Stamps, StampNames
<1>5. RangeTargets(nd) \in SUBSET Nodes /\ nd.peers \in SUBSET Nodes
  BY DEF RangeTargets, Node
<1>6. PollMessage(n, nd) \in Frame
  <2>1. Message(n, nd, "Poll", Broadcast) \in Frame
    BY MessageType DEF Kinds
  <2> QED BY <2>1, <1>5 DEF PollMessage, Frame
<1>7. RangeMessage(n, nd) \in Frame
  <2> DEFINE times == [m \in Nodes |-> IF m \in RangeTargets(nd)
                                       THEN RangeTiming(nd, m) ELSE NoStamps]
  <2>1. Message(n, nd, "Range", Broadcast) \in Frame
    BY MessageType DEF Kinds
  <2>2. times \in [Nodes -> Stamps]
    BY <1>1, <1>4
  <2>3. RangeMessage(n, nd) =
          [Message(n, nd, "Range", Broadcast) EXCEPT
              !.targets = RangeTargets(nd), !.times = times]
    BY DEF RangeMessage
  <2> HIDE DEF times
  <2> QED BY <2>1, <2>2, <2>3, <1>5 DEF Frame
<1>8. RangeReportMessage(n, nd, t) \in Frame
  <2> DEFINE times == [NoTimes EXCEPT ![t] = ReportPayload(nd, t)]
  <2>1. Message(n, nd, "RangeReport", t) \in Frame
    BY MessageType DEF Kinds
  <2>2. ReportPayload(nd, t) \in Stamps
    BY <1>1, <1>2 DEF ReportPayload, Stamps, StampNames
  <2>3. times \in [Nodes -> Stamps]
    BY <1>1, <2>2 DEF NoTimes
  <2>4. RangeReportMessage(n, nd, t) =
          [Message(n, nd, "RangeReport", t) EXCEPT !.times = times]
    BY DEF RangeReportMessage
  <2> HIDE DEF times
  <2> QED BY <2>1, <2>3, <2>4 DEF Frame
<1> QED BY <1>6, <1>7, <1>8
-----------------------------------------------------------------------------
(* What the node's operations do to the session bookkeeping *)

\* A reset is consistent whatever the session was.
LEMMA ResetConsistent ==
    ASSUME NEW n \in Nodes, NEW nd \in Node
    PROVE  Consistent(n, ResetProtocolState(n, nd))
BY RoleAssumption DEF Consistent, ResetProtocolState, IdleKind, Node

\* Sending changes nothing of the session.
LEMMA SendsConsistent ==
    ASSUME NEW n \in Nodes, NEW nd \in Node, NEW kind, NEW dst,
           Consistent(n, nd)
    PROVE  Consistent(n, Sends(nd, kind, dst))
BY DEF Consistent, Sends, Node

\* Neither does hearing from a peer or adding one.
LEMMA IntroducedConsistent ==
    ASSUME NEW n \in Nodes, NEW nd \in Node, NEW f \in Frame,
           Consistent(n, nd)
    PROVE  /\ Consistent(n, Observe(nd, f))
           /\ Consistent(n, Observe(EnsurePeer(nd, f.src), f))
<1>1. EnsurePeer(nd, f.src) \in Node
  BY PeerTableType DEF Frame
<1>2. Consistent(n, EnsurePeer(nd, f.src))
  BY DEF EnsurePeer, Consistent, Node
<1> QED BY <1>1, <1>2 DEF Observe, Consistent, Node

\* Nor does writing a stamp.
LEMMA StampedConsistent ==
    ASSUME NEW n \in Nodes, NEW nd \in Node, Consistent(n, nd),
           NEW ms, NEW name \in StampNames, NEW s \in Stamp, NEW f \in Frame
    PROVE  /\ Consistent(n, Stamped(nd, ms, name, s))
           /\ Consistent(n, RangeStamped(n, nd, f))
           /\ Consistent(n, ReportStamped(n, nd, f))
<1>1. Consistent(n, Stamped(nd, ms, name, s))
  BY DEF Stamped, Consistent, Node
<1>2. Consistent(n, RangeStamped(n, nd, f))
  BY DEF RangeStamped, Consistent, Node
<1>3. Consistent(n, ReportStamped(n, nd, f))
  BY DEF ReportStamped, Consistent, Node
<1> QED BY <1>1, <1>2, <1>3

\* Nor does the end of a transmission.
LEMMA TxStampedConsistent ==
    ASSUME NEW n \in Nodes, NEW nd \in Node, NEW s \in Stamp, Consistent(n, nd)
    PROVE  Consistent(n, TxStamped(n, nd, s))
BY DEF TxStamped, Stamped, Consistent, Node

\* Nor does counting a round.
LEMMA CountRoundConsistent ==
    ASSUME NEW n \in Nodes, NEW nd \in Node, Consistent(n, nd)
    PROVE  Consistent(n, CountRound(nd))
BY DEF CountRound, Consistent, Node

\* A session that begins is consistent, in either phase.
LEMMA PhaseConsistent ==
    ASSUME NEW n \in Tags, NEW nd \in Node, Consistent(n, nd)
    PROVE  /\ Consistent(n, CountRound(BeginPollAckPhase(nd)))
           /\ nd.pollAcknowledged # {}
                => Consistent(n, BeginRangeReportPhase(nd))
<1>1. n \notin Anchors
  BY RoleAssumption
<1>2. BeginPollAckPhase(nd) \in Node
  BY RoleAssumption, PhaseType
<1>3. Consistent(n, BeginPollAckPhase(nd))
  BY <1>1 DEF BeginPollAckPhase, Consistent, Node
<1> QED BY <1>1, <1>2, <1>3, CountRoundConsistent, RoleAssumption
     DEF BeginRangeReportPhase, Consistent, Node

\* An expected frame is from a peer, and its kind tells the receiver's role.
LEMMA ExpectedFromPeer ==
    ASSUME NEW n \in Nodes, NEW f, AcceptsExpected(n, f)
    PROVE  /\ f.src \in node[n].peers
           /\ f.kind = node[n].expected
           /\ f.kind \in {"Poll", "Range"} => n \in Anchors /\ n \notin Tags
           /\ f.kind \in {"PollAck", "RangeReport"}
                => n \in Tags /\ n \notin Anchors
BY RoleAssumption
   DEF AcceptsExpected, AcceptsSession, AcceptsHeader, SessionKinds

-----------------------------------------------------------------------------
(* The actions *)

\* What a step of the node's logic comes to: a new node state, as consistent
\* as the one before, and possibly a frame for the radio.
Commits(n) ==
    \E nd \in Node :
       /\ SessionConsistent => Consistent(n, nd)
       /\ Becomes(n, nd) \/ \E f \in Frame : Transmits(n, nd, f)

\* Every branch of tick_async() comes to that.
LEMMA TickCommits ==
    ASSUME TypeOK, NEW n \in Nodes, Tick(n)
    PROVE  Commits(n) /\ UNCHANGED <<at, snapshot>>
<1>1. node[n] \in Node /\ (SessionConsistent => Consistent(n, node[n]))
  BY DEF TypeOK, SessionConsistent
<1>2. CASE TickPollAckTimeout(n)
  <2>1. BeginRangeReportPhase(node[n]) \in Node
    BY <1>1, PhaseType
  <2>2. RangeMessage(n, BeginRangeReportPhase(node[n])) \in Frame
    BY <2>1, ListMessageType
  <2>3. SessionConsistent => Consistent(n, BeginRangeReportPhase(node[n]))
    BY <1>1, <1>2, PhaseConsistent DEF TickPollAckTimeout
  <2> QED BY <1>2, <2>1, <2>2, <2>3 DEF TickPollAckTimeout, Ticks, Commits
<1>3. CASE TickSessionTimeout(n)
  BY <1>1, <1>3, PhaseType, ResetConsistent
     DEF TickSessionTimeout, Ticks, Commits
<1>4. CASE TickPrunePeer(n)
  <2>1. PICK m \in node[n].peers :
               Becomes(n, ResetProtocolState(n, RemovePeer(node[n], m)))
    BY <1>4 DEF TickPrunePeer
  <2>2. m \in Nodes
    BY <1>1 DEF Node
  <2>3. RemovePeer(node[n], m) \in Node
    BY <1>1, <2>2, PeerTableType
  <2>4. ResetProtocolState(n, RemovePeer(node[n], m)) \in Node
    BY <2>3, PhaseType
  <2>5. Consistent(n, ResetProtocolState(n, RemovePeer(node[n], m)))
    BY <2>3, ResetConsistent
  <2> QED BY <1>4, <2>1, <2>4, <2>5 DEF TickPrunePeer, Ticks, Commits
<1>5. CASE TickScheduleSync(n)
  <2>1. Message(n, node[n], "ScheduleSync", Broadcast) \in Frame
    BY <1>1, MessageType DEF Kinds
  <2> QED BY <1>1, <1>5, <2>1 DEF TickScheduleSync, Ticks, Commits
<1>6. CASE TickPoll(n)
  <2>1. BeginPollAckPhase(node[n]) \in Node
    BY <1>1, PhaseType
  <2>2. PollMessage(n, BeginPollAckPhase(node[n])) \in Frame
    BY <2>1, ListMessageType
  <2>3. CountRound(BeginPollAckPhase(node[n])) \in Node
    BY <2>1, PhaseType
  <2>4. SessionConsistent
           => Consistent(n, CountRound(BeginPollAckPhase(node[n])))
    BY <1>1, <1>6, PhaseConsistent DEF TickPoll, StartsRound
  <2> QED BY <1>6, <2>2, <2>3, <2>4 DEF TickPoll, StartsRound, Ticks, Commits
<1>7. CASE TickBlink(n)
  <2>1. Message(n, node[n], "Blink", Broadcast) \in Frame
    BY <1>1, MessageType DEF Kinds
  <2>2. CountRound(node[n]) \in Node
        /\ (SessionConsistent => Consistent(n, CountRound(node[n])))
    BY <1>1, PhaseType, CountRoundConsistent
  <2> QED BY <1>7, <2>1, <2>2 DEF TickBlink, StartsRound, Ticks, Commits
<1> QED BY <1>2, <1>3, <1>4, <1>5, <1>6, <1>7 DEF Tick

\* So does every way through on_rx_async() that gets as far as a frame.
LEMMA OnRxCommits ==
    ASSUME TypeOK, NEW n \in Nodes, OnRx(n)
    PROVE  \/ OnRxError(n)
           \/ Commits(n) /\ \E f \in radio[n].inbox : Reads(n, f)
<1> SUFFICES ASSUME ~ OnRxError(n)
             PROVE  Commits(n) /\ \E f \in radio[n].inbox : Reads(n, f)
  OBVIOUS
<1>1. PICK f \in radio[n].inbox :
        \/ OnBlink(n, f) \/ OnScheduleSync(n, f) \/ OnRangingInit(n, f)
        \/ OnUnexpected(n, f) \/ OnUnlisted(n, f) \/ OnPoll(n, f)
        \/ OnPollAck(n, f) \/ OnLastPollAck(n, f) \/ OnRange(n, f)
        \/ OnRangeReport(n, f) \/ OnIgnored(n, f)
  BY DEF OnRx
<1>2. /\ node[n] \in Node /\ (SessionConsistent => Consistent(n, node[n]))
      /\ f \in Frame /\ f.src \in Nodes /\ f.seq \in Stamp
  BY DEF TypeOK, SessionConsistent, Radio, Frame, Stamp
<1>3. Reads(n, f)
  BY <1>1 DEF OnBlink, OnScheduleSync, OnRangingInit, OnUnexpected, OnUnlisted,
              OnPoll, OnPollAck, OnLastPollAck, OnRange, OnRangeReport,
              OnIgnored
<1>4. /\ Introduced(n, f) \in Node /\ Observe(node[n], f) \in Node
      /\ SessionConsistent => /\ Consistent(n, Introduced(n, f))
                              /\ Consistent(n, Observe(node[n], f))
  BY <1>2, PeerTableType, ObserveType, IntroducedConsistent DEF Introduced
<1>5. /\ ResetProtocolState(n, Introduced(n, f)) \in Node
      /\ Consistent(n, ResetProtocolState(n, Introduced(n, f)))
      /\ ResetProtocolState(n, Observe(node[n], f)) \in Node
      /\ Consistent(n, ResetProtocolState(n, Observe(node[n], f)))
  BY <1>4, PhaseType, ResetConsistent
<1>6. /\ Acknowledged(n, f) \in Node
      /\ f.src \in Acknowledged(n, f).pollAcknowledged
      /\ SessionConsistent /\ f.kind = "PollAck" /\ AcceptsExpected(n, f)
            => n \in Tags /\ Consistent(n, Acknowledged(n, f))
  <2> DEFINE nd == Stamped(Observe(node[n], f), {f.src},
                           "pollAckReceived", f.seq)
  <2>1. nd \in Node
    BY <1>2, <1>4, StampedType DEF StampNames
  <2>2. Acknowledged(n, f) = [nd EXCEPT !.pollAcknowledged = @ \cup {f.src}]
    BY DEF Acknowledged
  <2>3. nd.peers = node[n].peers /\ nd.expected = node[n].expected
    BY <1>2 DEF Stamped, Observe, Node
  <2>4. SessionConsistent => Consistent(n, nd)
    BY <1>2, <1>4, StampedConsistent DEF StampNames
  <2> HIDE DEF nd
  <2>5. ASSUME SessionConsistent, f.kind = "PollAck", AcceptsExpected(n, f)
        PROVE  n \in Tags /\ Consistent(n, Acknowledged(n, f))
    <3>1. /\ f.src \in nd.peers /\ nd.expected = "PollAck"
          /\ n \in Tags /\ n \notin Anchors
      BY <2>3, <2>5, ExpectedFromPeer
    <3> QED BY <2>1, <2>2, <2>4, <2>5, <3>1 DEF Consistent, Node
  <2> QED BY <1>2, <2>1, <2>2, <2>5 DEF Node
<1>7. CASE OnBlink(n, f)
  <2>1. Message(n, ResetProtocolState(n, Introduced(n, f)), "RangingInit",
                f.src) \in Frame
    BY <1>2, <1>5, MessageType DEF Kinds
  <2> QED BY <1>3, <1>5, <1>7, <2>1 DEF OnBlink, Commits
<1>8. CASE OnScheduleSync(n, f)
  BY <1>3, <1>4, <1>8 DEF OnScheduleSync, Commits
<1>9. CASE OnRangingInit(n, f)
  BY <1>3, <1>5, <1>9 DEF OnRangingInit, Commits
<1>10. CASE OnUnexpected(n, f)
  BY <1>3, <1>5, <1>10 DEF OnUnexpected, Commits
<1>11. CASE OnUnlisted(n, f)
  BY <1>3, <1>4, <1>11 DEF OnUnlisted, Commits
<1>12. CASE OnPoll(n, f)
  <2> DEFINE stamped == Stamped(Observe(node[n], f), {f.src},
                                "pollReceived", f.seq)
             nd == [stamped EXCEPT !.expected = "Range"]
  <2>1. stamped \in Node /\ (SessionConsistent => Consistent(n, stamped))
    BY <1>2, <1>4, StampedType, StampedConsistent DEF StampNames
  <2>2. nd \in Node /\ (SessionConsistent => Consistent(n, nd))
    <3>1. n \in Anchors /\ n \notin Tags
      BY <1>12, ExpectedFromPeer DEF OnPoll
    <3> HIDE DEF stamped
    <3> QED BY <2>1, <3>1 DEF Node, Consistent
  <2>3. Transmits(n, nd, Message(n, nd, "PollAck", f.src))
    BY <1>12 DEF OnPoll
  <2> HIDE DEF nd
  <2>4. Message(n, nd, "PollAck", f.src) \in Frame
    BY <1>2, <2>2, MessageType DEF Kinds
  <2> QED BY <1>3, <2>2, <2>3, <2>4 DEF Commits
<1>13. CASE OnPollAck(n, f)
  BY <1>3, <1>6, <1>13 DEF OnPollAck, Commits
<1>14. CASE OnLastPollAck(n, f)
  <2> DEFINE nd == BeginRangeReportPhase(Acknowledged(n, f))
  <2>1. nd \in Node /\ (SessionConsistent => Consistent(n, nd))
    BY <1>6, <1>14, PhaseType, PhaseConsistent DEF OnLastPollAck
  <2>2. Transmits(n, nd, RangeMessage(n, nd))
    BY <1>14 DEF OnLastPollAck
  <2> HIDE DEF nd
  <2>3. RangeMessage(n, nd) \in Frame
    BY <1>2, <2>1, ListMessageType
  <2> QED BY <1>3, <2>1, <2>2, <2>3 DEF Commits
<1>15. CASE OnRange(n, f)
  <2> DEFINE stamped == RangeStamped(n, Observe(node[n], f), f)
             nd == [stamped EXCEPT !.expected = "Poll"]
  <2>1. stamped \in Node /\ (SessionConsistent => Consistent(n, stamped))
    BY <1>2, <1>4, RxStampedType, StampedConsistent DEF StampNames
  <2>2. nd \in Node /\ (SessionConsistent => Consistent(n, nd))
    <3>1. n \in Anchors /\ n \notin Tags
      BY <1>15, ExpectedFromPeer DEF OnRange
    <3> HIDE DEF stamped
    <3> QED BY <2>1, <3>1 DEF Node, Consistent
  <2>3. Transmits(n, nd, RangeReportMessage(n, nd, f.src))
    BY <1>15 DEF OnRange
  <2> HIDE DEF nd
  <2>4. RangeReportMessage(n, nd, f.src) \in Frame
    BY <1>2, <2>2, ListMessageType
  <2> QED BY <1>3, <2>2, <2>3, <2>4 DEF Commits
<1>16. CASE OnRangeReport(n, f)
  <2> DEFINE stamped == ReportStamped(n, Observe(node[n], f), f)
             nd == [stamped EXCEPT !.rangeReportReceived = @ \cup {f.src}]
             last == Cardinality(nd.rangeReportReceived)
                       >= Cardinality(nd.pollAcknowledged)
  <2>1. stamped \in Node /\ (SessionConsistent => Consistent(n, stamped))
    BY <1>2, <1>4, RxStampedType, StampedConsistent DEF StampNames
  <2>2. nd \in Node /\ (SessionConsistent => Consistent(n, nd))
    <3>1. f.src \in node[n].peers
      BY <1>16, ExpectedFromPeer DEF OnRangeReport
    <3>2. stamped.peers = node[n].peers
      BY <1>2 DEF ReportStamped, Observe, Node
    <3> HIDE DEF stamped
    <3> QED BY <1>2, <2>1, <3>1, <3>2 DEF Node, Consistent
  <2>3. Becomes(n, IF last THEN ResetProtocolState(n, nd) ELSE nd)
    BY <1>16 DEF OnRangeReport
  <2> HIDE DEF nd, last
  <2>4. /\ (IF last THEN ResetProtocolState(n, nd) ELSE nd) \in Node
        /\ SessionConsistent =>
              Consistent(n, IF last THEN ResetProtocolState(n, nd) ELSE nd)
    BY <2>2, PhaseType, ResetConsistent
  <2> QED BY <1>3, <2>3, <2>4 DEF Commits
<1>17. CASE OnIgnored(n, f)
  <2>1. Becomes(n, node[n])
    BY <1>17 DEF OnIgnored, Becomes, TypeOK
  <2> QED BY <1>2, <1>3, <2>1 DEF Commits
<1> QED BY <1>1, <1>7, <1>8, <1>9, <1>10, <1>11, <1>12, <1>13, <1>14, <1>15,
           <1>16, <1>17
\* A commit keeps the types and the bookkeeping, and the radio reachable.
LEMMA CommitsKeeps ==
    ASSUME TypeOK, NEW n \in Nodes, Commits(n)
    PROVE  /\ node' \in [Nodes -> Node]
           /\ radio' \in [Nodes -> Radio]
           /\ NeverDeaf => NeverDeaf'
           /\ SessionConsistent => SessionConsistent'
<1>1. /\ node \in [Nodes -> Node] /\ radio \in [Nodes -> Radio]
      /\ radio[n] \in Radio
  BY DEF TypeOK
<1>2. PICK nd \in Node :
         /\ SessionConsistent => Consistent(n, nd)
         /\ Becomes(n, nd) \/ \E f \in Frame : Transmits(n, nd, f)
  BY DEF Commits
<1>3. CASE Becomes(n, nd)
  BY <1>1, <1>2, <1>3 DEF Becomes, NeverDeaf, SessionConsistent
<1>4. CASE \E f \in Frame : Transmits(n, nd, f)
  <2>1. PICK f \in Frame : Transmits(n, nd, f)
    BY <1>4
  <2>2. Sends(nd, f.kind, f.dst) \in Node
    BY SendsType DEF Frame
  <2>3. Transmit(radio[n], f) \in Radio
    BY <1>1, TransmitType
  <2>4. ASSUME NeverDeaf PROVE NeverDeaf'
    <3>1. Reachable(Transmit(radio[n], f))
      BY <1>1, <2>4, TransmitReachable DEF NeverDeaf
    <3> QED BY <1>1, <2>1, <2>4, <3>1 DEF Transmits, NeverDeaf
  <2>5. ASSUME SessionConsistent PROVE SessionConsistent'
    <3>1. Consistent(n, Sends(nd, f.kind, f.dst))
      BY <1>2, <2>5, SendsConsistent
    <3> QED BY <1>1, <2>1, <2>5, <3>1 DEF Transmits, SessionConsistent
  <2> QED BY <1>1, <2>1, <2>2, <2>3, <2>4, <2>5 DEF Transmits
<1> QED BY <1>2, <1>3, <1>4

\* A frame's passage through the air keeps the types and deafens nobody.
LEMMA AirKeeps ==
    ASSUME TypeOK, NEW n \in Nodes, Air(n)
    PROVE  /\ radio' \in [Nodes -> Radio]
           /\ NeverDeaf => NeverDeaf'
<1>1. radio \in [Nodes -> Radio]
  BY DEF TypeOK
<1>2. PICK f \in radio[n].outbox, good \in SUBSET Nodes, bad \in SUBSET Nodes :
         /\ n \notin good \cup bad /\ good \cap bad = {}
         /\ radio' = [m \in Nodes |->
              CASE m = n      -> FrameSent(radio[m])
                [] m \in good -> FrameReceived(radio[m], f)
                [] m \in bad  -> FrameCorrupted(radio[m])
                [] OTHER      -> radio[m]]
  BY DEF Air, Hearers
<1>3. f \in Frame /\ radio[n].outbox # {}
  BY <1>1 DEF Radio
<1>4. ASSUME NEW m \in Nodes
      PROVE  /\ radio'[m] \in Radio
             /\ Reachable(radio[m]) => Reachable(radio'[m])
  <2>1. CASE m = n
    <3>1. radio'[m] = FrameSent(radio[m])
      BY <1>2, <2>1
    <3> QED BY <1>1, <1>3, <2>1, <3>1, FrameSentKeeps
  <2>2. CASE m \in good
    <3>1. radio'[m] = FrameReceived(radio[m], f)
      BY <1>2, <2>2
    <3> QED BY <1>1, <1>3, <3>1, FrameReceivedKeeps
  <2>3. CASE m \in bad
    <3>1. radio'[m] = FrameCorrupted(radio[m])
      BY <1>2, <2>3
    <3> QED BY <1>1, <3>1, FrameCorruptedKeeps
  <2>4. CASE m # n /\ m \notin good \cup bad
    BY <1>1, <1>2, <2>4
  <2> QED BY <2>1, <2>2, <2>3, <2>4
<1>5. radio' = [m \in Nodes |-> radio'[m]]
  BY <1>2
<1> QED BY <1>4, <1>5 DEF NeverDeaf

\* What every step must keep.
Kept == /\ TypeOK'
        /\ NeverDeaf => NeverDeaf'
        /\ SessionConsistent => SessionConsistent'

\* Reading SYS_STATUS into the snapshot keeps every type.
LEMMA ReadStatusKeeps ==
    ASSUME TypeOK, NEW n \in Nodes, ReadStatus(n)
    PROVE  Kept
<1>1. radio[n].status \in SUBSET Events
  BY DEF TypeOK, Radio
<1>2. {"txDone", RxOrClear(n, radio[n].status)} \subseteq Steps
  BY DEF RxOrClear, Steps
<1> QED BY <1>1, <1>2 DEF ReadStatus, Kept, TypeOK, NeverDeaf, SessionConsistent

\* Clearing what was read keeps every type and listens again where it must.
LEMMA ClearStatusKeeps ==
    ASSUME TypeOK, NEW n \in Nodes, ClearStatus(n)
    PROVE  Kept
<1> DEFINE r == ClearEvents(radio[n], snapshot[n])
<1>1. radio \in [Nodes -> Radio] /\ radio[n] \in Radio
  BY DEF TypeOK
<1>2. r \in Radio
  BY <1>1, ClearEventsType
<1>3. NeverDeaf => Reachable(r)
  BY <1>1, ClearEventsReachable DEF NeverDeaf
<1>4. /\ radio' = [radio EXCEPT ![n] = r]
      /\ at' = [at EXCEPT ![n] = IF r.status # {} THEN "drain" ELSE "select"]
      /\ snapshot' = [snapshot EXCEPT ![n] = {}]
      /\ node' = node
  BY DEF ClearStatus
<1> HIDE DEF r
<1>5. (IF r.status # {} THEN "drain" ELSE "select") \in Steps
  BY DEF Steps
<1> QED BY <1>1, <1>2, <1>3, <1>4, <1>5
     DEF Kept, TypeOK, NeverDeaf, SessionConsistent

\* Reinitialising the radio keeps every type and starts listening.
LEMMA RecoverKeeps ==
    ASSUME TypeOK, NEW n \in Nodes, Recover(n)
    PROVE  Kept
<1>1. /\ ResetProtocolState(n, node[n]) \in Node
      /\ Consistent(n, ResetProtocolState(n, node[n]))
  BY PhaseType, ResetConsistent DEF TypeOK
<1>2. StartReceive(Configured, TRUE) \in Radio
  BY ConfiguredType, StartReceiveType
<1>3. Reachable(StartReceive(Configured, TRUE))
  BY ConfiguredType, StartReceiveReachable
<1> QED BY <1>1, <1>2, <1>3
        DEF Recover, Kept, TypeOK, NeverDeaf, SessionConsistent, Steps

\* Every step keeps the types, and no step leaves a radio deaf.
LEMMA StepKeeps ==
    ASSUME TypeOK, [Next]_vars PROVE Kept
<1>1. CASE UNCHANGED vars
  BY <1>1 DEF vars, Kept, TypeOK, NeverDeaf, SessionConsistent
<1>2. ASSUME NEW n \in Nodes, Tick(n)
      PROVE  Kept
  <2>1. Commits(n) /\ UNCHANGED <<at, snapshot>>
    BY <1>2, TickCommits
  <2> QED BY <2>1, CommitsKeeps DEF Kept, TypeOK
<1>3. ASSUME NEW n \in Nodes, OnTxDone(n)
      PROVE  Kept
  <2>1. /\ TxStamped(n, node[n], radio[n].txStamp) \in Node
        /\ SessionConsistent =>
              Consistent(n, TxStamped(n, node[n], radio[n].txStamp))
    BY TxStampedType, TxStampedConsistent DEF TypeOK, Radio, SessionConsistent
  <2>2. RxOrClear(n, snapshot[n]) \in Steps
    BY DEF RxOrClear, Steps
  <2> QED BY <1>3, <2>1, <2>2
     DEF OnTxDone, Becomes, Kept, TypeOK, NeverDeaf, SessionConsistent
<1>4. ASSUME NEW n \in Nodes, OnRx(n)
      PROVE  Kept
  <2>1. CASE OnRxError(n)
    BY <2>1 DEF OnRxError, Kept, TypeOK, NeverDeaf, SessionConsistent, Steps
  <2>2. CASE Commits(n) /\ \E f \in radio[n].inbox : Reads(n, f)
    BY <2>2, CommitsKeeps DEF Reads, Kept, TypeOK, Steps
  <2> QED BY <1>4, <2>1, <2>2, OnRxCommits
<1>5. ASSUME NEW n \in Nodes, Air(n)
      PROVE  Kept
  BY <1>5, AirKeeps DEF Air, Kept, TypeOK, SessionConsistent
<1> QED BY <1>1, <1>2, <1>3, <1>4, <1>5, ReadStatusKeeps, ClearStatusKeeps,
           RecoverKeeps DEF Next, Host

\* The system starts with the right types and with every device listening.
LEMMA InitKeeps == Init => TypeOK /\ NeverDeaf /\ SessionConsistent
<1>1. \A n \in Nodes : NewNode(n) \in Node /\ Consistent(n, NewNode(n))
  BY NewNodeType, RoleAssumption DEF NewNode, IdleKind, Consistent
<1>2. StartReceive(Configured, TRUE) \in Radio
  BY ConfiguredType, StartReceiveType
<1>3. Reachable(StartReceive(Configured, TRUE))
  BY ConfiguredType, StartReceiveReachable
<1> QED BY <1>1, <1>2, <1>3
        DEF Init, TypeOK, NeverDeaf, SessionConsistent, Steps

-----------------------------------------------------------------------------
(* The invariants *)

\* Every handler leaves the node and the driver in a state of their types; in
\* particular no sequence number or blink counter leaves its range.
THEOREM TypeCorrect == Spec => []TypeOK
<1>1. Init => TypeOK
  BY InitKeeps
<1>2. TypeOK /\ [Next]_vars => TypeOK'
  BY StepKeeps DEF Kept
<1> QED BY <1>1, <1>2, PTL DEF Spec

\* No device ever becomes deaf: after every step of the host loop, of the
\* driver and of the air, its driver is listening, is sending, or has an event
\* pending whose clearing restarts the receiver.
THEOREM NeverDeafHolds == Spec => []NeverDeaf
<1>1. Init => NeverDeaf
  BY InitKeeps
<1>2. TypeOK /\ NeverDeaf /\ [Next]_vars => NeverDeaf'
  BY StepKeeps DEF Kept
<1> QED BY <1>1, <1>2, TypeCorrect, PTL DEF Spec

\* The session bookkeeping of ranging.rs agrees with the phase and the peer
\* table in every reachable state: what tick_async() and on_rx_async() conclude
\* from the two counts they compare is never about an anchor they forgot.
THEOREM SessionConsistentHolds == Spec => []SessionConsistent
<1>1. Init => SessionConsistent
  BY InitKeeps
<1>2. TypeOK /\ SessionConsistent /\ [Next]_vars => SessionConsistent'
  BY StepKeeps DEF Kept
<1> QED BY <1>1, <1>2, TypeCorrect, PTL DEF Spec
=============================================================================
