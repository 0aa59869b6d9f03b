----------------------------- MODULE RangingNode -----------------------------
(***************************************************************************)
(* The state of one RangingNode (ranging.rs) and the operations its        *)
(* handlers are made of, each a function from node state to node state.    *)
(* The handlers themselves are actions of RangingSystem.                   *)
(*                                                                         *)
(* What a Peer holds is spread over the functions lastSequence, stamps and *)
(* range; an absent peer has the values of Peer::new(), so that pushing a  *)
(* peer only adds it to the set.  The order of the peer table fixes the    *)
(* reply slots only and is left out, as are all times: when a timer has    *)
(* run out is decided in RangingSystem.  session stands for                *)
(* session_deadline_ms.is_some().                                          *)
(***************************************************************************)
EXTENDS Driver

CONSTANTS Tags, Anchors,     \* the nodes by Role
          MaxPeers,          \* capacity N of each node's peer table
          BlinkPeriod        \* tick() blinks again after this many rounds (20)

ASSUME RoleAssumption == Tags \cup Anchors = Nodes /\ Tags \cap Anchors = {}
ASSUME CapacityAssumption == MaxPeers \in [Nodes -> Nat] /\ BlinkPeriod \in Nat

NoSequence == 256            \* last_sequence is None

Node == [peers : SUBSET Nodes,
         lastSequence : [Nodes -> Byte \cup {NoSequence}],
         stamps : [Nodes -> Stamps],
         range : [Nodes -> Stamps],
         sequence : Byte,
         expected : {"Poll", "PollAck", "Range", "RangeReport"},
         lastTxKind : Kinds \cup {"None"},
         lastTxDestination : Nodes \cup {Broadcast},
         pollAcknowledged : SUBSET Nodes,
         rangeReportReceived : SUBSET Nodes,
         session : BOOLEAN,
         blinkCounter : 0..BlinkPeriod]

IdleKind(n) == IF n \in Tags THEN "PollAck" ELSE "Poll"

NewNode(n) ==
    [peers |-> {},
     lastSequence |-> [m \in Nodes |-> NoSequence],
     stamps |-> [m \in Nodes |-> NoStamps],
     range |-> [m \in Nodes |-> NoStamps],
     sequence |-> 0,
     expected |-> IdleKind(n),
     lastTxKind |-> "None",
     lastTxDestination |-> Broadcast,
     pollAcknowledged |-> {},
     rangeReportReceived |-> {},
     session |-> FALSE,
     blinkCounter |-> 0]

-----------------------------------------------------------------------------
(* Peer table *)

\* ensure_peer() can serve this address.
Admits(n, nd, m) == m \in nd.peers \/ Cardinality(nd.peers) < MaxPeers[n]

EnsurePeer(nd, m) == [nd EXCEPT !.peers = @ \cup {m}]

RemovePeer(nd, m) ==
    [nd EXCEPT !.peers = @ \ {m}, !.lastSequence[m] = NoSequence,
               !.stamps[m] = NoStamps, !.range[m] = NoStamps]

\* observe_peer_sequence(): a forward step of less than half the u8 circle.
IsFresh(nd, f) ==
    \/ nd.lastSequence[f.src] = NoSequence
    \/ (f.seq + 256 - nd.lastSequence[f.src]) % 256 \in 1..127

Observe(nd, f) == [nd EXCEPT !.lastSequence[f.src] = f.seq]

\* accept_header() lets the frame through.
AcceptsHeader(n, nd, f) ==
    /\ f.dst \in IF n \in Anchors THEN {n, Broadcast} ELSE {n}
    /\ f.src \in nd.peers
    /\ IsFresh(nd, f)

-----------------------------------------------------------------------------
(* Session *)

\* Mutated form of ResetProtocolState: the acknowledgements are kept.
ResetKeepsAcknowledged(n, nd) ==
    [nd EXCEPT !.expected = IdleKind(n),
               !.lastTxKind = "None",
               !.lastTxDestination = Broadcast,
               !.rangeReportReceived = {},
               !.session = FALSE]

ResetProtocolState(n, nd) ==
    [nd EXCEPT !.expected = IdleKind(n),
               !.lastTxKind = "None",
               !.lastTxDestination = Broadcast,
               !.pollAcknowledged = {},
               !.rangeReportReceived = {},
               !.session = FALSE]

BeginPollAckPhase(nd) ==
    [nd EXCEPT !.expected = "PollAck", !.pollAcknowledged = {},
               !.rangeReportReceived = {}, !.session = TRUE]

BeginRangeReportPhase(nd) ==
    [nd EXCEPT !.expected = "RangeReport", !.rangeReportReceived = {},
               !.session = TRUE]

SessionActive(nd) == nd.expected \in {"PollAck", "RangeReport"} /\ nd.session

-----------------------------------------------------------------------------
(* Sending: what every send_*() does to the node, and the frames they build *)

Sends(nd, kind, dst) ==
    [nd EXCEPT !.sequence = (@ + 1) % 256,
               !.lastTxKind = kind,
               !.lastTxDestination = dst]

NoTimes == [m \in Nodes |-> NoStamps]

Message(n, nd, kind, dst) ==
    [kind |-> kind, src |-> n, dst |-> dst, seq |-> nd.sequence,
     targets |-> {}, times |-> NoTimes]

\* send_poll(None): every peer is a target.
PollMessage(n, nd) ==
    [Message(n, nd, "Poll", Broadcast) EXCEPT !.targets = nd.peers]

\* Mutated form of RangeTargets: the acknowledgements are not looked at.
EveryPeerTargeted(nd) == nd.peers

\* send_range(None) lists the anchors that acknowledged, or every peer if
\* none did; only three of the stamps of each are in the frame.
RangeTargets(nd) ==
    IF nd.pollAcknowledged = {} THEN nd.peers
    ELSE nd.pollAcknowledged \cap nd.peers

RangeTiming(nd, m) ==
    [NoStamps EXCEPT !["pollSent"] = nd.stamps[m]["pollSent"],
                     !["pollAckReceived"] = nd.stamps[m]["pollAckReceived"],
                     !["rangeSent"] = nd.sequence]

RangeMessage(n, nd) ==
    [Message(n, nd, "Range", Broadcast) EXCEPT
        !.targets = RangeTargets(nd),
        !.times = [m \in Nodes |-> IF m \in RangeTargets(nd)
                                   THEN RangeTiming(nd, m) ELSE NoStamps]]

\* RangeReportPayload
ReportPayload(nd, t) ==
    [NoStamps EXCEPT !["pollReceived"] = nd.stamps[t]["pollReceived"],
                     !["pollAckSent"] = nd.stamps[t]["pollAckSent"],
                     !["rangeReceived"] = nd.stamps[t]["rangeReceived"]]

RangeReportMessage(n, nd, t) ==
    [Message(n, nd, "RangeReport", t) EXCEPT
        !.times = [NoTimes EXCEPT ![t] = ReportPayload(nd, t)]]

-----------------------------------------------------------------------------
(* What on_tx_done() and on_rx() do to the stamps *)

Stamped(nd, ms, name, s) ==
    [nd EXCEPT !.stamps =
        [m \in Nodes |-> IF m \in ms THEN [nd.stamps[m] EXCEPT ![name] = s]
                         ELSE nd.stamps[m]]]

\* Mutated form of TxStamped: an anchor stamps every peer, not the one it
\* answered.
TxStampedEveryPeer(n, nd, s) ==
    CASE n \in Anchors /\ nd.lastTxKind = "PollAck" ->
            Stamped(nd, nd.peers, "pollAckSent", s)
      [] n \in Tags /\ nd.lastTxKind = "Poll" ->
            Stamped(nd, nd.peers, "pollSent", s)
      [] n \in Tags /\ nd.lastTxKind = "Range" ->
            Stamped(nd, RangeTargets(nd), "rangeSent", s)
      [] OTHER -> nd

\* on_tx_done(): which peers' stamp the completed transmission provides.
TxStamped(n, nd, s) ==
    CASE n \in Anchors /\ nd.lastTxKind = "PollAck" ->
            Stamped(nd, {nd.lastTxDestination} \cap nd.peers, "pollAckSent", s)
      [] n \in Tags /\ nd.lastTxKind = "Poll" ->
            Stamped(nd, nd.peers, "pollSent", s)
      [] n \in Tags /\ nd.lastTxKind = "Range" ->
            Stamped(nd, RangeTargets(nd), "rangeSent", s)
      [] OTHER -> nd

\* The anchor's six stamps once a Range frame is in: three of its own, three
\* from the frame.  range_m is the distance asymmetric_tof() makes of them.
RangeStamped(n, nd, f) ==
    LET six == [nd.stamps[f.src] EXCEPT
                  !["rangeReceived"]   = f.seq,
                  !["pollSent"]        = f.times[n]["pollSent"],
                  !["pollAckReceived"] = f.times[n]["pollAckReceived"],
                  !["rangeSent"]       = f.times[n]["rangeSent"]]
    IN [nd EXCEPT !.stamps[f.src] = six, !.range[f.src] = six]

\* The tag's six stamps: the report's three are used and not kept.
ReportStamped(n, nd, f) ==
    [nd EXCEPT !.range[f.src] =
        [nd.stamps[f.src] EXCEPT
            !["pollReceived"]  = f.times[n]["pollReceived"],
            !["pollAckSent"]   = f.times[n]["pollAckSent"],
            !["rangeReceived"] = f.times[n]["rangeReceived"]]]
=============================================================================
