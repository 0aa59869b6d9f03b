---------------------------- MODULE RangingSystem ----------------------------
(***************************************************************************)
(* Tags and anchors that range over a shared, lossy air.  Each device runs *)
(* the host loop of the Embassy application (app.rs): it waits for the     *)
(* maintenance ticker or the radio's interrupt; a tick runs the whole of   *)
(* tick_async(); an interrupt is drained by rounds of                      *)
(*     read SYS_STATUS; on_tx_done; on_rx; clear_events(what was read)     *)
(* until the line is low.  The radio keeps running between those steps,    *)
(* and that is the concurrency modelled: other devices' frames and the end *)
(* of a transmission may come between any two of them.                     *)
(*                                                                         *)
(* Times are left out.  A tick may find a session or a peer expired when   *)
(* Patient does not forbid it, and a tag's slot open, at any moment.       *)
(***************************************************************************)
EXTENDS RangingNode

CONSTANTS Coordinators,   \* anchors configured with anchor_is_coordinator
          Recovering,     \* nodes whose link may be seen to stall
          Pruning,        \* nodes that may find a peer inactive
          Lossy,          \* frames may be missed, corrupted or not listened for
          Patient,        \* timeouts outlast the replies they wait for
          Overtaking,     \* a tick may come first with an interrupt pending
          PromptHost,     \* a drain round ends before its reply has left
          MaxTicks        \* bound: a tick starts to send below this sequence

ASSUME SystemAssumption ==
    /\ Coordinators \subseteq Anchors
    /\ Recovering \subseteq Nodes /\ Pruning \subseteq Nodes
    /\ {Lossy, Patient, Overtaking, PromptHost} \subseteq BOOLEAN
    /\ MaxTicks \in [Nodes -> 0..200]

VARIABLES node,       \* the RangingNode of each device
          radio,      \* the radio of each device
          at,         \* where the host loop of each device is
          snapshot    \* irq_status of its current drain round

vars == <<node, radio, at, snapshot>>

Steps == {"select", "drain", "txDone", "rx", "clear"}

TypeOK ==
    /\ node \in [Nodes -> Node]
    /\ radio \in [Nodes -> Radio]
    /\ at \in [Nodes -> Steps]
    /\ snapshot \in [Nodes -> SUBSET Events]

\* Every device has been started: radio.init() and start().
Init ==
    /\ node = [n \in Nodes |-> NewNode(n)]
    /\ radio = [n \in Nodes |-> StartReceive(Configured, TRUE)]
    /\ at = [n \in Nodes |-> "select"]
    /\ snapshot = [n \in Nodes |-> {}]

-----------------------------------------------------------------------------
(* Timeouts *)

\* Nothing n sent, and nothing sent to it, is still on its way.
Settled(n) ==
    /\ radio[n].outbox = {} /\ radio[n].status = {}
    /\ \A m \in Nodes \ {n} :
         /\ \A f \in radio[m].outbox : f.dst \notin {n, Broadcast}
         /\ \A f \in radio[m].inbox : f.src # n
         /\ at[m] = "select" \/ TxDone \notin snapshot[m]

MayTimeOut(n) == Patient => Settled(n)

-----------------------------------------------------------------------------
(* tick_async(), from the select of the host loop *)

\* The node becomes nd and hands f to its radio.
Transmits(n, nd, f) ==
    /\ node' = [node EXCEPT ![n] = Sends(nd, f.kind, f.dst)]
    /\ radio' = [radio EXCEPT ![n] = Transmit(@, f)]

Becomes(n, nd) ==
    /\ node' = [node EXCEPT ![n] = nd]
    /\ UNCHANGED radio

\* select() polls the ticker before the interrupt line.
Ticks(n) ==
    /\ at[n] = "select"
    /\ Overtaking \/ radio[n].status = {}
    /\ UNCHANGED <<at, snapshot>>

\* Poll acknowledgements timed out with some anchors in: range with those.
TickPollAckTimeout(n) ==
    LET nd == BeginRangeReportPhase(node[n]) IN
    /\ Ticks(n) /\ n \in Tags
    /\ node[n].session /\ MayTimeOut(n)
    /\ node[n].expected = "PollAck" /\ node[n].pollAcknowledged # {}
    /\ Transmits(n, nd, RangeMessage(n, nd))

\* Mutated form of TickSessionTimeout: only the acknowledgement phase expires.
TickPollAckPhaseEnds(n) ==
    /\ Ticks(n) /\ n \in Tags
    /\ node[n].session /\ MayTimeOut(n)
    /\ node[n].expected = "PollAck" /\ node[n].pollAcknowledged = {}
    /\ Becomes(n, ResetProtocolState(n, node[n]))

\* The session timed out with nothing to go on with.
TickSessionTimeout(n) ==
    /\ Ticks(n) /\ n \in Tags
    /\ node[n].session /\ MayTimeOut(n)
    /\ \/ node[n].expected = "PollAck" /\ node[n].pollAcknowledged = {}
       \/ node[n].expected = "RangeReport"
    /\ Becomes(n, ResetProtocolState(n, node[n]))

\* A peer has been silent for reset_period_ms.
TickPrunePeer(n) ==
    /\ Ticks(n) /\ n \in Pruning /\ MayTimeOut(n)
    /\ \E m \in node[n].peers :
         Becomes(n, ResetProtocolState(n, RemovePeer(node[n], m)))

\* The kinds sent at once, all of them by tick().  A reply may still wait in
\* the radio when the next round is due; one of these has long left.
Immediate == {"Blink", "ScheduleSync", "Poll"}

\* No session runs and range_period_ms has passed since the last round.
RoundDue(n) ==
    /\ ~ SessionActive(node[n])
    /\ \A f \in radio[n].outbox : f.kind \notin Immediate
    /\ TxDone \in radio[n].status => node[n].lastTxKind \notin Immediate
    /\ node[n].sequence < MaxTicks[n]

TickScheduleSync(n) ==
    /\ Ticks(n) /\ n \in Coordinators /\ RoundDue(n)
    /\ Transmits(n, node[n], Message(n, node[n], "ScheduleSync", Broadcast))

\* Mutated form of CountRound: the counter wraps one round late.
CountRoundLate(nd) ==
    [nd EXCEPT !.blinkCounter = IF @ > BlinkPeriod THEN 0 ELSE @ + 1]

\* The blink counter moves on after every round a tag starts.
CountRound(nd) ==
    [nd EXCEPT !.blinkCounter = IF @ >= BlinkPeriod THEN 0 ELSE @ + 1]

StartsRound(n) ==
    /\ Ticks(n) /\ n \in Tags /\ RoundDue(n) /\ MayTimeOut(n)

TickPoll(n) ==
    LET nd == BeginPollAckPhase(node[n]) IN
    /\ StartsRound(n)
    /\ node[n].peers # {} /\ node[n].blinkCounter # 0
    /\ Transmits(n, CountRound(nd), PollMessage(n, nd))

TickBlink(n) ==
    /\ StartsRound(n)
    /\ node[n].peers = {} \/ node[n].blinkCounter = 0
    /\ Transmits(n, CountRound(node[n]),
                 Message(n, node[n], "Blink", Broadcast))

Tick(n) ==
    \/ TickPollAckTimeout(n)
    \/ TickSessionTimeout(n)
    \/ TickPrunePeer(n)
    \/ TickScheduleSync(n)
    \/ TickPoll(n)
    \/ TickBlink(n)

-----------------------------------------------------------------------------
(* drain_irq() *)

RxOrClear(n, status) == IF status \cap ReceiveEvents # {} THEN "rx" ELSE "clear"

\* The interrupt line is high: read SYS_STATUS and branch on what was read.
ReadStatus(n) ==
    /\ at[n] \in {"select", "drain"}
    /\ radio[n].status # {}
    /\ snapshot' = [snapshot EXCEPT ![n] = radio[n].status]
    /\ at' = [at EXCEPT ![n] = IF TxDone \in radio[n].status THEN "txDone"
                               ELSE RxOrClear(n, radio[n].status)]
    /\ UNCHANGED <<node, radio>>

\* on_tx_done_async() reads TX_TIME as it is now.
OnTxDone(n) ==
    /\ at[n] = "txDone"
    /\ at' = [at EXCEPT ![n] = RxOrClear(n, snapshot[n])]
    /\ UNCHANGED snapshot
    /\ Becomes(n, TxStamped(n, node[n], radio[n].txStamp))

\* clear_events(irq_status), then another round while the line is high.
ClearStatus(n) ==
    LET r == ClearEvents(radio[n], snapshot[n]) IN
    /\ at[n] = "clear"
    /\ radio' = [radio EXCEPT ![n] = r]
    /\ at' = [at EXCEPT ![n] = IF r.status # {} THEN "drain" ELSE "select"]
    /\ snapshot' = [snapshot EXCEPT ![n] = {}]
    /\ UNCHANGED node

-----------------------------------------------------------------------------
(* on_rx_async(): one action for each way through the handler *)

\* The host is at on_rx and f is the frame read_frame() returns.
Reads(n, f) ==
    /\ at[n] = "rx"
    /\ FrameReadable(radio[n])
    /\ f \in radio[n].inbox
    /\ at' = [at EXCEPT ![n] = "clear"]
    /\ UNCHANGED snapshot

\* read_frame() reports a receive error, or that no frame is ready any more.
OnRxError(n) ==
    /\ at[n] = "rx"
    /\ ~ FrameReadable(radio[n])
    /\ at' = [at EXCEPT ![n] = "clear"]
    /\ UNCHANGED <<node, radio, snapshot>>

\* accept_blink(), accept_ranging_init() and accept_schedule_sync() admit a
\* sender not seen before, as long as the table has room.
Introduces(n, f) == Admits(n, node[n], f.src) /\ IsFresh(node[n], f)

AcceptsBlink(n, f) == n \in Anchors /\ f.kind = "Blink" /\ Introduces(n, f)

AcceptsSync(n, f) == /\ n \in Tags /\ f.kind = "ScheduleSync"
                     /\ f.dst \in {n, Broadcast} /\ Introduces(n, f)

AcceptsInit(n, f) == /\ n \in Tags /\ f.kind = "RangingInit"
                     /\ f.dst = n /\ Introduces(n, f)

\* The kinds each role hands to accept_header().
SessionKinds(n) ==
    IF n \in Tags THEN {"PollAck", "RangeReport"} ELSE {"Poll", "Range"}

AcceptsSession(n, f) ==
    f.kind \in SessionKinds(n) /\ AcceptsHeader(n, node[n], f)

\* An accepted frame of the kind the protocol expects next.
AcceptsExpected(n, f) == AcceptsSession(n, f) /\ f.kind = node[n].expected

\* decode_*() has room for the list, and this anchor is on it.
Lists(n, f) == Cardinality(f.targets) <= MaxPeers[n] /\ n \in f.targets

Introduced(n, f) == Observe(EnsurePeer(node[n], f.src), f)

OnBlink(n, f) ==
    LET nd == ResetProtocolState(n, Introduced(n, f)) IN
    /\ Reads(n, f) /\ AcceptsBlink(n, f)
    /\ Transmits(n, nd, Message(n, nd, "RangingInit", f.src))

OnScheduleSync(n, f) ==
    /\ Reads(n, f) /\ AcceptsSync(n, f)
    /\ Becomes(n, Introduced(n, f))

OnRangingInit(n, f) ==
    /\ Reads(n, f) /\ AcceptsInit(n, f)
    /\ Becomes(n, ResetProtocolState(n, Introduced(n, f)))

\* A frame of the wrong phase resets the protocol.
OnUnexpected(n, f) ==
    /\ Reads(n, f)
    /\ AcceptsSession(n, f) /\ ~ AcceptsExpected(n, f)
    /\ Becomes(n, ResetProtocolState(n, Observe(node[n], f)))

\* A Poll or Range that does not list this anchor only counts as heard.
OnUnlisted(n, f) ==
    /\ Reads(n, f) /\ n \in Anchors
    /\ AcceptsExpected(n, f) /\ ~ Lists(n, f)
    /\ Becomes(n, Observe(node[n], f))

OnPoll(n, f) ==
    LET nd == [Stamped(Observe(node[n], f), {f.src}, "pollReceived", f.seq)
                 EXCEPT !.expected = "Range"] IN
    /\ Reads(n, f) /\ f.kind = "Poll"
    /\ AcceptsExpected(n, f) /\ Lists(n, f)
    /\ Transmits(n, nd, Message(n, nd, "PollAck", f.src))

Acknowledged(n, f) ==
    [Stamped(Observe(node[n], f), {f.src}, "pollAckReceived", f.seq)
        EXCEPT !.pollAcknowledged = @ \cup {f.src}]

AllAcknowledged(nd) == Cardinality(nd.pollAcknowledged) = Cardinality(nd.peers)

OnPollAck(n, f) ==
    /\ Reads(n, f) /\ f.kind = "PollAck" /\ AcceptsExpected(n, f)
    /\ ~ AllAcknowledged(Acknowledged(n, f))
    /\ Becomes(n, Acknowledged(n, f))

OnLastPollAck(n, f) ==
    LET nd == BeginRangeReportPhase(Acknowledged(n, f)) IN
    /\ Reads(n, f) /\ f.kind = "PollAck" /\ AcceptsExpected(n, f)
    /\ AllAcknowledged(Acknowledged(n, f))
    /\ Transmits(n, nd, RangeMessage(n, nd))

OnRange(n, f) ==
    LET nd == [RangeStamped(n, Observe(node[n], f), f)
                 EXCEPT !.expected = "Poll"] IN
    /\ Reads(n, f) /\ f.kind = "Range"
    /\ AcceptsExpected(n, f) /\ Lists(n, f)
    /\ Transmits(n, nd, RangeReportMessage(n, nd, f.src))

\* Mutated form of OnRangeReport: the session waits for every peer.
OnRangeReportOfAll(n, f) ==
    LET nd == [ReportStamped(n, Observe(node[n], f), f)
                 EXCEPT !.rangeReportReceived = @ \cup {f.src}] IN
    /\ Reads(n, f) /\ f.kind = "RangeReport" /\ AcceptsExpected(n, f)
    /\ Becomes(n, IF Cardinality(nd.rangeReportReceived)
                       >= Cardinality(nd.peers)
                  THEN ResetProtocolState(n, nd) ELSE nd)

\* The session ends with the last of the anchors that acknowledged.
OnRangeReport(n, f) ==
    LET nd == [ReportStamped(n, Observe(node[n], f), f)
                 EXCEPT !.rangeReportReceived = @ \cup {f.src}] IN
    /\ Reads(n, f) /\ f.kind = "RangeReport" /\ AcceptsExpected(n, f)
    /\ Becomes(n, IF Cardinality(nd.rangeReportReceived)
                       >= Cardinality(nd.pollAcknowledged)
                  THEN ResetProtocolState(n, nd) ELSE nd)

\* For another address or role, stale, or from a sender not in the table.
OnIgnored(n, f) ==
    /\ Reads(n, f)
    /\ ~ (AcceptsBlink(n, f) \/ AcceptsSync(n, f) \/ AcceptsInit(n, f))
    /\ ~ AcceptsSession(n, f)
    /\ UNCHANGED <<node, radio>>

OnRx(n) ==
    \/ OnRxError(n)
    \/ \E f \in radio[n].inbox :
         \/ OnBlink(n, f)
         \/ OnScheduleSync(n, f)
         \/ OnRangingInit(n, f)
         \/ OnUnexpected(n, f)
         \/ OnUnlisted(n, f)
         \/ OnPoll(n, f)
         \/ OnPollAck(n, f)
         \/ OnLastPollAck(n, f)
         \/ OnRange(n, f)
         \/ OnRangeReport(n, f)
         \/ OnIgnored(n, f)

-----------------------------------------------------------------------------
(* Recovery *)

\* recover_stalled_link_if_needed() found a stalled link, or a register or
\* pin access failed somewhere in the loop: the radio is initialised anew
\* and recover_link_async() runs.  A handler that fails half way is the whole
\* handler followed by this, for what it gave the radio is taken back.
Recover(n) ==
    /\ n \in Recovering
    /\ node' = [node EXCEPT ![n] = ResetProtocolState(n, @)]
    /\ radio' = [radio EXCEPT ![n] = StartReceive(Configured, TRUE)]
    /\ at' = [at EXCEPT ![n] = "select"]
    /\ snapshot' = [snapshot EXCEPT ![n] = {}]

-----------------------------------------------------------------------------
(* The air (external) *)

Hearers(n) == {m \in Nodes \ {n} : Hears(radio[m])}

\* The frame leaves n.  Of the radios that listen some receive it, some get
\* it corrupted and some miss it.  Unless the air is lossy a frame leaves when
\* everyone listens, the reply delay being longer than a drain, and arrives.
Air(n) ==
    /\ PromptHost => at[n] # "clear"
    /\ \E f \in radio[n].outbox, good, bad \in SUBSET Nodes :
         /\ good \cap bad = {} /\ good \cup bad \subseteq Hearers(n)
         /\ Lossy \/ good = Nodes \ {n}
         /\ radio' = [m \in Nodes |->
              CASE m = n      -> FrameSent(radio[m])
                [] m \in good -> FrameReceived(radio[m], f)
                [] m \in bad  -> FrameCorrupted(radio[m])
                [] OTHER      -> radio[m]]
    /\ UNCHANGED <<node, at, snapshot>>

Host(n) == ReadStatus(n) \/ OnTxDone(n) \/ OnRx(n) \/ ClearStatus(n)

Next == \E n \in Nodes : Tick(n) \/ Host(n) \/ Recover(n) \/ Air(n)

Spec == Init /\ [][Next]_vars

\* The executor polls the host loop, the chip finishes what it was told to
\* send, and the ticker keeps firing, so an expired session is seen.  Nothing
\* is assumed of new rounds, of pruning, of recovery or of the air's losses.
Expire(n) == TickPollAckTimeout(n) \/ TickSessionTimeout(n)

Fairness == \A n \in Nodes : /\ WF_vars(Host(n))
                             /\ WF_vars(Air(n))
                             /\ WF_vars(Expire(n))

FairSpec == Spec /\ Fairness

-----------------------------------------------------------------------------
(* Properties *)

\* Every device can still be reached: its driver listens, or sends, or has an
\* event pending whose handling makes it listen again.  A driver that misses
\* its re-arm in clear_events() is deaf until the link is reinitialised.
NeverDeaf == \A n \in Nodes : Reachable(radio[n])

\* The session bookkeeping of ranging.rs agrees with the phase and with the
\* peer table, whatever is lost, late, pruned or recovered: only peers count
\* as having answered, an anchor never runs a session, and a tag that expects
\* reports has a deadline and at least one anchor to hear from.
Consistent(n, nd) ==
    /\ nd.pollAcknowledged \subseteq nd.peers
    /\ nd.rangeReportReceived \subseteq nd.peers
    /\ n \in Anchors => /\ ~ nd.session
                        /\ nd.pollAcknowledged = {}
                        /\ nd.expected \in {"Poll", "Range"}
    /\ n \in Tags => /\ nd.expected \in {"PollAck", "RangeReport"}
                     /\ nd.expected = "RangeReport" =>
                           nd.session /\ nd.pollAcknowledged # {}

SessionConsistent == \A n \in Nodes : Consistent(n, node[n])

\* Six stamps of one exchange: both ends of each frame measured that frame.
Coherent(s) == /\ s["pollSent"] = s["pollReceived"]
               /\ s["pollAckSent"] = s["pollAckReceived"]
               /\ s["rangeSent"] = s["rangeReceived"]

\* Every distance a tag or an anchor reports (RangeUpdated) was computed from
\* the six timestamps of one exchange, each the one its field is named for.
RangesCoherent == \A n, m \in Nodes : Coherent(node[n].range[m])

\* The sessions of the tags, and the distances at both ends, as RangingSession
\* has them.
PhaseOf(nd) ==
    CASE ~ nd.session -> "idle"
      [] nd.session /\ nd.expected = "PollAck" -> "polling"
      [] OTHER -> "ranging"

Session == INSTANCE RangingSession WITH
    Polls      <- Byte,
    NoDistance <- NoStamp,
    phase      <- [t \in Tags |-> PhaseOf(node[t])],
    answered   <- [t \in Tags |-> node[t].pollAcknowledged],
    reported   <- [t \in Tags |-> node[t].rangeReportReceived],
    distance   <- [n \in Nodes |-> [m \in Nodes |->
                      node[n].range[m]["pollSent"]]]

\* Handlers, host loops and air together implement RangingSession: an anchor
\* measures only a tag that is ranging and still waits for it, both ends of a
\* pair measure the same exchange, each exchange once and in order, and what a
\* session has collected is never carried into the next one.
Promise == Session!Spec

\* A frame handed to the radio stays there until it has left the antenna:
\* neither the clearing of events nor the next transmission takes it back.
FramesLeave ==
    [][\A n \in Nodes : \A f \in radio[n].outbox :
          \/ radio'[n].outbox = {f}
          \/ TxDone \in radio'[n].status /\ radio'[n].txStamp = f.seq]_vars

\* Clearing what a drain round has read takes no frame back from the radio:
\* a reply that on_rx() has just scheduled survives the clear_events() after it.
ClearKeepsPending ==
    [][\A n \in Nodes :
          ClearStatus(n) => radio'[n].outbox = radio[n].outbox]_vars

\* Every session of a tag ends, whatever is lost.
SessionsEnd == \A t \in Tags : node[t].session ~> ~ node[t].session

\* Every device listens again and again: none stays in its transmit state or
\* with a frame nobody reads.
ListensAgain == \A n \in Nodes : []<>(radio[n].receiving)
=============================================================================
