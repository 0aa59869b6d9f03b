---------------------------- MODULE ExchangeProofs ----------------------------
(***************************************************************************)
(* FramesLeave and RangesCoherent of RangingSystem, for every set of tags  *)
(* and anchors, every air and every capacity of the peer tables: a frame   *)
(* handed to the radio leaves, and every distance is computed from the six *)
(* timestamps of one exchange.                                             *)
(*                                                                         *)
(* Undisturbed is what the runs of these properties assume too: timeouts   *)
(* outlast the replies they wait for, no coordinator syncs between a reply *)
(* and its TX interrupt, and no link is reinitialised.                     *)
(*                                                                         *)
(* FramesLeave needs Driven, how driver, host loop and chip stay in step.  *)
(* RangesCoherent needs to compare what two devices know of a frame.  The  *)
(* stamps of a frame are taken late: the sender's by on_tx_done(), when    *)
(* its frame has left, the receiver's by on_rx().  Seen shows every device *)
(* as it will be once the host loop has caught up with its radio, so that  *)
(* what both ends know of a frame can be compared as soon as it is sent.   *)
(* Exchanges then says, of every tag and every anchor, that they take      *)
(* turns (OneAtATime), what a frame on its way finds at its sender         *)
(* (CallOK, ReplyOK), and that the stamps of the frames behind them agree  *)
(* (Agreed).                                                               *)
(***************************************************************************)
EXTENDS RangingProofs, FiniteSetTheorems

Undisturbed == Patient /\ Coordinators = {} /\ Recovering = {}

-----------------------------------------------------------------------------
(* How driver, host loop and chip stay in step *)

\* The driver of a started device listens or sends.  While it listens no
\* frame is in the outbox; while it sends, the frame is there or TX_FRAME_SENT
\* is up, and receive events are left over only until clear_events() has run.
\* A drain round that found TX_FRAME_SENT found nothing else, so on_rx() only
\* ever runs while the driver listens.
Driven(r, p, s) ==
    /\ r.permanent /\ r.state # "Idle"
    /\ r.state = "Rx" => /\ r.outbox = {} /\ TxDone \notin r.status
                         /\ RxGood \in r.status => ~ r.receiving
    /\ r.state = "Tx" =>
         /\ r.rxAfterTx /\ ~ r.receiving
         /\ r.outbox = {} <=> TxDone \in r.status
         /\ r.status \cap ReceiveEvents # {} =>
               /\ p = "clear" /\ TxDone \notin s
               /\ r.status \ {TxDone} \subseteq s
    /\ r.inbox # {} <=> RxGood \in r.status
    /\ \A f, g \in r.outbox : f = g
    /\ \A f, g \in r.inbox : f = g
    /\ s \subseteq r.status
    /\ TxDone \in s => s = {TxDone}
    /\ p \in {"select", "drain"} => s = {}
    /\ p = "txDone" => s = {TxDone}
    /\ p = "rx" => TxDone \notin s /\ r.state = "Rx"
    /\ p \in {"rx", "clear"} => s # {}

AllDriven == \A n \in Nodes : Driven(radio[n], at[n], snapshot[n])

\* A device is driven from the start.
LEMMA DrivenStart == Driven(StartReceive(Configured, TRUE), "select", {})
BY DEF StartReceive, Acknowledge, Idle, Configured, Driven, TxDone, RxGood,
       ReceiveEvents

\* Reading SYS_STATUS leads to the branch that fits what was read.
LEMMA DrivenReads ==
    ASSUME NEW n, NEW r \in Radio, r.status # {},
           NEW p \in {"select", "drain"}, Driven(r, p, {})
    PROVE  Driven(r, IF TxDone \in r.status THEN "txDone"
                     ELSE RxOrClear(n, r.status), r.status)
BY DEF Driven, RxOrClear, Radio, Events, TxDone, RxGood, RxError, ReceiveEvents

\* After on_tx_done() nothing is left for on_rx().
LEMMA DrivenStamps ==
    ASSUME NEW n, NEW r \in Radio, NEW s, Driven(r, "txDone", s)
    PROVE  Driven(r, RxOrClear(n, s), s) /\ RxOrClear(n, s) = "clear"
BY DEF Driven, RxOrClear, TxDone, RxGood, RxError, ReceiveEvents

\* on_rx() may leave the radio alone.
LEMMA DrivenHandled ==
    ASSUME NEW r \in Radio, NEW s, Driven(r, "rx", s)
    PROVE  Driven(r, "clear", s)
BY DEF Driven

\* A frame can be read only in a round that found nothing but that frame.
LEMMA DrivenReadable ==
    ASSUME NEW r \in Radio, NEW s, Driven(r, "rx", s), FrameReadable(r)
    PROVE  s = {RxGood} /\ r.status = {RxGood}
<1>1. /\ r.status \subseteq Events /\ s \subseteq r.status /\ s # {}
      /\ TxDone \notin r.status
  BY DEF Driven, Radio
<1>2. RxGood \in r.status /\ RxError \notin r.status
  BY DEF FrameReadable
<1>3. \A e \in r.status : e = RxGood
  BY <1>1, <1>2 DEF Events
<1> QED BY <1>1, <1>2, <1>3

\* What transmit() makes of a driver that listens.
LEMMA TransmitFields ==
    ASSUME NEW r \in Radio, NEW f, r.permanent
    PROVE  LET q == Transmit(r, f) IN
           /\ q.state = "Tx" /\ q.permanent /\ q.rxAfterTx /\ ~ q.receiving
           /\ q.outbox = {f} /\ q.txStamp = r.txStamp
           /\ q.status = r.status \ {TxDone} /\ q.inbox = r.inbox
BY DEF Transmit, Acknowledge, Idle, Radio, TxDone, RxGood

\* A reply sent by on_rx().
LEMMA DrivenReplies ==
    ASSUME NEW r \in Radio, NEW f \in Frame, NEW s,
           Driven(r, "rx", s), FrameReadable(r)
    PROVE  Driven(Transmit(r, f), "clear", s)
<1>1. s = {RxGood} /\ r.status = {RxGood} /\ r.permanent
  BY DrivenReadable DEF Driven
<1> QED BY <1>1, TransmitFields
        DEF Driven, TxDone, RxGood, ReceiveEvents, RxError

\* A frame sent by a tick that has nothing pending.
LEMMA DrivenSends ==
    ASSUME NEW r \in Radio, NEW f \in Frame,
           Driven(r, "select", {}), r.status = {}, r.outbox = {}
    PROVE  Driven(Transmit(r, f), "select", {}) /\ r.state = "Rx"
<1>1. r.state = "Rx" /\ r.permanent
  BY DEF Driven, Radio
<1> QED BY <1>1, TransmitFields DEF Driven, ReceiveEvents

\* What clear_events() leaves.
LEMMA ClearFields ==
    ASSUME NEW r \in Radio, NEW s, Driven(r, "clear", s)
    PROVE  LET q == ClearEvents(r, s) IN
           /\ q.outbox = r.outbox /\ q.txStamp = r.txStamp /\ q.inbox = {}
           /\ q.state = IF TxDone \in s THEN "Rx" ELSE r.state
<1>1. CASE ShouldRestartReceive(r, s)
  BY <1>1 DEF Driven, ClearEvents, ShouldRestartReceive, StartReceive, Idle,
              Acknowledge, Radio, TxDone, RxGood, ReceiveEvents
<1>2. CASE ~ ShouldRestartReceive(r, s)
  BY <1>2 DEF Driven, ClearEvents, ShouldRestartReceive, Acknowledge, Radio,
              Events, TxDone, RxGood, RxError, ReceiveEvents
<1> QED BY <1>1, <1>2

\* clear_events() ends the round with the driver listening, unless it sends.
LEMMA DrivenClears ==
    ASSUME NEW r \in Radio, NEW s, Driven(r, "clear", s),
           NEW p \in {"select", "drain"}
    PROVE  Driven(ClearEvents(r, s), p, {})
<1>1. CASE ShouldRestartReceive(r, s)
  BY <1>1 DEF Driven, ClearEvents, ShouldRestartReceive, StartReceive, Idle,
              Acknowledge, Radio, Events, TxDone, RxGood, RxError, ReceiveEvents
<1>2. CASE ~ ShouldRestartReceive(r, s)
  BY <1>2 DEF Driven, ClearEvents, ShouldRestartReceive, Acknowledge, Radio,
              Events, TxDone, RxGood, RxError, ReceiveEvents
<1> QED BY <1>1, <1>2

\* The end of a transmission raises TX_FRAME_SENT, with the frame's time.
LEMMA SentFields ==
    ASSUME NEW r \in Radio, NEW p, NEW s, NEW f \in r.outbox, Driven(r, p, s)
    PROVE  LET q == FrameSent(r) IN
           /\ r.state = "Tx" /\ q.state = "Tx" /\ q.outbox = {}
           /\ q.status = r.status \cup {TxDone} /\ q.txStamp = f.seq
           /\ q.inbox = r.inbox /\ q.permanent = r.permanent
           /\ q.rxAfterTx = r.rxAfterTx /\ q.receiving = r.receiving
<1>1. \A g \in r.outbox : g = f
  BY DEF Driven
<1>2. (CHOOSE g \in r.outbox : TRUE) = f
  BY <1>1
<1>3. FrameSent(r) = [r EXCEPT !.outbox = {}, !.status = @ \cup {TxDone},
                               !.txStamp = f.seq]
  BY <1>2 DEF FrameSent
<1>4. r.state = "Tx"
  BY DEF Driven, Radio
<1> QED BY <1>3, <1>4 DEF Radio

\* It keeps driver, host loop and chip in step.
LEMMA DrivenSent ==
    ASSUME NEW r \in Radio, NEW p, NEW s, NEW f \in r.outbox, Driven(r, p, s)
    PROVE  Driven(FrameSent(r), p, s)
<1> DEFINE q == FrameSent(r)
<1>1. /\ r.state = "Tx" /\ q.state = "Tx" /\ q.outbox = {}
      /\ q.status = r.status \cup {TxDone}
      /\ q.inbox = r.inbox /\ q.permanent = r.permanent
      /\ q.rxAfterTx = r.rxAfterTx /\ q.receiving = r.receiving
  BY SentFields
<1> HIDE DEF q
<1>2. TxDone \notin s /\ r.status \subseteq Events
  BY DEF Driven, Radio
<1>3. Driven(q, p, s)
  BY <1>1, <1>2 DEF Driven, Events, TxDone, RxGood, RxError, ReceiveEvents
<1> QED BY <1>3 DEF q

\* Only a driver that listens hears.
LEMMA DrivenHears ==
    ASSUME NEW r \in Radio, NEW p, NEW s, NEW f \in Frame, Hears(r),
           Driven(r, p, s)
    PROVE  /\ Driven(FrameReceived(r, f), p, s)
           /\ Driven(FrameCorrupted(r), p, s)
           /\ r.state = "Rx" /\ r.outbox = {} /\ r.inbox = {}
BY DEF Driven, Hears, FrameReceived, FrameCorrupted, Radio, Events, TxDone,
       RxGood, RxError, ReceiveEvents

-----------------------------------------------------------------------------
(* The steps *)

\* A tick that does anything finds nothing on its way from or to the node.
LEMMA TickSettled ==
    ASSUME Undisturbed, NEW n \in Nodes, Tick(n)
    PROVE  Settled(n) /\ at[n] = "select" /\ n \notin Coordinators
BY DEF Undisturbed, Tick, TickPollAckTimeout, TickSessionTimeout,
       TickPrunePeer, TickScheduleSync, TickPoll, TickBlink, StartsRound,
       MayTimeOut, Ticks

\* Who is touched by a frame's passage through the air, and how.
LEMMA AirSteps ==
    ASSUME TypeOK, NEW n \in Nodes, Air(n)
    PROVE  /\ UNCHANGED <<node, at, snapshot>>
           /\ \E f \in radio[n].outbox :
                /\ radio'[n] = FrameSent(radio[n])
                /\ \A m \in Nodes \ {n} :
                     \/ radio'[m] = radio[m]
                     \/ /\ Hears(radio[m])
                        /\ \/ radio'[m] = FrameReceived(radio[m], f)
                           \/ radio'[m] = FrameCorrupted(radio[m])
<1>1. PICK f \in radio[n].outbox, good \in SUBSET Nodes, bad \in SUBSET Nodes :
         /\ good \cup bad \subseteq Hearers(n) /\ good \cap bad = {}
         /\ radio' = [m \in Nodes |->
              CASE m = n      -> FrameSent(radio[m])
                [] m \in good -> FrameReceived(radio[m], f)
                [] m \in bad  -> FrameCorrupted(radio[m])
                [] OTHER      -> radio[m]]
  BY DEF Air
<1>2. radio'[n] = FrameSent(radio[n])
  BY <1>1 DEF Hearers
<1>3. ASSUME NEW m \in Nodes \ {n}
      PROVE  \/ radio'[m] = radio[m]
             \/ /\ Hears(radio[m])
                /\ \/ radio'[m] = FrameReceived(radio[m], f)
                   \/ radio'[m] = FrameCorrupted(radio[m])
  <2>1. m \in good \cup bad => Hears(radio[m])
    BY <1>1 DEF Hearers
  <2> QED BY <1>1, <2>1
<1> QED BY <1>1, <1>2, <1>3 DEF Air

\* What FramesLeave asks of a step.
Leaves ==
    \A n \in Nodes : \A f \in radio[n].outbox :
       \/ radio'[n].outbox = {f}
       \/ TxDone \in radio'[n].status /\ radio'[n].txStamp = f.seq

\* A frame that stays in the outbox has not been lost.
LEMMA SameOutbox ==
    ASSUME AllDriven, NEW n \in Nodes,
           radio'[n].outbox = radio[n].outbox, NEW f \in radio[n].outbox
    PROVE  radio'[n].outbox = {f}
BY DEF AllDriven, Driven

\* Any step of the node's logic, from a tick or from on_rx().
LEMMA CommitDriven ==
    ASSUME TypeOK, AllDriven, NEW n \in Nodes, Commits(n), UNCHANGED snapshot,
           \/ at[n] = "select" /\ Settled(n) /\ UNCHANGED at
           \/ /\ at[n] = "rx" /\ FrameReadable(radio[n])
              /\ at' = [at EXCEPT ![n] = "clear"]
    PROVE  AllDriven' /\ Leaves
<1>1. /\ radio \in [Nodes -> Radio] /\ at \in [Nodes -> Steps]
      /\ \A m \in Nodes : Driven(radio[m], at[m], snapshot[m])
  BY DEF TypeOK, AllDriven
<1>2. \A m \in Nodes \ {n} : at'[m] = at[m] /\ snapshot'[m] = snapshot[m]
  BY <1>1
<1>3. Driven(radio[n], at'[n], snapshot'[n])
  BY <1>1, DrivenHandled
<1>4. CASE UNCHANGED radio
  <2>1. AllDriven'
    BY <1>1, <1>2, <1>3, <1>4 DEF AllDriven
  <2> QED BY <1>4, <2>1, SameOutbox DEF Leaves
<1>5. ASSUME NEW f \in Frame, radio' = [radio EXCEPT ![n] = Transmit(@, f)]
      PROVE  AllDriven' /\ Leaves
  <2>1. /\ \A m \in Nodes \ {n} : radio'[m] = radio[m]
        /\ radio'[n] = Transmit(radio[n], f)
    BY <1>1, <1>5
  <2>2. CASE at[n] = "select" /\ Settled(n) /\ UNCHANGED at
    <3>1. /\ radio[n].status = {} /\ radio[n].outbox = {}
          /\ snapshot[n] = {} /\ at'[n] = "select"
      BY <1>1, <2>2 DEF Settled, Driven
    <3>2. Driven(Transmit(radio[n], f), "select", {})
      BY <1>1, <2>2, <3>1, DrivenSends
    <3>3. AllDriven'
      BY <1>1, <1>2, <2>1, <3>1, <3>2 DEF AllDriven
    <3> QED BY <2>1, <3>1, <3>3, SameOutbox DEF Leaves
  <2>3. CASE /\ at[n] = "rx" /\ FrameReadable(radio[n])
             /\ at' = [at EXCEPT ![n] = "clear"]
    <3>1. radio[n].outbox = {} /\ at'[n] = "clear" /\ snapshot'[n] = snapshot[n]
      BY <1>1, <2>3 DEF Driven
    <3>2. Driven(Transmit(radio[n], f), "clear", snapshot[n])
      BY <1>1, <2>3, DrivenReplies
    <3>3. AllDriven'
      BY <1>1, <1>2, <2>1, <3>1, <3>2 DEF AllDriven
    <3> QED BY <2>1, <3>1, <3>3, SameOutbox DEF Leaves
  <2> QED BY <2>2, <2>3
<1>6. \/ UNCHANGED radio
      \/ \E f \in Frame : radio' = [radio EXCEPT ![n] = Transmit(@, f)]
  BY DEF Commits, Becomes, Transmits
<1> QED BY <1>4, <1>5, <1>6

\* The passage of a frame through the air.
LEMMA AirDriven ==
    ASSUME TypeOK, AllDriven, NEW n \in Nodes, Air(n)
    PROVE  AllDriven' /\ Leaves
<1>1. /\ \A m \in Nodes : /\ radio[m] \in Radio
                           /\ Driven(radio[m], at[m], snapshot[m])
      /\ \A m \in Nodes : radio[m].outbox \subseteq Frame
  BY DEF TypeOK, AllDriven, Radio
<1>2. PICK f \in radio[n].outbox :
         /\ radio'[n] = FrameSent(radio[n])
         /\ \A m \in Nodes \ {n} :
              \/ radio'[m] = radio[m]
              \/ /\ Hears(radio[m])
                 /\ \/ radio'[m] = FrameReceived(radio[m], f)
                    \/ radio'[m] = FrameCorrupted(radio[m])
  BY AirSteps
<1>3. UNCHANGED <<node, at, snapshot>>
  BY AirSteps
<1>4. ASSUME NEW m \in Nodes
      PROVE  /\ Driven(radio'[m], at[m], snapshot[m])
             /\ \A g \in radio[m].outbox :
                   \/ radio'[m].outbox = {g}
                   \/ TxDone \in radio'[m].status /\ radio'[m].txStamp = g.seq
  <2>0. \A g, h \in radio[m].outbox : g = h
    <3>1. Driven(radio[m], at[m], snapshot[m])
      BY <1>1
    <3> QED BY <3>1 DEF Driven
  <2>1. CASE m = n
    <3>1. \A g \in radio[n].outbox : g = f
      BY <1>2, <2>0, <2>1
    <3>2. /\ Driven(FrameSent(radio[n]), at[n], snapshot[n])
          /\ TxDone \in FrameSent(radio[n]).status
          /\ FrameSent(radio[n]).txStamp = f.seq
      BY <1>1, DrivenSent, SentFields
    <3> QED BY <1>2, <2>1, <3>1, <3>2
  <2>2. CASE m # n /\ radio'[m] = radio[m]
    BY <1>1, <2>0, <2>2
  <2>3. CASE m # n /\ radio'[m] # radio[m]
    <3>1. f \in Frame /\ Hears(radio[m])
      BY <1>1, <1>2, <2>3
    <3>2. \/ radio'[m] = FrameReceived(radio[m], f)
          \/ radio'[m] = FrameCorrupted(radio[m])
      BY <1>2, <2>3
    <3>3. /\ Driven(FrameReceived(radio[m], f), at[m], snapshot[m])
          /\ Driven(FrameCorrupted(radio[m]), at[m], snapshot[m])
          /\ radio[m].outbox = {}
      BY <1>1, <3>1, DrivenHears
    <3> QED BY <3>2, <3>3
  <2> QED BY <2>1, <2>2, <2>3
<1> QED BY <1>3, <1>4 DEF AllDriven, Leaves

\* The host loop's own steps, around the handlers.
LEMMA HostDriven ==
    ASSUME TypeOK, AllDriven, NEW n \in Nodes,
           ReadStatus(n) \/ OnTxDone(n) \/ OnRxError(n) \/ ClearStatus(n)
    PROVE  AllDriven' /\ Leaves
<1>1. /\ radio \in [Nodes -> Radio] /\ at \in [Nodes -> Steps]
      /\ snapshot \in [Nodes -> SUBSET Events] /\ radio[n] \in Radio
      /\ \A m \in Nodes : Driven(radio[m], at[m], snapshot[m])
  BY DEF TypeOK, AllDriven
<1>2. ASSUME \A m \in Nodes \ {n} : /\ radio'[m] = radio[m] /\ at'[m] = at[m]
                                    /\ snapshot'[m] = snapshot[m],
             Driven(radio'[n], at'[n], snapshot'[n]),
             radio'[n].outbox = radio[n].outbox
      PROVE  AllDriven' /\ Leaves
  <2>1. AllDriven'
    BY <1>1, <1>2 DEF AllDriven
  <2>2. \A m \in Nodes : radio'[m].outbox = radio[m].outbox
    BY <1>2
  <2> QED BY <2>1, <2>2, SameOutbox DEF Leaves
<1>3. CASE ReadStatus(n)
  <2>1. /\ snapshot[n] = {} /\ snapshot'[n] = radio[n].status
        /\ at'[n] = IF TxDone \in radio[n].status THEN "txDone"
                    ELSE RxOrClear(n, radio[n].status)
        /\ UNCHANGED radio
        /\ \A m \in Nodes \ {n} : at'[m] = at[m] /\ snapshot'[m] = snapshot[m]
    BY <1>1, <1>3 DEF ReadStatus, Driven
  <2>2. Driven(radio[n], IF TxDone \in radio[n].status THEN "txDone"
                         ELSE RxOrClear(n, radio[n].status), radio[n].status)
    BY <1>1, <1>3, <2>1, DrivenReads DEF ReadStatus
  <2> QED BY <1>2, <2>1, <2>2
<1>4. CASE OnTxDone(n)
  BY <1>1, <1>2, <1>4, DrivenStamps DEF OnTxDone, Becomes
<1>5. CASE OnRxError(n)
  BY <1>1, <1>2, <1>5, DrivenHandled DEF OnRxError
<1>6. CASE ClearStatus(n)
  <2> DEFINE r == ClearEvents(radio[n], snapshot[n])
  <2>1. /\ radio'[n] = r /\ at'[n] \in {"drain", "select"} /\ snapshot'[n] = {}
        /\ at[n] = "clear"
        /\ \A m \in Nodes \ {n} : /\ radio'[m] = radio[m] /\ at'[m] = at[m]
                                  /\ snapshot'[m] = snapshot[m]
    BY <1>1, <1>6 DEF ClearStatus
  <2>2. Driven(r, at'[n], {}) /\ r.outbox = radio[n].outbox
    BY <1>1, <2>1, DrivenClears, ClearFields
  <2> HIDE DEF r
  <2> QED BY <1>2, <2>1, <2>2
<1> QED BY <1>3, <1>4, <1>5, <1>6

\* No step puts driver, host loop and chip out of step, or loses a frame.
LEMMA StepDriven ==
    ASSUME Undisturbed, TypeOK, AllDriven, [Next]_vars
    PROVE  AllDriven' /\ Leaves
<1>1. CASE UNCHANGED vars
  <2>1. AllDriven'
    BY <1>1 DEF vars, AllDriven
  <2> QED BY <1>1, <2>1, SameOutbox DEF vars, Leaves
<1>2. ASSUME NEW n \in Nodes, Tick(n) PROVE AllDriven' /\ Leaves
  <2>1. Commits(n) /\ UNCHANGED <<at, snapshot>>
    BY <1>2, TickCommits
  <2> QED BY <1>2, <2>1, TickSettled, CommitDriven
<1>3. ASSUME NEW n \in Nodes, OnRx(n), ~ OnRxError(n)
      PROVE  AllDriven' /\ Leaves
  <2>1. PICK f \in radio[n].inbox : Commits(n) /\ Reads(n, f)
    BY <1>3, OnRxCommits
  <2> QED BY <2>1, CommitDriven DEF Reads
<1>4. ASSUME NEW n \in Nodes, Recover(n) PROVE FALSE
  BY <1>4 DEF Recover, Undisturbed
<1> QED BY <1>1, <1>2, <1>3, <1>4, AirDriven, HostDriven DEF Next, Host

\* Devices start in step.
LEMMA InitDriven == Init => AllDriven
BY DrivenStart DEF Init, AllDriven

\* AllDriven is inductive where nothing disturbs the drain rounds.
LEMMA DrivenHolds == Undisturbed => (Spec => []AllDriven)
<1> SUFFICES ASSUME Undisturbed PROVE Spec => []AllDriven
  OBVIOUS
<1>1. Init => AllDriven
  BY InitDriven
<1>2. TypeOK /\ AllDriven /\ [Next]_vars => AllDriven'
  BY StepDriven
<1> QED BY <1>1, <1>2, TypeCorrect, PTL DEF Spec

\* Where nothing disturbs the drain rounds, no frame that a handler or a tick
\* gave to transmit() is taken back: neither clear_events() nor the next
\* transmission comes before it has left and TX_FRAME_SENT is up.
THEOREM FramesLeaveHolds == Undisturbed => (Spec => FramesLeave)
<1> SUFFICES ASSUME Undisturbed PROVE Spec => FramesLeave
  OBVIOUS
<1>1. TypeOK /\ AllDriven /\ [Next]_vars => [Leaves]_vars
  BY StepDriven
<1>2. Spec => []AllDriven
  BY DrivenHolds
<1>3. Spec => [][Leaves]_vars
  BY <1>1, <1>2, TypeCorrect, PTL DEF Spec
<1> QED BY <1>3 DEF FramesLeave, Leaves

-----------------------------------------------------------------------------
(* What the protocol sees of a device *)

\* The frame whose end on_tx_done() has still to stamp is in the outbox, or it
\* is the one TX_TIME was taken for.
Unstamped(r, p, s) == r.state = "Tx" /\ ~ (p = "clear" /\ TxDone \in s)

LastSeq(r) ==
    IF r.outbox = {} THEN r.txStamp ELSE (CHOOSE f \in r.outbox : TRUE).seq

\* The stamps a device holds once on_tx_done() has run for what it sent last,
\* and of its frames those that can still be read: what is in the buffer while
\* the host is about to clear it is never read again.
View(n, nd, r, p, s) ==
    [peers    |-> nd.peers,
     phase    |-> PhaseOf(nd),
     acked    |-> nd.pollAcknowledged,
     reported |-> nd.rangeReportReceived,
     range    |-> nd.range,
     held     |-> IF Unstamped(r, p, s) THEN TxStamped(n, nd, LastSeq(r)).stamps
                  ELSE nd.stamps,
     outbox   |-> r.outbox,
     waiting  |-> IF p = "clear" THEN {} ELSE r.inbox]

Seen(n) == View(n, node[n], radio[n], at[n], snapshot[n])

\* A tag broadcasts and an anchor answers a tag, each with its own kinds.
WellAddressed(f) ==
    /\ f.src \in Tags => f.kind \in {"Blink", "Poll", "Range"}
                         /\ f.dst = Broadcast
    /\ f.src \in Anchors => f.kind \in {"RangingInit", "PollAck", "RangeReport"}
                            /\ f.dst \in Tags

\* What holds of one device: its frames are its own, its peers have the other
\* role and are finitely many, only anchors that acknowledged have reported,
\* nobody's answer outlives a session, and all its distances are coherent.
Local(n, v) ==
    /\ \A f \in v.outbox : f \in Frame /\ f.src = n /\ WellAddressed(f)
    /\ \A f \in v.waiting : f \in Frame /\ WellAddressed(f)
    /\ v.peers \subseteq IF n \in Tags THEN Anchors ELSE Tags
    /\ IsFiniteSet(v.peers)
    /\ v.acked \subseteq v.peers /\ v.reported \subseteq v.acked
    /\ v.phase = "idle" => v.acked = {}
    /\ \A m \in Nodes : Coherent(v.range[m])

-----------------------------------------------------------------------------
(* What holds of a tag t, seen as v, and an anchor a, seen as w *)

Calls   == {"Poll", "Range"}
Replies == {"PollAck", "RangeReport"}

\* The four places a frame of their exchange can be.
Calling(a, v)    == {f \in v.outbox : f.kind \in Calls /\ a \in f.targets}
Called(t, a, w)  == {f \in w.waiting : /\ f.src = t /\ f.kind \in Calls
                                       /\ a \in f.targets}
Replying(t, w)   == {f \in w.outbox : f.dst = t /\ f.kind \in Replies}
Replied(a, t, v) == {f \in v.waiting : /\ f.src = a /\ f.dst = t
                                       /\ f.kind \in Replies}

\* They take turns: only one of the places is ever filled.
OneAtATime(t, a, v, w) ==
    /\ Calling(a, v) # {} =>
          Called(t, a, w) = {} /\ Replying(t, w) = {} /\ Replied(a, t, v) = {}
    /\ Called(t, a, w) # {} => Replying(t, w) = {} /\ Replied(a, t, v) = {}
    /\ Replying(t, w) # {} => Replied(a, t, v) = {}

\* A Poll to the anchor is that of the session that still waits for it, a
\* Range carries what the tag measured of both frames before it.
CallOK(a, v, f) ==
    /\ f.kind = "Poll" =>
         /\ v.phase = "polling" /\ a \in v.peers \ v.acked
         /\ f.seq = v.held[a]["pollSent"]
    /\ f.kind = "Range" =>
         /\ v.phase = "ranging" /\ a \in v.acked \ v.reported
         /\ f.times[a]["pollSent"] = v.held[a]["pollSent"]
         /\ f.times[a]["pollAckReceived"] = v.held[a]["pollAckReceived"]
         /\ f.times[a]["rangeSent"] = f.seq /\ v.held[a]["rangeSent"] = f.seq

\* A PollAck answers the Poll the tag remembers; a RangeReport carries what
\* the anchor measured of the three frames the tag has measured.
ReplyOK(t, a, v, w, f) ==
    /\ f.kind = "PollAck" =>
         /\ v.phase = "polling" /\ a \in v.peers \ v.acked
         /\ t \in w.peers
         /\ w.held[t]["pollReceived"] = v.held[a]["pollSent"]
         /\ f.seq = w.held[t]["pollAckSent"]
    /\ f.kind = "RangeReport" =>
         /\ v.phase = "ranging" /\ a \in v.acked \ v.reported
         /\ f.times[t]["pollReceived"] = v.held[a]["pollSent"]
         /\ f.times[t]["pollAckSent"] = v.held[a]["pollAckReceived"]
         /\ f.times[t]["rangeReceived"] = v.held[a]["rangeSent"]

\* Once the acknowledgement is in, both ends have measured the same two frames.
Agreed(t, a, v, w) ==
    a \in v.acked /\ t \in w.peers =>
       /\ w.held[t]["pollReceived"] = v.held[a]["pollSent"]
       /\ w.held[t]["pollAckSent"] = v.held[a]["pollAckReceived"]

\* Blink and RangingInit travel only while the tag has no session.
Greets(t, a, v, w) ==
    v.phase # "idle" =>
       /\ \A f \in v.outbox : f.kind # "Blink"
       /\ \A f \in w.waiting : f.src = t => f.kind # "Blink"
       /\ \A f \in w.outbox : f.dst = t => f.kind # "RangingInit"
       /\ \A f \in v.waiting : f.src = a /\ f.dst = t => f.kind # "RangingInit"

Exchange(t, a, v, w) ==
    /\ Greets(t, a, v, w)
    /\ OneAtATime(t, a, v, w)
    /\ \A f \in Calling(a, v) \cup Called(t, a, w) : CallOK(a, v, f)
    /\ \A f \in Replying(t, w) \cup Replied(a, t, v) : ReplyOK(t, a, v, w, f)
    /\ Agreed(t, a, v, w)

Exchanges == /\ \A n \in Nodes : Local(n, Seen(n))
             /\ \A t \in Tags, a \in Anchors : Exchange(t, a, Seen(t), Seen(a))

-----------------------------------------------------------------------------
(* What changes of two devices keep their exchange *)

\* Nothing the pair has agreed on changes; their frames move on or are lost.
LEMMA ExchangeMoves ==
    ASSUME NEW t, NEW a, NEW v, NEW w, NEW v1, NEW w1, Exchange(t, a, v, w),
           v1.phase = v.phase, v1.held[a] = v.held[a], w1.held[t] = w.held[t],
           a \in v1.peers <=> a \in v.peers, t \in w1.peers <=> t \in w.peers,
           a \in v1.acked <=> a \in v.acked,
           a \in v1.reported <=> a \in v.reported,
           v1.outbox \subseteq v.outbox,
           \A f \in w1.outbox : f \in w.outbox \/ f.dst # t,
           \A f \in w1.waiting :
              \/ f \in w.waiting
              \/ f.src # t
              \/ f \in v.outbox /\ v1.outbox = {},
           \A f \in v1.waiting :
              \/ f \in v.waiting
              \/ f.src # a
              \/ f \in w.outbox /\ \A g \in w1.outbox : g.dst # t
    PROVE  Exchange(t, a, v1, w1)
<1>1. Greets(t, a, v1, w1)
  BY DEF Exchange, Greets
<1>2. /\ Calling(a, v1) \subseteq Calling(a, v)
      /\ Called(t, a, w1) \subseteq Calling(a, v) \cup Called(t, a, w)
      /\ Replying(t, w1) \subseteq Replying(t, w)
      /\ Replied(a, t, v1) \subseteq Replying(t, w) \cup Replied(a, t, v)
  BY DEF Calling, Called, Replying, Replied
<1>3. OneAtATime(t, a, v1, w1)
  <2>1. /\ Called(t, a, w1) \subseteq Called(t, a, w) \/ Calling(a, v1) = {}
        /\ Replied(a, t, v1) \subseteq Replied(a, t, v) \/ Replying(t, w1) = {}
    BY DEF Calling, Called, Replying, Replied
  <2>2. OneAtATime(t, a, v, w)
    BY DEF Exchange
  <2> QED BY <1>2, <2>1, <2>2, Zenon DEF OneAtATime
<1>4. \A f \in Calling(a, v1) \cup Called(t, a, w1) : CallOK(a, v1, f)
  BY <1>2 DEF Exchange, CallOK
<1>5. \A f \in Replying(t, w1) \cup Replied(a, t, v1) : ReplyOK(t, a, v1, w1, f)
  BY <1>2 DEF Exchange, ReplyOK
<1>6. Agreed(t, a, v1, w1)
  BY DEF Exchange, Agreed
<1> QED BY <1>1, <1>3, <1>4, <1>5, <1>6 DEF Exchange

\* The tag starts something new while nothing of the exchange is on its way.
LEMMA ExchangeStarts ==
    ASSUME NEW t, NEW a, NEW v, NEW w, Greets(t, a, v, w), Agreed(t, a, v, w),
           Called(t, a, w) = {}, Replying(t, w) = {}, Replied(a, t, v) = {},
           \A f \in v.outbox :
              f.kind \in Calls /\ a \in f.targets => CallOK(a, v, f)
    PROVE  Exchange(t, a, v, w)
BY DEF Exchange, OneAtATime, Calling

\* Nothing of an exchange is on its way while the tag waits for no answer of
\* the anchor's.
LEMMA ExchangeSilent ==
    ASSUME NEW t, NEW a, NEW v, NEW w, Exchange(t, a, v, w),
           v.phase = "polling" => a \notin v.peers \ v.acked,
           v.phase = "ranging" => a \notin v.acked \ v.reported
    PROVE  /\ Calling(a, v) = {} /\ Called(t, a, w) = {}
           /\ Replying(t, w) = {} /\ Replied(a, t, v) = {}
BY DEF Exchange, CallOK, ReplyOK, Calling, Called, Replying, Replied, Calls,
       Replies

\* A Blink is answered.
LEMMA ExchangeBlink ==
    ASSUME NEW t, NEW a, NEW v, NEW w, NEW w1, NEW f \in w.waiting, NEW g,
           Exchange(t, a, v, w), v.phase = "idle" => v.acked = {},
           f.src = t, f.kind = "Blink",
           w1.waiting = {}, w1.outbox = {g}, g.kind = "RangingInit"
    PROVE  Exchange(t, a, v, w1)
<1>1. v.phase = "idle"
  BY DEF Exchange, Greets
<1>2. Called(t, a, w1) = {} /\ Replying(t, w1) = {}
  BY DEF Called, Replying, Replies
<1>3. Replied(a, t, v) = {} /\ Calling(a, v) = {}
  BY <1>1, ExchangeSilent
<1> QED BY <1>1, <1>2, <1>3, ExchangeStarts DEF Greets, Agreed, Calling

\* A Poll is acknowledged.
LEMMA ExchangePoll ==
    ASSUME NEW t, NEW a, NEW v, NEW w, NEW w1, NEW f \in w.waiting, NEW g,
           Exchange(t, a, v, w), f.src = t, f.kind = "Poll", a \in f.targets,
           w1.waiting = {}, w1.outbox = {g}, g.kind = "PollAck", g.dst = t,
           t \in w1.peers, w1.held[t]["pollReceived"] = f.seq,
           w1.held[t]["pollAckSent"] = g.seq
    PROVE  Exchange(t, a, v, w1)
<1>1. f \in Called(t, a, w)
  BY DEF Called, Calls
<1>2. /\ v.phase = "polling" /\ a \in v.peers \ v.acked
      /\ f.seq = v.held[a]["pollSent"]
  BY <1>1 DEF Exchange, CallOK
<1>3. Called(t, a, w1) = {} /\ Calling(a, v) = {} /\ Replied(a, t, v) = {}
  BY <1>1 DEF Exchange, OneAtATime, Called
<1>4. OneAtATime(t, a, v, w1) /\ Agreed(t, a, v, w1)
  BY <1>2, <1>3 DEF OneAtATime, Agreed
<1>5. \A h \in Replying(t, w1) : ReplyOK(t, a, v, w1, h)
  BY <1>2 DEF Replying, ReplyOK
<1>6. Greets(t, a, v, w1)
  BY DEF Exchange, Greets
<1> QED BY <1>3, <1>4, <1>5, <1>6 DEF Exchange

\* A Range is answered with a report.
LEMMA ExchangeRange ==
    ASSUME NEW t, NEW a, NEW v, NEW w, NEW w1, NEW f \in w.waiting, NEW g,
           Exchange(t, a, v, w), f.src = t, f.kind = "Range", a \in f.targets,
           w1.waiting = {}, w1.outbox = {g}, g.kind = "RangeReport", g.dst = t,
           t \in w.peers,
           w1.held[t]["pollReceived"] = w.held[t]["pollReceived"],
           w1.held[t]["pollAckSent"] = w.held[t]["pollAckSent"],
           g.times[t]["pollReceived"] = w.held[t]["pollReceived"],
           g.times[t]["pollAckSent"] = w.held[t]["pollAckSent"],
           g.times[t]["rangeReceived"] = f.seq
    PROVE  Exchange(t, a, v, w1)
<1>1. f \in Called(t, a, w)
  BY DEF Called, Calls
<1>2. /\ v.phase = "ranging" /\ a \in v.acked \ v.reported
      /\ v.held[a]["rangeSent"] = f.seq
  BY <1>1 DEF Exchange, CallOK
<1>3. Called(t, a, w1) = {} /\ Calling(a, v) = {} /\ Replied(a, t, v) = {}
  BY <1>1 DEF Exchange, OneAtATime, Called
<1>4. Agreed(t, a, v, w) /\ Agreed(t, a, v, w1)
  BY DEF Exchange, Agreed
<1>5. OneAtATime(t, a, v, w1)
  BY <1>3 DEF OneAtATime
<1>6. \A h \in Replying(t, w1) : ReplyOK(t, a, v, w1, h)
  BY <1>2, <1>4 DEF Replying, ReplyOK, Agreed
<1>7. Greets(t, a, v, w1)
  BY DEF Exchange, Greets
<1> QED BY <1>3, <1>4, <1>5, <1>6, <1>7 DEF Exchange

\* The acknowledgement of one anchor: what the two then have agreed on, and
\* that nothing of their exchange is left on its way.
LEMMA ExchangePollAck ==
    ASSUME NEW t, NEW a, NEW v, NEW w, NEW v1, NEW f \in v.waiting,
           Exchange(t, a, v, w), f.src = a, f.dst = t, f.kind = "PollAck",
           v1.waiting = {},
           v1.held[a]["pollSent"] = v.held[a]["pollSent"],
           v1.held[a]["pollAckReceived"] = f.seq
    PROVE  /\ v.phase = "polling" /\ a \in v.peers \ v.acked
           /\ Called(t, a, w) = {} /\ Replying(t, w) = {}
           /\ Replied(a, t, v1) = {} /\ Calling(a, v) = {}
           /\ Agreed(t, a, v1, w)
<1>1. f \in Replied(a, t, v)
  BY DEF Replied, Replies
<1>2. ReplyOK(t, a, v, w, f) /\ OneAtATime(t, a, v, w)
  BY <1>1 DEF Exchange
<1>3. Called(t, a, w) = {} /\ Replying(t, w) = {} /\ Calling(a, v) = {}
  BY <1>1, <1>2 DEF OneAtATime
<1>4. Replied(a, t, v1) = {}
  BY DEF Replied
<1> QED BY <1>2, <1>3, <1>4 DEF ReplyOK, Agreed

\* So for a report.
LEMMA ExchangeReport ==
    ASSUME NEW t, NEW a, NEW v, NEW w, NEW f \in v.waiting,
           Exchange(t, a, v, w), f.src = a, f.dst = t, f.kind = "RangeReport"
    PROVE  /\ v.phase = "ranging" /\ a \in v.acked \ v.reported
           /\ Called(t, a, w) = {} /\ Replying(t, w) = {}
           /\ Calling(a, v) = {} /\ ReplyOK(t, a, v, w, f)
<1>1. f \in Replied(a, t, v)
  BY DEF Replied, Replies
<1>2. ReplyOK(t, a, v, w, f) /\ OneAtATime(t, a, v, w)
  BY <1>1 DEF Exchange
<1>3. Called(t, a, w) = {} /\ Replying(t, w) = {} /\ Calling(a, v) = {}
  BY <1>1, <1>2 DEF OneAtATime
<1> QED BY <1>2, <1>3 DEF ReplyOK

-----------------------------------------------------------------------------
(* What the steps change of what is seen *)

\* A device that has just handled a frame, or that nothing was on its way to.
Looks(nd, held, out) ==
    [peers |-> nd.peers, phase |-> PhaseOf(nd), acked |-> nd.pollAcknowledged,
     reported |-> nd.rangeReportReceived, range |-> nd.range,
     held |-> held, outbox |-> out, waiting |-> {}]

Changes(n, nd, held, out) ==
    /\ Seen(n)' = Looks(nd, held, out)
    /\ \A m \in Nodes \ {n} : Seen(m)' = Seen(m)

\* What such a change shows of a tag's session.
Shows(t, p, as, rs) ==
    /\ Seen(t)'.phase = p /\ Seen(t)'.acked = as /\ Seen(t)'.reported = rs
    /\ Seen(t)'.waiting = {}
    /\ \A m \in Nodes \ {t} : Seen(m)' = Seen(m)

\* A step of an anchor, with nothing else seen of it but its distances.
AnchorMoves(a) ==
    /\ Seen(a)'.waiting = {}
    /\ \A m \in Nodes \ {a} : Seen(m)' = Seen(m)

\* The tag still knows when it polled, and has measured nothing new.
SamePolls(t) ==
    /\ Seen(t)'.peers = Seen(t).peers /\ Seen(t)'.range = Seen(t).range
    /\ \A a \in Nodes :
          Seen(t)'.held[a]["pollSent"] = Seen(t).held[a]["pollSent"]

\* The distance to m is gone.
Forgets(n, m) ==
    /\ Seen(n)'.range[m] = NoStamps
    /\ \A i \in Nodes \ {m} : Seen(n)'.range[i] = Seen(n).range[i]

\* The distance to m is that of the exchange that began with this Poll.
Measures(n, m, poll) ==
    /\ Seen(n)'.range[m]["pollSent"] = poll
    /\ \A i \in Nodes \ {m} : Seen(n)'.range[i] = Seen(n).range[i]

\* The numbers of the frames a tag sends.
Numbers(t) == node'[t].sequence = (node[t].sequence + 1) % 256
SameNumber(t) == node'[t].sequence = node[t].sequence

\* What a device that has become nd shows.
LEMMA ChangesShow ==
    ASSUME NEW n, NEW nd, NEW held, NEW out, Changes(n, nd, held, out)
    PROVE  /\ Shows(n, PhaseOf(nd), nd.pollAcknowledged,
                    nd.rangeReportReceived)
           /\ Seen(n)'.peers = nd.peers /\ Seen(n)'.range = nd.range
           /\ Seen(n)'.held = held /\ Seen(n)'.outbox = out
BY DEF Changes, Looks, Shows

\* A step of the node alone, and one with a frame.
LEMMA NodeSteps ==
    ASSUME TypeOK, NEW n \in Nodes, NEW nd \in Node
    PROVE  /\ Becomes(n, nd) => node'[n] = nd
           /\ \A f : Transmits(n, nd, f)
                        => node'[n].sequence = (nd.sequence + 1) % 256
<1>1. node \in [Nodes -> Node]
  BY DEF TypeOK
<1>2. \A k, d : Sends(nd, k, d).sequence = (nd.sequence + 1) % 256
  BY DEF Sends, Node
<1> QED BY <1>1, <1>2 DEF Becomes, Transmits

\* The sequence number and the note of what was sent last are not seen.
LEMMA LooksSends ==
    ASSUME NEW nd \in Node, NEW k, NEW d, NEW held, NEW out
    PROVE  Looks(Sends(nd, k, d), held, out) = Looks(nd, held, out)
<1>1. /\ Sends(nd, k, d).peers = nd.peers /\ Sends(nd, k, d).range = nd.range
      /\ Sends(nd, k, d).pollAcknowledged = nd.pollAcknowledged
      /\ Sends(nd, k, d).rangeReportReceived = nd.rangeReportReceived
      /\ Sends(nd, k, d).session = nd.session
      /\ Sends(nd, k, d).expected = nd.expected
  BY DEF Sends, Node
<1>2. PhaseOf(Sends(nd, k, d)) = PhaseOf(nd)
  BY <1>1 DEF PhaseOf
<1> QED BY <1>1, <1>2 DEF Looks

\* A step of n's node alone, or with a frame for the radio, while n listens
\* and the frames waiting for it are dealt with.
LEMMA CommitSeen ==
    ASSUME TypeOK, AllDriven, NEW n \in Nodes, NEW nd \in Node,
           radio[n].state = "Rx", TxDone \notin snapshot[n], UNCHANGED snapshot,
           \/ at' = [at EXCEPT ![n] = "clear"]
           \/ UNCHANGED at /\ at[n] = "select" /\ radio[n].inbox = {}
    PROVE  /\ Seen(n).held = node[n].stamps /\ Seen(n).outbox = {}
           /\ Becomes(n, nd) => Changes(n, nd, nd.stamps, {})
           /\ \A f \in Frame : Transmits(n, nd, f) =>
                LET sent == Sends(nd, f.kind, f.dst) IN
                Changes(n, nd, TxStamped(n, sent, f.seq).stamps, {f})
<1>1. /\ node \in [Nodes -> Node] /\ radio \in [Nodes -> Radio]
      /\ at \in [Nodes -> Steps] /\ radio[n] \in Radio
      /\ Driven(radio[n], at[n], snapshot[n]) /\ radio[n].permanent
  BY DEF TypeOK, AllDriven, Driven
<1>2. at'[n] = "clear" \/ (at'[n] # "clear" /\ radio[n].inbox = {})
  BY <1>1
<1>3. \A m \in Nodes \ {n} : at'[m] = at[m] /\ snapshot'[m] = snapshot[m]
  BY <1>1
<1>4. Seen(n).held = node[n].stamps /\ Seen(n).outbox = {}
  <2>1. radio[n].outbox = {} /\ ~ Unstamped(radio[n], at[n], snapshot[n])
    BY <1>1 DEF Driven, Unstamped
  <2> QED BY <2>1 DEF Seen, View
<1>5. ASSUME Becomes(n, nd) PROVE Changes(n, nd, nd.stamps, {})
  <2>1. /\ node'[n] = nd /\ radio' = radio
        /\ \A m \in Nodes \ {n} : node'[m] = node[m]
    BY <1>1, <1>5 DEF Becomes
  <2>2. \A m \in Nodes \ {n} : Seen(m)' = Seen(m)
    BY <1>3, <2>1 DEF Seen
  <2>3. Unstamped(radio[n], at'[n], snapshot'[n]) = FALSE
    BY <1>1 DEF Unstamped
  <2>4. Seen(n)' = Looks(nd, nd.stamps, {})
    <3>1. radio[n].outbox = {}
      BY <1>1 DEF Driven
    <3> QED BY <1>2, <2>1, <2>3, <3>1 DEF Seen, View, Looks
  <2> QED BY <2>2, <2>4 DEF Changes
<1>6. ASSUME NEW f \in Frame, Transmits(n, nd, f)
      PROVE  LET sent == Sends(nd, f.kind, f.dst) IN
             Changes(n, nd, TxStamped(n, sent, f.seq).stamps, {f})
  <2> DEFINE sent == Sends(nd, f.kind, f.dst)
             q == Transmit(radio[n], f)
  <2>1. /\ node'[n] = sent /\ radio'[n] = q
        /\ \A m \in Nodes \ {n} : node'[m] = node[m] /\ radio'[m] = radio[m]
    BY <1>1, <1>6 DEF Transmits
  <2>2. q.state = "Tx" /\ q.outbox = {f} /\ q.inbox = radio[n].inbox
    BY <1>1, TransmitFields
  <2>0. \A held, out : Looks(sent, held, out) = Looks(nd, held, out)
    BY LooksSends
  <2> HIDE DEF sent, q
  <2>3. \A m \in Nodes \ {n} : Seen(m)' = Seen(m)
    BY <1>3, <2>1 DEF Seen
  <2>4. LastSeq(q) = f.seq /\ Unstamped(q, at'[n], snapshot'[n])
    BY <1>1, <2>2 DEF LastSeq, Unstamped
  <2>5. Seen(n)' = Looks(sent, TxStamped(n, sent, f.seq).stamps, {f})
    BY <1>2, <2>1, <2>2, <2>4 DEF Seen, View, Looks
  <2> QED BY <2>0, <2>3, <2>5 DEF Changes, sent
<1> QED BY <1>4, <1>5, <1>6

\* A frame is read while the driver listens.
LEMMA ReadsSeen ==
    ASSUME TypeOK, AllDriven, NEW n \in Nodes, NEW f \in radio[n].inbox,
           Reads(n, f)
    PROVE  /\ radio[n].state = "Rx" /\ TxDone \notin snapshot[n]
           /\ UNCHANGED snapshot /\ at' = [at EXCEPT ![n] = "clear"]
           /\ f \in Seen(n).waiting /\ f \in Frame
<1>1. Driven(radio[n], at[n], snapshot[n]) /\ radio[n].inbox \subseteq Frame
  BY DEF TypeOK, AllDriven, Radio
<1> QED BY <1>1 DEF Reads, Driven, Seen, View

\* A tick finds nothing on its way from or to the device.
LEMMA TickSeen ==
    ASSUME Undisturbed, TypeOK, AllDriven, NEW n \in Nodes, Tick(n)
    PROVE  /\ radio[n].state = "Rx" /\ TxDone \notin snapshot[n]
           /\ at[n] = "select" /\ radio[n].inbox = {}
           /\ UNCHANGED <<snapshot, at>>
           /\ Seen(n).waiting = {}
           /\ \A m \in Nodes \ {n} :
                 /\ \A f \in Seen(m).outbox : f.dst \notin {n, Broadcast}
                 /\ \A f \in Seen(m).waiting : f.src # n
<1>1. Settled(n) /\ at[n] = "select"
  BY TickSettled
<1>2. Driven(radio[n], at[n], snapshot[n]) /\ radio[n] \in Radio
  BY DEF TypeOK, AllDriven
<1>3. radio[n].state = "Rx" /\ TxDone \notin snapshot[n] /\ radio[n].inbox = {}
  BY <1>1, <1>2 DEF Settled, Driven, Radio
<1>4. ASSUME NEW m \in Nodes \ {n}
      PROVE  /\ \A f \in Seen(m).outbox : f.dst \notin {n, Broadcast}
             /\ \A f \in Seen(m).waiting : f.src # n
  BY <1>1 DEF Settled, Seen, View
<1>5. Seen(n).waiting = {}
  BY <1>3 DEF Seen, View
<1>6. UNCHANGED <<snapshot, at>>
  BY TickCommits
<1> QED BY <1>1, <1>3, <1>4, <1>5, <1>6

\* What on_tx_done() will write for a frame.
LEMMA SentStamps ==
    ASSUME NEW n \in Nodes, NEW nd \in Node, NEW k \in Kinds,
           NEW d \in Nodes \cup {Broadcast}, NEW s \in Stamp
    PROVE  LET new == TxStamped(n, Sends(nd, k, d), s).stamps IN
           /\ k \in {"Blink", "RangingInit", "RangeReport"} => new = nd.stamps
           /\ n \in Tags /\ k = "Poll" => \A m \in nd.peers :
                 /\ new[m]["pollSent"] = s
                 /\ new[m]["pollAckReceived"] = nd.stamps[m]["pollAckReceived"]
           /\ n \in Tags /\ k = "Range" => \A m \in Nodes :
                 /\ m \in RangeTargets(nd) => new[m]["rangeSent"] = s
                 /\ new[m]["pollSent"] = nd.stamps[m]["pollSent"]
                 /\ new[m]["pollAckReceived"] = nd.stamps[m]["pollAckReceived"]
           /\ n \in Anchors /\ k = "PollAck" => \A m \in Nodes :
                 /\ m = d /\ d \in nd.peers => new[m]["pollAckSent"] = s
                 /\ m # d => new[m] = nd.stamps[m]
                 /\ new[m]["pollReceived"] = nd.stamps[m]["pollReceived"]
<1> DEFINE sent == Sends(nd, k, d)
<1>1. /\ sent \in Node /\ sent.lastTxKind = k /\ sent.lastTxDestination = d
      /\ sent.peers = nd.peers /\ sent.stamps = nd.stamps
      /\ RangeTargets(sent) = RangeTargets(nd)
  <2>1. /\ sent.lastTxKind = k /\ sent.lastTxDestination = d
        /\ sent.peers = nd.peers /\ sent.stamps = nd.stamps
        /\ sent.pollAcknowledged = nd.pollAcknowledged
    BY DEF Sends, Node
  <2>2. sent \in Node
    BY SendsType
  <2> QED BY <2>1, <2>2 DEF RangeTargets
<1>2. nd.stamps \in [Nodes -> Stamps] /\ nd.peers \subseteq Nodes
  BY DEF Node
<1> HIDE DEF sent
<1>3. ASSUME NEW ms, NEW name \in StampNames,
             TxStamped(n, sent, s) = Stamped(sent, ms, name, s), NEW m \in Nodes
      PROVE  LET new == TxStamped(n, sent, s).stamps IN
             /\ m \in ms => new[m][name] = s
             /\ m \notin ms => new[m] = nd.stamps[m]
             /\ \A x \in StampNames : x # name => new[m][x] = nd.stamps[m][x]
  <2>1. TxStamped(n, sent, s).stamps =
           [i \in Nodes |-> IF i \in ms THEN [nd.stamps[i] EXCEPT ![name] = s]
                            ELSE nd.stamps[i]]
    BY <1>1, <1>3 DEF Stamped, Node
  <2>2. nd.stamps[m] \in [StampNames -> Stamp]
    BY <1>2 DEF Stamps
  <2> QED BY <2>1, <2>2
<1>4. StampNames = {"pollSent", "pollReceived", "pollAckSent",
                    "pollAckReceived", "rangeSent", "rangeReceived"}
  BY DEF StampNames
<1>5. n \in Tags => n \notin Anchors
  BY RoleAssumption
<1>6. CASE k \in {"Blink", "RangingInit", "RangeReport"}
  BY <1>1, <1>6 DEF TxStamped, sent
<1>7. CASE n \in Tags /\ k = "Poll"
  <2> DEFINE new == TxStamped(n, sent, s).stamps
  <2>1. TxStamped(n, sent, s) = Stamped(sent, nd.peers, "pollSent", s)
    BY <1>1, <1>5, <1>7 DEF TxStamped
  <2>2. \A m \in Nodes :
          /\ m \in nd.peers => new[m]["pollSent"] = s
          /\ m \notin nd.peers => new[m] = nd.stamps[m]
          /\ \A x \in StampNames : x # "pollSent" => new[m][x] = nd.stamps[m][x]
    BY <1>3, <1>4, <2>1
  <2> HIDE DEF new
  <2>3. \A m \in Nodes :
          /\ new[m]["pollAckReceived"] = nd.stamps[m]["pollAckReceived"]
    BY <1>2, <1>4, <2>2
  <2> QED BY <1>2, <1>5, <1>7, <2>2, <2>3 DEF sent, new
<1>8. CASE n \in Tags /\ k = "Range"
  <2> DEFINE new == TxStamped(n, sent, s).stamps
  <2>1. TxStamped(n, sent, s) = Stamped(sent, RangeTargets(nd), "rangeSent", s)
    BY <1>1, <1>5, <1>8 DEF TxStamped
  <2>2. \A m \in Nodes :
          /\ m \in RangeTargets(nd) => new[m]["rangeSent"] = s
          /\ m \notin RangeTargets(nd) => new[m] = nd.stamps[m]
          /\ \A x \in StampNames : x # "rangeSent" => new[m][x] = nd.stamps[m][x]
    BY <1>3, <1>4, <2>1
  <2> HIDE DEF new
  <2>3. \A m \in Nodes :
          /\ new[m]["pollSent"] = nd.stamps[m]["pollSent"]
          /\ new[m]["pollAckReceived"] = nd.stamps[m]["pollAckReceived"]
    BY <1>2, <1>4, <2>2
  <2> QED BY <1>2, <1>5, <1>8, <2>2, <2>3 DEF sent, new
<1>9. CASE n \in Anchors /\ k = "PollAck"
  <2> DEFINE new == TxStamped(n, sent, s).stamps
  <2>1. TxStamped(n, sent, s) = Stamped(sent, ({d} \cap nd.peers), "pollAckSent", s)
    BY <1>1, <1>5, <1>9 DEF TxStamped
  <2>2. \A m \in Nodes :
          /\ m \in ({d} \cap nd.peers) => new[m]["pollAckSent"] = s
          /\ m \notin ({d} \cap nd.peers) => new[m] = nd.stamps[m]
          /\ \A x \in StampNames : x # "pollAckSent" => new[m][x] = nd.stamps[m][x]
    BY <1>3, <1>4, <2>1
  <2> HIDE DEF new
  <2>3. \A m \in Nodes :
          /\ new[m]["pollReceived"] = nd.stamps[m]["pollReceived"]
    BY <1>2, <1>4, <2>2
  <2> QED BY <1>2, <1>5, <1>9, <2>2, <2>3 DEF sent, new
<1>10. CASE /\ k \notin {"Blink", "RangingInit", "RangeReport"}
            /\ ~ (n \in Tags /\ k \in {"Poll", "Range"})
            /\ ~ (n \in Anchors /\ k = "PollAck")
  BY <1>10
<1> QED BY <1>6, <1>7, <1>8, <1>9, <1>10

-----------------------------------------------------------------------------
(* Steps that only move frames on *)

\* All the same but for the frames.
Same(v1, v) ==
    /\ v1.peers = v.peers /\ v1.phase = v.phase /\ v1.acked = v.acked
    /\ v1.reported = v.reported /\ v1.range = v.range /\ v1.held = v.held

\* Frames leave for a buffer, or are dropped, and nothing else is seen.
Quiet ==
    \A m \in Nodes :
       /\ Same(Seen(m)', Seen(m))
       /\ Seen(m)'.outbox \subseteq Seen(m).outbox
       /\ \A f \in Seen(m)'.waiting :
            \/ f \in Seen(m).waiting
            \/ \E k \in Nodes : f \in Seen(k).outbox /\ Seen(k)'.outbox = {}

\* The exchanges do not mind where on its way a frame is, or that it is lost.
LEMMA QuietKeeps == ASSUME Exchanges, Quiet PROVE Exchanges'
<1>1. ASSUME NEW m \in Nodes PROVE Local(m, Seen(m)')
  <2>1. /\ Same(Seen(m)', Seen(m)) /\ Seen(m)'.outbox \subseteq Seen(m).outbox
        /\ Local(m, Seen(m))
    BY DEF Quiet, Exchanges
  <2>2. \A f \in Seen(m)'.waiting : f \in Frame /\ WellAddressed(f)
    BY DEF Quiet, Exchanges, Local
  <2> QED BY <2>1, <2>2 DEF Local, Same
<1>2. ASSUME NEW t \in Tags, NEW a \in Anchors
      PROVE  Exchange(t, a, Seen(t)', Seen(a)')
  <2>1. t \in Nodes /\ a \in Nodes /\ t # a
    BY RoleAssumption
  <2>2. /\ Same(Seen(t)', Seen(t)) /\ Seen(t)'.outbox \subseteq Seen(t).outbox
        /\ Same(Seen(a)', Seen(a)) /\ Seen(a)'.outbox \subseteq Seen(a).outbox
        /\ Exchange(t, a, Seen(t), Seen(a))
    BY <2>1 DEF Quiet, Exchanges
  <2>3. \A k \in Nodes : \A f \in Seen(k).outbox : f.src = k
    BY DEF Exchanges, Local
  <2>4. \A f \in Seen(a)'.waiting :
           \/ f \in Seen(a).waiting
           \/ f.src # t
           \/ f \in Seen(t).outbox /\ Seen(t)'.outbox = {}
    BY <2>1, <2>3 DEF Quiet
  <2>5. \A f \in Seen(t)'.waiting :
           \/ f \in Seen(t).waiting
           \/ f.src # a
           \/ f \in Seen(a).outbox /\ \A g \in Seen(a)'.outbox : g.dst # t
    BY <2>1, <2>3 DEF Quiet
  <2> HIDE DEF Seen
  <2> QED BY <2>2, <2>4, <2>5, ExchangeMoves DEF Same
<1> QED BY <1>1, <1>2 DEF Exchanges

\* on_tx_done() changes only stamps.
LEMMA TxStampedSame ==
    ASSUME NEW n, NEW nd \in Node, NEW s
    PROVE  LET nd1 == TxStamped(n, nd, s) IN
           /\ nd1.peers = nd.peers /\ nd1.expected = nd.expected
           /\ nd1.session = nd.session /\ nd1.range = nd.range
           /\ nd1.pollAcknowledged = nd.pollAcknowledged
           /\ nd1.rangeReportReceived = nd.rangeReportReceived
BY DEF TxStamped, Stamped, Node

\* A frame on the air.
LEMMA AirQuiet ==
    ASSUME TypeOK, AllDriven, NEW n \in Nodes, Air(n)
    PROVE  Quiet
<1>1. \A m \in Nodes : /\ radio[m] \in Radio
                       /\ Driven(radio[m], at[m], snapshot[m])
                       /\ radio[m].outbox \subseteq Frame
  BY DEF TypeOK, AllDriven, Radio
<1>2. PICK f \in radio[n].outbox :
         /\ radio'[n] = FrameSent(radio[n])
         /\ \A m \in Nodes \ {n} :
              \/ radio'[m] = radio[m]
              \/ /\ Hears(radio[m])
                 /\ \/ radio'[m] = FrameReceived(radio[m], f)
                    \/ radio'[m] = FrameCorrupted(radio[m])
  BY AirSteps
<1>3. node' = node /\ at' = at /\ snapshot' = snapshot
  BY AirSteps
<1>4. /\ radio'[n].outbox = {} /\ radio'[n].inbox = radio[n].inbox
      /\ radio'[n].state = radio[n].state /\ LastSeq(radio'[n]) = LastSeq(radio[n])
  <2>1. /\ radio'[n].outbox = {} /\ radio'[n].inbox = radio[n].inbox
        /\ radio'[n].state = radio[n].state /\ radio'[n].txStamp = f.seq
    <3>1. radio[n] \in Radio /\ Driven(radio[n], at[n], snapshot[n])
      BY <1>1
    <3>2. /\ radio[n].state = "Tx" /\ FrameSent(radio[n]).state = "Tx"
          /\ FrameSent(radio[n]).outbox = {}
          /\ FrameSent(radio[n]).txStamp = f.seq
          /\ FrameSent(radio[n]).inbox = radio[n].inbox
      BY <3>1, SentFields
    <3> QED BY <1>2, <3>2
  <2>2. \A g \in radio[n].outbox : g = f
    <3>1. Driven(radio[n], at[n], snapshot[n])
      BY <1>1
    <3> QED BY <1>2, <3>1 DEF Driven
  <2>3. LastSeq(radio[n]) = f.seq
    BY <1>2, <2>2 DEF LastSeq
  <2> QED BY <2>1, <2>3 DEF LastSeq
<1>5. /\ Same(Seen(n)', Seen(n)) /\ Seen(n)'.outbox = {}
      /\ Seen(n)'.waiting = Seen(n).waiting
  BY <1>3, <1>4 DEF Seen, View, Unstamped, Same
<1>6. f \in Seen(n).outbox
  BY <1>2 DEF Seen, View
<1>7. ASSUME NEW m \in Nodes \ {n}
      PROVE  /\ Same(Seen(m)', Seen(m)) /\ Seen(m)'.outbox = Seen(m).outbox
             /\ \A g \in Seen(m)'.waiting : g \in Seen(m).waiting \/ g = f
  <2>1. CASE radio'[m] = radio[m]
    BY <1>3, <2>1 DEF Seen, View, Same
  <2>2. CASE radio'[m] # radio[m]
    <3>1. Hears(radio[m]) /\ f \in Frame
      BY <1>1, <1>2, <2>2
    <3>2. radio[m].state = "Rx"
      BY <1>1, <3>1, DrivenHears
    <3>3. /\ radio'[m].state = "Rx" /\ radio'[m].outbox = radio[m].outbox
          /\ radio'[m].inbox \subseteq radio[m].inbox \cup {f}
      <4>1. \/ radio'[m] = FrameReceived(radio[m], f)
            \/ radio'[m] = FrameCorrupted(radio[m])
        BY <1>2, <2>2
      <4>2. radio[m] \in Radio
        BY <1>1
      <4> QED BY <3>2, <4>1, <4>2 DEF FrameReceived, FrameCorrupted, Radio
    <3> QED BY <1>3, <3>2, <3>3 DEF Seen, View, Unstamped, Same
  <2> QED BY <2>1, <2>2
<1> HIDE DEF Seen
<1> QED BY <1>5, <1>6, <1>7 DEF Quiet

\* One device's frames, with nothing else changed and nobody else involved.
LEMMA QuietAlone ==
    ASSUME NEW n \in Nodes, Same(Seen(n)', Seen(n)),
           Seen(n)'.outbox \subseteq Seen(n).outbox,
           Seen(n)'.waiting \subseteq Seen(n).waiting,
           \A m \in Nodes \ {n} : Seen(m)' = Seen(m)
    PROVE  Quiet
BY DEF Quiet, Same

\* The host loop around the handlers.
LEMMA HostQuiet ==
    ASSUME TypeOK, AllDriven, NEW n \in Nodes,
           ReadStatus(n) \/ OnTxDone(n) \/ OnRxError(n) \/ ClearStatus(n)
    PROVE  Quiet
<1>1. /\ node \in [Nodes -> Node] /\ radio \in [Nodes -> Radio]
      /\ at \in [Nodes -> Steps] /\ snapshot \in [Nodes -> SUBSET Events]
      /\ radio[n] \in Radio /\ node[n] \in Node
      /\ Driven(radio[n], at[n], snapshot[n])
  BY DEF TypeOK, AllDriven
<1>2. ASSUME NEW m \in Nodes \ {n} PROVE Seen(m)' = Seen(m)
  <2>1. /\ node'[m] = node[m] /\ radio'[m] = radio[m] /\ at'[m] = at[m]
        /\ snapshot'[m] = snapshot[m]
    BY <1>1 DEF ReadStatus, OnTxDone, OnRxError, ClearStatus, Becomes
  <2> QED BY <2>1 DEF Seen
<1> SUFFICES /\ Same(Seen(n)', Seen(n)) /\ Seen(n)'.outbox = Seen(n).outbox
             /\ Seen(n)'.waiting \subseteq Seen(n).waiting
  BY <1>2, QuietAlone
<1>3. CASE ReadStatus(n)
  <2>1. /\ node' = node /\ radio' = radio /\ at[n] # "clear"
        /\ snapshot'[n] = radio[n].status
        /\ at'[n] = "clear" => TxDone \notin radio[n].status
    BY <1>1, <1>3 DEF ReadStatus
  <2> QED BY <2>1 DEF Seen, View, Unstamped, Same
<1>4. CASE OnTxDone(n)
  <2>1. /\ node'[n] = TxStamped(n, node[n], radio[n].txStamp) /\ radio' = radio
        /\ snapshot' = snapshot /\ at[n] = "txDone"
        /\ at'[n] = RxOrClear(n, snapshot[n])
    BY <1>1, <1>4 DEF OnTxDone, Becomes
  <2>2. /\ at'[n] = "clear" /\ TxDone \in snapshot[n] /\ radio[n].state = "Tx"
        /\ radio[n].outbox = {}
    <3>1. at'[n] = "clear"
      BY <1>1, <2>1, DrivenStamps
    <3> QED BY <1>1, <2>1, <3>1 DEF Driven, Radio
  <2>3. Seen(n).held = TxStamped(n, node[n], radio[n].txStamp).stamps
    BY <2>1, <2>2 DEF Seen, View, Unstamped, LastSeq
  <2>4. Seen(n)'.held = node'[n].stamps
    BY <2>1, <2>2 DEF Seen, View, Unstamped
  <2>5. /\ node'[n].peers = node[n].peers /\ node'[n].range = node[n].range
        /\ node'[n].pollAcknowledged = node[n].pollAcknowledged
        /\ node'[n].rangeReportReceived = node[n].rangeReportReceived
        /\ PhaseOf(node'[n]) = PhaseOf(node[n])
    BY <1>1, <2>1, TxStampedSame DEF PhaseOf
  <2>6. Seen(n)'.held = Seen(n).held
    BY <2>1, <2>3, <2>4
  <2> QED BY <2>1, <2>2, <2>5, <2>6 DEF Seen, View, Same
<1>5. CASE OnRxError(n)
  <2>1. /\ node' = node /\ radio' = radio /\ snapshot' = snapshot
        /\ at'[n] = "clear" /\ radio[n].state = "Rx"
    BY <1>1, <1>5 DEF OnRxError, Driven
  <2> QED BY <2>1 DEF Seen, View, Unstamped, Same
<1>6. CASE ClearStatus(n)
  <2> DEFINE r == ClearEvents(radio[n], snapshot[n])
  <2>1. /\ node' = node /\ radio'[n] = r /\ at'[n] # "clear" /\ at[n] = "clear"
    BY <1>1, <1>6 DEF ClearStatus
  <2>2. /\ r.outbox = radio[n].outbox /\ r.txStamp = radio[n].txStamp
        /\ r.inbox = {}
        /\ r.state = IF TxDone \in snapshot[n] THEN "Rx" ELSE radio[n].state
    BY <1>1, <2>1, ClearFields
  <2> HIDE DEF r
  <2>3. LastSeq(r) = LastSeq(radio[n])
    BY <2>2 DEF LastSeq
  <2>4. Unstamped(r, at'[n], snapshot'[n])
           = Unstamped(radio[n], at[n], snapshot[n])
    BY <2>1, <2>2 DEF Unstamped
  <2> QED BY <2>1, <2>2, <2>3, <2>4 DEF Seen, View, Same
<1> QED BY <1>3, <1>4, <1>5, <1>6

-----------------------------------------------------------------------------
(* Steps of a tag *)

\* The tag alone changes.
LEMMA TagAlone ==
    ASSUME Exchanges, NEW t \in Tags, NEW v1, Seen(t)' = v1, Local(t, v1),
           \A m \in Nodes \ {t} : Seen(m)' = Seen(m),
           \A a \in Anchors : Exchange(t, a, v1, Seen(a))
    PROVE  Exchanges'
<1>1. ASSUME NEW m \in Nodes PROVE Local(m, Seen(m)')
  BY DEF Exchanges
<1>2. ASSUME NEW u \in Tags, NEW a \in Anchors
      PROVE  Exchange(u, a, Seen(u)', Seen(a)')
  <2>1. u \in Nodes /\ a \in Nodes \ {t}
    BY RoleAssumption
  <2>2. Seen(a)' = Seen(a) /\ (u # t => Seen(u)' = Seen(u))
    BY <2>1
  <2> HIDE DEF Seen
  <2>3. CASE u = t
    BY <2>2, <2>3
  <2>4. CASE u # t
    BY <2>2, <2>4 DEF Exchanges
  <2> QED BY <2>3, <2>4
<1> QED BY <1>1, <1>2 DEF Exchanges

\* What is known of a tag, an anchor and the frames between them.
LEMMA TagKnown ==
    ASSUME TypeOK, SessionConsistent, Exchanges, NEW t \in Tags
    PROVE  /\ t \in Nodes /\ t \notin Anchors /\ node[t] \in Node
           /\ Consistent(t, node[t]) /\ Local(t, Seen(t))
           /\ \A a \in Anchors : a \in Nodes \ {t}
           /\ \A a \in Anchors : /\ Local(a, Seen(a))
                                 /\ Exchange(t, a, Seen(t), Seen(a))
BY RoleAssumption DEF TypeOK, SessionConsistent, Exchanges

\* The tag's own fields, as they are seen.
LEMMA SeenFields ==
    ASSUME NEW n \in Nodes
    PROVE  /\ Seen(n).peers = node[n].peers /\ Seen(n).range = node[n].range
           /\ Seen(n).phase = PhaseOf(node[n])
           /\ Seen(n).acked = node[n].pollAcknowledged
           /\ Seen(n).reported = node[n].rangeReportReceived
BY DEF Seen, View

\* What send_range() sends after acknowledgements, and what is stamped for it.
LEMMA RangeSends ==
    ASSUME NEW n \in Tags, NEW nd \in Node, nd.pollAcknowledged # {},
           nd.pollAcknowledged \subseteq nd.peers
    PROVE  LET g   == RangeMessage(n, nd)
               new == TxStamped(n, Sends(nd, g.kind, g.dst), g.seq).stamps
           IN /\ g \in Frame /\ g.kind = "Range" /\ g.src = n
              /\ g.dst = Broadcast /\ g.targets = nd.pollAcknowledged
              /\ WellAddressed(g)
              /\ \A a \in Nodes :
                   /\ new[a]["pollSent"] = nd.stamps[a]["pollSent"]
                   /\ new[a]["pollAckReceived"] = nd.stamps[a]["pollAckReceived"]
              /\ \A a \in nd.pollAcknowledged :
                   /\ g.times[a]["pollSent"] = nd.stamps[a]["pollSent"]
                   /\ g.times[a]["pollAckReceived"]
                        = nd.stamps[a]["pollAckReceived"]
                   /\ g.times[a]["rangeSent"] = g.seq
                   /\ new[a]["rangeSent"] = g.seq
<1> DEFINE g == RangeMessage(n, nd)
           new == TxStamped(n, Sends(nd, g.kind, g.dst), g.seq).stamps
<1>1. n \in Nodes /\ n \notin Anchors
  BY RoleAssumption
<1>2. g \in Frame
  BY <1>1, ListMessageType
<1>3. /\ g.kind = "Range" /\ g.src = n /\ g.dst = Broadcast
      /\ g.targets = RangeTargets(nd) /\ g.seq = nd.sequence
      /\ g.times = [m \in Nodes |-> IF m \in RangeTargets(nd)
                                     THEN RangeTiming(nd, m) ELSE NoStamps]
  BY DEF RangeMessage, Message
<1>4. RangeTargets(nd) = nd.pollAcknowledged /\ nd.pollAcknowledged \subseteq Nodes
  BY DEF RangeTargets, Node
<1>5. WellAddressed(g)
  BY <1>1, <1>3 DEF WellAddressed
<1>6. \A a \in nd.pollAcknowledged : g.times[a] = RangeTiming(nd, a)
  BY <1>3, <1>4
<1>7. \A a \in Nodes :
        /\ RangeTiming(nd, a)["pollSent"] = nd.stamps[a]["pollSent"]
        /\ RangeTiming(nd, a)["pollAckReceived"] = nd.stamps[a]["pollAckReceived"]
        /\ RangeTiming(nd, a)["rangeSent"] = nd.sequence
  BY DEF RangeTiming, NoStamps, StampNames
<1>8. /\ "Range" \in Kinds /\ Broadcast \in Nodes \cup {Broadcast}
      /\ nd.sequence \in Stamp
  BY DEF Kinds, Node, Stamp
<1>9. /\ \A a \in Nodes :
           /\ new[a]["pollSent"] = nd.stamps[a]["pollSent"]
           /\ new[a]["pollAckReceived"] = nd.stamps[a]["pollAckReceived"]
      /\ \A a \in nd.pollAcknowledged : new[a]["rangeSent"] = nd.sequence
  <2> HIDE DEF g
  <2>1. new = TxStamped(n, Sends(nd, "Range", Broadcast), nd.sequence).stamps
    BY <1>3
  <2> HIDE DEF new
  <2> QED BY <1>1, <1>4, <1>8, <2>1, SentStamps
<1> HIDE DEF g, new
<1>10. /\ g \in Frame /\ g.kind = "Range" /\ g.src = n
       /\ g.dst = Broadcast /\ g.targets = nd.pollAcknowledged
       /\ WellAddressed(g)
  BY <1>2, <1>3, <1>4, <1>5
<1>11. \A a \in nd.pollAcknowledged :
         /\ g.times[a]["pollSent"] = nd.stamps[a]["pollSent"]
         /\ g.times[a]["pollAckReceived"] = nd.stamps[a]["pollAckReceived"]
         /\ g.times[a]["rangeSent"] = g.seq
         /\ new[a]["rangeSent"] = g.seq
  BY <1>3, <1>4, <1>6, <1>7, <1>9
<1> QED BY <1>9, <1>10, <1>11 DEF g, new

\* What the proofs below rest on.
ExchangeInv ==
    TypeOK /\ SessionConsistent /\ AllDriven /\ Exchanges

\* What a tag that ticks may start with an anchor.
LEMMA TickStarts ==
    ASSUME Undisturbed, ExchangeInv, NEW t \in Tags, Tick(t), NEW a \in Anchors,
           NEW nd, NEW held, NEW out, Agreed(t, a, Looks(nd, held, out), Seen(a)),
           \A f \in out : f.kind = "Blink" => PhaseOf(nd) = "idle",
           \A f \in out : f.kind \in Calls /\ a \in f.targets
                             => CallOK(a, Looks(nd, held, out), f)
    PROVE  Exchange(t, a, Looks(nd, held, out), Seen(a))
<1>1. t \in Nodes /\ a \in Nodes \ {t}
  BY RoleAssumption
<1>2. /\ \A f \in Seen(a).outbox : f.dst # t
      /\ \A f \in Seen(a).waiting : f.src # t
  BY <1>1, TickSeen DEF ExchangeInv
<1> HIDE DEF Seen
<1>3. Looks(nd, held, out).waiting = {} /\ Looks(nd, held, out).outbox = out
      /\ Looks(nd, held, out).phase = PhaseOf(nd)
  BY DEF Looks
<1>4. /\ Called(t, a, Seen(a)) = {} /\ Replying(t, Seen(a)) = {}
      /\ Replied(a, t, Looks(nd, held, out)) = {}
  BY <1>2, <1>3 DEF Called, Replying, Replied
<1>5. Greets(t, a, Looks(nd, held, out), Seen(a))
  BY <1>2, <1>3 DEF Greets
<1> QED BY <1>3, <1>4, <1>5, ExchangeStarts

\* tick_async() ranges with the anchors that have acknowledged.
LEMMA TickPollAckTimeoutKeeps ==
    ASSUME Undisturbed, ExchangeInv, NEW t \in Tags, TickPollAckTimeout(t)
    PROVE  /\ Exchanges'
           /\ Seen(t).phase = "polling" /\ Seen(t).acked # {}
           /\ Shows(t, "ranging", Seen(t).acked, {}) /\ SamePolls(t)
           /\ Numbers(t)
<1> DEFINE nd == BeginRangeReportPhase(node[t])
           g == RangeMessage(t, nd)
           held == TxStamped(t, Sends(nd, g.kind, g.dst), g.seq).stamps
           v1 == Looks(nd, held, {g})
<1>1. /\ t \in Nodes /\ node[t] \in Node /\ Local(t, Seen(t)) /\ Tick(t)
      /\ Consistent(t, node[t]) /\ Transmits(t, nd, g)
      /\ node[t].session /\ node[t].expected = "PollAck"
      /\ node[t].pollAcknowledged # {}
  BY TagKnown DEF ExchangeInv, TickPollAckTimeout, Tick
<1>2. /\ nd \in Node /\ nd.peers = node[t].peers /\ nd.stamps = node[t].stamps
      /\ nd.sequence = node[t].sequence
      /\ nd.pollAcknowledged = node[t].pollAcknowledged
      /\ nd.rangeReportReceived = {} /\ nd.range = node[t].range
      /\ PhaseOf(nd) = "ranging"
  <2>1. nd \in Node
    BY <1>1, PhaseType
  <2> QED BY <1>1, <2>1 DEF BeginRangeReportPhase, Node, PhaseOf
<1>3. nd.pollAcknowledged # {} /\ nd.pollAcknowledged \subseteq nd.peers
  BY <1>1, <1>2 DEF Consistent
<1> HIDE DEF nd
<1>4. /\ g \in Frame /\ g.kind = "Range" /\ g.src = t
      /\ g.dst = Broadcast /\ g.targets = nd.pollAcknowledged
      /\ WellAddressed(g)
      /\ \A a \in Nodes :
           /\ held[a]["pollSent"] = nd.stamps[a]["pollSent"]
           /\ held[a]["pollAckReceived"] = nd.stamps[a]["pollAckReceived"]
      /\ \A a \in nd.pollAcknowledged :
           /\ g.times[a]["pollSent"] = nd.stamps[a]["pollSent"]
           /\ g.times[a]["pollAckReceived"] = nd.stamps[a]["pollAckReceived"]
           /\ g.times[a]["rangeSent"] = g.seq
           /\ held[a]["rangeSent"] = g.seq
  BY <1>2, <1>3, RangeSends
<1>5. /\ Seen(t).held = node[t].stamps /\ Changes(t, nd, held, {g})
  <2>1. g \in Frame
    BY <1>4
  <2> HIDE DEF g
  <2> QED BY <1>1, <1>2, <2>1, TickSeen, CommitSeen DEF ExchangeInv
<1> HIDE DEF g, held
<1>6. Local(t, v1)
  BY <1>1, <1>2, <1>3, <1>4, SeenFields DEF Local, Looks
<1>7. ASSUME NEW a \in Anchors PROVE Exchange(t, a, v1, Seen(a))
  <2>1. a \in Nodes /\ Agreed(t, a, Seen(t), Seen(a))
    BY TagKnown DEF ExchangeInv, Exchange
  <2>2. Agreed(t, a, v1, Seen(a))
    BY <1>1, <1>2, <1>4, <1>5, <2>1, SeenFields DEF Agreed, Looks
  <2>3. a \in g.targets => CallOK(a, v1, g)
    BY <1>2, <1>4, <2>1 DEF CallOK, Looks
  <2> QED BY <1>1, <1>4, <2>2, <2>3, TickStarts
<1>8. Exchanges'
  BY <1>5, <1>6, <1>7, TagAlone DEF Changes, ExchangeInv
<1>9. Seen(t).phase = "polling" /\ Seen(t).acked = node[t].pollAcknowledged
  BY <1>1, SeenFields DEF PhaseOf
<1>10. Shows(t, "ranging", Seen(t).acked, {}) /\ SamePolls(t)
  <2>1. /\ Seen(t).peers = node[t].peers /\ Seen(t).range = node[t].range
    BY <1>1, SeenFields
  <2> HIDE DEF Seen
  <2>2. /\ Shows(t, PhaseOf(nd), nd.pollAcknowledged, nd.rangeReportReceived)
        /\ Seen(t)'.peers = nd.peers /\ Seen(t)'.range = nd.range
        /\ Seen(t)'.held = held
    BY <1>5, ChangesShow
  <2>3. Shows(t, "ranging", Seen(t).acked, {})
    BY <1>2, <1>9, <2>2
  <2> QED BY <1>2, <1>4, <1>5, <2>1, <2>2, <2>3 DEF SamePolls
<1>11. Numbers(t)
  BY <1>1, <1>2, NodeSteps DEF Numbers, ExchangeInv
<1> QED BY <1>1, <1>8, <1>9, <1>10, <1>11

\* A tag that ends up without a session, and sends nothing or a Blink.
LEMMA TickIdleKeeps ==
    ASSUME Undisturbed, ExchangeInv, NEW t \in Tags, Tick(t),
           NEW nd \in Node, NEW out, Changes(t, nd, nd.stamps, out),
           \A f \in out : /\ f \in Frame /\ f.src = t /\ f.kind = "Blink"
                         /\ WellAddressed(f),
           nd.peers \subseteq Anchors, IsFiniteSet(nd.peers),
           PhaseOf(nd) = "idle", nd.pollAcknowledged = {},
           nd.rangeReportReceived = {},
           \A m \in Nodes : Coherent(nd.range[m])
    PROVE  /\ Exchanges'
           /\ Shows(t, "idle", {}, {}) /\ Seen(t)'.range = nd.range
<1> DEFINE v1 == Looks(nd, nd.stamps, out)
<1>1. Local(t, v1)
  BY DEF Local, Looks
<1>2. ASSUME NEW a \in Anchors PROVE Exchange(t, a, v1, Seen(a))
  <2>1. Agreed(t, a, v1, Seen(a))
    BY DEF Agreed, Looks
  <2>2. \A f \in out : f.kind \notin Calls
    BY DEF Calls
  <2> QED BY <2>1, <2>2, TickStarts
<1> HIDE DEF v1
<1>3. Seen(t)' = v1 /\ \A m \in Nodes \ {t} : Seen(m)' = Seen(m)
  BY DEF Changes, v1
<1>4. Exchanges'
  BY <1>1, <1>2, <1>3, TagAlone DEF ExchangeInv
<1> HIDE DEF Seen
<1>5. Shows(t, "idle", {}, {}) /\ Seen(t)'.range = nd.range
  BY ChangesShow
<1> QED BY <1>4, <1>5

\* A reset leaves no session.
LEMMA ResetFields ==
    ASSUME NEW n, NEW nd \in Node
    PROVE  LET nd1 == ResetProtocolState(n, nd) IN
           /\ nd1.peers = nd.peers /\ nd1.stamps = nd.stamps
           /\ nd1.range = nd.range /\ nd1.pollAcknowledged = {}
           /\ nd1.rangeReportReceived = {} /\ PhaseOf(nd1) = "idle"
BY DEF ResetProtocolState, Node, PhaseOf

\* reset_protocol_state() counts no frame.
LEMMA ResetNumber ==
    ASSUME NEW n, NEW nd \in Node
    PROVE  ResetProtocolState(n, nd).sequence = nd.sequence
BY DEF ResetProtocolState, Node

\* tick_async() gives a session up.
LEMMA TickSessionTimeoutKeeps ==
    ASSUME Undisturbed, ExchangeInv, NEW t \in Tags, TickSessionTimeout(t)
    PROVE  /\ Exchanges'
           /\ Seen(t).phase # "idle" /\ Shows(t, "idle", {}, {})
           /\ Seen(t)'.range = Seen(t).range /\ SameNumber(t)
<1> DEFINE nd == ResetProtocolState(t, node[t])
<1>1. /\ t \in Nodes /\ node[t] \in Node /\ Local(t, Seen(t)) /\ Tick(t)
      /\ Becomes(t, nd)
  BY TagKnown DEF ExchangeInv, TickSessionTimeout, Tick
<1>2. /\ nd \in Node /\ nd.peers = node[t].peers /\ nd.range = node[t].range
      /\ nd.pollAcknowledged = {} /\ nd.rangeReportReceived = {}
      /\ PhaseOf(nd) = "idle" /\ nd.sequence = node[t].sequence
  BY <1>1, PhaseType, ResetFields, ResetNumber
<1> HIDE DEF nd
<1>3. Changes(t, nd, nd.stamps, {})
  BY <1>1, <1>2, TickSeen, CommitSeen DEF ExchangeInv
<1>4. /\ nd.peers \subseteq Anchors /\ IsFiniteSet(nd.peers)
      /\ \A m \in Nodes : Coherent(nd.range[m])
  BY <1>1, <1>2, SeenFields DEF Local
<1>5. Seen(t).phase # "idle" /\ nd.range = Seen(t).range
  BY <1>1, <1>2, SeenFields DEF PhaseOf, TickSessionTimeout
<1>6. SameNumber(t)
  BY <1>1, <1>2, NodeSteps DEF SameNumber, ExchangeInv
<1> HIDE DEF Seen
<1> QED BY <1>1, <1>2, <1>3, <1>4, <1>5, <1>6, TickIdleKeeps

\* No stamp at all is as coherent as six of one exchange.
LEMMA NoStampsCoherent == Coherent(NoStamps)
BY DEF Coherent, NoStamps, StampNames

\* What dropping a peer leaves of the table.
LEMMA RemoveFields ==
    ASSUME NEW nd \in Node, NEW m \in Nodes
    PROVE  LET nd1 == RemovePeer(nd, m) IN
           /\ nd1 \in Node /\ nd1.peers = nd.peers \ {m}
           /\ \A i \in Nodes : /\ i # m => nd1.stamps[i] = nd.stamps[i]
                               /\ i # m => nd1.range[i] = nd.range[i]
           /\ nd1.range[m] = NoStamps /\ nd1.sequence = nd.sequence
<1>1. RemovePeer(nd, m) \in Node
  BY PeerTableType
<1> QED BY <1>1 DEF RemovePeer, Node

\* A tag drops a peer it has not heard for long.
LEMMA TagPruneKeeps ==
    ASSUME Undisturbed, ExchangeInv, NEW t \in Tags, TickPrunePeer(t)
    PROVE  /\ Exchanges' /\ Shows(t, "idle", {}, {}) /\ SameNumber(t)
           /\ \E m \in Nodes : Forgets(t, m)
<1>1. PICK m \in node[t].peers :
         Becomes(t, ResetProtocolState(t, RemovePeer(node[t], m)))
  BY DEF TickPrunePeer
<1> DEFINE rm == RemovePeer(node[t], m)
           nd == ResetProtocolState(t, rm)
<1>2. /\ t \in Nodes /\ node[t] \in Node /\ Local(t, Seen(t)) /\ Tick(t)
      /\ m \in Nodes /\ Becomes(t, nd)
  BY <1>1, TagKnown DEF ExchangeInv, Tick, Node
<1>3. /\ rm \in Node /\ rm.peers = node[t].peers \ {m}
      /\ \A i \in Nodes : i # m => rm.range[i] = node[t].range[i]
      /\ rm.range[m] = NoStamps /\ rm.sequence = node[t].sequence
  <2>1. node[t] \in Node /\ m \in Nodes
    BY <1>2
  <2> QED BY ONLY <2>1, RemoveFields
<1> HIDE DEF rm
<1>4. /\ nd \in Node /\ nd.peers = rm.peers /\ nd.range = rm.range
      /\ nd.pollAcknowledged = {} /\ nd.rangeReportReceived = {}
      /\ PhaseOf(nd) = "idle" /\ nd.sequence = rm.sequence
  BY <1>2, <1>3, PhaseType, ResetFields, ResetNumber
<1> HIDE DEF nd
<1>5. Changes(t, nd, nd.stamps, {})
  BY <1>2, <1>4, TickSeen, CommitSeen DEF ExchangeInv
<1>6. node[t].peers \subseteq Anchors /\ IsFiniteSet(node[t].peers)
      /\ \A i \in Nodes : Coherent(node[t].range[i])
  BY <1>2, SeenFields DEF Local
<1>7. IsFiniteSet(nd.peers) /\ nd.peers \subseteq Anchors
  BY <1>3, <1>4, <1>6, FS_RemoveElement
<1>8. \A i \in Nodes : Coherent(nd.range[i])
  BY <1>3, <1>4, <1>6, NoStampsCoherent
<1>9. SameNumber(t)
  BY <1>2, <1>3, <1>4, NodeSteps DEF SameNumber, ExchangeInv
<1>10. /\ nd.range[m] = NoStamps
       /\ \A i \in Nodes \ {m} : nd.range[i] = Seen(t).range[i]
  BY <1>2, <1>3, <1>4, SeenFields
<1> HIDE DEF Seen
<1>11. /\ Exchanges' /\ Shows(t, "idle", {}, {}) /\ Seen(t)'.range = nd.range
  BY <1>2, <1>4, <1>5, <1>7, <1>8, TickIdleKeeps
<1> QED BY <1>2, <1>9, <1>10, <1>11 DEF Forgets

\* A round that is due finds a tag without a session.
LEMMA RoundIdle ==
    ASSUME NEW t \in Tags, node[t] \in Node, Consistent(t, node[t]), RoundDue(t)
    PROVE  ~ node[t].session /\ PhaseOf(node[t]) = "idle"
BY DEF RoundDue, SessionActive, Consistent, PhaseOf, Node

\* Counting a round touches nothing else.
LEMMA CountFields ==
    ASSUME NEW nd \in Node
    PROVE  LET nd1 == CountRound(nd) IN
           /\ nd1.peers = nd.peers /\ nd1.stamps = nd.stamps
           /\ nd1.range = nd.range /\ nd1.pollAcknowledged = nd.pollAcknowledged
           /\ nd1.rangeReportReceived = nd.rangeReportReceived
           /\ nd1.sequence = nd.sequence /\ PhaseOf(nd1) = PhaseOf(nd)
BY DEF CountRound, Node, PhaseOf

\* A tag blinks.
LEMMA TickBlinkKeeps ==
    ASSUME Undisturbed, ExchangeInv, NEW t \in Tags, TickBlink(t)
    PROVE  /\ Exchanges'
           /\ Seen(t).phase = "idle" /\ Shows(t, "idle", {}, {})
           /\ Seen(t)'.range = Seen(t).range /\ Numbers(t)
           /\ node[t].sequence < MaxTicks[t]
<1> DEFINE nd == CountRound(node[t])
           g == Message(t, node[t], "Blink", Broadcast)
<1>1. /\ t \in Nodes /\ node[t] \in Node /\ Local(t, Seen(t)) /\ Tick(t)
      /\ Consistent(t, node[t]) /\ RoundDue(t) /\ Transmits(t, nd, g)
      /\ t \notin Anchors
  BY TagKnown DEF ExchangeInv, TickBlink, StartsRound, Tick
<1>2. /\ nd \in Node /\ nd.peers = node[t].peers /\ nd.range = node[t].range
      /\ nd.stamps = node[t].stamps /\ nd.sequence = node[t].sequence
      /\ nd.pollAcknowledged = node[t].pollAcknowledged
      /\ nd.rangeReportReceived = node[t].rangeReportReceived
      /\ PhaseOf(nd) = "idle" /\ PhaseOf(node[t]) = "idle"
  BY <1>1, PhaseType, CountFields, RoundIdle
<1>3. /\ g \in Frame /\ g.kind = "Blink" /\ g.src = t /\ g.dst = Broadcast
      /\ g.seq \in Stamp
  <2>1. g \in Frame
    BY <1>1, MessageType DEF Kinds
  <2> QED BY <2>1 DEF Message, Frame, Stamp
<1> HIDE DEF nd, g
<1>4. WellAddressed(g)
  BY <1>1, <1>3 DEF WellAddressed
<1>5. TxStamped(t, Sends(nd, g.kind, g.dst), g.seq).stamps = nd.stamps
  BY <1>1, <1>2, <1>3, SentStamps DEF Kinds
<1>6. Changes(t, nd, nd.stamps, {g})
  BY <1>1, <1>2, <1>3, <1>5, TickSeen, CommitSeen DEF ExchangeInv
<1>7. /\ nd.peers \subseteq Anchors /\ IsFiniteSet(nd.peers)
      /\ \A m \in Nodes : Coherent(nd.range[m])
      /\ nd.pollAcknowledged = {} /\ nd.rangeReportReceived = {}
  BY <1>1, <1>2, SeenFields DEF Local
<1>8. Seen(t).phase = "idle" /\ nd.range = Seen(t).range
  BY <1>1, <1>2, SeenFields
<1>9. Numbers(t) /\ node[t].sequence < MaxTicks[t]
  BY <1>1, <1>2, NodeSteps DEF Numbers, ExchangeInv, RoundDue
<1> HIDE DEF Seen
<1>10. /\ Exchanges' /\ Shows(t, "idle", {}, {}) /\ Seen(t)'.range = nd.range
  BY <1>1, <1>2, <1>3, <1>4, <1>6, <1>7, TickIdleKeeps
<1> QED BY <1>8, <1>9, <1>10

\* A tag polls its peers.
LEMMA TickPollKeeps ==
    ASSUME Undisturbed, ExchangeInv, NEW t \in Tags, TickPoll(t)
    PROVE  /\ Exchanges'
           /\ Seen(t).phase = "idle" /\ Shows(t, "polling", {}, {})
           /\ Seen(t)'.range = Seen(t).range /\ Numbers(t)
           /\ node[t].sequence < MaxTicks[t]
           /\ \A a \in Seen(t)'.peers :
                 Seen(t)'.held[a]["pollSent"] = node[t].sequence
<1> DEFINE begun == BeginPollAckPhase(node[t])
           nd == CountRound(begun)
           g == PollMessage(t, begun)
           held == TxStamped(t, Sends(nd, g.kind, g.dst), g.seq).stamps
           v1 == Looks(nd, held, {g})
<1>1. /\ t \in Nodes /\ node[t] \in Node /\ Local(t, Seen(t)) /\ Tick(t)
      /\ Transmits(t, nd, g) /\ t \notin Anchors
      /\ Consistent(t, node[t]) /\ RoundDue(t)
  BY TagKnown DEF ExchangeInv, TickPoll, StartsRound, Tick
<1>2. /\ begun \in Node /\ begun.peers = node[t].peers
      /\ begun.stamps = node[t].stamps /\ begun.range = node[t].range
      /\ begun.pollAcknowledged = {} /\ begun.rangeReportReceived = {}
      /\ PhaseOf(begun) = "polling" /\ begun.sequence = node[t].sequence
  <2>1. begun \in Node
    BY <1>1, PhaseType
  <2> QED BY <1>1, <2>1 DEF BeginPollAckPhase, Node, PhaseOf
<1> HIDE DEF begun
<1>3. /\ nd \in Node /\ nd.peers = node[t].peers /\ nd.range = node[t].range
      /\ nd.stamps = node[t].stamps /\ nd.pollAcknowledged = {}
      /\ nd.rangeReportReceived = {} /\ PhaseOf(nd) = "polling"
      /\ nd.sequence = node[t].sequence
  BY <1>1, <1>2, PhaseType, CountFields
<1>4. /\ g \in Frame /\ g.kind = "Poll" /\ g.src = t /\ g.dst = Broadcast
      /\ g.targets = nd.peers /\ g.seq \in Stamp /\ g.seq = node[t].sequence
  <2>1. g \in Frame
    BY <1>1, <1>2, ListMessageType
  <2>2. g.seq \in Stamp
    BY <2>1 DEF Frame, Stamp
  <2> QED BY <1>2, <1>3, <2>1, <2>2 DEF PollMessage, Message
<1> HIDE DEF nd, g
<1>5. WellAddressed(g)
  BY <1>1, <1>4 DEF WellAddressed
<1>6. \A a \in nd.peers : held[a]["pollSent"] = g.seq
  BY <1>1, <1>3, <1>4, SentStamps DEF Kinds
<1>7. Changes(t, nd, held, {g})
  BY <1>1, <1>3, <1>4, TickSeen, CommitSeen DEF ExchangeInv
<1> HIDE DEF held
<1>8. Local(t, v1)
  BY <1>1, <1>3, <1>4, <1>5, SeenFields DEF Local, Looks
<1>9. ASSUME NEW a \in Anchors PROVE Exchange(t, a, v1, Seen(a))
  <2>1. Agreed(t, a, v1, Seen(a))
    BY <1>3 DEF Agreed, Looks
  <2>2. a \in g.targets => CallOK(a, v1, g)
    BY <1>3, <1>4, <1>6 DEF CallOK, Looks
  <2> QED BY <1>1, <1>4, <2>1, <2>2, TickStarts
<1>10. Exchanges'
  BY <1>7, <1>8, <1>9, TagAlone DEF Changes, ExchangeInv
<1>11. Seen(t).phase = "idle" /\ nd.range = Seen(t).range
  BY <1>1, <1>3, SeenFields, RoundIdle
<1>12. Numbers(t) /\ node[t].sequence < MaxTicks[t]
  BY <1>1, <1>3, NodeSteps DEF Numbers, ExchangeInv, RoundDue
<1> HIDE DEF Seen
<1>13. /\ Shows(t, PhaseOf(nd), nd.pollAcknowledged, nd.rangeReportReceived)
       /\ Seen(t)'.peers = nd.peers /\ Seen(t)'.range = nd.range
       /\ Seen(t)'.held = held
  BY <1>7, ChangesShow
<1>14. Shows(t, "polling", {}, {})
  BY <1>3, <1>13
<1> QED BY <1>4, <1>6, <1>10, <1>11, <1>12, <1>13, <1>14

\* What a device knows of the frame it reads, and what it then may do.
LEMMA Reading ==
    ASSUME ExchangeInv, NEW n \in Nodes, NEW f \in radio[n].inbox, Reads(n, f),
           NEW nd \in Node
    PROVE  /\ f \in Seen(n).waiting /\ f \in Frame /\ WellAddressed(f)
           /\ f.src \in Nodes /\ f.seq \in Stamp
           /\ Seen(n).held = node[n].stamps /\ Seen(n).outbox = {}
           /\ Becomes(n, nd) => Changes(n, nd, nd.stamps, {})
           /\ \A g \in Frame : Transmits(n, nd, g) =>
                LET sent == Sends(nd, g.kind, g.dst) IN
                Changes(n, nd, TxStamped(n, sent, g.seq).stamps, {g})
<1>1. /\ radio[n].state = "Rx" /\ TxDone \notin snapshot[n]
      /\ UNCHANGED snapshot /\ at' = [at EXCEPT ![n] = "clear"]
      /\ f \in Seen(n).waiting /\ f \in Frame
  BY ReadsSeen DEF ExchangeInv
<1>2. WellAddressed(f)
  BY <1>1 DEF ExchangeInv, Exchanges, Local
<1>3. f.src \in Nodes /\ f.seq \in Stamp
  BY <1>1 DEF Frame, Stamp
<1> QED BY <1>1, <1>2, <1>3, CommitSeen DEF ExchangeInv

\* A tag without a session hears from an anchor and stays without one.
LEMMA IdleKeeps ==
    ASSUME ExchangeInv, NEW t \in Tags, Seen(t).phase = "idle",
           NEW nd \in Node, Changes(t, nd, nd.stamps, {}),
           nd.peers \subseteq Anchors, IsFiniteSet(nd.peers),
           PhaseOf(nd) = "idle", nd.pollAcknowledged = {},
           nd.rangeReportReceived = {},
           \A m \in Nodes : Coherent(nd.range[m])
    PROVE  /\ Exchanges'
           /\ Shows(t, "idle", {}, {}) /\ Seen(t)'.range = nd.range
<1> DEFINE v1 == Looks(nd, nd.stamps, {})
<1>1. Local(t, v1)
  BY DEF Local, Looks
<1>2. ASSUME NEW a \in Anchors PROVE Exchange(t, a, v1, Seen(a))
  <2>1. Exchange(t, a, Seen(t), Seen(a))
    BY DEF ExchangeInv, Exchanges
  <2> HIDE DEF Seen
  <2>2. Called(t, a, Seen(a)) = {} /\ Replying(t, Seen(a)) = {}
    BY <2>1, ExchangeSilent
  <2>3. v1.phase = "idle" /\ v1.waiting = {} /\ v1.outbox = {} /\ v1.acked = {}
    BY DEF Looks
  <2> HIDE DEF v1
  <2>4. /\ Replied(a, t, v1) = {} /\ Greets(t, a, v1, Seen(a))
        /\ Agreed(t, a, v1, Seen(a))
    BY <2>3 DEF Replied, Greets, Agreed
  <2> QED BY <2>2, <2>3, <2>4, ExchangeStarts
<1> HIDE DEF v1
<1>3. Seen(t)' = v1 /\ \A m \in Nodes \ {t} : Seen(m)' = Seen(m)
  BY DEF Changes, v1
<1>4. Exchanges'
  BY <1>1, <1>2, <1>3, TagAlone DEF ExchangeInv
<1> HIDE DEF Seen
<1>5. Shows(t, "idle", {}, {}) /\ Seen(t)'.range = nd.range
  BY ChangesShow
<1> QED BY <1>4, <1>5

\* A RangingInit finds the tag without a session.
LEMMA OnRangingInitKeeps ==
    ASSUME ExchangeInv, NEW n \in Nodes, NEW f \in radio[n].inbox,
           OnRangingInit(n, f)
    PROVE  /\ Exchanges' /\ n \in Tags
           /\ Seen(n).phase = "idle" /\ Shows(n, "idle", {}, {})
           /\ Seen(n)'.range = Seen(n).range /\ SameNumber(n)
<1> DEFINE nd == ResetProtocolState(n, Introduced(n, f))
<1>1. /\ n \in Tags /\ f.kind = "RangingInit" /\ f.dst = n /\ Reads(n, f)
      /\ Becomes(n, nd)
  BY DEF OnRangingInit, AcceptsInit
<1>2. /\ node[n] \in Node /\ f \in Seen(n).waiting /\ f \in Frame
      /\ f.src \in Nodes /\ WellAddressed(f) /\ Local(n, Seen(n))
  BY <1>1, Reading, TagKnown DEF ExchangeInv
<1>3. f.src \in Anchors
  BY <1>1, <1>2, RoleAssumption DEF WellAddressed
<1>4. Seen(n).phase = "idle"
  BY <1>1, <1>2, <1>3, TagKnown DEF ExchangeInv, Exchange, Greets
<1>5. /\ nd \in Node /\ nd.peers = node[n].peers \cup {f.src}
      /\ nd.range = node[n].range /\ nd.pollAcknowledged = {}
      /\ nd.rangeReportReceived = {} /\ PhaseOf(nd) = "idle"
      /\ nd.sequence = node[n].sequence
  <2>1. EnsurePeer(node[n], f.src) \in Node
    BY <1>2, PeerTableType
  <2>2. Introduced(n, f) \in Node
    BY <1>2, <2>1, ObserveType DEF Introduced
  <2>3. /\ Introduced(n, f).peers = node[n].peers \cup {f.src}
        /\ Introduced(n, f).range = node[n].range
        /\ Introduced(n, f).sequence = node[n].sequence
    BY <1>2 DEF Introduced, Observe, EnsurePeer, Node
  <2> QED BY <2>2, <2>3, PhaseType, ResetFields, ResetNumber
<1> HIDE DEF nd
<1>6. Changes(n, nd, nd.stamps, {})
  BY <1>1, <1>5, Reading
<1>7. node[n].peers \subseteq Anchors /\ IsFiniteSet(node[n].peers)
      /\ \A m \in Nodes : Coherent(node[n].range[m])
  BY <1>1, <1>2, SeenFields DEF Local
<1>8. nd.peers \subseteq Anchors /\ IsFiniteSet(nd.peers)
  <2>1. IsFiniteSet(node[n].peers \cup {f.src})
    BY <1>7, FS_AddElement
  <2> QED BY <1>3, <1>5, <1>7, <2>1
<1>9. SameNumber(n) /\ nd.range = Seen(n).range
  BY <1>1, <1>2, <1>5, NodeSteps, SeenFields DEF SameNumber, ExchangeInv
<1> HIDE DEF Seen
<1>10. /\ Exchanges' /\ Shows(n, "idle", {}, {}) /\ Seen(n)'.range = nd.range
  BY <1>1, <1>4, <1>5, <1>6, <1>7, <1>8, IdleKeeps
<1> QED BY <1>1, <1>4, <1>9, <1>10


\* What a PollAck brings the tag.
LEMMA AcknowledgedFields ==
    ASSUME NEW n \in Nodes, node[n] \in Node, NEW f \in Frame
    PROVE  LET nd == Acknowledged(n, f) IN
           /\ nd \in Node /\ nd.peers = node[n].peers
           /\ nd.range = node[n].range
           /\ nd.sequence = node[n].sequence
           /\ nd.pollAcknowledged = node[n].pollAcknowledged \cup {f.src}
           /\ nd.rangeReportReceived = node[n].rangeReportReceived
           /\ PhaseOf(nd) = PhaseOf(node[n])
           /\ \A m \in Nodes \ {f.src} : nd.stamps[m] = node[n].stamps[m]
           /\ nd.stamps[f.src]["pollSent"] = node[n].stamps[f.src]["pollSent"]
           /\ nd.stamps[f.src]["pollAckReceived"] = f.seq
<1> DEFINE ob == Observe(node[n], f)
           st == Stamped(ob, {f.src}, "pollAckReceived", f.seq)
           nd == Acknowledged(n, f)
<1>1. f.src \in Nodes /\ f.seq \in Stamp
  BY DEF Frame, Stamp
<1>2. /\ ob \in Node /\ ob.stamps = node[n].stamps /\ ob.peers = node[n].peers
      /\ ob.range = node[n].range /\ ob.sequence = node[n].sequence
      /\ ob.pollAcknowledged = node[n].pollAcknowledged
      /\ ob.rangeReportReceived = node[n].rangeReportReceived
      /\ ob.session = node[n].session /\ ob.expected = node[n].expected
  <2>1. ob \in Node
    BY ObserveType
  <2> QED BY <2>1 DEF Observe, Node
<1> HIDE DEF ob
<1>3. /\ st \in Node /\ st.peers = ob.peers /\ st.range = ob.range
      /\ st.sequence = ob.sequence
      /\ st.pollAcknowledged = ob.pollAcknowledged
      /\ st.rangeReportReceived = ob.rangeReportReceived
      /\ st.session = ob.session /\ st.expected = ob.expected
  <2>1. st \in Node
    BY <1>1, <1>2, StampedType DEF StampNames
  <2> QED BY <1>2, <2>1 DEF Stamped, Node
<1>4. st.stamps = [m \in Nodes |-> IF m \in {f.src}
                     THEN [ob.stamps[m] EXCEPT !["pollAckReceived"] = f.seq]
                     ELSE ob.stamps[m]]
  BY <1>2 DEF Stamped, Node
<1>5. /\ \A m \in Nodes \ {f.src} : st.stamps[m] = ob.stamps[m]
      /\ st.stamps[f.src]["pollSent"] = ob.stamps[f.src]["pollSent"]
      /\ st.stamps[f.src]["pollAckReceived"] = f.seq
  <2>1. ob.stamps[f.src] \in [StampNames -> Stamp]
    BY <1>1, <1>2 DEF Node, Stamps
  <2> QED BY <1>1, <1>4, <2>1 DEF StampNames
<1>6. nd = [st EXCEPT !.pollAcknowledged = @ \cup {f.src}]
  BY DEF Acknowledged, ob
<1> HIDE DEF st, nd
<1>7. /\ nd \in Node /\ nd.peers = st.peers /\ nd.range = st.range
      /\ nd.sequence = st.sequence
      /\ nd.pollAcknowledged = st.pollAcknowledged \cup {f.src}
      /\ nd.rangeReportReceived = st.rangeReportReceived
      /\ nd.session = st.session /\ nd.expected = st.expected
      /\ nd.stamps = st.stamps
  BY <1>1, <1>3, <1>6 DEF Node
<1>8. PhaseOf(nd) = PhaseOf(node[n])
  BY <1>2, <1>3, <1>7 DEF PhaseOf
<1>9. /\ \A m \in Nodes \ {f.src} : nd.stamps[m] = node[n].stamps[m]
      /\ nd.stamps[f.src]["pollSent"] = node[n].stamps[f.src]["pollSent"]
      /\ nd.stamps[f.src]["pollAckReceived"] = f.seq
  BY <1>2, <1>5, <1>7
<1>10. /\ nd \in Node /\ nd.peers = node[n].peers
       /\ nd.range = node[n].range /\ nd.sequence = node[n].sequence
       /\ nd.pollAcknowledged = node[n].pollAcknowledged \cup {f.src}
       /\ nd.rangeReportReceived = node[n].rangeReportReceived
  BY <1>2, <1>3, <1>7
<1> QED BY <1>8, <1>9, <1>10 DEF nd

\* What it finds: the tag still polls and the anchor had not answered.
LEMMA PollAckFinds ==
    ASSUME ExchangeInv, NEW n \in Nodes, NEW f \in radio[n].inbox, Reads(n, f),
           AcceptsExpected(n, f), f.kind = "PollAck"
    PROVE  /\ n \in Tags /\ f.src \in Anchors /\ f.dst = n
           /\ Seen(n).phase = "polling" /\ f \in Frame
           /\ f \in Seen(n).waiting
           /\ f.src \in node[n].peers \ node[n].pollAcknowledged
<1>1. /\ n \in Tags /\ n \notin Anchors /\ node[n] \in Node
  BY ExpectedFromPeer DEF ExchangeInv, TypeOK
<1>2. f.dst = n
  BY <1>1 DEF AcceptsExpected, AcceptsSession, AcceptsHeader
<1>3. f \in Seen(n).waiting /\ f \in Frame /\ WellAddressed(f) /\ f.src \in Nodes
  BY <1>1, Reading
<1>4. f.src \in Anchors
  BY <1>3, RoleAssumption DEF WellAddressed
<1>5. Exchange(n, f.src, Seen(n), Seen(f.src))
  BY <1>1, <1>4, TagKnown DEF ExchangeInv
<1>6. f \in Replied(f.src, n, Seen(n))
  BY <1>2, <1>3 DEF Replied, Replies
<1>7. Seen(n).phase = "polling" /\ f.src \in Seen(n).peers \ Seen(n).acked
  BY <1>5, <1>6 DEF Exchange, ReplyOK
<1> QED BY <1>1, <1>2, <1>3, <1>4, <1>7, SeenFields


\* With all the others' acknowledgements out, the tag waits on.
LEMMA OnPollAckKeeps ==
    ASSUME ExchangeInv, NEW n \in Nodes, NEW f \in radio[n].inbox,
           OnPollAck(n, f)
    PROVE  /\ Exchanges' /\ n \in Tags /\ f.src \in Anchors
           /\ Seen(n).phase = "polling"
           /\ f.src \in Seen(n).peers /\ f.src \notin Seen(n).acked
           /\ Shows(n, "polling", Seen(n).acked \cup {f.src},
                    Seen(n).reported)
           /\ SamePolls(n) /\ SameNumber(n)
<1> DEFINE nd == Acknowledged(n, f)
           v1 == Looks(nd, nd.stamps, {})
<1>1. /\ Reads(n, f) /\ f.kind = "PollAck" /\ AcceptsExpected(n, f)
      /\ Becomes(n, nd)
  BY DEF OnPollAck
<1>2. /\ n \in Tags /\ f.src \in Anchors /\ f.dst = n
      /\ Seen(n).phase = "polling" /\ f \in Frame /\ f \in Seen(n).waiting
      /\ f.src \in node[n].peers \ node[n].pollAcknowledged
  BY <1>1, PollAckFinds
<1>3. /\ node[n] \in Node /\ Local(n, Seen(n))
      /\ \A a \in Anchors : a \in Nodes \ {n}
                            /\ Exchange(n, a, Seen(n), Seen(a))
  BY <1>2, TagKnown DEF ExchangeInv
<1>4. /\ nd \in Node /\ nd.peers = node[n].peers
      /\ nd.range = node[n].range /\ nd.sequence = node[n].sequence
      /\ nd.pollAcknowledged = node[n].pollAcknowledged \cup {f.src}
      /\ nd.rangeReportReceived = node[n].rangeReportReceived
      /\ PhaseOf(nd) = PhaseOf(node[n])
      /\ \A m \in Nodes \ {f.src} : nd.stamps[m] = node[n].stamps[m]
      /\ nd.stamps[f.src]["pollSent"] = node[n].stamps[f.src]["pollSent"]
      /\ nd.stamps[f.src]["pollAckReceived"] = f.seq
  BY <1>2, <1>3, AcknowledgedFields
<1> HIDE DEF nd
<1>5. /\ Seen(n).held = node[n].stamps /\ Seen(n).outbox = {}
      /\ Changes(n, nd, nd.stamps, {})
  BY <1>1, <1>4, Reading
<1>6. /\ v1.peers = Seen(n).peers /\ v1.phase = Seen(n).phase
      /\ v1.acked = Seen(n).acked \cup {f.src}
      /\ v1.reported = Seen(n).reported /\ v1.range = Seen(n).range
      /\ v1.outbox = {} /\ v1.waiting = {}
      /\ \A m \in Nodes \ {f.src} : v1.held[m] = Seen(n).held[m]
      /\ v1.held[f.src]["pollSent"] = Seen(n).held[f.src]["pollSent"]
      /\ v1.held[f.src]["pollAckReceived"] = f.seq
  BY <1>2, <1>4, <1>5, SeenFields DEF Looks
<1>7. f.src \in Seen(n).peers /\ f.src \notin Seen(n).acked
  BY <1>2, SeenFields
<1>8. Seen(n)' = v1 /\ \A m \in Nodes \ {n} : Seen(m)' = Seen(m)
  BY <1>5 DEF Changes
<1> HIDE DEF v1, Seen
<1> HIDE DEF PhaseOf
<1>11. SameNumber(n)
  BY <1>1, <1>2, <1>4, NodeSteps, RoleAssumption DEF SameNumber, ExchangeInv
<1>12. /\ Shows(n, "polling", Seen(n).acked \cup {f.src}, Seen(n).reported)
       /\ SamePolls(n)
  <2>1. v1.phase = "polling"
    BY <1>2, <1>6
  <2>2. \A a \in Nodes : v1.held[a]["pollSent"] = Seen(n).held[a]["pollSent"]
    BY <1>6
  <2> QED BY <1>6, <1>8, <2>1, <2>2 DEF Shows, SamePolls
<1>9. Local(n, v1)
  BY <1>2, <1>3, <1>6, <1>7 DEF Local
<1>10. ASSUME NEW a \in Anchors PROVE Exchange(n, a, v1, Seen(a))
  <2>1. Exchange(n, a, Seen(n), Seen(a)) /\ a \in Nodes
    BY <1>3
  <2>2. CASE a = f.src
    <3>1. /\ Called(n, a, Seen(a)) = {} /\ Replying(n, Seen(a)) = {}
          /\ Replied(a, n, v1) = {} /\ Agreed(n, a, v1, Seen(a))
      <4>1. /\ f \in Seen(n).waiting /\ f.src = a /\ f.dst = n
            /\ f.kind = "PollAck" /\ v1.waiting = {}
            /\ v1.held[a]["pollSent"] = Seen(n).held[a]["pollSent"]
            /\ v1.held[a]["pollAckReceived"] = f.seq
        BY <1>1, <1>2, <1>6, <2>2
      <4> QED BY ONLY <2>1, <4>1, ExchangePollAck
    <3>2. Greets(n, a, v1, Seen(a))
      BY <1>6, <2>1 DEF Exchange, Greets
    <3> QED BY <1>6, <3>1, <3>2, ExchangeStarts
  <2>3. CASE a # f.src
    <3>1. /\ v1.held[a] = Seen(n).held[a]
          /\ a \in v1.acked <=> a \in Seen(n).acked
          /\ v1.outbox \subseteq Seen(n).outbox
          /\ v1.phase = Seen(n).phase /\ v1.peers = Seen(n).peers
          /\ v1.reported = Seen(n).reported /\ v1.waiting = {}
      BY <1>6, <2>1, <2>3
    <3> QED BY ONLY <2>1, <3>1, ExchangeMoves
  <2> QED BY <2>2, <2>3
<1>13. Exchanges'
  BY <1>2, <1>8, <1>9, <1>10, TagAlone DEF ExchangeInv
<1> QED BY <1>2, <1>7, <1>11, <1>12, <1>13

\* As many acknowledgements as peers: every peer has acknowledged.
LEMMA AllHaveAcknowledged ==
    ASSUME NEW nd, IsFiniteSet(nd.peers), nd.pollAcknowledged \subseteq nd.peers,
           AllAcknowledged(nd)
    PROVE  nd.pollAcknowledged = nd.peers
BY FS_Subset DEF AllAcknowledged

\* With the last acknowledgement the tag ranges with all of its peers.
LEMMA OnLastPollAckKeeps ==
    ASSUME ExchangeInv, NEW n \in Nodes, NEW f \in radio[n].inbox,
           OnLastPollAck(n, f)
    PROVE  /\ Exchanges' /\ n \in Tags /\ f.src \in Anchors
           /\ Seen(n).phase = "polling"
           /\ f.src \in Seen(n).peers /\ f.src \notin Seen(n).acked
           /\ Shows(n, "ranging", Seen(n).acked \cup {f.src}, {})
           /\ SamePolls(n) /\ Numbers(n)
<1> DEFINE ak == Acknowledged(n, f)
           nd == BeginRangeReportPhase(ak)
           g == RangeMessage(n, nd)
           held == TxStamped(n, Sends(nd, g.kind, g.dst), g.seq).stamps
           v1 == Looks(nd, held, {g})
<1>1. /\ Reads(n, f) /\ f.kind = "PollAck" /\ AcceptsExpected(n, f)
      /\ AllAcknowledged(ak) /\ Transmits(n, nd, g)
  BY DEF OnLastPollAck
<1>2. /\ n \in Tags /\ f.src \in Anchors /\ f.dst = n
      /\ Seen(n).phase = "polling" /\ f \in Frame /\ f \in Seen(n).waiting
      /\ f.src \in node[n].peers \ node[n].pollAcknowledged
  BY <1>1, PollAckFinds
<1>3. /\ node[n] \in Node /\ Local(n, Seen(n))
      /\ \A a \in Anchors : a \in Nodes \ {n}
                            /\ Exchange(n, a, Seen(n), Seen(a))
  BY <1>2, TagKnown DEF ExchangeInv
<1>4. /\ ak \in Node /\ ak.peers = node[n].peers
      /\ ak.range = node[n].range /\ ak.sequence = node[n].sequence
      /\ ak.pollAcknowledged = node[n].pollAcknowledged \cup {f.src}
      /\ \A m \in Nodes \ {f.src} : ak.stamps[m] = node[n].stamps[m]
      /\ ak.stamps[f.src]["pollSent"] = node[n].stamps[f.src]["pollSent"]
      /\ ak.stamps[f.src]["pollAckReceived"] = f.seq
  BY <1>2, <1>3, AcknowledgedFields
<1>5. IsFiniteSet(node[n].peers)
      /\ node[n].pollAcknowledged \subseteq node[n].peers
  BY <1>3, SeenFields DEF Local
<1>6. ak.pollAcknowledged = node[n].peers
  BY <1>1, <1>2, <1>4, <1>5, AllHaveAcknowledged
<1> HIDE DEF ak
<1>7. /\ nd \in Node /\ nd.peers = ak.peers /\ nd.stamps = ak.stamps
      /\ nd.pollAcknowledged = ak.pollAcknowledged
      /\ nd.rangeReportReceived = {} /\ nd.range = ak.range
      /\ nd.sequence = ak.sequence
      /\ PhaseOf(nd) = "ranging"
  <2>1. nd \in Node
    BY <1>4, PhaseType
  <2> QED BY <1>4, <2>1 DEF BeginRangeReportPhase, Node, PhaseOf
<1>17. Numbers(n)
  BY <1>1, <1>2, <1>3, <1>4, <1>7, NodeSteps, RoleAssumption
     DEF Numbers, ExchangeInv
<1> HIDE DEF nd
<1>8. nd.pollAcknowledged # {} /\ nd.pollAcknowledged \subseteq nd.peers
  BY <1>2, <1>4, <1>6, <1>7
<1>9. /\ g \in Frame /\ g.kind = "Range" /\ g.src = n
      /\ g.dst = Broadcast /\ g.targets = nd.pollAcknowledged
      /\ WellAddressed(g)
      /\ \A a \in Nodes :
           /\ held[a]["pollSent"] = nd.stamps[a]["pollSent"]
           /\ held[a]["pollAckReceived"] = nd.stamps[a]["pollAckReceived"]
      /\ \A a \in nd.pollAcknowledged :
           /\ g.times[a]["pollSent"] = nd.stamps[a]["pollSent"]
           /\ g.times[a]["pollAckReceived"] = nd.stamps[a]["pollAckReceived"]
           /\ g.times[a]["rangeSent"] = g.seq
           /\ held[a]["rangeSent"] = g.seq
  BY <1>2, <1>7, <1>8, RangeSends
<1>10. /\ Seen(n).held = node[n].stamps /\ Seen(n).outbox = {}
       /\ Changes(n, nd, held, {g})
  <2>1. g \in Frame
    BY <1>9
  <2> HIDE DEF g
  <2> QED BY <1>1, <1>7, <2>1, Reading
<1> HIDE DEF g, held
<1>11. /\ v1.peers = Seen(n).peers /\ v1.phase = "ranging"
       /\ v1.acked = Seen(n).peers /\ v1.reported = {}
       /\ v1.range = Seen(n).range
       /\ v1.outbox = {g} /\ v1.waiting = {} /\ v1.held = held
  BY <1>4, <1>6, <1>7, SeenFields DEF Looks
<1>12. /\ \A a \in Nodes \ {f.src} :
            /\ held[a]["pollSent"] = Seen(n).held[a]["pollSent"]
            /\ held[a]["pollAckReceived"] = Seen(n).held[a]["pollAckReceived"]
       /\ held[f.src]["pollSent"] = Seen(n).held[f.src]["pollSent"]
       /\ held[f.src]["pollAckReceived"] = f.seq
  BY <1>2, <1>3, <1>4, <1>7, <1>9, <1>10
<1>13. f.src \in Seen(n).peers /\ f.src \notin Seen(n).acked
       /\ v1.peers = nd.peers /\ v1.acked = nd.pollAcknowledged
  BY <1>2, SeenFields DEF Looks
<1>14. Seen(n)' = v1 /\ \A m \in Nodes \ {n} : Seen(m)' = Seen(m)
  BY <1>10 DEF Changes
<1>18. Seen(n).acked \cup {f.src} = Seen(n).peers
  BY <1>2, <1>4, <1>6, SeenFields
<1> HIDE DEF v1, Seen
<1>19. /\ Shows(n, "ranging", Seen(n).acked \cup {f.src}, {})
       /\ SamePolls(n)
  <2>1. \A a \in Nodes : v1.held[a]["pollSent"] = Seen(n).held[a]["pollSent"]
    BY <1>11, <1>12
  <2> QED BY <1>11, <1>14, <1>18, <2>1 DEF Shows, SamePolls
<1>15. Local(n, v1)
  BY <1>2, <1>3, <1>9, <1>11, <1>13 DEF Local
<1>16. ASSUME NEW a \in Anchors PROVE Exchange(n, a, v1, Seen(a))
  <2>1. Exchange(n, a, Seen(n), Seen(a)) /\ a \in Nodes
    BY <1>3
  <2>2. /\ Called(n, a, Seen(a)) = {} /\ Replying(n, Seen(a)) = {}
        /\ Agreed(n, a, v1, Seen(a))
    <3>1. CASE a = f.src
      <4>1. /\ f \in Seen(n).waiting /\ f.src = a /\ f.dst = n
            /\ f.kind = "PollAck" /\ v1.waiting = {}
            /\ v1.held[a]["pollSent"] = Seen(n).held[a]["pollSent"]
            /\ v1.held[a]["pollAckReceived"] = f.seq
        BY <1>1, <1>2, <1>11, <1>12, <3>1
      <4> QED BY ONLY <2>1, <4>1, ExchangePollAck
    <3>2. CASE a # f.src /\ a \in Seen(n).acked
      <4>1. Called(n, a, Seen(a)) = {} /\ Replying(n, Seen(a)) = {}
        BY <1>2, <2>1, <3>2, ExchangeSilent
      <4>2. Agreed(n, a, Seen(n), Seen(a))
        BY <2>1 DEF Exchange
      <4> QED BY <1>11, <1>12, <2>1, <3>2, <4>1, <4>2 DEF Agreed
    <3>3. CASE a # f.src /\ a \notin Seen(n).acked
      <4>1. a \notin Seen(n).peers
        <5>1. /\ Seen(n).peers = node[n].peers
              /\ Seen(n).acked = node[n].pollAcknowledged
          BY <1>2, <1>3, SeenFields
        <5> QED BY <1>4, <1>6, <3>3, <5>1
      <4>2. Called(n, a, Seen(a)) = {} /\ Replying(n, Seen(a)) = {}
        BY <1>2, <2>1, <4>1, ExchangeSilent
      <4> QED BY <1>11, <4>1, <4>2 DEF Agreed
    <3> QED BY <3>1, <3>2, <3>3
  <2>3. Replied(a, n, v1) = {}
    BY <1>11 DEF Replied
  <2>4. Greets(n, a, v1, Seen(a))
    BY <1>2, <1>9, <1>11, <2>1 DEF Exchange, Greets
  <2>5. a \in g.targets => CallOK(a, v1, g)
    BY <1>7, <1>9, <1>11, <1>13, <2>1 DEF CallOK
  <2> QED BY <1>11, <2>2, <2>3, <2>4, <2>5, ExchangeStarts
<1>20. Exchanges'
  BY <1>2, <1>14, <1>15, <1>16, TagAlone DEF ExchangeInv
<1> QED BY <1>2, <1>13, <1>17, <1>19, <1>20


\* The node once a RangeReport is in, before the session may end.
Reported(n, f) ==
    [ReportStamped(n, Observe(node[n], f), f)
        EXCEPT !.rangeReportReceived = @ \cup {f.src}]

\* What a RangeReport brings the tag.
LEMMA ReportedFields ==
    ASSUME NEW n \in Nodes, node[n] \in Node, NEW f \in Frame
    PROVE  LET nd  == Reported(n, f)
               own == node[n].stamps[f.src]
               six == nd.range[f.src]
           IN /\ nd \in Node /\ nd.peers = node[n].peers
              /\ nd.stamps = node[n].stamps /\ nd.sequence = node[n].sequence
              /\ nd.pollAcknowledged = node[n].pollAcknowledged
              /\ nd.rangeReportReceived
                   = node[n].rangeReportReceived \cup {f.src}
              /\ PhaseOf(nd) = PhaseOf(node[n])
              /\ \A m \in Nodes \ {f.src} : nd.range[m] = node[n].range[m]
              /\ six["pollSent"] = own["pollSent"]
              /\ six["pollAckReceived"] = own["pollAckReceived"]
              /\ six["rangeSent"] = own["rangeSent"]
              /\ six["pollReceived"] = f.times[n]["pollReceived"]
              /\ six["pollAckSent"] = f.times[n]["pollAckSent"]
              /\ six["rangeReceived"] = f.times[n]["rangeReceived"]
<1> DEFINE ob == Observe(node[n], f)
           st == ReportStamped(n, ob, f)
           nd == Reported(n, f)
           own == node[n].stamps[f.src]
           mix == [own EXCEPT !["pollReceived"] = f.times[n]["pollReceived"],
                              !["pollAckSent"] = f.times[n]["pollAckSent"],
                              !["rangeReceived"] = f.times[n]["rangeReceived"]]
<1>1. f.src \in Nodes
  BY DEF Frame
<1>2. /\ ob \in Node /\ ob.stamps = node[n].stamps /\ ob.peers = node[n].peers
      /\ ob.range = node[n].range /\ ob.sequence = node[n].sequence
      /\ ob.pollAcknowledged = node[n].pollAcknowledged
      /\ ob.rangeReportReceived = node[n].rangeReportReceived
      /\ ob.session = node[n].session /\ ob.expected = node[n].expected
  <2>1. ob \in Node
    BY ObserveType
  <2> QED BY <2>1 DEF Observe, Node
<1>3. st = [ob EXCEPT !.range[f.src] = mix]
  BY <1>2 DEF ReportStamped
<1>4. st \in Node
  BY <1>2, RxStampedType
<1> HIDE DEF ob
<1>5. /\ mix["pollSent"] = own["pollSent"]
      /\ mix["pollAckReceived"] = own["pollAckReceived"]
      /\ mix["rangeSent"] = own["rangeSent"]
      /\ mix["pollReceived"] = f.times[n]["pollReceived"]
      /\ mix["pollAckSent"] = f.times[n]["pollAckSent"]
      /\ mix["rangeReceived"] = f.times[n]["rangeReceived"]
  <2>1. own \in [StampNames -> Stamp]
    BY <1>1 DEF Node, Stamps
  <2> HIDE DEF own
  <2> QED BY <2>1 DEF StampNames
<1> HIDE DEF st, mix
<1>6. /\ st.peers = ob.peers /\ st.stamps = ob.stamps
      /\ st.sequence = ob.sequence
      /\ st.pollAcknowledged = ob.pollAcknowledged
      /\ st.rangeReportReceived = ob.rangeReportReceived
      /\ st.session = ob.session /\ st.expected = ob.expected
      /\ st.range = [ob.range EXCEPT ![f.src] = mix]
  BY <1>2, <1>3 DEF Node
<1>7. /\ \A m \in Nodes \ {f.src} : st.range[m] = ob.range[m]
      /\ st.range[f.src] = mix
  BY <1>1, <1>2, <1>6 DEF Node
<1>8. nd = [st EXCEPT !.rangeReportReceived = @ \cup {f.src}]
  BY DEF Reported, st, ob
<1> HIDE DEF nd
<1>9. /\ nd \in Node /\ nd.peers = st.peers /\ nd.stamps = st.stamps
      /\ nd.sequence = st.sequence
      /\ nd.pollAcknowledged = st.pollAcknowledged
      /\ nd.rangeReportReceived = st.rangeReportReceived \cup {f.src}
      /\ nd.session = st.session /\ nd.expected = st.expected
      /\ nd.range = st.range
  BY <1>1, <1>4, <1>8 DEF Node
<1>10. PhaseOf(nd) = PhaseOf(node[n])
  BY <1>2, <1>6, <1>9 DEF PhaseOf
<1>11. /\ nd \in Node /\ nd.peers = node[n].peers
       /\ nd.stamps = node[n].stamps /\ nd.sequence = node[n].sequence
       /\ nd.pollAcknowledged = node[n].pollAcknowledged
       /\ nd.rangeReportReceived = node[n].rangeReportReceived \cup {f.src}
  BY <1>2, <1>6, <1>9
<1>12. /\ \A m \in Nodes \ {f.src} : nd.range[m] = node[n].range[m]
       /\ nd.range[f.src] = mix
  BY <1>2, <1>7, <1>9
<1> QED BY <1>5, <1>10, <1>11, <1>12 DEF nd, own

\* What it finds: the tag is ranging and still waits for this anchor.
LEMMA ReportFinds ==
    ASSUME ExchangeInv, NEW n \in Nodes, NEW f \in radio[n].inbox, Reads(n, f),
           AcceptsExpected(n, f), f.kind = "RangeReport"
    PROVE  /\ n \in Tags /\ f.src \in Anchors /\ f.dst = n
           /\ Seen(n).phase = "ranging" /\ f \in Frame
           /\ f \in Seen(n).waiting
           /\ f.src \in node[n].pollAcknowledged \ node[n].rangeReportReceived
<1>1. /\ n \in Tags /\ n \notin Anchors /\ node[n] \in Node
  BY ExpectedFromPeer DEF ExchangeInv, TypeOK
<1>2. f.dst = n
  BY <1>1 DEF AcceptsExpected, AcceptsSession, AcceptsHeader
<1>3. f \in Seen(n).waiting /\ f \in Frame /\ WellAddressed(f) /\ f.src \in Nodes
  BY <1>1, Reading
<1>4. f.src \in Anchors
  BY <1>3, RoleAssumption DEF WellAddressed
<1>5. Exchange(n, f.src, Seen(n), Seen(f.src))
  BY <1>1, <1>4, TagKnown DEF ExchangeInv
<1>6. f \in Replied(f.src, n, Seen(n))
  BY <1>2, <1>3 DEF Replied, Replies
<1>7. Seen(n).phase = "ranging" /\ f.src \in Seen(n).acked \ Seen(n).reported
  BY <1>5, <1>6 DEF Exchange, ReplyOK
<1> QED BY <1>1, <1>2, <1>3, <1>4, <1>7, SeenFields

\* As many reports as acknowledgements: every anchor that answered has reported.
LEMMA AllHaveReported ==
    ASSUME NEW acked, NEW reported, IsFiniteSet(acked),
           reported \subseteq acked,
           Cardinality(reported) >= Cardinality(acked)
    PROVE  reported = acked
<1>1. /\ IsFiniteSet(reported) /\ Cardinality(reported) <= Cardinality(acked)
      /\ Cardinality(acked) = Cardinality(reported) => acked = reported
  BY FS_Subset
<1>2. Cardinality(acked) \in Nat /\ Cardinality(reported) \in Nat
  BY <1>1, FS_CardinalityType
<1> QED BY <1>1, <1>2


\* A report that is not the last one.
LEMMA ReportMovesOn ==
    ASSUME ExchangeInv, NEW n \in Nodes, NEW f \in radio[n].inbox,
           Reads(n, f), AcceptsExpected(n, f), f.kind = "RangeReport",
           ~ (Cardinality(Reported(n, f).rangeReportReceived)
                >= Cardinality(Reported(n, f).pollAcknowledged)),
           Becomes(n, Reported(n, f))
    PROVE  /\ Exchanges' /\ n \in Tags /\ f.src \in Anchors
           /\ f \in Replied(f.src, n, Seen(n))
           /\ Seen(n).phase = "ranging"
           /\ f.src \in Seen(n).acked /\ f.src \notin Seen(n).reported
           /\ Measures(n, f.src, Seen(n).held[f.src]["pollSent"])
           /\ SameNumber(n)
           /\ Shows(n, "ranging", Seen(n).acked,
                    Seen(n).reported \cup {f.src})
           /\ Seen(n)'.held = Seen(n).held
           /\ Seen(n)'.peers = Seen(n).peers /\ Seen(n)'.outbox = {}
           /\ Seen(n).reported \cup {f.src} # Seen(n).acked
<1> DEFINE nd == Reported(n, f)
           v1 == Looks(nd, nd.stamps, {})
<1>1. /\ n \in Tags /\ f.src \in Anchors /\ f.dst = n
      /\ Seen(n).phase = "ranging" /\ f \in Frame /\ f \in Seen(n).waiting
      /\ f.src \in node[n].pollAcknowledged \ node[n].rangeReportReceived
  BY ReportFinds
<1>2. /\ node[n] \in Node /\ Local(n, Seen(n))
      /\ \A a \in Anchors : a \in Nodes \ {n}
                            /\ Exchange(n, a, Seen(n), Seen(a))
  BY <1>1, TagKnown DEF ExchangeInv
<1> DEFINE six == nd.range[f.src]
           own == node[n].stamps[f.src]
<1>3. /\ nd \in Node /\ nd.peers = node[n].peers
      /\ nd.stamps = node[n].stamps /\ nd.sequence = node[n].sequence
      /\ nd.pollAcknowledged = node[n].pollAcknowledged
      /\ nd.rangeReportReceived = node[n].rangeReportReceived \cup {f.src}
      /\ PhaseOf(nd) = PhaseOf(node[n])
      /\ \A m \in Nodes \ {f.src} : nd.range[m] = node[n].range[m]
      /\ six["pollSent"] = own["pollSent"]
      /\ six["pollAckReceived"] = own["pollAckReceived"]
      /\ six["rangeSent"] = own["rangeSent"]
      /\ six["pollReceived"] = f.times[n]["pollReceived"]
      /\ six["pollAckSent"] = f.times[n]["pollAckSent"]
      /\ six["rangeReceived"] = f.times[n]["rangeReceived"]
  BY <1>1, <1>2, ReportedFields
<1>12. node[n].rangeReportReceived \cup {f.src} # node[n].pollAcknowledged
  <2>1. IsFiniteSet(node[n].peers) /\ node[n].pollAcknowledged \subseteq node[n].peers
    BY <1>2, SeenFields DEF Local
  <2>2. Cardinality(node[n].pollAcknowledged) \in Nat
    BY <2>1, FS_Subset, FS_CardinalityType
  <2>3. ~ (Cardinality(nd.rangeReportReceived)
             >= Cardinality(nd.pollAcknowledged))
    OBVIOUS
  <2> HIDE DEF nd
  <2>4. nd.rangeReportReceived # nd.pollAcknowledged
    <3>1. Cardinality(nd.pollAcknowledged) \in Nat
      BY <1>3, <2>2
    <3>2. \A x \in Nat : x >= x
      OBVIOUS
    <3> QED BY <2>3, <3>1, <3>2
  <2> QED BY <1>3, <2>4
<1> HIDE DEF nd
<1>4. Seen(n).held = node[n].stamps /\ Changes(n, nd, nd.stamps, {})
  BY <1>3, Reading DEF nd
<1>5. /\ v1.peers = Seen(n).peers /\ v1.phase = Seen(n).phase
      /\ v1.acked = Seen(n).acked /\ v1.held = Seen(n).held
      /\ v1.reported = Seen(n).reported \cup {f.src}
      /\ v1.range = nd.range /\ v1.outbox = {} /\ v1.waiting = {}
      /\ \A m \in Nodes \ {f.src} : v1.range[m] = Seen(n).range[m]
      /\ f.src \in Seen(n).acked
  BY <1>1, <1>3, <1>4, SeenFields DEF Looks
<1>6. /\ six["pollSent"] = Seen(n).held[f.src]["pollSent"]
      /\ six["pollAckReceived"] = Seen(n).held[f.src]["pollAckReceived"]
      /\ six["rangeSent"] = Seen(n).held[f.src]["rangeSent"]
  BY <1>3, <1>4
<1>7. Seen(n)' = v1 /\ \A m \in Nodes \ {n} : Seen(m)' = Seen(m)
  BY <1>4 DEF Changes
<1>8. f.src \in Nodes /\ Exchange(n, f.src, Seen(n), Seen(f.src))
  BY <1>1, <1>2
<1>13. /\ f \in Replied(f.src, n, Seen(n)) /\ SameNumber(n)
       /\ Seen(n).reported \cup {f.src} # Seen(n).acked
  BY <1>1, <1>2, <1>3, <1>12, NodeSteps, SeenFields, RoleAssumption
     DEF SameNumber, ExchangeInv, Replied, Replies, nd
<1>14. /\ f.src \in Seen(n).acked /\ f.src \notin Seen(n).reported
  BY <1>1, SeenFields
<1> HIDE DEF v1, six, Seen
<1>15. /\ Shows(n, "ranging", Seen(n).acked, Seen(n).reported \cup {f.src})
       /\ Seen(n)'.held = Seen(n).held
       /\ Seen(n)'.peers = Seen(n).peers /\ Seen(n)'.outbox = {}
       /\ Measures(n, f.src, Seen(n).held[f.src]["pollSent"])
  BY <1>1, <1>5, <1>6, <1>7 DEF Shows, Measures, six
<1>9. /\ Called(n, f.src, Seen(f.src)) = {} /\ Replying(n, Seen(f.src)) = {}
      /\ Replied(f.src, n, v1) = {} /\ Coherent(six)
  <2>1. /\ f \in Seen(n).waiting /\ f.kind = "RangeReport" /\ f.dst = n
        /\ v1.waiting = {}
        /\ six["pollSent"] = Seen(n).held[f.src]["pollSent"]
        /\ six["pollAckReceived"] = Seen(n).held[f.src]["pollAckReceived"]
        /\ six["rangeSent"] = Seen(n).held[f.src]["rangeSent"]
        /\ six["pollReceived"] = f.times[n]["pollReceived"]
        /\ six["pollAckSent"] = f.times[n]["pollAckSent"]
        /\ six["rangeReceived"] = f.times[n]["rangeReceived"]
    BY <1>1, <1>3, <1>5, <1>6 DEF six
  <2>2. /\ Called(n, f.src, Seen(f.src)) = {}
        /\ Replying(n, Seen(f.src)) = {}
        /\ ReplyOK(n, f.src, Seen(n), Seen(f.src), f)
    BY ONLY <2>1, <1>8, ExchangeReport
  <2>3. Coherent(six)
    BY <2>1, <2>2 DEF ReplyOK, Coherent
  <2>4. Replied(f.src, n, v1) = {}
    BY <2>1 DEF Replied
  <2> QED BY <2>2, <2>3, <2>4
<1>10. Local(n, v1)
  BY <1>1, <1>2, <1>5, <1>9 DEF Local, six
<1>11. ASSUME NEW a \in Anchors PROVE Exchange(n, a, v1, Seen(a))
  <2>1. Exchange(n, a, Seen(n), Seen(a))
    BY <1>2
  <2>2. CASE a = f.src
    <3>1. Greets(n, a, v1, Seen(a)) /\ Agreed(n, a, v1, Seen(a))
      BY <1>5, <2>1 DEF Exchange, Greets, Agreed
    <3> QED BY <1>5, <1>9, <2>2, <3>1, ExchangeStarts
  <2>3. CASE a # f.src
    <3>1. /\ v1.held = Seen(n).held /\ v1.acked = Seen(n).acked
          /\ a \in v1.reported <=> a \in Seen(n).reported
          /\ v1.outbox \subseteq Seen(n).outbox
          /\ v1.phase = Seen(n).phase /\ v1.peers = Seen(n).peers
          /\ v1.waiting = {}
      BY <1>5, <2>3
    <3> QED BY ONLY <2>1, <3>1, ExchangeMoves
  <2> QED BY <2>2, <2>3
<1>16. Exchanges'
  BY <1>1, <1>7, <1>10, <1>11, TagAlone DEF ExchangeInv
<1> QED BY <1>1, <1>13, <1>14, <1>15, <1>16

\* The last report ends the session, and nothing of it is left on its way.
LEMMA ReportEndsSession ==
    ASSUME ExchangeInv, NEW n \in Nodes, NEW f \in radio[n].inbox,
           Reads(n, f), AcceptsExpected(n, f), f.kind = "RangeReport",
           Cardinality(Reported(n, f).rangeReportReceived)
              >= Cardinality(Reported(n, f).pollAcknowledged),
           Becomes(n, ResetProtocolState(n, Reported(n, f)))
    PROVE  /\ Exchanges' /\ n \in Tags /\ f.src \in Anchors
           /\ f \in Replied(f.src, n, Seen(n))
           /\ Seen(n).phase = "ranging"
           /\ f.src \in Seen(n).acked /\ f.src \notin Seen(n).reported
           /\ Measures(n, f.src, Seen(n).held[f.src]["pollSent"])
           /\ SameNumber(n)
           /\ Shows(n, "idle", {}, {})
           /\ Seen(n).reported \cup {f.src} = Seen(n).acked
<1> DEFINE rp == Reported(n, f)
           nd == ResetProtocolState(n, rp)
           v1 == Looks(nd, nd.stamps, {})
<1>1. /\ n \in Tags /\ f.src \in Anchors /\ f.dst = n
      /\ Seen(n).phase = "ranging" /\ f \in Frame /\ f \in Seen(n).waiting
      /\ f.src \in node[n].pollAcknowledged \ node[n].rangeReportReceived
  BY ReportFinds
<1>2. /\ node[n] \in Node /\ Local(n, Seen(n))
      /\ \A a \in Anchors : a \in Nodes \ {n}
                            /\ Exchange(n, a, Seen(n), Seen(a))
  BY <1>1, TagKnown DEF ExchangeInv
<1> DEFINE six == rp.range[f.src]
           own == node[n].stamps[f.src]
<1>3. /\ rp \in Node /\ rp.peers = node[n].peers
      /\ rp.pollAcknowledged = node[n].pollAcknowledged
      /\ rp.rangeReportReceived = node[n].rangeReportReceived \cup {f.src}
      /\ \A m \in Nodes \ {f.src} : rp.range[m] = node[n].range[m]
      /\ six["pollSent"] = own["pollSent"]
      /\ six["pollAckReceived"] = own["pollAckReceived"]
      /\ six["rangeSent"] = own["rangeSent"]
      /\ six["pollReceived"] = f.times[n]["pollReceived"]
      /\ six["pollAckSent"] = f.times[n]["pollAckSent"]
      /\ six["rangeReceived"] = f.times[n]["rangeReceived"]
  BY <1>1, <1>2, ReportedFields
<1>4. node[n].rangeReportReceived \cup {f.src} = node[n].pollAcknowledged
  <2>1. /\ IsFiniteSet(node[n].peers)
        /\ node[n].pollAcknowledged \subseteq node[n].peers
        /\ node[n].rangeReportReceived \subseteq node[n].pollAcknowledged
    BY <1>2, SeenFields DEF Local
  <2>2. IsFiniteSet(node[n].pollAcknowledged)
    BY <2>1, FS_Subset
  <2> QED BY <1>1, <1>3, <2>1, <2>2, AllHaveReported
<1>14. rp.sequence = node[n].sequence
  BY <1>1, <1>2, ReportedFields
<1> HIDE DEF rp
<1>5. /\ nd \in Node /\ nd.peers = rp.peers /\ nd.range = rp.range
      /\ nd.pollAcknowledged = {} /\ nd.rangeReportReceived = {}
      /\ PhaseOf(nd) = "idle"
  BY <1>3, PhaseType, ResetFields
<1>15. SameNumber(n)
  BY <1>1, <1>2, <1>3, <1>5, <1>14, NodeSteps, ResetNumber, RoleAssumption
     DEF SameNumber, ExchangeInv, nd, rp
<1> HIDE DEF nd
<1>6. Seen(n).held = node[n].stamps /\ Changes(n, nd, nd.stamps, {})
  BY <1>5, Reading DEF nd, rp
<1>7. /\ v1.peers = Seen(n).peers /\ v1.phase = "idle"
      /\ v1.acked = {} /\ v1.reported = {}
      /\ v1.range = rp.range /\ v1.outbox = {} /\ v1.waiting = {}
      /\ \A m \in Nodes \ {f.src} : v1.range[m] = Seen(n).range[m]
      /\ Seen(n).reported \cup {f.src} = Seen(n).acked
  BY <1>3, <1>4, <1>5, SeenFields DEF Looks
<1>8. /\ six["pollSent"] = Seen(n).held[f.src]["pollSent"]
      /\ six["pollAckReceived"] = Seen(n).held[f.src]["pollAckReceived"]
      /\ six["rangeSent"] = Seen(n).held[f.src]["rangeSent"]
  BY <1>3, <1>6
<1>9. Seen(n)' = v1 /\ \A m \in Nodes \ {n} : Seen(m)' = Seen(m)
  BY <1>6 DEF Changes
<1>10. f.src \in Nodes /\ Exchange(n, f.src, Seen(n), Seen(f.src))
  BY <1>1, <1>2
<1>16. /\ f \in Replied(f.src, n, Seen(n))
       /\ f.src \in Seen(n).acked /\ f.src \notin Seen(n).reported
  BY <1>1, SeenFields DEF Replied, Replies
<1> HIDE DEF v1, six, Seen
<1>17. /\ Shows(n, "idle", {}, {})
       /\ Measures(n, f.src, Seen(n).held[f.src]["pollSent"])
  BY <1>1, <1>7, <1>8, <1>9 DEF Shows, Measures, six
<1>11. /\ Called(n, f.src, Seen(f.src)) = {} /\ Replying(n, Seen(f.src)) = {}
       /\ Replied(f.src, n, v1) = {} /\ Coherent(six)
  <2>1. /\ f \in Seen(n).waiting /\ f.kind = "RangeReport" /\ f.dst = n
        /\ v1.waiting = {}
        /\ six["pollSent"] = Seen(n).held[f.src]["pollSent"]
        /\ six["pollAckReceived"] = Seen(n).held[f.src]["pollAckReceived"]
        /\ six["rangeSent"] = Seen(n).held[f.src]["rangeSent"]
        /\ six["pollReceived"] = f.times[n]["pollReceived"]
        /\ six["pollAckSent"] = f.times[n]["pollAckSent"]
        /\ six["rangeReceived"] = f.times[n]["rangeReceived"]
    BY <1>1, <1>3, <1>7, <1>8 DEF six
  <2>2. /\ Called(n, f.src, Seen(f.src)) = {}
        /\ Replying(n, Seen(f.src)) = {}
        /\ ReplyOK(n, f.src, Seen(n), Seen(f.src), f)
    BY ONLY <2>1, <1>10, ExchangeReport
  <2>3. Coherent(six)
    BY <2>1, <2>2 DEF ReplyOK, Coherent
  <2>4. Replied(f.src, n, v1) = {}
    BY <2>1 DEF Replied
  <2> QED BY <2>2, <2>3, <2>4
<1>12. Local(n, v1)
  BY <1>1, <1>2, <1>7, <1>11 DEF Local, six
<1>13. ASSUME NEW a \in Anchors PROVE Exchange(n, a, v1, Seen(a))
  <2>1. Exchange(n, a, Seen(n), Seen(a))
    BY <1>2
  <2>2. Called(n, a, Seen(a)) = {} /\ Replying(n, Seen(a)) = {}
    <3>1. CASE a = f.src
      BY <1>11, <3>1
    <3>2. CASE a # f.src
      <4>1. a \notin Seen(n).acked \ Seen(n).reported
        BY <1>7, <3>2
      <4> QED BY <1>1, <2>1, <4>1, ExchangeSilent
    <3> QED BY <3>1, <3>2
  <2>3. /\ Greets(n, a, v1, Seen(a)) /\ Agreed(n, a, v1, Seen(a))
        /\ Replied(a, n, v1) = {}
    BY <1>7 DEF Greets, Agreed, Replied
  <2> QED BY <1>7, <2>2, <2>3, ExchangeStarts
<1>18. Exchanges'
  BY <1>1, <1>9, <1>12, <1>13, TagAlone DEF ExchangeInv
<1> QED BY <1>1, <1>7, <1>15, <1>16, <1>17, <1>18

\* A RangeReport moves the session on or ends it.
LEMMA OnRangeReportKeeps ==
    ASSUME ExchangeInv, NEW n \in Nodes, NEW f \in radio[n].inbox,
           OnRangeReport(n, f)
    PROVE  Exchanges'
<1>1. /\ Reads(n, f) /\ AcceptsExpected(n, f) /\ f.kind = "RangeReport"
      /\ Becomes(n, IF Cardinality(Reported(n, f).rangeReportReceived)
                       >= Cardinality(Reported(n, f).pollAcknowledged)
                  THEN ResetProtocolState(n, Reported(n, f))
                  ELSE Reported(n, f))
  BY DEF OnRangeReport, Reported
<1>2. CASE Cardinality(Reported(n, f).rangeReportReceived)
             >= Cardinality(Reported(n, f).pollAcknowledged)
  BY <1>1, <1>2, ReportEndsSession
<1>3. CASE ~ (Cardinality(Reported(n, f).rangeReportReceived)
                >= Cardinality(Reported(n, f).pollAcknowledged))
  BY <1>1, <1>3, ReportMovesOn
<1> QED BY <1>2, <1>3


-----------------------------------------------------------------------------
(* Steps of an anchor *)

\* The anchor alone changes.
LEMMA AnchorAlone ==
    ASSUME Exchanges, NEW a \in Anchors, NEW w1, Seen(a)' = w1, Local(a, w1),
           \A m \in Nodes \ {a} : Seen(m)' = Seen(m),
           \A t \in Tags : Exchange(t, a, Seen(t), w1)
    PROVE  Exchanges'
<1>1. ASSUME NEW m \in Nodes PROVE Local(m, Seen(m)')
  BY DEF Exchanges
<1>2. ASSUME NEW t \in Tags, NEW b \in Anchors
      PROVE  Exchange(t, b, Seen(t)', Seen(b)')
  <2>1. t \in Nodes \ {a} /\ b \in Nodes
    BY RoleAssumption
  <2>2. Seen(t)' = Seen(t) /\ (b # a => Seen(b)' = Seen(b))
    BY <2>1
  <2> HIDE DEF Seen
  <2>3. CASE b = a
    BY <2>2, <2>3
  <2>4. CASE b # a
    BY <2>2, <2>4 DEF Exchanges
  <2> QED BY <2>3, <2>4
<1> QED BY <1>1, <1>2 DEF Exchanges

\* What is known of an anchor, a tag and the frames between them.
LEMMA AnchorKnown ==
    ASSUME TypeOK, SessionConsistent, Exchanges, NEW a \in Anchors
    PROVE  /\ a \in Nodes /\ a \notin Tags /\ node[a] \in Node
           /\ Local(a, Seen(a)) /\ node[a].pollAcknowledged = {}
           /\ node[a].rangeReportReceived = {} /\ PhaseOf(node[a]) = "idle"
           /\ node[a].peers \subseteq Tags /\ IsFiniteSet(node[a].peers)
           /\ \A m \in Nodes : Coherent(node[a].range[m])
           /\ \A t \in Tags : /\ t \in Nodes \ {a} /\ Local(t, Seen(t))
                              /\ Exchange(t, a, Seen(t), Seen(a))
<1>1. a \in Nodes /\ a \notin Tags /\ node[a] \in Node
      /\ \A t \in Tags : t \in Nodes \ {a}
  BY RoleAssumption DEF TypeOK
<1>2. Local(a, Seen(a)) /\ Consistent(a, node[a])
      /\ \A t \in Tags : Local(t, Seen(t)) /\ Exchange(t, a, Seen(t), Seen(a))
  BY <1>1 DEF Exchanges, SessionConsistent
<1>3. node[a].pollAcknowledged = {} /\ ~ node[a].session
  BY <1>2 DEF Consistent
<1>4. PhaseOf(node[a]) = "idle"
  BY <1>3 DEF PhaseOf
<1>5. /\ node[a].rangeReportReceived = {} /\ node[a].peers \subseteq Tags
      /\ IsFiniteSet(node[a].peers)
      /\ \A m \in Nodes : Coherent(node[a].range[m])
  BY <1>1, <1>2, <1>3, SeenFields DEF Local
<1> QED BY <1>1, <1>2, <1>3, <1>4, <1>5

\* What an anchor shows when it becomes nd and sends what is in out.
LEMMA AnchorLooks ==
    ASSUME NEW a \in Anchors, a \notin Tags, NEW nd, NEW held, NEW out,
           \A g \in out : g \in Frame /\ g.src = a /\ WellAddressed(g),
           nd.peers \subseteq Tags, IsFiniteSet(nd.peers),
           nd.pollAcknowledged = {}, nd.rangeReportReceived = {},
           \A m \in Nodes : Coherent(nd.range[m])
    PROVE  Local(a, Looks(nd, held, out))
BY DEF Local, Looks

\* An anchor drops a tag it has not heard for long.
LEMMA AnchorPruneKeeps ==
    ASSUME Undisturbed, ExchangeInv, NEW a \in Anchors, TickPrunePeer(a)
    PROVE  /\ Exchanges' /\ AnchorMoves(a) /\ Seen(a)'.outbox = {}
           /\ \A t \in Tags : Replied(a, t, Seen(t)) = {}
           /\ \E m \in Nodes : Forgets(a, m)
<1>1. PICK m \in node[a].peers :
         Becomes(a, ResetProtocolState(a, RemovePeer(node[a], m)))
  BY DEF TickPrunePeer
<1> DEFINE rm == RemovePeer(node[a], m)
           nd == ResetProtocolState(a, rm)
           w1 == Looks(nd, nd.stamps, {})
<1>2. /\ a \in Nodes /\ a \notin Tags /\ node[a] \in Node /\ Tick(a)
      /\ node[a].peers \subseteq Tags /\ IsFiniteSet(node[a].peers)
      /\ \A i \in Nodes : Coherent(node[a].range[i])
      /\ \A t \in Tags : /\ t \in Nodes \ {a} /\ Local(t, Seen(t))
                         /\ Exchange(t, a, Seen(t), Seen(a))
      /\ m \in Nodes /\ Becomes(a, nd)
  BY <1>1, AnchorKnown DEF ExchangeInv, Tick, Node
<1>3. /\ rm \in Node /\ rm.peers = node[a].peers \ {m}
      /\ \A i \in Nodes : /\ i # m => rm.stamps[i] = node[a].stamps[i]
                          /\ i # m => rm.range[i] = node[a].range[i]
      /\ rm.range[m] = NoStamps
  <2>1. node[a] \in Node /\ m \in Nodes
    BY <1>2
  <2> QED BY ONLY <2>1, RemoveFields
<1> HIDE DEF rm
<1>4. /\ nd \in Node /\ nd.peers = rm.peers /\ nd.range = rm.range
      /\ nd.stamps = rm.stamps
      /\ nd.pollAcknowledged = {} /\ nd.rangeReportReceived = {}
      /\ PhaseOf(nd) = "idle"
  BY <1>2, <1>3, PhaseType, ResetFields
<1> HIDE DEF nd
<1>5. /\ Seen(a).held = node[a].stamps /\ Seen(a).outbox = {}
      /\ Changes(a, nd, nd.stamps, {})
      /\ \A t \in Nodes \ {a} :
            /\ \A f \in Seen(t).outbox : f.dst \notin {a, Broadcast}
            /\ \A f \in Seen(t).waiting : f.src # a
  BY <1>2, <1>4, TickSeen, CommitSeen DEF ExchangeInv
<1>6. /\ nd.peers \subseteq Tags /\ IsFiniteSet(nd.peers)
      /\ \A i \in Nodes : Coherent(nd.range[i])
  BY <1>2, <1>3, <1>4, FS_RemoveElement, NoStampsCoherent
<1>7. Local(a, w1)
  BY <1>2, <1>4, <1>6, AnchorLooks
<1>8. /\ w1.waiting = {} /\ w1.outbox = {} /\ w1.held = nd.stamps
      /\ w1.peers = Seen(a).peers \ {m}
  BY <1>2, <1>3, <1>4, SeenFields DEF Looks
<1>9. Seen(a)' = w1 /\ \A i \in Nodes \ {a} : Seen(i)' = Seen(i)
  BY <1>5 DEF Changes
<1>11. /\ w1.range[m] = NoStamps
       /\ \A i \in Nodes \ {m} : w1.range[i] = Seen(a).range[i]
  BY <1>2, <1>3, <1>4, SeenFields DEF Looks
<1> HIDE DEF w1, Seen
<1>12. AnchorMoves(a) /\ Forgets(a, m) /\ Seen(a)'.outbox = {}
  BY <1>8, <1>9, <1>11 DEF AnchorMoves, Forgets
<1>13. \A t \in Tags : Replied(a, t, Seen(t)) = {}
  BY <1>2, <1>5 DEF Replied
<1>10. ASSUME NEW t \in Tags PROVE Exchange(t, a, Seen(t), w1)
  <2>1. t \in Nodes \ {a} /\ Local(t, Seen(t)) /\ Exchange(t, a, Seen(t), Seen(a))
    BY <1>2
  <2>2. \A f \in Seen(t).outbox : f.kind \notin Calls
    BY <1>5, <2>1 DEF Local, WellAddressed, Calls
  <2>3. /\ Called(t, a, w1) = {} /\ Replying(t, w1) = {}
        /\ Replied(a, t, Seen(t)) = {}
    BY <1>5, <1>8, <2>1 DEF Called, Replying, Replied
  <2>4. Greets(t, a, Seen(t), w1)
    BY <1>8, <2>1 DEF Exchange, Greets
  <2>5. Agreed(t, a, Seen(t), w1)
    <3>1. Agreed(t, a, Seen(t), Seen(a))
      BY <2>1 DEF Exchange
    <3>2. t # m => w1.held[t] = Seen(a).held[t]
      BY <1>3, <1>4, <1>5, <1>8, <2>1
    <3> QED BY <1>8, <3>1, <3>2 DEF Agreed
  <2> QED BY <2>2, <2>3, <2>4, <2>5, ExchangeStarts
<1>14. Exchanges'
  BY <1>7, <1>9, <1>10, AnchorAlone DEF ExchangeInv
<1> QED BY <1>2, <1>12, <1>13, <1>14

\* An anchor answers a Blink.
LEMMA OnBlinkKeeps ==
    ASSUME ExchangeInv, NEW a \in Nodes, NEW f \in radio[a].inbox, OnBlink(a, f)
    PROVE  /\ Exchanges' /\ a \in Anchors /\ AnchorMoves(a)
           /\ Seen(a)'.range = Seen(a).range
           /\ \A g \in Seen(a)'.outbox : g.kind # "RangeReport"
<1> DEFINE nd == ResetProtocolState(a, Introduced(a, f))
           g == Message(a, nd, "RangingInit", f.src)
           w1 == Looks(nd, nd.stamps, {g})
<1>1. /\ a \in Anchors /\ f.kind = "Blink" /\ Reads(a, f) /\ Transmits(a, nd, g)
  BY DEF OnBlink, AcceptsBlink
<1>2. /\ a \notin Tags /\ node[a] \in Node /\ node[a].peers \subseteq Tags
      /\ IsFiniteSet(node[a].peers)
      /\ \A i \in Nodes : Coherent(node[a].range[i])
      /\ \A t \in Tags : /\ t \in Nodes \ {a} /\ Local(t, Seen(t))
                         /\ Exchange(t, a, Seen(t), Seen(a))
  BY <1>1, AnchorKnown DEF ExchangeInv
<1>3. /\ f \in Seen(a).waiting /\ f \in Frame /\ f.src \in Nodes
      /\ WellAddressed(f)
  BY <1>1, <1>2, Reading
<1>4. f.src \in Tags
  BY <1>1, <1>3, RoleAssumption DEF WellAddressed
<1>5. /\ nd \in Node /\ nd.peers = node[a].peers \cup {f.src}
      /\ nd.range = node[a].range /\ nd.stamps = node[a].stamps
      /\ nd.pollAcknowledged = {} /\ nd.rangeReportReceived = {}
      /\ PhaseOf(nd) = "idle"
  <2>1. EnsurePeer(node[a], f.src) \in Node
    BY <1>2, <1>3, PeerTableType
  <2>2. Introduced(a, f) \in Node
    BY <1>3, <2>1, ObserveType DEF Introduced
  <2>3. /\ Introduced(a, f).peers = node[a].peers \cup {f.src}
        /\ Introduced(a, f).range = node[a].range
        /\ Introduced(a, f).stamps = node[a].stamps
    BY <1>2 DEF Introduced, Observe, EnsurePeer, Node
  <2> QED BY <2>2, <2>3, PhaseType, ResetFields
<1> HIDE DEF nd
<1>6. /\ g \in Frame /\ g.kind = "RangingInit" /\ g.src = a /\ g.dst = f.src
      /\ g.seq \in Stamp
  <2>1. g \in Frame
    BY <1>3, <1>5, MessageType DEF Kinds
  <2> QED BY <2>1 DEF Message, Frame, Stamp
<1> HIDE DEF g
<1>7. WellAddressed(g)
  BY <1>2, <1>4, <1>6 DEF WellAddressed
<1>8. TxStamped(a, Sends(nd, g.kind, g.dst), g.seq).stamps = nd.stamps
  BY <1>3, <1>5, <1>6, SentStamps DEF Kinds
<1>9. /\ Seen(a).held = node[a].stamps /\ Changes(a, nd, nd.stamps, {g})
  BY <1>1, <1>5, <1>6, <1>8, Reading
<1>10. nd.peers \subseteq Tags /\ IsFiniteSet(nd.peers)
  BY <1>2, <1>4, <1>5, FS_AddElement
<1>11. Local(a, w1)
  BY <1>1, <1>2, <1>5, <1>6, <1>7, <1>10, AnchorLooks
<1>12. /\ w1.waiting = {} /\ w1.outbox = {g} /\ w1.held = Seen(a).held
       /\ w1.peers = Seen(a).peers \cup {f.src}
  BY <1>5, <1>9, SeenFields DEF Looks
<1>13. Seen(a)' = w1 /\ \A i \in Nodes \ {a} : Seen(i)' = Seen(i)
  BY <1>9 DEF Changes
<1>15. w1.range = Seen(a).range
  BY <1>2, <1>5, SeenFields DEF Looks
<1> HIDE DEF w1, Seen
<1>16. /\ AnchorMoves(a) /\ Seen(a)'.range = Seen(a).range
       /\ \A h \in Seen(a)'.outbox : h.kind # "RangeReport"
  BY <1>6, <1>12, <1>13, <1>15 DEF AnchorMoves
<1>14. ASSUME NEW t \in Tags PROVE Exchange(t, a, Seen(t), w1)
  <2>1. Local(t, Seen(t)) /\ Exchange(t, a, Seen(t), Seen(a))
    BY <1>2
  <2>2. CASE t = f.src
    <3>1. Seen(t).phase = "idle" => Seen(t).acked = {}
      BY <2>1 DEF Local
    <3> QED BY <1>1, <1>3, <1>6, <1>12, <2>1, <2>2, <3>1, ExchangeBlink
  <2>3. CASE t # f.src
    <3>1. /\ t \in w1.peers <=> t \in Seen(a).peers
          /\ w1.held = Seen(a).held /\ w1.waiting = {}
          /\ \A h \in w1.outbox : h.dst # t
      BY <1>6, <1>12, <2>3
    <3>2. Seen(t) = Seen(t)
      OBVIOUS
    <3> QED BY ONLY <2>1, <3>1, <3>2, ExchangeMoves
  <2> QED BY <2>2, <2>3
<1>17. Exchanges'
  BY <1>1, <1>11, <1>13, <1>14, AnchorAlone DEF ExchangeInv
<1> QED BY <1>1, <1>16, <1>17


\* The node of an anchor that acknowledges a Poll, and one that has a Range.
Polled(n, f) ==
    [Stamped(Observe(node[n], f), {f.src}, "pollReceived", f.seq)
        EXCEPT !.expected = "Range"]

Ranged(n, f) ==
    [RangeStamped(n, Observe(node[n], f), f) EXCEPT !.expected = "Poll"]

\* What a Poll brings an anchor.
LEMMA PolledFields ==
    ASSUME NEW n \in Nodes, node[n] \in Node, NEW f \in Frame
    PROVE  LET nd == Polled(n, f) IN
           /\ nd \in Node /\ nd.peers = node[n].peers
           /\ nd.range = node[n].range
           /\ nd.pollAcknowledged = node[n].pollAcknowledged
           /\ nd.rangeReportReceived = node[n].rangeReportReceived
           /\ \A m \in Nodes \ {f.src} : nd.stamps[m] = node[n].stamps[m]
           /\ nd.stamps[f.src]["pollReceived"] = f.seq
<1> DEFINE ob == Observe(node[n], f)
           st == Stamped(ob, {f.src}, "pollReceived", f.seq)
           nd == Polled(n, f)
<1>1. f.src \in Nodes /\ f.seq \in Stamp
  BY DEF Frame, Stamp
<1>2. /\ ob \in Node /\ ob.stamps = node[n].stamps /\ ob.peers = node[n].peers
      /\ ob.range = node[n].range
      /\ ob.pollAcknowledged = node[n].pollAcknowledged
      /\ ob.rangeReportReceived = node[n].rangeReportReceived
  <2>1. ob \in Node
    BY ObserveType
  <2> QED BY <2>1 DEF Observe, Node
<1> HIDE DEF ob
<1>3. /\ st \in Node /\ st.peers = ob.peers /\ st.range = ob.range
      /\ st.pollAcknowledged = ob.pollAcknowledged
      /\ st.rangeReportReceived = ob.rangeReportReceived
  <2>1. st \in Node
    BY <1>1, <1>2, StampedType DEF StampNames
  <2> QED BY <1>2, <2>1 DEF Stamped, Node
<1>4. st.stamps = [m \in Nodes |-> IF m \in {f.src}
                     THEN [ob.stamps[m] EXCEPT !["pollReceived"] = f.seq]
                     ELSE ob.stamps[m]]
  BY <1>2 DEF Stamped, Node
<1>5. /\ \A m \in Nodes \ {f.src} : st.stamps[m] = ob.stamps[m]
      /\ st.stamps[f.src]["pollReceived"] = f.seq
  <2>1. ob.stamps[f.src] \in [StampNames -> Stamp]
    BY <1>1, <1>2 DEF Node, Stamps
  <2> QED BY <1>1, <1>4, <2>1 DEF StampNames
<1>6. nd = [st EXCEPT !.expected = "Range"]
  BY DEF Polled, ob
<1> HIDE DEF st, nd
<1>7. /\ nd \in Node /\ nd.peers = st.peers /\ nd.range = st.range
      /\ nd.pollAcknowledged = st.pollAcknowledged
      /\ nd.rangeReportReceived = st.rangeReportReceived
      /\ nd.stamps = st.stamps
  BY <1>3, <1>6 DEF Node
<1>8. /\ \A m \in Nodes \ {f.src} : nd.stamps[m] = node[n].stamps[m]
      /\ nd.stamps[f.src]["pollReceived"] = f.seq
  BY <1>2, <1>5, <1>7
<1>9. /\ nd \in Node /\ nd.peers = node[n].peers
      /\ nd.range = node[n].range
      /\ nd.pollAcknowledged = node[n].pollAcknowledged
      /\ nd.rangeReportReceived = node[n].rangeReportReceived
  BY <1>2, <1>3, <1>7
<1> QED BY <1>8, <1>9 DEF nd

\* What a Range brings an anchor.
LEMMA RangedFields ==
    ASSUME NEW n \in Nodes, node[n] \in Node, NEW f \in Frame
    PROVE  LET nd  == Ranged(n, f)
               own == node[n].stamps[f.src]
               six == nd.stamps[f.src]
           IN /\ nd \in Node /\ nd.peers = node[n].peers
              /\ nd.pollAcknowledged = node[n].pollAcknowledged
              /\ nd.rangeReportReceived = node[n].rangeReportReceived
              /\ \A m \in Nodes \ {f.src} :
                    /\ nd.stamps[m] = node[n].stamps[m]
                    /\ nd.range[m] = node[n].range[m]
              /\ nd.range[f.src] = six
              /\ six["pollReceived"] = own["pollReceived"]
              /\ six["pollAckSent"] = own["pollAckSent"]
              /\ six["rangeReceived"] = f.seq
              /\ six["pollSent"] = f.times[n]["pollSent"]
              /\ six["pollAckReceived"] = f.times[n]["pollAckReceived"]
              /\ six["rangeSent"] = f.times[n]["rangeSent"]
<1> DEFINE ob == Observe(node[n], f)
           st == RangeStamped(n, ob, f)
           nd == Ranged(n, f)
           own == node[n].stamps[f.src]
           mix == [own EXCEPT !["rangeReceived"] = f.seq,
                              !["pollSent"] = f.times[n]["pollSent"],
                              !["pollAckReceived"] = f.times[n]["pollAckReceived"],
                              !["rangeSent"] = f.times[n]["rangeSent"]]
<1>1. f.src \in Nodes
  BY DEF Frame
<1>2. /\ ob \in Node /\ ob.stamps = node[n].stamps /\ ob.peers = node[n].peers
      /\ ob.range = node[n].range
      /\ ob.pollAcknowledged = node[n].pollAcknowledged
      /\ ob.rangeReportReceived = node[n].rangeReportReceived
  <2>1. ob \in Node
    BY ObserveType
  <2> QED BY <2>1 DEF Observe, Node
<1>3. st = [ob EXCEPT !.stamps[f.src] = mix, !.range[f.src] = mix]
  BY <1>2 DEF RangeStamped
<1>4. st \in Node
  BY <1>2, RxStampedType
<1> HIDE DEF ob
<1>5. /\ mix["pollReceived"] = own["pollReceived"]
      /\ mix["pollAckSent"] = own["pollAckSent"]
      /\ mix["rangeReceived"] = f.seq
      /\ mix["pollSent"] = f.times[n]["pollSent"]
      /\ mix["pollAckReceived"] = f.times[n]["pollAckReceived"]
      /\ mix["rangeSent"] = f.times[n]["rangeSent"]
  <2>1. own \in [StampNames -> Stamp]
    BY <1>1 DEF Node, Stamps
  <2> HIDE DEF own
  <2> QED BY <2>1 DEF StampNames
<1> HIDE DEF st, mix
<1>6. /\ st.peers = ob.peers
      /\ st.pollAcknowledged = ob.pollAcknowledged
      /\ st.rangeReportReceived = ob.rangeReportReceived
      /\ st.stamps = [ob.stamps EXCEPT ![f.src] = mix]
      /\ st.range = [ob.range EXCEPT ![f.src] = mix]
  BY <1>2, <1>3 DEF Node
<1>7. /\ \A m \in Nodes \ {f.src} : /\ st.stamps[m] = ob.stamps[m]
                                    /\ st.range[m] = ob.range[m]
      /\ st.range[f.src] = mix /\ st.stamps[f.src] = mix
  BY <1>1, <1>2, <1>6 DEF Node
<1>8. nd = [st EXCEPT !.expected = "Poll"]
  BY DEF Ranged, st, ob
<1> HIDE DEF nd
<1>9. /\ nd \in Node /\ nd.peers = st.peers /\ nd.stamps = st.stamps
      /\ nd.pollAcknowledged = st.pollAcknowledged
      /\ nd.rangeReportReceived = st.rangeReportReceived
      /\ nd.range = st.range
  BY <1>1, <1>4, <1>8 DEF Node
<1>10. /\ nd \in Node /\ nd.peers = node[n].peers
       /\ nd.pollAcknowledged = node[n].pollAcknowledged
       /\ nd.rangeReportReceived = node[n].rangeReportReceived
  BY <1>2, <1>6, <1>9
<1>11. /\ \A m \in Nodes \ {f.src} : /\ nd.stamps[m] = node[n].stamps[m]
                                     /\ nd.range[m] = node[n].range[m]
       /\ nd.range[f.src] = mix /\ nd.stamps[f.src] = mix
  BY <1>2, <1>7, <1>9
<1> QED BY <1>5, <1>10, <1>11 DEF nd, own

\* A Poll or Range an anchor takes up is from one of its tags, and lists it.
LEMMA CallFinds ==
    ASSUME ExchangeInv, NEW a \in Nodes, NEW f \in radio[a].inbox, Reads(a, f),
           AcceptsExpected(a, f), f.kind \in Calls, Lists(a, f)
    PROVE  /\ a \in Anchors /\ f.src \in Tags /\ f.src \in node[a].peers
           /\ a \in f.targets /\ f \in Frame /\ f \in Seen(a).waiting
           /\ f.src \in Nodes /\ f.seq \in Stamp
<1>1. a \in Anchors /\ a \notin Tags /\ f.src \in node[a].peers
  BY ExpectedFromPeer DEF Calls
<1>2. /\ f \in Seen(a).waiting /\ f \in Frame /\ WellAddressed(f)
      /\ f.src \in Nodes /\ f.seq \in Stamp
  <2>1. node[a] \in Node
    BY DEF ExchangeInv, TypeOK
  <2> QED BY <2>1, Reading
<1>3. f.src \in Tags
  BY <1>2, RoleAssumption DEF WellAddressed, Calls
<1> QED BY <1>1, <1>2, <1>3 DEF Lists


\* An anchor acknowledges a Poll.
LEMMA OnPollKeeps ==
    ASSUME ExchangeInv, NEW a \in Nodes, NEW f \in radio[a].inbox, OnPoll(a, f)
    PROVE  /\ Exchanges' /\ a \in Anchors /\ AnchorMoves(a)
           /\ Seen(a)'.range = Seen(a).range
           /\ \A g \in Seen(a)'.outbox : g.kind # "RangeReport"
<1> DEFINE nd == Polled(a, f)
           g == Message(a, nd, "PollAck", f.src)
           held == TxStamped(a, Sends(nd, g.kind, g.dst), g.seq).stamps
           w1 == Looks(nd, held, {g})
<1>1. /\ f.kind = "Poll" /\ Reads(a, f) /\ AcceptsExpected(a, f)
      /\ Lists(a, f) /\ Transmits(a, nd, g)
  BY DEF OnPoll, Polled
<1>2. /\ a \in Anchors /\ f.src \in Tags /\ f.src \in node[a].peers
      /\ a \in f.targets /\ f \in Frame /\ f \in Seen(a).waiting
      /\ f.src \in Nodes /\ f.seq \in Stamp
  BY <1>1, CallFinds DEF Calls
<1>3. /\ a \notin Tags /\ node[a] \in Node /\ node[a].peers \subseteq Tags
      /\ IsFiniteSet(node[a].peers)
      /\ node[a].pollAcknowledged = {} /\ node[a].rangeReportReceived = {}
      /\ \A i \in Nodes : Coherent(node[a].range[i])
      /\ \A t \in Tags : t \in Nodes \ {a} /\ Exchange(t, a, Seen(t), Seen(a))
  BY <1>2, AnchorKnown DEF ExchangeInv
<1>4. PhaseOf(node[a]) = "idle"
  BY <1>2, AnchorKnown DEF ExchangeInv
<1>5. /\ nd \in Node /\ nd.peers = node[a].peers /\ nd.range = node[a].range
      /\ nd.pollAcknowledged = node[a].pollAcknowledged
      /\ nd.rangeReportReceived = node[a].rangeReportReceived
      /\ \A m \in Nodes \ {f.src} : nd.stamps[m] = node[a].stamps[m]
      /\ nd.stamps[f.src]["pollReceived"] = f.seq
  BY <1>2, <1>3, PolledFields
<1> HIDE DEF nd
<1>6. /\ g \in Frame /\ g.kind = "PollAck" /\ g.src = a /\ g.dst = f.src
      /\ g.seq \in Stamp
  <2>1. g \in Frame
    BY <1>2, <1>5, MessageType DEF Kinds
  <2> QED BY <2>1 DEF Message, Frame, Stamp
<1> HIDE DEF g
<1>7. WellAddressed(g)
  BY <1>2, <1>3, <1>6 DEF WellAddressed
<1>8. /\ \A m \in Nodes \ {f.src} : held[m] = nd.stamps[m]
      /\ held[f.src]["pollAckSent"] = g.seq
      /\ held[f.src]["pollReceived"] = nd.stamps[f.src]["pollReceived"]
  BY <1>2, <1>5, <1>6, SentStamps DEF Kinds
<1>9. /\ Seen(a).held = node[a].stamps /\ Changes(a, nd, held, {g})
  BY <1>1, <1>2, <1>5, <1>6, Reading
<1> HIDE DEF held
<1>10. Local(a, w1)
  BY <1>2, <1>3, <1>5, <1>6, <1>7, AnchorLooks
<1>11. /\ w1.waiting = {} /\ w1.outbox = {g} /\ w1.held = held
       /\ w1.peers = Seen(a).peers /\ f.src \in w1.peers
       /\ \A m \in Nodes \ {f.src} : w1.held[m] = Seen(a).held[m]
       /\ w1.held[f.src]["pollAckSent"] = g.seq
       /\ w1.held[f.src]["pollReceived"] = f.seq
  BY <1>2, <1>5, <1>8, <1>9, SeenFields DEF Looks
<1>12. Seen(a)' = w1 /\ \A i \in Nodes \ {a} : Seen(i)' = Seen(i)
  BY <1>9 DEF Changes
<1>15. w1.range = Seen(a).range
  BY <1>2, <1>5, SeenFields DEF Looks
<1> HIDE DEF w1, Seen
<1>16. /\ AnchorMoves(a) /\ Seen(a)'.range = Seen(a).range
       /\ \A h \in Seen(a)'.outbox : h.kind # "RangeReport"
  BY <1>6, <1>11, <1>12, <1>15 DEF AnchorMoves
<1>13. ASSUME NEW t \in Tags PROVE Exchange(t, a, Seen(t), w1)
  <2>1. t \in Nodes /\ Exchange(t, a, Seen(t), Seen(a))
    BY <1>3
  <2>2. CASE t = f.src
    BY <1>1, <1>2, <1>6, <1>11, <2>1, <2>2, ExchangePoll
  <2>3. CASE t # f.src
    <3>1. /\ w1.peers = Seen(a).peers
          /\ w1.held[t] = Seen(a).held[t] /\ w1.waiting = {}
          /\ \A h \in w1.outbox : h.dst # t
      BY <1>6, <1>11, <2>1, <2>3
    <3>2. Seen(t) = Seen(t)
      OBVIOUS
    <3> QED BY ONLY <2>1, <3>1, <3>2, ExchangeMoves
  <2> QED BY <2>2, <2>3
<1>17. Exchanges'
  BY <1>2, <1>10, <1>12, <1>13, AnchorAlone DEF ExchangeInv
<1> QED BY <1>2, <1>16, <1>17

\* What an anchor reports.
LEMMA ReportFields ==
    ASSUME NEW n \in Nodes, NEW nd \in Node, NEW t \in Nodes
    PROVE  LET g == RangeReportMessage(n, nd, t) IN
           /\ g \in Frame /\ g.kind = "RangeReport" /\ g.src = n /\ g.dst = t
           /\ g.seq \in Stamp
           /\ g.times[t]["pollReceived"] = nd.stamps[t]["pollReceived"]
           /\ g.times[t]["pollAckSent"] = nd.stamps[t]["pollAckSent"]
           /\ g.times[t]["rangeReceived"] = nd.stamps[t]["rangeReceived"]
<1> DEFINE g == RangeReportMessage(n, nd, t)
<1>1. g \in Frame
  BY ListMessageType
<1>2. /\ g.kind = "RangeReport" /\ g.src = n /\ g.dst = t
      /\ g.times = [NoTimes EXCEPT ![t] = ReportPayload(nd, t)]
  BY DEF RangeReportMessage, Message
<1>3. g.times[t] = ReportPayload(nd, t)
  BY <1>2 DEF NoTimes
<1> HIDE DEF g
<1>4. g.seq \in Stamp
  BY <1>1 DEF Frame, Stamp
<1>5. /\ g.times[t]["pollReceived"] = nd.stamps[t]["pollReceived"]
      /\ g.times[t]["pollAckSent"] = nd.stamps[t]["pollAckSent"]
      /\ g.times[t]["rangeReceived"] = nd.stamps[t]["rangeReceived"]
  BY <1>3 DEF ReportPayload, NoStamps, StampNames
<1> QED BY <1>1, <1>2, <1>4, <1>5 DEF g

\* An anchor measures on a Range, and reports.
LEMMA OnRangeKeeps ==
    ASSUME ExchangeInv, NEW a \in Nodes, NEW f \in radio[a].inbox, OnRange(a, f)
    PROVE  /\ Exchanges' /\ a \in Anchors /\ f.src \in Tags
           /\ AnchorMoves(a)
           /\ f \in Called(f.src, a, Seen(a)) /\ f.kind = "Range"
           /\ Measures(a, f.src, Seen(f.src).held[a]["pollSent"])
           /\ \A g \in Seen(a)'.outbox : g.dst = f.src
<1> DEFINE nd == Ranged(a, f)
           g == RangeReportMessage(a, nd, f.src)
           w1 == Looks(nd, nd.stamps, {g})
           own == node[a].stamps[f.src]
           six == nd.stamps[f.src]
<1>1. /\ f.kind = "Range" /\ Reads(a, f) /\ AcceptsExpected(a, f)
      /\ Lists(a, f) /\ Transmits(a, nd, g)
  BY DEF OnRange, Ranged
<1>2. /\ a \in Anchors /\ f.src \in Tags /\ f.src \in node[a].peers
      /\ a \in f.targets /\ f \in Frame /\ f \in Seen(a).waiting
      /\ f.src \in Nodes /\ f.seq \in Stamp
  BY <1>1, CallFinds DEF Calls
<1>3. /\ a \notin Tags /\ node[a] \in Node /\ node[a].peers \subseteq Tags
      /\ IsFiniteSet(node[a].peers)
      /\ node[a].pollAcknowledged = {} /\ node[a].rangeReportReceived = {}
      /\ \A i \in Nodes : Coherent(node[a].range[i])
      /\ \A t \in Tags : t \in Nodes \ {a} /\ Exchange(t, a, Seen(t), Seen(a))
  BY <1>2, AnchorKnown DEF ExchangeInv
<1>5. /\ nd \in Node /\ nd.peers = node[a].peers
      /\ nd.pollAcknowledged = node[a].pollAcknowledged
      /\ nd.rangeReportReceived = node[a].rangeReportReceived
      /\ \A m \in Nodes \ {f.src} : /\ nd.stamps[m] = node[a].stamps[m]
                                    /\ nd.range[m] = node[a].range[m]
      /\ nd.range[f.src] = six
      /\ six["pollReceived"] = own["pollReceived"]
      /\ six["pollAckSent"] = own["pollAckSent"]
      /\ six["rangeReceived"] = f.seq
      /\ six["pollSent"] = f.times[a]["pollSent"]
      /\ six["pollAckReceived"] = f.times[a]["pollAckReceived"]
      /\ six["rangeSent"] = f.times[a]["rangeSent"]
  BY <1>2, <1>3, RangedFields
<1> HIDE DEF nd
<1>6. /\ g \in Frame /\ g.kind = "RangeReport" /\ g.src = a /\ g.dst = f.src
      /\ g.seq \in Stamp
      /\ g.times[f.src]["pollReceived"] = six["pollReceived"]
      /\ g.times[f.src]["pollAckSent"] = six["pollAckSent"]
      /\ g.times[f.src]["rangeReceived"] = six["rangeReceived"]
  BY <1>2, <1>5, ReportFields
<1> HIDE DEF g
<1>7. WellAddressed(g)
  BY <1>2, <1>3, <1>6 DEF WellAddressed
<1>8. TxStamped(a, Sends(nd, g.kind, g.dst), g.seq).stamps = nd.stamps
  BY <1>2, <1>5, <1>6, SentStamps DEF Kinds
<1>9. /\ Seen(a).held = node[a].stamps /\ Changes(a, nd, nd.stamps, {g})
  BY <1>1, <1>2, <1>5, <1>6, <1>8, Reading
<1>10. Exchange(f.src, a, Seen(f.src), Seen(a)) /\ f.src \in Seen(a).peers
  BY <1>2, <1>3, SeenFields
<1>11. /\ w1.waiting = {} /\ w1.outbox = {g} /\ w1.held = nd.stamps
       /\ w1.peers = Seen(a).peers /\ f.src \in w1.peers
       /\ \A m \in Nodes \ {f.src} : w1.held[m] = Seen(a).held[m]
       /\ w1.held[f.src] = six /\ Seen(a).held[f.src] = own
  BY <1>2, <1>5, <1>9, SeenFields DEF Looks
<1>12. Seen(a)' = w1 /\ \A i \in Nodes \ {a} : Seen(i)' = Seen(i)
  BY <1>9 DEF Changes
<1>13. Coherent(six)
  <2>1. /\ six["pollReceived"] = Seen(a).held[f.src]["pollReceived"]
        /\ six["pollAckSent"] = Seen(a).held[f.src]["pollAckSent"]
    BY <1>5, <1>11
  <2> HIDE DEF six, own, w1, Seen
  <2>2. f \in Called(f.src, a, Seen(a))
    BY <1>1, <1>2 DEF Called, Calls
  <2>3. CallOK(a, Seen(f.src), f) /\ Agreed(f.src, a, Seen(f.src), Seen(a))
    BY <1>10, <2>2 DEF Exchange
  <2> QED BY <1>1, <1>5, <1>10, <2>1, <2>3 DEF CallOK, Agreed, Coherent
<1>14. \A i \in Nodes : Coherent(nd.range[i])
  BY <1>2, <1>3, <1>5, <1>13
<1>15. Local(a, w1)
  BY <1>2, <1>3, <1>5, <1>6, <1>7, <1>14, AnchorLooks
<1>17. /\ w1.range[f.src] = six
       /\ \A m \in Nodes \ {f.src} : w1.range[m] = Seen(a).range[m]
  BY <1>2, <1>5, SeenFields DEF Looks
<1>18. f \in Called(f.src, a, Seen(a)) /\ f.kind = "Range"
  BY <1>1, <1>2 DEF Called, Calls
<1> HIDE DEF w1, Seen, own
<1>19. f.times[a]["pollSent"] = Seen(f.src).held[a]["pollSent"]
  BY <1>10, <1>18 DEF Exchange, CallOK
<1>20. /\ AnchorMoves(a) /\ \A h \in Seen(a)'.outbox : h.dst = f.src
       /\ Measures(a, f.src, Seen(f.src).held[a]["pollSent"])
  BY <1>5, <1>6, <1>11, <1>12, <1>17, <1>19 DEF AnchorMoves, Measures
<1>16. ASSUME NEW t \in Tags PROVE Exchange(t, a, Seen(t), w1)
  <2>1. t \in Nodes /\ Exchange(t, a, Seen(t), Seen(a))
    BY <1>3
  <2>2. CASE t = f.src
    <3>1. /\ w1.held[t]["pollReceived"] = Seen(a).held[t]["pollReceived"]
          /\ w1.held[t]["pollAckSent"] = Seen(a).held[t]["pollAckSent"]
          /\ g.times[t]["pollReceived"] = Seen(a).held[t]["pollReceived"]
          /\ g.times[t]["pollAckSent"] = Seen(a).held[t]["pollAckSent"]
          /\ g.times[t]["rangeReceived"] = f.seq
          /\ w1.outbox = {g} /\ g.kind = "RangeReport" /\ g.dst = t
          /\ w1.waiting = {} /\ t \in Seen(a).peers
          /\ f \in Seen(a).waiting /\ f.src = t /\ f.kind = "Range"
          /\ a \in f.targets
      BY <1>1, <1>2, <1>5, <1>6, <1>10, <1>11, <2>2
    <3> QED BY ONLY <2>1, <3>1, ExchangeRange
  <2>3. CASE t # f.src
    <3>1. /\ w1.peers = Seen(a).peers
          /\ w1.held[t] = Seen(a).held[t] /\ w1.waiting = {}
          /\ \A h \in w1.outbox : h.dst # t
      BY <1>6, <1>11, <2>1, <2>3
    <3>2. Seen(t) = Seen(t)
      OBVIOUS
    <3> QED BY ONLY <2>1, <3>1, <3>2, ExchangeMoves
  <2> QED BY <2>2, <2>3
<1>21. Exchanges'
  BY <1>2, <1>12, <1>15, <1>16, AnchorAlone DEF ExchangeInv
<1> QED BY <1>2, <1>18, <1>20, <1>21


-----------------------------------------------------------------------------
(* Frames that change nothing of an exchange, and frames that never come *)

\* The frame has been dealt with, and only what is not seen has changed.
LEMMA HandledQuietly ==
    ASSUME ExchangeInv, NEW n \in Nodes, NEW f \in radio[n].inbox, Reads(n, f),
           NEW nd \in Node, Becomes(n, nd),
           nd.peers = node[n].peers, nd.stamps = node[n].stamps,
           nd.range = node[n].range, PhaseOf(nd) = PhaseOf(node[n]),
           nd.pollAcknowledged = node[n].pollAcknowledged,
           nd.rangeReportReceived = node[n].rangeReportReceived
    PROVE  Exchanges' /\ Quiet
<1>1. Seen(n).held = node[n].stamps /\ Changes(n, nd, nd.stamps, {})
  BY Reading
<1>2. /\ Same(Seen(n)', Seen(n)) /\ Seen(n)'.outbox = {}
      /\ Seen(n)'.waiting = {}
  BY <1>1, SeenFields DEF Changes, Looks, Same
<1>3. Quiet
  BY <1>1, <1>2, QuietAlone DEF Changes
<1> QED BY <1>3, QuietKeeps DEF ExchangeInv

\* What is only noted as heard.
LEMMA ObserveFields ==
    ASSUME NEW nd \in Node, NEW f \in Frame
    PROVE  LET nd1 == Observe(nd, f) IN
           /\ nd1 \in Node /\ nd1.peers = nd.peers /\ nd1.stamps = nd.stamps
           /\ nd1.range = nd.range /\ PhaseOf(nd1) = PhaseOf(nd)
           /\ nd1.sequence = nd.sequence
           /\ nd1.pollAcknowledged = nd.pollAcknowledged
           /\ nd1.rangeReportReceived = nd.rangeReportReceived
<1>1. Observe(nd, f) \in Node
  BY ObserveType
<1> QED BY <1>1 DEF Observe, Node, PhaseOf

\* An anchor that a Poll or Range does not list only notes it.
LEMMA OnUnlistedKeeps ==
    ASSUME ExchangeInv, NEW n \in Nodes, NEW f \in radio[n].inbox,
           OnUnlisted(n, f)
    PROVE  Exchanges' /\ Quiet /\ n \in Anchors
<1>1. node[n] \in Node /\ f \in Frame
  BY DEF ExchangeInv, TypeOK, Radio
<1> QED BY <1>1, ObserveFields, HandledQuietly DEF OnUnlisted

\* A frame that is ignored is gone.
LEMMA OnIgnoredKeeps ==
    ASSUME ExchangeInv, NEW n \in Nodes, NEW f \in radio[n].inbox,
           OnIgnored(n, f)
    PROVE  Exchanges' /\ Quiet /\ UNCHANGED node
<1>1. node[n] \in Node /\ Becomes(n, node[n]) /\ Reads(n, f)
  BY DEF ExchangeInv, TypeOK, OnIgnored, Becomes
<1> QED BY <1>1, HandledQuietly DEF OnIgnored

\* No reply ever comes to a tag in the wrong phase.
LEMMA RepliesExpected ==
    ASSUME ExchangeInv, NEW t \in Tags, NEW f \in radio[t].inbox, Reads(t, f),
           AcceptsSession(t, f)
    PROVE  AcceptsExpected(t, f)
<1>1. /\ t \in Nodes /\ t \notin Anchors /\ node[t] \in Node
      /\ Consistent(t, node[t])
      /\ \A a \in Anchors : Exchange(t, a, Seen(t), Seen(a))
  BY TagKnown DEF ExchangeInv
<1>2. /\ f \in Seen(t).waiting /\ WellAddressed(f) /\ f.src \in Nodes
  BY <1>1, Reading
<1>3. f.dst = t /\ f.kind \in Replies
  BY <1>1 DEF AcceptsSession, AcceptsHeader, SessionKinds, Replies
<1>4. f.src \in Anchors
  BY <1>2, <1>3, RoleAssumption DEF WellAddressed, Replies
<1>5. f \in Replied(f.src, t, Seen(t))
  BY <1>2, <1>3 DEF Replied
<1>6. ReplyOK(t, f.src, Seen(t), Seen(f.src), f)
  BY <1>1, <1>4, <1>5 DEF Exchange
<1>7. /\ f.kind = "PollAck" => PhaseOf(node[t]) = "polling"
      /\ f.kind = "RangeReport" => PhaseOf(node[t]) = "ranging"
  BY <1>1, <1>6, SeenFields DEF ReplyOK
<1>8. f.kind = node[t].expected
  BY <1>1, <1>3, <1>7 DEF PhaseOf, Consistent, Replies
<1> QED BY <1>8 DEF AcceptsExpected

\* A Poll or Range of the other phase resets an anchor, which has no session.
LEMMA OnUnexpectedKeeps ==
    ASSUME ExchangeInv, NEW n \in Nodes, NEW f \in radio[n].inbox,
           OnUnexpected(n, f)
    PROVE  Exchanges' /\ Quiet /\ n \in Anchors
<1>1. Reads(n, f) /\ AcceptsSession(n, f) /\ ~ AcceptsExpected(n, f)
  BY DEF OnUnexpected
<1>2. n \in Anchors
  BY <1>1, RepliesExpected, RoleAssumption
<1>3. /\ node[n] \in Node /\ node[n].pollAcknowledged = {}
      /\ node[n].rangeReportReceived = {} /\ PhaseOf(node[n]) = "idle"
      /\ f \in Frame
  BY <1>2, AnchorKnown DEF ExchangeInv, TypeOK, Radio
<1> DEFINE ob == Observe(node[n], f)
           nd == ResetProtocolState(n, ob)
<1>4. /\ ob \in Node /\ ob.peers = node[n].peers
      /\ ob.stamps = node[n].stamps /\ ob.range = node[n].range
  BY <1>3, ObserveFields
<1> HIDE DEF ob
<1>5. /\ nd \in Node /\ nd.peers = ob.peers /\ nd.stamps = ob.stamps
      /\ nd.range = ob.range /\ nd.pollAcknowledged = {}
      /\ nd.rangeReportReceived = {} /\ PhaseOf(nd) = "idle"
  BY <1>4, PhaseType, ResetFields
<1>6. Becomes(n, nd)
  BY DEF OnUnexpected, ob
<1> HIDE DEF nd
<1> QED BY <1>1, <1>2, <1>3, <1>4, <1>5, <1>6, HandledQuietly

\* Nobody sends a ScheduleSync.
LEMMA NoScheduleSync ==
    ASSUME ExchangeInv, NEW n \in Nodes, NEW f \in radio[n].inbox, Reads(n, f)
    PROVE  ~ OnScheduleSync(n, f)
<1>1. node[n] \in Node
  BY DEF ExchangeInv, TypeOK
<1>2. WellAddressed(f) /\ f.src \in Nodes
  BY <1>1, Reading
<1> QED BY <1>2, RoleAssumption DEF OnScheduleSync, AcceptsSync, WellAddressed

-----------------------------------------------------------------------------
(* The theorem *)

\* Every step keeps the exchanges.
LEMMA StepExchanges ==
    ASSUME Undisturbed, ExchangeInv, [Next]_vars
    PROVE  Exchanges'
<1>1. CASE UNCHANGED vars
  <2>1. \A m \in Nodes : Seen(m)' = Seen(m)
    BY <1>1 DEF vars, Seen
  <2>2. Quiet
    BY <2>1 DEF Quiet, Same
  <2> QED BY <2>2, QuietKeeps DEF ExchangeInv
<1>2. CASE Next
  <2>1. PICK n \in Nodes : Tick(n) \/ Host(n) \/ Recover(n) \/ Air(n)
    BY <1>2 DEF Next
  <2>2. ~ Recover(n) /\ ~ TickScheduleSync(n)
    BY DEF Recover, TickScheduleSync, Undisturbed
  <2>3. n \in Tags \/ n \in Anchors
    BY RoleAssumption
  <2>4. CASE Tick(n)
    <3>1. CASE TickPollAckTimeout(n)
      BY <3>1, TickPollAckTimeoutKeeps DEF TickPollAckTimeout
    <3>2. CASE TickSessionTimeout(n)
      BY <3>2, TickSessionTimeoutKeeps DEF TickSessionTimeout
    <3>3. CASE TickPrunePeer(n)
      BY <2>3, <3>3, TagPruneKeeps, AnchorPruneKeeps
    <3>4. CASE TickPoll(n)
      BY <3>4, TickPollKeeps DEF TickPoll, StartsRound
    <3>5. CASE TickBlink(n)
      BY <3>5, TickBlinkKeeps DEF TickBlink, StartsRound
    <3> QED BY <2>2, <2>4, <3>1, <3>2, <3>3, <3>4, <3>5 DEF Tick
  <2>5. CASE Air(n)
    BY <2>5, AirQuiet, QuietKeeps DEF ExchangeInv
  <2>6. CASE ReadStatus(n) \/ OnTxDone(n) \/ OnRxError(n) \/ ClearStatus(n)
    BY <2>6, HostQuiet, QuietKeeps DEF ExchangeInv
  <2>7. CASE OnRx(n) /\ ~ OnRxError(n)
    <3>1. PICK f \in radio[n].inbox :
        \/ OnBlink(n, f) \/ OnScheduleSync(n, f) \/ OnRangingInit(n, f)
        \/ OnUnexpected(n, f) \/ OnUnlisted(n, f) \/ OnPoll(n, f)
        \/ OnPollAck(n, f) \/ OnLastPollAck(n, f) \/ OnRange(n, f)
        \/ OnRangeReport(n, f) \/ OnIgnored(n, f)
      BY <2>7 DEF OnRx
    <3>2. ~ OnScheduleSync(n, f)
      BY NoScheduleSync DEF OnScheduleSync
    <3> QED BY <3>1, <3>2, OnBlinkKeeps, OnRangingInitKeeps,
               OnUnexpectedKeeps, OnUnlistedKeeps, OnPollKeeps,
               OnPollAckKeeps, OnLastPollAckKeeps, OnRangeKeeps,
               OnRangeReportKeeps, OnIgnoredKeeps
  <2> QED BY <2>1, <2>2, <2>4, <2>5, <2>6, <2>7 DEF Host
<1> QED BY <1>1, <1>2

\* At first nobody knows anybody and nothing is on its way.
LEMMA InitExchanges == ASSUME Init PROVE Exchanges
<1>1. ASSUME NEW n \in Nodes
      PROVE  /\ Seen(n).peers = {} /\ Seen(n).phase = "idle"
             /\ Seen(n).acked = {} /\ Seen(n).reported = {}
             /\ Seen(n).outbox = {} /\ Seen(n).waiting = {}
             /\ \A m \in Nodes : Coherent(Seen(n).range[m])
  <2>1. node[n] = NewNode(n) /\ radio[n] = StartReceive(Configured, TRUE)
        /\ at[n] = "select"
    BY DEF Init
  <2>2. radio[n].outbox = {} /\ radio[n].inbox = {}
    BY <2>1 DEF StartReceive, Acknowledge, Idle, Configured
  <2>3. /\ node[n].peers = {} /\ PhaseOf(node[n]) = "idle"
        /\ node[n].pollAcknowledged = {} /\ node[n].rangeReportReceived = {}
        /\ node[n].range = [m \in Nodes |-> NoStamps]
    BY <2>1 DEF NewNode, PhaseOf
  <2> QED BY <2>1, <2>2, <2>3, NoStampsCoherent DEF Seen, View
<1> HIDE DEF Seen
<1>2. ASSUME NEW n \in Nodes PROVE Local(n, Seen(n))
  BY <1>1, FS_EmptySet DEF Local
<1>3. ASSUME NEW t \in Tags, NEW a \in Anchors
      PROVE  Exchange(t, a, Seen(t), Seen(a))
  <2>1. t \in Nodes /\ a \in Nodes
    BY RoleAssumption
  <2>2. /\ Seen(t).phase = "idle" /\ Seen(t).acked = {}
        /\ Seen(t).outbox = {} /\ Seen(t).waiting = {}
        /\ Seen(a).outbox = {} /\ Seen(a).waiting = {}
    BY <1>1, <2>1
  <2>3. /\ Calling(a, Seen(t)) = {} /\ Called(t, a, Seen(a)) = {}
        /\ Replying(t, Seen(a)) = {} /\ Replied(a, t, Seen(t)) = {}
    BY <2>2 DEF Calling, Called, Replying, Replied
  <2> QED BY <2>2, <2>3 DEF Exchange, Greets, OneAtATime, Agreed
<1> QED BY <1>2, <1>3 DEF Exchanges

\* The exchanges are as described in every reachable state.
LEMMA ExchangesHold == Undisturbed => (Spec => []Exchanges)
<1> SUFFICES ASSUME Undisturbed PROVE Spec => []Exchanges
  OBVIOUS
<1>1. Init => Exchanges
  BY InitExchanges
<1>2. ExchangeInv /\ [Next]_vars => Exchanges'
  BY StepExchanges
<1> QED BY <1>1, <1>2, TypeCorrect, SessionConsistentHolds, DrivenHolds, PTL
     DEF Spec, ExchangeInv

\* RangesCoherent: every distance that a tag or an anchor of an undisturbed
\* system reports was computed from the six timestamps of one exchange, for any
\* number of tags and anchors, any losses and any interleaving of their loops.
THEOREM RangesCoherentHolds == Undisturbed => (Spec => []RangesCoherent)
<1> SUFFICES ASSUME Undisturbed PROVE Spec => []RangesCoherent
  OBVIOUS
<1>1. Exchanges => RangesCoherent
  BY SeenFields DEF Exchanges, Local, RangesCoherent
<1> QED BY <1>1, ExchangesHold, PTL

=============================================================================
