------------------------------- MODULE Driver -------------------------------
(***************************************************************************)
(* The DW1000 driver as the ranging node uses it: DriverRuntime of         *)
(* driver_core.rs and the operations of async_dw1000.rs that change it,    *)
(* together with the part of the chip those operations command.            *)
(*                                                                         *)
(* A radio is one record.  Its first three fields are DriverRuntime's;     *)
(* the others are the chip (external):                                     *)
(*   receiving  the receiver is enabled (RXENAB)                           *)
(*   outbox     {} or the one frame handed over with TXSTRT, immediate or  *)
(*              delayed, that has not finished leaving yet                 *)
(*   txStamp    TX_TIME: the sequence number of the frame it was taken for *)
(*   status     SYS_STATUS, reduced to the three events the code tells     *)
(*              apart                                                      *)
(*   inbox      {} or the one frame in the receive buffer                  *)
(* A timestamp is abstracted to the sequence number of the frame it        *)
(* measures, so "these stamps belong together" can be said exactly.        *)
(*                                                                         *)
(* The operations are functions from radio to radio, so that a handler     *)
(* that makes several calls composes them in the order it makes them.      *)
(***************************************************************************)
EXTENDS Naturals, FiniteSets

CONSTANTS Nodes,      \* the devices on the air
          Broadcast   \* ShortAddress::BROADCAST

ASSUME BroadcastAssumption == Broadcast \notin Nodes

Byte    == 0..255
NoStamp == 256                     \* DwTime::zero(), no frame measured yet
Stamp   == Byte \cup {NoStamp}

\* The six timestamps of one two-way exchange, as a Peer keeps them.
StampNames == {"pollSent", "pollReceived", "pollAckSent",
               "pollAckReceived", "rangeSent", "rangeReceived"}
Stamps     == [StampNames -> Stamp]
NoStamps   == [s \in StampNames |-> NoStamp]

Kinds == {"Blink", "ScheduleSync", "RangingInit", "Poll", "PollAck",
          "Range", "RangeReport"}

\* Poll and Range carry the anchors they list in targets; Range carries the
\* stamps of each target and RangeReport those of its destination in times.
Frame == [kind : Kinds, src : Nodes, dst : Nodes \cup {Broadcast}, seq : Byte,
          targets : SUBSET Nodes, times : [Nodes -> Stamps]]

-----------------------------------------------------------------------------
(* SYS_STATUS *)

TxDone   == "TXFRS"                \* TX_FRAME_SENT
RxGood   == "RXDFR"                \* RX_FRAME_READY with RX_FRAME_GOOD
RxError  == "RXERR"                \* the checksum, header, RS and LDE errors
Events   == {TxDone, RxGood, RxError}

\* RECEIVE_RESTART_EVENTS, and receive_status_clear_mask() with them.
ReceiveEvents == {RxGood, RxError}

Radio == [state : {"Idle", "Rx", "Tx"},
          permanent : BOOLEAN, rxAfterTx : BOOLEAN,
          receiving : BOOLEAN, outbox : SUBSET Frame, txStamp : Stamp,
          status : SUBSET Events, inbox : SUBSET Frame]

\* The driver and the chip after reconfigure().
Configured ==
    [state |-> "Idle", permanent |-> FALSE, rxAfterTx |-> FALSE,
     receiving |-> FALSE, outbox |-> {}, txStamp |-> NoStamp,
     status |-> {}, inbox |-> {}]

-----------------------------------------------------------------------------
(* Driver operations *)

\* The write-one-to-clear part of clear_events().
Acknowledge(r, mask) ==
    [r EXCEPT !.status = @ \ mask,
              !.inbox  = IF RxGood \in mask THEN {} ELSE @]

\* idle(): TRXOFF stops a reception and takes back a frame still to be sent.
Idle(r) == [r EXCEPT !.state = "Idle", !.receiving = FALSE, !.outbox = {}]

\* start_receive().  In the blocking driver clear_receive_status() goes through
\* clear_events(), but the state is Idle there, so it restarts nothing.
StartReceive(r, permanent) ==
    [Acknowledge(Idle(r), ReceiveEvents) EXCEPT
        !.state     = "Rx",
        !.permanent = permanent,
        !.rxAfterTx = FALSE,
        !.receiving = TRUE]

\* transmit(): the receive bits and the receive buffer are left as they are.
Transmit(r, f) ==
    [Acknowledge(Idle(r), {TxDone}) EXCEPT
        !.state     = IF r.permanent THEN "Tx" ELSE "Idle",
        !.rxAfterTx = r.permanent,
        !.outbox    = {f}]

\* Mutated forms of ShouldRestartReceive: without the test for TX_FRAME_SENT,
\* without the transmit branch, and without the receive branch.
RestartsOnAnyEvent(r, mask) ==
    /\ r.permanent
    /\ \/ r.state = "Tx" /\ r.rxAfterTx
       \/ r.state = "Rx" /\ mask \cap ReceiveEvents # {}

RestartsInRxOnly(r, mask) ==
    r.permanent /\ r.state = "Rx" /\ mask \cap ReceiveEvents # {}

RestartsInTxOnly(r, mask) ==
    r.permanent /\ r.state = "Tx" /\ r.rxAfterTx /\ TxDone \in mask

ShouldRestartReceive(r, mask) ==
    /\ r.permanent
    /\ \/ r.state = "Tx" /\ r.rxAfterTx /\ TxDone \in mask
       \/ r.state = "Rx" /\ mask \cap ReceiveEvents # {}

ClearEvents(r, mask) ==
    IF ShouldRestartReceive(r, mask)
    THEN StartReceive(Acknowledge(r, mask), TRUE)
    ELSE Acknowledge(r, mask)

\* read_frame() fails on an error bit even when a frame is ready.
FrameReadable(r) == RxGood \in r.status /\ RxError \notin r.status

-----------------------------------------------------------------------------
(* What the chip does by itself (external) *)

\* The frame in the outbox has left the antenna.
FrameSent(r) ==
    [r EXCEPT !.outbox  = {},
              !.status  = @ \cup {TxDone},
              !.txStamp = (CHOOSE f \in r.outbox : TRUE).seq]

\* A frame can be received only with the receiver on and the buffer free.
Hears(r) == r.receiving /\ RxGood \notin r.status

\* A good frame stops the receiver; after a bad one RXAUTR keeps it on.
FrameReceived(r, f) ==
    [r EXCEPT !.receiving = FALSE, !.status = @ \cup {RxGood}, !.inbox = {f}]

FrameCorrupted(r) == [r EXCEPT !.status = @ \cup {RxError}]

\* A driver in permanent receive is listening, is sending, or has an event
\* pending that raises the interrupt whose handling listens again.
Reachable(r) ==
    /\ r.permanent
    /\ \/ r.state = "Rx" /\ (r.receiving \/ r.status \cap ReceiveEvents # {})
       \/ /\ r.state = "Tx" /\ r.rxAfterTx
          /\ r.outbox # {} \/ TxDone \in r.status
=============================================================================
