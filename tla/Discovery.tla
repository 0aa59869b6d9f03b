----------------------------- MODULE Discovery -----------------------------
(***************************************************************************)
(* How a tag and an anchor find each other again (ranging.rs): Blink and   *)
(* RangingInit, the peer table with its inactivity, and the u8 sequence    *)
(* numbers by which old frames are told from new ones.                     *)
(*                                                                         *)
(* In troubled times frames are lost, either device reboots, which empties *)
(* its table and restarts its sequence at 0, and the anchor serves other   *)
(* tags.  calm is the environment's promise that these times are over.     *)
(*                                                                         *)
(* A round is what the tag starts when no session runs.  Times are counted *)
(* in rounds: reset_period_ms is at least MinSilence and at most           *)
(* MaxSilence of them, for a round takes from range_period_ms to a session *)
(* timeout and a ticker period.  A session times out when no answer is     *)
(* under way any more, the driver handles a frame before the next is sent  *)
(* (RangingSystem has what happens otherwise), and with one peer the first *)
(* PollAck completes the phase.                                            *)
(***************************************************************************)
EXTENDS Integers

CONSTANTS Half,          \* half the circle of sequence numbers (128)
          BlinkPeriod,   \* tick() blinks again after this many rounds (20)
          MinSilence, MaxSilence   \* the peer timeout, in rounds

ASSUME HalfAssumption == Half \in Nat /\ Half >= 2
ASSUME PeriodAssumption ==
    /\ BlinkPeriod \in Nat \ {0}
    /\ MinSilence \in Nat \ {0} /\ MaxSilence \in Nat
    /\ MinSilence <= MaxSilence

Tag == "tag"
Anchor == "anchor"
Nodes == {Tag, Anchor}
Other(n) == IF n = Tag THEN Anchor ELSE Tag

Modulus == 2 * Half
Sequences == 0..(Modulus - 1)
NoPeer == -1                  \* the other device is not in the peer table
Nothing == [kind |-> "None", seq |-> 0]

VARIABLES sequence,      \* next_sequence() of each device
          lastSequence,  \* of the other device's entry in the peer table
          quiet,         \* rounds since that entry's last_activity_ms
          expected,      \* the frame kind each device expects
          session,       \* the tag has a session deadline
          blinkCounter,  \* of the tag
          air,           \* what each device is sending
          calm,          \* nothing goes wrong any more
          rejected       \* history: frames turned down in a row since then

vars == <<sequence, lastSequence, quiet, expected, session, blinkCounter, air,
          calm, rejected>>

TagKinds    == {"Blink", "Poll", "Range"}
AnchorKinds == {"RangingInit", "PollAck", "RangeReport"}
KindsOf(n)  == IF n = Tag THEN TagKinds ELSE AnchorKinds

IdleKind(n) == IF n = Tag THEN "PollAck" ELSE "Poll"

Init ==
    /\ sequence = [n \in Nodes |-> 0]
    /\ lastSequence = [n \in Nodes |-> NoPeer]
    /\ quiet = [n \in Nodes |-> 0]
    /\ expected = [n \in Nodes |-> IdleKind(n)]
    /\ session = FALSE /\ blinkCounter = 0
    /\ air = [n \in Nodes |-> Nothing]
    /\ calm = FALSE
    /\ rejected = [n \in Nodes |-> 0]

-----------------------------------------------------------------------------
(* Sequence numbers *)

\* Mutated form of After: the sequence number does not wrap.
AfterUnwrapped(s) == s + 1

\* wrapping_add(1) and wrapping_sub() of the sequence numbers.
After(s) == IF s = Modulus - 1 THEN 0 ELSE s + 1
Delta(s, last) == IF s >= last THEN s - last ELSE s - last + Modulus

\* Mutated form of IsFresh: the numbers are compared without wrapping.
IsLater(s, last) == s > last

\* observe_peer_sequence(), for a peer whose last_sequence is known.
IsFresh(s, last) == Delta(s, last) \in 1..(Half - 1)

-----------------------------------------------------------------------------
(* What the handlers are made of *)

Knows(n) == lastSequence[n] # NoPeer

\* n sends a frame of this kind, and nothing else is on the air.
Sends(n, kind) ==
    /\ air' = [m \in Nodes |->
                IF m = n THEN [kind |-> kind, seq |-> sequence[n]] ELSE Nothing]
    /\ sequence' = [sequence EXCEPT ![n] = After(@)]

\* n has the frame the other device was sending, and sends nothing itself.
Silent == air' = [n \in Nodes |-> Nothing] /\ UNCHANGED sequence

Hears(n, kind) == air[Other(n)].kind = kind
Heard(n) == air[Other(n)].seq

\* ensure_peer() and observe_peer_sequence(): the peer is in the table and
\* has been active, whether the frame is fresh or not.
FreshFromAnyone(n) == ~ Knows(n) \/ IsFresh(Heard(n), lastSequence[n])

\* accept_header(): only from a peer in the table.
FreshFromPeer(n) == Knows(n) /\ IsFresh(Heard(n), lastSequence[n])

Active(n) == quiet' = [quiet EXCEPT ![n] = 0]

Accepted(n) ==
    /\ lastSequence' = [lastSequence EXCEPT ![n] = Heard(n)]
    /\ Active(n)
    /\ rejected' = [rejected EXCEPT ![n] = 0]

CountRejected(n) ==
    rejected' = [rejected EXCEPT ![n] = IF calm THEN @ + 1 ELSE 0]

Expects(n, kind) == expected' = [expected EXCEPT ![n] = kind]

-----------------------------------------------------------------------------
(* tick() *)

Settled == air = [n \in Nodes |-> Nothing]

\* finish_timed_out_session()
TagSessionTimeout ==
    /\ Settled /\ session
    /\ session' = FALSE /\ Expects(Tag, "PollAck")
    /\ UNCHANGED <<sequence, lastSequence, quiet, blinkCounter, air, calm,
                   rejected>>

\* A peer silent for reset_period_ms leaves the table: PeerInactive.
Prune(n) ==
    /\ Settled /\ Knows(n) /\ quiet[n] > MinSilence
    /\ lastSequence' = [lastSequence EXCEPT ![n] = NoPeer]
    /\ quiet' = [quiet EXCEPT ![n] = 0]
    /\ Expects(n, IdleKind(n))
    /\ session' = (session /\ n # Tag)
    /\ rejected' = [rejected EXCEPT ![n] = 0]
    /\ UNCHANGED <<sequence, blinkCounter, air, calm>>

\* The tag's next round is due, and no peer is overdue at either device.
RoundPasses ==
    /\ Settled /\ ~ session
    /\ \A n \in Nodes : Knows(n) => quiet[n] <= MaxSilence
    /\ quiet' = [n \in Nodes |-> IF Knows(n) THEN quiet[n] + 1 ELSE 0]
    /\ blinkCounter' = IF blinkCounter >= BlinkPeriod THEN 0
                       ELSE blinkCounter + 1

TagPoll ==
    /\ Knows(Tag) /\ blinkCounter # 0
    /\ RoundPasses /\ Sends(Tag, "Poll")
    /\ session' = TRUE /\ Expects(Tag, "PollAck")
    /\ UNCHANGED <<lastSequence, calm, rejected>>

TagBlink ==
    /\ ~ Knows(Tag) \/ blinkCounter = 0
    /\ RoundPasses /\ Sends(Tag, "Blink")
    /\ UNCHANGED <<lastSequence, expected, session, calm, rejected>>

-----------------------------------------------------------------------------
(* on_rx() *)

\* Mutated form of AnchorBlink: a tag in the table is not answered.
AnchorBlinkOnce ==
    /\ Hears(Anchor, "Blink") /\ FreshFromAnyone(Anchor)
    /\ Accepted(Anchor)
    /\ Expects(Anchor, "Poll")
    /\ IF Knows(Anchor) THEN Silent ELSE Sends(Anchor, "RangingInit")
    /\ UNCHANGED <<session, blinkCounter, calm>>

\* accept_blink(), reset_protocol_state(), send_ranging_init()
AnchorBlink ==
    /\ Hears(Anchor, "Blink") /\ FreshFromAnyone(Anchor)
    /\ Accepted(Anchor)
    /\ Expects(Anchor, "Poll") /\ Sends(Anchor, "RangingInit")
    /\ UNCHANGED <<session, blinkCounter, calm>>

\* accept_ranging_init(), reset_protocol_state()
TagRangingInit ==
    /\ Hears(Tag, "RangingInit") /\ FreshFromAnyone(Tag)
    /\ Accepted(Tag)
    /\ Expects(Tag, "PollAck") /\ session' = FALSE /\ Silent
    /\ UNCHANGED <<blinkCounter, calm>>

\* The peer counts as active all the same.
StaleIntroduction(n) ==
    /\ Hears(n, "Blink") \/ Hears(n, "RangingInit")
    /\ ~ FreshFromAnyone(n)
    /\ Active(n) /\ CountRejected(n) /\ Silent
    /\ UNCHANGED <<lastSequence, expected, session, blinkCounter, calm>>

SessionKinds == {"Poll", "PollAck", "Range", "RangeReport"}

StaleSession(n) ==
    /\ air[Other(n)].kind \in SessionKinds
    /\ Knows(n) /\ ~ FreshFromPeer(n)
    /\ CountRejected(n) /\ Silent
    /\ UNCHANGED <<lastSequence, quiet, expected, session, blinkCounter, calm>>

FromStranger(n) ==
    /\ air[Other(n)].kind \in SessionKinds
    /\ ~ Knows(n)
    /\ Silent
    /\ UNCHANGED <<lastSequence, quiet, expected, session, blinkCounter, calm,
                   rejected>>

\* A frame of the wrong phase: reset_protocol_state().
Unexpected(n) ==
    /\ air[Other(n)].kind \in SessionKinds \ {expected[n]}
    /\ FreshFromPeer(n) /\ Accepted(n)
    /\ Expects(n, IdleKind(n)) /\ session' = (session /\ n # Tag) /\ Silent
    /\ UNCHANGED <<blinkCounter, calm>>

Expected(n, kind) ==
    /\ Hears(n, kind) /\ expected[n] = kind
    /\ FreshFromPeer(n) /\ Accepted(n)

AnchorPoll ==
    /\ Expected(Anchor, "Poll")
    /\ Expects(Anchor, "Range") /\ Sends(Anchor, "PollAck")
    /\ UNCHANGED <<session, blinkCounter, calm>>

TagPollAck ==
    /\ Expected(Tag, "PollAck")
    /\ Expects(Tag, "RangeReport") /\ session' = TRUE /\ Sends(Tag, "Range")
    /\ UNCHANGED <<blinkCounter, calm>>

AnchorRange ==
    /\ Expected(Anchor, "Range")
    /\ Expects(Anchor, "Poll") /\ Sends(Anchor, "RangeReport")
    /\ UNCHANGED <<session, blinkCounter, calm>>

TagRangeReport ==
    /\ Expected(Tag, "RangeReport")
    /\ Expects(Tag, "PollAck") /\ session' = FALSE /\ Silent
    /\ UNCHANGED <<blinkCounter, calm>>

-----------------------------------------------------------------------------
(* Troubled times (external) *)

Lose ==
    /\ ~ calm /\ ~ Settled
    /\ Silent
    /\ UNCHANGED <<lastSequence, quiet, expected, session, blinkCounter, calm,
                   rejected>>

\* What the device was sending stops; what has left it has been heard.
Reboot(n) ==
    /\ ~ calm
    /\ sequence' = [sequence EXCEPT ![n] = 0]
    /\ lastSequence' = [lastSequence EXCEPT ![n] = NoPeer]
    /\ quiet' = [quiet EXCEPT ![n] = 0]
    /\ Expects(n, IdleKind(n))
    /\ session' = (session /\ n # Tag)
    /\ blinkCounter' = IF n = Tag THEN 0 ELSE blinkCounter
    /\ air' = [air EXCEPT ![n] = Nothing]
    /\ UNCHANGED <<calm, rejected>>

\* The anchor answers another tag's Blink, Poll or Range: the frame is not
\* for this tag, whose last_sequence falls behind.
AnchorServesAnother ==
    /\ ~ calm /\ air[Anchor] = Nothing
    /\ sequence' = [sequence EXCEPT ![Anchor] = After(@)]
    /\ \/ Expects(Anchor, "Poll")
       \/ expected[Anchor] = "Poll" /\ Expects(Anchor, "Range")
    /\ UNCHANGED <<lastSequence, quiet, session, blinkCounter, air, calm,
                   rejected>>

CalmDown ==
    /\ ~ calm /\ calm' = TRUE
    /\ UNCHANGED <<sequence, lastSequence, quiet, expected, session,
                   blinkCounter, air, rejected>>

-----------------------------------------------------------------------------

Ticks == TagSessionTimeout \/ TagPoll \/ TagBlink

Hearing(n) == StaleIntroduction(n) \/ StaleSession(n) \/ FromStranger(n)
                 \/ Unexpected(n)

Receives ==
    \/ AnchorBlink \/ AnchorPoll \/ AnchorRange
    \/ TagRangingInit \/ TagPollAck \/ TagRangeReport
    \/ \E n \in Nodes : Hearing(n)

Next ==
    \/ Ticks \/ Receives
    \/ \E n \in Nodes : Prune(n) \/ Reboot(n)
    \/ Lose \/ AnchorServesAnother \/ CalmDown

Spec == Init /\ [][Next]_vars

\* Hosts keep ticking, and a frame that is not lost is heard.
FairSpec == Spec /\ WF_vars(Ticks) /\ WF_vars(Receives)
                 /\ \A n \in Nodes : WF_vars(Prune(n) /\ quiet[n] > MaxSilence)

-----------------------------------------------------------------------------
(* Properties *)

TypeOK ==
    /\ sequence \in [Nodes -> Sequences]
    /\ lastSequence \in [Nodes -> Sequences \cup {NoPeer}]
    /\ quiet \in [Nodes -> 0..(MaxSilence + 1)]
    /\ \A n \in Nodes : expected[n] \in {"Poll", "Range", "PollAck", "RangeReport"}
    /\ session \in BOOLEAN /\ calm \in BOOLEAN
    /\ blinkCounter \in 0..BlinkPeriod
    /\ \A n \in Nodes : /\ air[n].kind \in KindsOf(n) \cup {"None"}
                        /\ air[n].seq \in Sequences
    /\ rejected \in [Nodes -> Nat]

\* However a device's sequence numbers have got out of step with what the
\* other one remembers (a reboot, a long silence, traffic to others), the
\* other turns down at most one more than half the circle of its frames in a
\* row once they arrive again: it need not forget the device first.
HeardWithinHalf == \A n \in Nodes : rejected[n] <= Half + 1

\* Once the trouble is over the two devices measure for ever, whatever each
\* of them still believes of the other.
MeasuresAgain == <>calm => []<><<TagRangeReport>>_vars
=============================================================================
