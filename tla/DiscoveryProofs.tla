-------------------------- MODULE DiscoveryProofs --------------------------
(***************************************************************************)
(* Theorems about Discovery, for every circle of sequence numbers and      *)
(* every blink period and peer timeout: the types, and HeardWithinHalf.    *)
(*                                                                         *)
(* The inductive invariant says how the length of a run of rejected frames *)
(* is tied to how far the next number to be heard is ahead of the one      *)
(* remembered: every rejection brings it one step closer to fresh.         *)
(***************************************************************************)
EXTENDS Discovery, TLAPS

AirOK == /\ \A n \in Nodes : air[n] # Nothing =>
               /\ air[n] \in [kind : KindsOf(n), seq : Sequences]
               /\ sequence[n] = After(air[n].seq)
         /\ air[Tag] = Nothing \/ air[Anchor] = Nothing

\* The next number n will hear.
NextHeard(n) ==
    IF air[Other(n)] = Nothing THEN sequence[Other(n)] ELSE air[Other(n)].seq

Ahead(n) == Delta(NextHeard(n), lastSequence[n])

RunOK(n) ==
    rejected[n] > 0 =>
        /\ calm /\ Knows(n)
        /\ \/ Ahead(n) > Half /\ rejected[n] <= Ahead(n) - Half
           \/ Ahead(n) = 0 /\ rejected[n] <= Half
           \/ Ahead(n) = 1 /\ rejected[n] <= Half + 1

Types ==
    /\ sequence \in [Nodes -> Sequences]
    /\ lastSequence \in [Nodes -> Sequences \cup {NoPeer}]
    /\ quiet \in [Nodes -> 0..(MaxSilence + 1)]
    /\ expected \in [Nodes -> SessionKinds]
    /\ session \in BOOLEAN /\ calm \in BOOLEAN
    /\ blinkCounter \in 0..BlinkPeriod
    /\ air \in [Nodes -> [kind : TagKinds \cup AnchorKinds \cup {"None"},
                          seq : Sequences]]
    /\ rejected \in [Nodes -> Nat]

IInv == Types /\ AirOK /\ \A n \in Nodes : RunOK(n)

-----------------------------------------------------------------------------
(* The circle of sequence numbers *)

\* The successor of a sequence number is one.
LEMMA AfterType == \A s \in Sequences : After(s) \in Sequences
BY HalfAssumption DEF After, Sequences, Modulus

\* wrapping_sub() stays on the circle.
LEMMA DeltaType == \A s, l \in Sequences : Delta(s, l) \in Sequences
BY HalfAssumption DEF Delta, Sequences, Modulus

\* One number further is one step further ahead, round the circle.
LEMMA DeltaAfter ==
    ASSUME NEW s \in Sequences, NEW l \in Sequences
    PROVE  Delta(After(s), l) =
              IF Delta(s, l) = Modulus - 1 THEN 0 ELSE Delta(s, l) + 1
BY HalfAssumption DEF After, Delta, Sequences, Modulus

-----------------------------------------------------------------------------
(* What the parts of an action do to the invariant *)

\* Nothing is on the air, no frame.
LEMMA NothingType ==
    Nothing \in [kind : TagKinds \cup AnchorKinds \cup {"None"}, seq : Sequences]
BY HalfAssumption DEF Nothing, Sequences, Modulus

\* The other device of the two.
LEMMA OtherFact ==
    /\ Other(Tag) = Anchor /\ Other(Anchor) = Tag /\ Tag # Anchor
    /\ \A n \in Nodes : Other(n) \in Nodes /\ Other(Other(n)) = n /\ Other(n) # n
BY DEF Other, Nodes, Tag, Anchor

\* A node sends on an air that carries at most a frame to it.
LEMMA SendsKeeps ==
    ASSUME Types, AirOK, NEW n \in Nodes, NEW kind \in KindsOf(n),
           Sends(n, kind), air[n] = Nothing
    PROVE  /\ sequence' \in [Nodes -> Sequences]
           /\ air' \in [Nodes -> [kind : TagKinds \cup AnchorKinds \cup {"None"},
                                  seq : Sequences]]
           /\ AirOK'
           /\ NextHeard(Other(n))' = NextHeard(Other(n))
           /\ air[Other(n)] = Nothing => NextHeard(n)' = NextHeard(n)
<1>1. kind \in TagKinds \cup AnchorKinds /\ kind # "None"
  BY DEF KindsOf, TagKinds, AnchorKinds, Nodes
<1>2. sequence[n] \in Sequences
  BY DEF Types
<1>3. sequence' = [sequence EXCEPT ![n] = After(sequence[n])]
  BY DEF Sends
<1>4. sequence' \in [Nodes -> Sequences]
  BY <1>2, <1>3, AfterType DEF Types
<1>5. air'[n] = [kind |-> kind, seq |-> sequence[n]] /\ air'[Other(n)] = Nothing
  BY OtherFact DEF Sends
<1>6. air' \in [Nodes -> [kind : TagKinds \cup AnchorKinds \cup {"None"},
                          seq : Sequences]]
  BY <1>1, <1>2, NothingType DEF Sends
<1>7. air'[n] # Nothing /\ air'[n].seq = sequence[n]
  BY <1>1, <1>5 DEF Nothing
<1>8. sequence'[n] = After(air'[n].seq)
  BY <1>3, <1>7 DEF Types
<1>9. AirOK'
  <2>1. ASSUME NEW m \in Nodes, air'[m] # Nothing
        PROVE  /\ air'[m] \in [kind : KindsOf(m), seq : Sequences]
               /\ sequence'[m] = After(air'[m].seq)
    <3>1. m = n
      BY <2>1, <1>5, OtherFact DEF Nodes
    <3> QED
      BY <3>1, <1>2, <1>5, <1>8
  <2>2. air'[Tag] = Nothing \/ air'[Anchor] = Nothing
    BY <1>5, OtherFact DEF Nodes
  <2> QED
    BY <2>1, <2>2 DEF AirOK
<1>10. NextHeard(Other(n))' = NextHeard(Other(n))
  BY <1>7, OtherFact DEF NextHeard
<1>11. air[Other(n)] = Nothing => NextHeard(n)' = NextHeard(n)
  BY <1>3, <1>5, OtherFact DEF NextHeard, Types
<1> QED
  BY <1>4, <1>6, <1>9, <1>10, <1>11

\* A frame has been heard and nothing is sent: what its sender will hear next
\* is unchanged, and the hearer is one number further.
LEMMA SilentKeeps ==
    ASSUME Types, AirOK, NEW n \in Nodes, Silent, air[Other(n)] # Nothing
    PROVE  /\ sequence' = sequence
           /\ air' \in [Nodes -> [kind : TagKinds \cup AnchorKinds \cup {"None"},
                                  seq : Sequences]]
           /\ AirOK'
           /\ NextHeard(Other(n))' = NextHeard(Other(n))
           /\ NextHeard(n) = Heard(n) /\ NextHeard(n)' = After(Heard(n))
           /\ Heard(n) \in Sequences
<1>1. sequence' = sequence /\ \A m \in Nodes : air'[m] = Nothing
  BY DEF Silent
<1>2. air' \in [Nodes -> [kind : TagKinds \cup AnchorKinds \cup {"None"},
                          seq : Sequences]]
  BY NothingType DEF Silent
<1>3. AirOK'
  BY <1>1 DEF AirOK, Nodes
<1>4. air[n] = Nothing
  BY OtherFact DEF AirOK, Nodes
<1>5. NextHeard(Other(n))' = NextHeard(Other(n))
  BY <1>1, <1>4, OtherFact DEF NextHeard
<1>6. sequence[Other(n)] = After(air[Other(n)].seq)
      /\ air[Other(n)].seq \in Sequences
  BY OtherFact DEF AirOK
<1> QED
  BY <1>1, <1>2, <1>3, <1>5, <1>6, OtherFact DEF NextHeard, Heard

\* A device that has heard, forgotten and counted nothing.
LEMMA SameRun ==
    ASSUME NEW n \in Nodes, RunOK(n), calm' = calm,
           lastSequence'[n] = lastSequence[n], rejected'[n] = rejected[n],
           NextHeard(n)' = NextHeard(n)
    PROVE  RunOK(n)'
BY DEF RunOK, Ahead, Knows

\* A device whose run of rejections has ended.
LEMMA NoRun ==
    ASSUME NEW n \in Nodes, rejected'[n] = 0
    PROVE  RunOK(n)'
BY DEF RunOK

\* A rejection makes a run one longer, and brings the sender one step closer.
LEMMA RejectedRun ==
    ASSUME Types, NEW n \in Nodes, RunOK(n), Knows(n),
           NextHeard(n) \in Sequences,
           ~ IsFresh(NextHeard(n), lastSequence[n]),
           NextHeard(n)' = After(NextHeard(n)),
           lastSequence' = lastSequence, calm' = calm, CountRejected(n)
    PROVE  RunOK(n)'
<1>1. CASE ~ calm
  BY <1>1, NoRun DEF CountRejected, Types
<1>2. CASE calm
  <2> DEFINE d == Ahead(n)
  <2>1. lastSequence[n] \in Sequences
    BY DEF Types, Knows
  <2>2. d \in Sequences
    BY <2>1, DeltaType DEF Ahead
  <2>3. Ahead(n)' = IF d = Modulus - 1 THEN 0 ELSE d + 1
    BY <2>1, DeltaAfter DEF Ahead
  <2>4. d \notin 1..(Half - 1)
    BY DEF IsFresh, Ahead
  <2>5. rejected'[n] = rejected[n] + 1 /\ rejected[n] \in Nat
    BY <1>2 DEF CountRejected, Types
  <2>6. rejected[n] = 0 \/ \/ d > Half /\ rejected[n] <= d - Half
                           \/ d = 0 /\ rejected[n] <= Half
                           \/ d = 1 /\ rejected[n] <= Half + 1
    BY <2>5 DEF RunOK
  <2> HIDE DEF d
  <2>7. d = 0 \/ (d \in Nat /\ d >= Half /\ d <= Modulus - 1)
    BY <2>2, <2>4, HalfAssumption DEF Sequences, Modulus
  <2>8. \/ Ahead(n)' > Half /\ rejected'[n] <= Ahead(n)' - Half
        \/ Ahead(n)' = 0 /\ rejected'[n] <= Half
        \/ Ahead(n)' = 1 /\ rejected'[n] <= Half + 1
    BY <2>3, <2>5, <2>6, <2>7, HalfAssumption DEF Modulus
  <2>9. calm' /\ Knows(n)'
    BY <1>2 DEF Knows
  <2> QED
    BY <2>8, <2>9 DEF RunOK
<1> QED
  BY <1>1, <1>2

-----------------------------------------------------------------------------
(* The kinds of handlers *)

FrameType == [kind : TagKinds \cup AnchorKinds \cup {"None"}, seq : Sequences]

\* A node has heard a frame it accepts, and sends an answer or nothing.
LEMMA AcceptedKeeps ==
    ASSUME IInv, NEW n \in Nodes, air[Other(n)].kind # "None", Accepted(n),
           calm' = calm, Silent \/ \E kind \in KindsOf(n) : Sends(n, kind)
    PROVE  /\ sequence' \in [Nodes -> Sequences]
           /\ lastSequence' \in [Nodes -> Sequences \cup {NoPeer}]
           /\ quiet' \in [Nodes -> 0..(MaxSilence + 1)]
           /\ air' \in [Nodes -> FrameType]
           /\ rejected' \in [Nodes -> Nat]
           /\ AirOK' /\ \A m \in Nodes : RunOK(m)'
<1>1. air[Other(n)] # Nothing /\ Other(n) \in Nodes
  BY OtherFact DEF Nothing
<1>2. air[n] = Nothing
  BY <1>1, OtherFact DEF IInv, AirOK, Nodes
<1>3. Heard(n) \in Sequences
  BY <1>1 DEF Heard, IInv, AirOK
<1>4. /\ sequence' \in [Nodes -> Sequences]
      /\ air' \in [Nodes -> FrameType]
      /\ AirOK' /\ NextHeard(Other(n))' = NextHeard(Other(n))
  <2>1. CASE Silent
    BY <2>1, <1>1, SilentKeeps DEF IInv, Types, FrameType
  <2>2. CASE \E kind \in KindsOf(n) : Sends(n, kind)
    BY <2>2, <1>2, SendsKeeps DEF IInv, FrameType
  <2> QED
    BY <2>1, <2>2
<1>5. /\ lastSequence' = [lastSequence EXCEPT ![n] = Heard(n)]
      /\ quiet' = [quiet EXCEPT ![n] = 0]
      /\ rejected' = [rejected EXCEPT ![n] = 0]
  BY DEF Accepted, Active
<1>6. /\ lastSequence' \in [Nodes -> Sequences \cup {NoPeer}]
      /\ quiet' \in [Nodes -> 0..(MaxSilence + 1)]
      /\ rejected' \in [Nodes -> Nat]
  BY <1>3, <1>5, PeriodAssumption DEF IInv, Types
<1>7. RunOK(n)'
  BY <1>5, NoRun DEF IInv, Types
<1>8. RunOK(Other(n))'
  <2>1. /\ lastSequence'[Other(n)] = lastSequence[Other(n)]
        /\ rejected'[Other(n)] = rejected[Other(n)]
    BY <1>5, OtherFact DEF IInv, Types
  <2> QED
    BY <2>1, <1>1, <1>4, SameRun DEF IInv
<1>9. \A m \in Nodes : RunOK(m)'
  BY <1>7, <1>8, OtherFact DEF Nodes
<1> QED
  BY <1>4, <1>6, <1>9

\* A node has heard a stale frame of a peer it knows.
LEMMA RejectedKeeps ==
    ASSUME IInv, NEW n \in Nodes, air[Other(n)].kind # "None", Knows(n),
           ~ IsFresh(Heard(n), lastSequence[n]), CountRejected(n), Silent,
           lastSequence' = lastSequence, calm' = calm
    PROVE  /\ sequence' \in [Nodes -> Sequences]
           /\ air' \in [Nodes -> FrameType]
           /\ rejected' \in [Nodes -> Nat]
           /\ AirOK' /\ \A m \in Nodes : RunOK(m)'
<1>1. air[Other(n)] # Nothing /\ Other(n) \in Nodes
  BY OtherFact DEF Nothing
<1>2. /\ sequence' = sequence /\ air' \in [Nodes -> FrameType] /\ AirOK'
      /\ NextHeard(Other(n))' = NextHeard(Other(n))
      /\ NextHeard(n) = Heard(n) /\ NextHeard(n)' = After(Heard(n))
      /\ Heard(n) \in Sequences
  BY <1>1, SilentKeeps DEF IInv, FrameType
<1>3. rejected' \in [Nodes -> Nat] /\ rejected'[Other(n)] = rejected[Other(n)]
  BY OtherFact DEF CountRejected, IInv, Types
<1>4. RunOK(n)'
  BY <1>2, RejectedRun DEF IInv
<1>5. RunOK(Other(n))'
  BY <1>1, <1>2, <1>3, SameRun DEF IInv
<1>6. \A m \in Nodes : RunOK(m)'
  BY <1>4, <1>5, OtherFact DEF Nodes
<1> QED
  BY <1>2, <1>3, <1>6 DEF IInv, Types

\* No run is counted in troubled times.
LEMMA TroubledRun ==
    ASSUME IInv, ~ calm, rejected' = rejected
    PROVE  \A m \in Nodes : RunOK(m)'
BY DEF IInv, Types, RunOK

-----------------------------------------------------------------------------
(* Theorems *)

\* The invariant holds at power-up.
LEMMA InitIInv == Init => IInv
<1> SUFFICES ASSUME Init PROVE IInv
  OBVIOUS
<1>1. Types
  <2>1. 0 \in Sequences /\ Nothing \in FrameType
    BY HalfAssumption, NothingType DEF Sequences, Modulus, FrameType
  <2>2. \A n \in Nodes : IdleKind(n) \in SessionKinds
    BY DEF IdleKind, SessionKinds
  <2> QED
    <3>1. /\ sequence \in [Nodes -> Sequences]
          /\ lastSequence \in [Nodes -> Sequences \cup {NoPeer}]
          /\ quiet \in [Nodes -> 0..(MaxSilence + 1)]
          /\ expected \in [Nodes -> SessionKinds]
      BY <2>1, <2>2, PeriodAssumption DEF Init
    <3>2. session \in BOOLEAN /\ calm \in BOOLEAN
      BY Zenon DEF Init
    <3>3. blinkCounter \in 0..BlinkPeriod /\ rejected \in [Nodes -> Nat]
      BY PeriodAssumption DEF Init
    <3>4. air \in [Nodes -> FrameType]
      BY <2>1 DEF Init
    <3> QED
      BY <3>1, <3>2, <3>3, <3>4 DEF Types, FrameType
<1>2. AirOK
  BY DEF Init, AirOK, Nodes
<1>3. \A n \in Nodes : RunOK(n)
  BY DEF Init, RunOK
<1> QED
  BY <1>1, <1>2, <1>3 DEF IInv

\* Every step preserves it.
LEMMA NextIInv == IInv /\ [Next]_vars => IInv'
<1> SUFFICES ASSUME IInv, [Next]_vars PROVE IInv'
  OBVIOUS
<1>1. CASE TagSessionTimeout
  <2>1. Types'
    BY <1>1 DEF TagSessionTimeout, Expects, IInv, Types, SessionKinds
  <2>2. AirOK'
    BY <1>1 DEF TagSessionTimeout, IInv, AirOK
  <2>3. \A n \in Nodes : RunOK(n)'
    BY <1>1 DEF TagSessionTimeout, IInv, RunOK, Ahead, NextHeard, Knows
  <2> QED
    BY <2>1, <2>2, <2>3 DEF IInv
<1>2. ASSUME RoundPasses, NEW kind \in TagKinds, Sends(Tag, kind),
             lastSequence' = lastSequence, calm' = calm,
             rejected' = rejected, session' \in BOOLEAN,
             expected' \in [Nodes -> SessionKinds]
      PROVE  IInv'
  <2>1. air[Tag] = Nothing /\ air[Anchor] = Nothing /\ kind \in KindsOf(Tag)
    BY <1>2 DEF RoundPasses, Settled, Nodes, KindsOf
  <2>2. /\ sequence' \in [Nodes -> Sequences] /\ air' \in [Nodes -> FrameType]
        /\ AirOK' /\ \A n \in Nodes : NextHeard(n)' = NextHeard(n)
    <3> Tag \in Nodes
      BY DEF Nodes
    <3> QED
      BY <1>2, <2>1, SendsKeeps, OtherFact DEF IInv, FrameType, Nodes
  <2>3. quiet' \in [Nodes -> 0..(MaxSilence + 1)] /\ blinkCounter' \in 0..BlinkPeriod
    BY <1>2, PeriodAssumption DEF RoundPasses, IInv, Types
  <2>4. \A n \in Nodes : RunOK(n)'
    BY <1>2, <2>2, SameRun DEF IInv
  <2> QED
    BY <1>2, <2>2, <2>3, <2>4 DEF IInv, Types, FrameType
<1>3. CASE TagPoll
  BY <1>2, <1>3 DEF TagPoll, TagKinds, Expects, IInv, Types, SessionKinds
<1>4. CASE TagBlink
  BY <1>2, <1>4 DEF TagBlink, TagKinds, IInv, Types
<1>5. ASSUME NEW n \in Nodes, Prune(n) PROVE IInv'
  <2>1. Types'
    BY <1>5, PeriodAssumption
    DEF Prune, Expects, IdleKind, IInv, Types, SessionKinds
  <2>2. AirOK'
    BY <1>5 DEF Prune, IInv, AirOK
  <2>3. RunOK(n)'
    BY <1>5, NoRun DEF Prune, IInv, Types
  <2>4. ASSUME NEW m \in Nodes, m # n PROVE RunOK(m)'
    BY <1>5, <2>4 DEF Prune, IInv, Types, RunOK, Ahead, NextHeard, Knows
  <2> QED
    BY <2>1, <2>2, <2>3, <2>4 DEF IInv
<1>6. ASSUME NEW n \in Nodes, air[Other(n)].kind # "None", Accepted(n),
             Silent \/ \E kind \in KindsOf(n) : Sends(n, kind),
             calm' = calm, blinkCounter' = blinkCounter,
             session' \in BOOLEAN, NEW kind \in SessionKinds, Expects(n, kind)
      PROVE  IInv'
  <2>1. expected' \in [Nodes -> SessionKinds]
    BY <1>6 DEF Expects, IInv, Types
  <2> QED
    BY <1>6, <2>1, AcceptedKeeps DEF IInv, Types, FrameType
<1>7. CASE AnchorBlink
  BY <1>6, <1>7, OtherFact
  DEF AnchorBlink, Hears, KindsOf, AnchorKinds, SessionKinds, Nodes, IInv, Types
<1>8. CASE AnchorPoll
  BY <1>6, <1>8, OtherFact
  DEF AnchorPoll, Expected, Hears, KindsOf, AnchorKinds, SessionKinds, Nodes,
      IInv, Types
<1>9. CASE AnchorRange
  BY <1>6, <1>9, OtherFact
  DEF AnchorRange, Expected, Hears, KindsOf, AnchorKinds, SessionKinds, Nodes,
      IInv, Types
<1>10. CASE TagRangingInit
  BY <1>6, <1>10 DEF TagRangingInit, Hears, SessionKinds, Nodes
<1>11. CASE TagPollAck
  BY <1>6, <1>11, OtherFact
  DEF TagPollAck, Expected, Hears, KindsOf, TagKinds, SessionKinds, Nodes
<1>12. CASE TagRangeReport
  BY <1>6, <1>12 DEF TagRangeReport, Expected, Hears, SessionKinds, Nodes
<1>13. ASSUME NEW n \in Nodes, Unexpected(n) PROVE IInv'
  <2>1. IdleKind(n) \in SessionKinds /\ "None" \notin SessionKinds
    BY DEF IdleKind, SessionKinds
  <2> QED
    BY <1>6, <1>13, <2>1 DEF Unexpected
<1>14. ASSUME NEW n \in Nodes, StaleIntroduction(n) PROVE IInv'
  <2>1. quiet' \in [Nodes -> 0..(MaxSilence + 1)]
    BY <1>14, PeriodAssumption DEF StaleIntroduction, Active, IInv, Types
  <2>2. Knows(n) /\ ~ IsFresh(Heard(n), lastSequence[n])
    BY <1>14 DEF StaleIntroduction, FreshFromAnyone
  <2>3. air[Other(n)].kind # "None"
    BY <1>14 DEF StaleIntroduction, Hears
  <2> QED
    BY <1>14, <2>1, <2>2, <2>3, RejectedKeeps
    DEF StaleIntroduction, IInv, Types, FrameType
<1>15. ASSUME NEW n \in Nodes, StaleSession(n) PROVE IInv'
  <2>1. Knows(n) /\ ~ IsFresh(Heard(n), lastSequence[n])
    BY <1>15 DEF StaleSession, FreshFromPeer
  <2>2. air[Other(n)].kind # "None"
    BY <1>15 DEF StaleSession, SessionKinds
  <2> QED
    BY <1>15, <2>1, <2>2, RejectedKeeps DEF StaleSession, IInv, Types, FrameType
<1>16. ASSUME NEW n \in Nodes, FromStranger(n) PROVE IInv'
  <2>1. air[Other(n)] # Nothing /\ Other(n) \in Nodes
    BY <1>16, OtherFact DEF FromStranger, SessionKinds, Nothing
  <2>2. /\ sequence' = sequence /\ air' \in [Nodes -> FrameType] /\ AirOK'
        /\ NextHeard(Other(n))' = NextHeard(Other(n))
    BY <1>16, <2>1, SilentKeeps DEF FromStranger, IInv, FrameType
  <2>3. rejected[n] = 0
    BY <1>16 DEF FromStranger, IInv, Types, RunOK
  <2>4. RunOK(n)'
    BY <1>16, <2>3, NoRun DEF FromStranger
  <2>5. RunOK(Other(n))'
    BY <1>16, <2>1, <2>2, SameRun DEF FromStranger, IInv
  <2>6. \A m \in Nodes : RunOK(m)'
    BY <2>4, <2>5, OtherFact DEF Nodes
  <2> QED
    BY <1>16, <2>2, <2>6 DEF FromStranger, IInv, Types, FrameType
<1>17. CASE Lose
  <2>1. sequence' = sequence /\ \A m \in Nodes : air'[m] = Nothing
    BY <1>17 DEF Lose, Silent
  <2>2. Types'
    BY <1>17, NothingType DEF Lose, Silent, IInv, Types
  <2>3. AirOK'
    BY <2>1 DEF AirOK, Nodes
  <2> QED
    BY <1>17, <2>2, <2>3, TroubledRun DEF Lose, IInv
<1>18. ASSUME NEW n \in Nodes, Reboot(n) PROVE IInv'
  <2>1. Types'
    <3>1. 0 \in Sequences
      BY HalfAssumption DEF Sequences, Modulus
    <3>2. IdleKind(n) \in SessionKinds
      BY DEF IdleKind, SessionKinds
    <3>3. blinkCounter' \in 0..BlinkPeriod
      BY <1>18, PeriodAssumption DEF Reboot, IInv, Types
    <3>4. air' \in [Nodes -> FrameType]
      BY <1>18, NothingType DEF Reboot, IInv, Types, FrameType
    <3> QED
      BY <1>18, <3>1, <3>2, <3>3, <3>4, PeriodAssumption
      DEF Reboot, Expects, IInv, Types, FrameType
  <2>2. AirOK'
    BY <1>18 DEF Reboot, IInv, Types, AirOK
  <2> QED
    BY <1>18, <2>1, <2>2, TroubledRun DEF Reboot, IInv
<1>19. CASE AnchorServesAnother
  <2>1. Anchor \in Nodes /\ sequence[Anchor] \in Sequences
    BY DEF Nodes, IInv, Types
  <2>2. Types'
    BY <1>19, <2>1, AfterType
    DEF AnchorServesAnother, Expects, SessionKinds, IInv, Types
  <2>3. AirOK'
    BY <1>19, <2>1 DEF AnchorServesAnother, IInv, Types, AirOK
  <2> QED
    BY <1>19, <2>2, <2>3, TroubledRun DEF AnchorServesAnother, IInv
<1>20. CASE CalmDown
  <2>1. Types' /\ AirOK'
    BY <1>20 DEF CalmDown, IInv, Types, AirOK
  <2> QED
    BY <1>20, <2>1, TroubledRun DEF CalmDown, IInv
<1>21. CASE UNCHANGED vars
  BY <1>21 DEF vars, IInv, Types, AirOK, RunOK, Ahead, NextHeard, Knows
<1> QED
  BY <1>1, <1>3, <1>4, <1>5, <1>7, <1>8, <1>9, <1>10, <1>11, <1>12, <1>13,
     <1>14, <1>15, <1>16, <1>17, <1>18, <1>19, <1>20, <1>21
  DEF Next, Ticks, Receives, Hearing

\* The invariant always holds.
LEMMA AlwaysIInv == Spec => []IInv
BY InitIInv, NextIInv, PTL DEF Spec

\* The discovery's state keeps its types: sequence numbers stay on their
\* circle, a peer's silence is never counted past its timeout, and each
\* device only sends and expects the frames of its role.
THEOREM TypeCorrect == Spec => []TypeOK
<1>1. IInv => TypeOK
  <2> SUFFICES ASSUME IInv PROVE TypeOK
    OBVIOUS
  <2>1. \A n \in Nodes : /\ air[n].kind \in KindsOf(n) \cup {"None"}
                         /\ air[n].seq \in Sequences
    BY DEF IInv, Types, AirOK, Nothing
  <2> QED
    BY <2>1 DEF IInv, Types, TypeOK, SessionKinds
<1> QED
  BY <1>1, AlwaysIInv, PTL

\* For a u8 sequence number or any other, and whatever the blink period and
\* the peer timeout are: once frames arrive again, a device turns down at
\* most one more than half the circle of a peer's frames in a row.
THEOREM HeardWithinHalfHolds == Spec => []HeardWithinHalf
<1>1. IInv => HeardWithinHalf
  <2> SUFFICES ASSUME IInv, NEW n \in Nodes PROVE rejected[n] <= Half + 1
    BY DEF HeardWithinHalf
  <2>1. rejected[n] \in Nat /\ lastSequence[n] \in Sequences \cup {NoPeer}
    BY DEF IInv, Types
  <2>2. ASSUME rejected[n] > 0 PROVE Ahead(n) \in 0..(2 * Half - 1)
    <3>1. NextHeard(n) \in Sequences
      BY OtherFact DEF NextHeard, IInv, Types, AirOK
    <3>2. lastSequence[n] \in Sequences
      BY <2>1, <2>2 DEF IInv, RunOK, Knows
    <3>3. Ahead(n) \in Sequences
      BY <3>1, <3>2, DeltaType DEF Ahead
    <3> QED
      BY <3>3 DEF Sequences, Modulus
  <2>3. CASE rejected[n] = 0
    BY <2>3, HalfAssumption
  <2>4. CASE rejected[n] > 0
    <3> DEFINE d == Ahead(n)
    <3>1. \/ d > Half /\ rejected[n] <= d - Half
          \/ rejected[n] <= Half
          \/ rejected[n] <= Half + 1
      BY <2>4 DEF IInv, RunOK
    <3>2. d \in 0..(2 * Half - 1)
      BY <2>2, <2>4
    <3> HIDE DEF d
    <3> QED
      BY <2>1, <3>1, <3>2, HalfAssumption
  <2> QED
    BY <2>1, <2>3, <2>4
<1> QED
  BY <1>1, AlwaysIInv, PTL
=============================================================================
