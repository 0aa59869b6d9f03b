-------------------------- MODULE TickTimersProofs --------------------------
(***************************************************************************)
(* Theorems of TickTimers, for every size of the clock and every period    *)
(* and timeout below half of it.  The clock value the host loop has read,  *)
(* a peer's last activity and a session's deadline are followed by their   *)
(* distance round the clock from now, never by comparing two values.       *)
(***************************************************************************)
EXTENDS TickTimers, Integers, TLAPS

\* The milliseconds from clock value x to clock value y.
Gap(x, y) == WrappingSub(y, x)

-----------------------------------------------------------------------------
(* Distances round the clock *)

\* The assumptions as bounds: every period is less than half a turn.
LEMMA Bounds ==
    /\ Width \in Nat /\ Width > 0 /\ Boot \in Time
    /\ 2 * (Width \div 2) <= Width /\ Width \div 2 \in Nat
    /\ TimerPeriod \in Nat \ {0} /\ TimerPeriod < Width \div 2
    /\ SessionTimeout \in Nat \ {0} /\ SessionTimeout < Width \div 2
    /\ ResetPeriod \in Nat \ {0} /\ ResetPeriod < Width \div 2
    /\ MaxSilence \in Nat /\ MaxSilence = ResetPeriod + 4 * TimerPeriod
<1>1. Width \in Nat /\ Boot \in 0..Width - 1
  BY TimerAssumption
<1>2. Width \div 2 \in Nat /\ 2 * (Width \div 2) <= Width
  BY <1>1
<1>3. {TimerPeriod, SessionTimeout, ResetPeriod} \subseteq 1..((Width \div 2) - 1)
  BY TimerAssumption
<1> QED BY <1>1, <1>2, <1>3 DEF Time, MaxSilence

\* The clock goes round, and a session is shorter than a turn.
LEMMA Turns ==
    /\ Width \in Nat /\ Width > 0
    /\ SessionTimeout \in Nat /\ SessionTimeout < Width
BY Bounds

\* A sum of less than two turns wraps at most once.
LEMMA Turn ==
    ASSUME NEW x \in 0..2 * Width - 1
    PROVE  x % Width = IF x < Width THEN x ELSE x - Width
BY Bounds

\* wrapping_sub() of two clock values undoes one turn.
LEMMA GapIs ==
    ASSUME NEW x \in Time, NEW y \in Time
    PROVE  /\ Gap(x, y) = IF y >= x THEN y - x ELSE y - x + Width
           /\ Gap(x, y) \in Time
<1>1. y + Width - x \in 0..2 * Width - 1
  BY Bounds DEF Time
<1>2. (y + Width - x) % Width
        = IF y + Width - x < Width THEN y + Width - x ELSE y - x
  BY <1>1, Turn, Bounds DEF Time
<1> QED BY <1>2, Bounds DEF Gap, WrappingSub, Time

\* A distance is a number of milliseconds.
LEMMA GapNat == \A x, y \in Time : Gap(x, y) \in Nat /\ x \in Nat
BY GapIs, Turns DEF Time

\* No value is away from itself, and distances in a row add up.
LEMMA GapSums ==
    ASSUME NEW x \in Time, NEW y \in Time, NEW z \in Time
    PROVE  /\ Gap(x, x) = 0
           /\ Gap(x, y) + Gap(y, z) < Width
                 => Gap(x, z) = Gap(x, y) + Gap(y, z)
           /\ Gap(x, y) > 0 => Gap(y, x) = Width - Gap(x, y)
<1>1. /\ x \in Nat /\ y \in Nat /\ z \in Nat /\ Width \in Nat
      /\ x < Width /\ y < Width /\ z < Width
  BY Turns DEF Time
<1>2. /\ Gap(x, x) = 0
      /\ Gap(x, y) = IF y >= x THEN y - x ELSE y - x + Width
      /\ Gap(y, x) = IF x >= y THEN x - y ELSE x - y + Width
      /\ Gap(y, z) = IF z >= y THEN z - y ELSE z - y + Width
      /\ Gap(x, z) = IF z >= x THEN z - x ELSE z - x + Width
  BY <1>1, GapIs
<1> QED BY <1>1, <1>2

\* The two parts of a distance.
LEMMA GapCut ==
    ASSUME NEW x \in Time, NEW y \in Time, NEW z \in Time
    PROVE  /\ Gap(x, y) <= Gap(x, z) => Gap(y, z) = Gap(x, z) - Gap(x, y)
           /\ Gap(y, z) <= Gap(x, z) => Gap(x, y) = Gap(x, z) - Gap(y, z)
<1>1. /\ x \in Nat /\ y \in Nat /\ z \in Nat /\ Width \in Nat
      /\ x < Width /\ y < Width /\ z < Width
  BY Turns DEF Time
<1>2. /\ Gap(x, y) = IF y >= x THEN y - x ELSE y - x + Width
      /\ Gap(y, z) = IF z >= y THEN z - y ELSE z - y + Width
      /\ Gap(x, z) = IF z >= x THEN z - x ELSE z - x + Width
  BY <1>1, GapIs
<1> QED BY <1>1, <1>2

\* A millisecond takes now one further from what is behind it and one closer
\* to what is ahead.
LEMMA Passes ==
    ASSUME NEW x \in Time, NEW y \in Time
    PROVE  LET z == (y + 1) % Width
           IN /\ z \in Time
              /\ Gap(x, y) + 1 < Width => Gap(x, z) = Gap(x, y) + 1
              /\ Gap(y, x) > 0 => Gap(z, x) = Gap(y, x) - 1
<1> DEFINE z == (y + 1) % Width
<1>1. z = IF y + 1 < Width THEN y + 1 ELSE 0
  BY Turn, Bounds DEF Time
<1>2. z \in Time
  BY <1>1, Bounds DEF Time
<1> HIDE DEF z
<1>3. /\ x \in Nat /\ y \in Nat /\ z \in Nat /\ Width \in Nat
      /\ x < Width /\ y < Width /\ z < Width
  BY <1>2, Turns DEF Time
<1>4. /\ Gap(x, y) = IF y >= x THEN y - x ELSE y - x + Width
      /\ Gap(y, x) = IF x >= y THEN x - y ELSE x - y + Width
      /\ Gap(x, z) = IF z >= x THEN z - x ELSE z - x + Width
      /\ Gap(z, x) = IF x >= z THEN x - z ELSE x - z + Width
  BY <1>2, <1>3, GapIs
<1>5. Gap(x, y) + 1 < Width => Gap(x, z) = Gap(x, y) + 1
  BY <1>1, <1>3, <1>4
<1>6. Gap(y, x) > 0 => Gap(z, x) = Gap(y, x) - 1
  BY <1>1, <1>3, <1>4
<1> QED BY <1>2, <1>5, <1>6 DEF z

\* A deadline is a session timeout ahead of the time it is set from.
LEMMA DeadlineAhead ==
    ASSUME NEW t \in Time
    PROVE  DeadlineFrom(t) \in Time /\ Gap(t, DeadlineFrom(t)) = SessionTimeout
<1> DEFINE d == (t + SessionTimeout) % Width
<1>1. d = IF t + SessionTimeout < Width THEN t + SessionTimeout
          ELSE t + SessionTimeout - Width
  BY Turn, Bounds DEF Time
<1>2. d \in Time
  BY <1>1, Bounds DEF Time
<1> HIDE DEF d
<1>3. /\ t \in Nat /\ d \in Nat /\ t < Width /\ d < Width
  BY <1>2, Turns DEF Time
<1>4. Gap(t, d) = IF d >= t THEN d - t ELSE d - t + Width
  BY <1>2, GapIs
<1>5. Gap(t, d) = SessionTimeout
  BY <1>1, <1>3, <1>4, Turns
<1> QED BY <1>2, <1>5 DEF d, DeadlineFrom

-----------------------------------------------------------------------------
(* The invariant *)

\* The time the host loop has read is at most as old as the ticker's count.
SeenRecently == at = "select" => Gap(seen, now) <= ticker

\* The silence counted is the distance from the peer's last activity, and the
\* time read is from after that activity.
SilenceCounted ==
    heard # None /\ silence <= ResetPeriod =>
        /\ Gap(heard, now) = silence
        /\ at = "select" => Gap(seen, now) <= silence

\* While a session cannot have run out, its deadline is ahead by what is left
\* of the timeout, short of the age of the time it was set from; and the time
\* read is from after its beginning.
DeadlineLeft ==
    session # "none" /\ age + TimerPeriod < SessionTimeout =>
        /\ Gap(now, deadline) >= SessionTimeout - age - TimerPeriod
        /\ Gap(now, deadline) <= SessionTimeout - age
        /\ at = "select" => Gap(seen, now) <= age

IInv == TypeOK /\ SeenRecently /\ SilenceCounted /\ DeadlineLeft

\* The types, one by one.
LEMMA Types ==
    ASSUME TypeOK
    PROVE  /\ now \in Time /\ seen \in Time /\ lastTick \in Time
           /\ lastRange \in Time /\ lastRadio \in Time /\ lastUpdate \in Time
           /\ heard \in Time \cup {None} /\ deadline \in Time \cup {None}
           /\ session # "none" => deadline \in Time
           /\ heard # None => heard \in Time
           /\ ticker \in 0..TimerPeriod
           /\ silence \in 0..MaxSilence + 1 /\ age \in 0..SessionTimeout
BY DEF TypeOK

\* The invariant holds initially.
LEMMA InitTimed == Init => IInv
<1> SUFFICES ASSUME Init PROVE IInv
  OBVIOUS
<1>1. TypeOK
  <2>1. {now, seen, lastTick, lastRange, lastRadio, lastUpdate} \subseteq Time
    BY Bounds DEF Init, Time
  <2>2. /\ ticker \in 0..TimerPeriod /\ silence \in 0..MaxSilence + 1
        /\ age \in 0..SessionTimeout
    BY Bounds DEF Init
  <2> QED BY <2>1, <2>2 DEF Init, TypeOK
<1>2. Gap(seen, now) = 0
  BY <1>1, Types, GapSums DEF Init
<1> QED BY <1>1, <1>2, Bounds
        DEF Init, IInv, SeenRecently, SilenceCounted, DeadlineLeft, None

-----------------------------------------------------------------------------
(* Time passes *)

\* A millisecond more since everything that is measured.
LEMMA AdvanceKeeps == ASSUME IInv, Advance PROVE IInv'
<1>1. /\ at = "select" /\ at' = "select" /\ now' = (now + 1) % Width
      /\ ticker < TimerPeriod /\ ticker' = ticker + 1
      /\ silence' = Runs(silence, heard # None, MaxSilence + 1)
      /\ age' = Runs(age, session # "none", SessionTimeout)
      /\ UNCHANGED <<seen, lastTick, lastRange, heard, deadline, session,
                     lastRadio, lastUpdate, unacknowledged>>
  BY DEF Advance, node, app
<1>2. /\ now \in Time /\ seen \in Time /\ ticker \in Nat
      /\ silence \in Nat /\ silence <= MaxSilence + 1
      /\ age \in Nat /\ age <= SessionTimeout
      /\ session # "none" => deadline \in Time
      /\ heard # None => heard \in Time
  BY Types, Bounds DEF IInv
<1>3. now' \in Time
  BY <1>1, <1>2, Passes
<1>4. TypeOK'
  <2>1. /\ ticker' \in 0..TimerPeriod /\ silence' \in 0..MaxSilence + 1
        /\ age' \in 0..SessionTimeout
    BY <1>1, <1>2, Bounds DEF Runs
  <2> QED BY <1>1, <1>3, <2>1 DEF IInv, TypeOK
<1>5. Gap(seen, now) <= ticker /\ Gap(seen, now) \in Nat
  BY <1>1, <1>2, GapIs, Turns DEF IInv, SeenRecently, Time
<1>6. Gap(seen, now') = Gap(seen, now) + 1
  BY <1>1, <1>2, <1>5, Passes, Bounds
<1>7. SeenRecently'
  BY <1>1, <1>2, <1>5, <1>6 DEF SeenRecently
<1>8. SilenceCounted'
  <2> SUFFICES ASSUME heard # None, silence' <= ResetPeriod
               PROVE  Gap(heard, now') = silence' /\ Gap(seen, now') <= silence'
    BY <1>1 DEF SilenceCounted
  <2>1. silence' = silence + 1 /\ silence <= ResetPeriod
    BY <1>1, <1>2, Bounds DEF Runs
  <2>2. Gap(heard, now) = silence /\ Gap(seen, now) <= silence
    BY <1>1, <2>1 DEF IInv, SilenceCounted
  <2>3. Gap(heard, now') = silence + 1
    BY <1>1, <1>2, <2>1, <2>2, Passes, Bounds
  <2> QED BY <1>2, <1>5, <1>6, <2>1, <2>2, <2>3
<1>9. DeadlineLeft'
  <2> SUFFICES ASSUME session # "none", age' + TimerPeriod < SessionTimeout
               PROVE  /\ Gap(now', deadline) >= SessionTimeout - age' - TimerPeriod
                      /\ Gap(now', deadline) <= SessionTimeout - age'
                      /\ Gap(seen, now') <= age'
    BY <1>1 DEF DeadlineLeft
  <2>1. age' = age + 1 /\ age + TimerPeriod < SessionTimeout
    BY <1>1, <1>2, Bounds DEF Runs
  <2>2. /\ Gap(now, deadline) >= SessionTimeout - age - TimerPeriod
        /\ Gap(now, deadline) <= SessionTimeout - age
        /\ Gap(seen, now) <= age
    BY <1>1, <2>1 DEF IInv, DeadlineLeft
  <2>3. Gap(now, deadline) \in Nat /\ Gap(now, deadline) > 0
    BY <1>2, <2>1, <2>2, GapIs, Bounds DEF Time
  <2>4. Gap(now', deadline) = Gap(now, deadline) - 1
    BY <1>1, <1>2, <2>3, Passes
  <2> QED BY <1>2, <1>5, <1>6, <2>1, <2>2, <2>3, <2>4, Bounds
<1> QED BY <1>4, <1>7, <1>8, <1>9 DEF IInv

-----------------------------------------------------------------------------
(* The tick *)

\* A session phase that begins at a time as old as TimerPeriod has the rest of
\* its timeout left; one that begins nowhere or goes on is as before.
LEMMA PhaseBegins ==
    ASSUME TypeOK, NEW t \in Time, Gap(t, now) <= TimerPeriod,
           NEW phase \in {"PollAck", "RangeReport"},
           BeginPhase(phase, t), now' = now, at' = "check"
    PROVE  /\ session' \in {"PollAck", "RangeReport"} /\ deadline' \in Time
           /\ age' = 0 /\ DeadlineLeft'
<1>1. /\ session' = phase /\ deadline' = DeadlineFrom(t) /\ age' = 0
  BY DEF BeginPhase
<1>2. deadline' \in Time /\ Gap(t, deadline') = SessionTimeout
  BY <1>1, DeadlineAhead
<1>3. ASSUME TimerPeriod < SessionTimeout
      PROVE  Gap(now, deadline') = SessionTimeout - Gap(t, now)
  <2>1. now \in Time /\ Gap(t, now) \in Nat
    BY Types, GapIs, Turns DEF Time
  <2>2. Gap(t, now) <= Gap(t, deadline')
    BY <1>2, <1>3, <2>1, Bounds
  <2> QED BY <1>2, <2>1, <2>2, GapCut
<1>4. Gap(t, now) \in Nat
  BY Types, GapIs, Turns DEF Time
<1> QED BY <1>1, <1>2, <1>3, <1>4, Bounds DEF DeadlineLeft

\* Without a session there is no deadline to speak of.
LEMMA SessionEnds ==
    ASSUME EndSession PROVE /\ session' = "none" /\ deadline' = None
                            /\ age' = 0 /\ DeadlineLeft'
BY DEF EndSession, DeadlineLeft

\* The types after a step that leaves the clock alone.
LEMMA StepTypes ==
    ASSUME TypeOK, now' = now,
           {seen', lastTick', lastRange', lastRadio', lastUpdate'}
              \subseteq Time,
           heard' \in Time \cup {None}, deadline' \in Time \cup {None},
           session' \in {"none", "PollAck", "RangeReport"},
           deadline' = None <=> session' = "none",
           at' \in {"select", "check"}, ticker' \in 0..TimerPeriod,
           unacknowledged' \in BOOLEAN,
           silence' \in 0..MaxSilence + 1, age' \in 0..SessionTimeout
    PROVE  TypeOK'
BY DEF TypeOK

\* What every tick does.
LEMMA TickLeaves ==
    ASSUME IInv, Ticks
    PROVE  /\ now' = now /\ seen' = seen /\ at' = "check"
           /\ ticker' \in 0..TimerPeriod /\ SeenRecently'
           /\ Gap(seen, now) <= TimerPeriod
BY Bounds DEF IInv, Ticks, SeenRecently

\* The silence counted and the peer stay as they are.
LEMMA SilenceStays ==
    ASSUME IInv, now' = now, at' = "check", heard' = heard, silence' = silence
    PROVE  SilenceCounted'
BY DEF IInv, SilenceCounted

\* The session stays as it is.
LEMMA SessionStays ==
    ASSUME IInv, now' = now, at' = "check", session' = session,
           deadline' = deadline, age' = age
    PROVE  DeadlineLeft'
BY DEF IInv, DeadlineLeft

\* A deadline is not None.
LEMMA TimeIsSome == \A x \in Time : x # None
BY Bounds DEF Time, None

\* 0 is a value of every history clock.
LEMMA Zeros == 0 \in 0..MaxSilence + 1 /\ 0 \in 0..SessionTimeout
BY Bounds

\* A session that has run out goes on with what it got or ends.
LEMMA TickExpiresKeeps == ASSUME IInv, TickExpires PROVE IInv'
<1>1. /\ Ticks /\ lastRadio' = seen
      /\ UNCHANGED <<lastTick, lastRange, heard, lastUpdate, unacknowledged,
                     silence>>
  BY DEF TickExpires
<1>2. /\ now' = now /\ seen' = seen /\ at' = "check"
      /\ ticker' \in 0..TimerPeriod /\ SeenRecently'
      /\ Gap(seen, now) <= TimerPeriod
  BY <1>1, TickLeaves
<1>3. SilenceCounted'
  BY <1>1, <1>2, SilenceStays
<1>4. /\ DeadlineLeft' /\ age' = 0
      /\ session' \in {"none", "PollAck", "RangeReport"}
      /\ deadline' \in Time \cup {None}
      /\ deadline' = None <=> session' = "none"
  <2>1. CASE EndSession
    BY <2>1, SessionEnds
  <2>2. CASE BeginPhase("RangeReport", seen)
    BY <2>2, <1>2, PhaseBegins, Types, TimeIsSome DEF IInv
  <2> QED BY <2>1, <2>2 DEF TickExpires
<1>5. TypeOK'
  BY <1>1, <1>2, <1>4, StepTypes, Zeros DEF IInv, TypeOK
<1> QED BY <1>2, <1>3, <1>4, <1>5 DEF IInv

\* Pruning takes the session with the peer.
LEMMA TickPrunesKeeps == ASSUME IInv, TickPrunes PROVE IInv'
<1>1. /\ Ticks /\ lastRadio' = seen /\ heard' = None /\ silence' = 0
      /\ EndSession
      /\ UNCHANGED <<lastTick, lastRange, lastUpdate, unacknowledged>>
  BY DEF TickPrunes
<1>2. /\ now' = now /\ seen' = seen /\ at' = "check"
      /\ ticker' \in 0..TimerPeriod /\ SeenRecently'
  BY <1>1, TickLeaves
<1>3. SilenceCounted'
  BY <1>1 DEF SilenceCounted, None
<1>4. DeadlineLeft' /\ age' = 0 /\ session' = "none" /\ deadline' = None
  BY <1>1, SessionEnds
<1>5. TypeOK'
  BY <1>1, <1>2, <1>4, StepTypes, Zeros DEF IInv, TypeOK
<1> QED BY <1>2, <1>3, <1>4, <1>5 DEF IInv

\* A tick with nothing to do.
LEMMA TickIdlesKeeps == ASSUME IInv, TickTooEarly \/ TickRests PROVE IInv'
<1>1. /\ Ticks /\ lastTick' \in {lastTick, seen}
      /\ UNCHANGED <<lastRange, heard, deadline, session, app, unacknowledged,
                     silence, age>>
  BY DEF TickTooEarly, TickRests, node
<1>2. /\ now' = now /\ seen' = seen /\ at' = "check"
      /\ ticker' \in 0..TimerPeriod /\ SeenRecently'
  BY <1>1, TickLeaves
<1>3. SilenceCounted'
  BY <1>1, <1>2, SilenceStays
<1>4. DeadlineLeft'
  BY <1>1, <1>2, SessionStays
<1>5. TypeOK'
  BY <1>1, <1>2, StepTypes DEF IInv, TypeOK, app
<1> QED BY <1>2, <1>3, <1>4, <1>5 DEF IInv

\* A round starts with a Poll and its session, or with a Blink.
LEMMA TickStartsRoundKeeps == ASSUME IInv, TickStartsRound PROVE IInv'
<1>1. /\ Ticks /\ lastTick' = seen /\ lastRange' = seen /\ lastRadio' = seen
      /\ UNCHANGED <<heard, lastUpdate, silence>>
  BY DEF TickStartsRound
<1>2. /\ now' = now /\ seen' = seen /\ at' = "check"
      /\ ticker' \in 0..TimerPeriod /\ SeenRecently'
      /\ Gap(seen, now) <= TimerPeriod
  BY <1>1, TickLeaves
<1>3. SilenceCounted'
  BY <1>1, <1>2, SilenceStays
<1>4. /\ DeadlineLeft' /\ age' \in 0..SessionTimeout
      /\ unacknowledged' \in BOOLEAN
      /\ session' \in {"none", "PollAck", "RangeReport"}
      /\ deadline' \in Time \cup {None}
      /\ deadline' = None <=> session' = "none"
  <2>1. CASE UNCHANGED <<session, deadline, age, unacknowledged>>
    BY <2>1, <1>2, SessionStays DEF IInv, TypeOK
  <2>2. CASE BeginPhase("PollAck", seen) /\ unacknowledged' = TRUE
    BY <2>2, <1>2, PhaseBegins, Types, TimeIsSome, Zeros DEF IInv
  <2> QED BY <2>1, <2>2 DEF TickStartsRound
<1>5. TypeOK'
  BY <1>1, <1>2, <1>4, StepTypes DEF IInv, TypeOK
<1> QED BY <1>2, <1>3, <1>4, <1>5 DEF IInv

-----------------------------------------------------------------------------
(* Interrupts, and the check that follows either *)

\* What every interrupt does.
LEMMA InterruptLeaves ==
    ASSUME IInv, Interrupt
    PROVE  /\ now' = now /\ seen' = seen /\ at' = "check"
           /\ ticker' = ticker /\ lastRadio' = now
           /\ UNCHANGED <<lastTick, lastRange>> /\ SeenRecently'
BY DEF IInv, Interrupt, SeenRecently

\* A frame for nobody changes nothing but the time of the last activity.
LEMMA OverhearKeeps == ASSUME IInv, Overhear PROVE IInv'
<1>1. /\ Interrupt
      /\ UNCHANGED <<heard, session, deadline, lastUpdate, unacknowledged,
                     silence, age>>
  BY DEF Overhear
<1>2. /\ now' = now /\ seen' = seen /\ at' = "check"
      /\ ticker' = ticker /\ lastRadio' = now
      /\ UNCHANGED <<lastTick, lastRange>> /\ SeenRecently'
  BY <1>1, InterruptLeaves
<1>3. SilenceCounted'
  BY <1>1, <1>2, SilenceStays
<1>4. DeadlineLeft'
  BY <1>1, <1>2, SessionStays
<1>5. TypeOK'
  BY <1>1, <1>2, StepTypes DEF IInv, TypeOK
<1> QED BY <1>2, <1>3, <1>4, <1>5 DEF IInv

\* What an accepted frame does to the session keeps what is left of it: a
\* phase begins now.
LEMMA AnsweredKeeps ==
    ASSUME IInv, Answered, now' = now, at' = "check"
    PROVE  /\ DeadlineLeft' /\ age' \in 0..SessionTimeout
           /\ unacknowledged' \in BOOLEAN /\ lastUpdate' \in Time
           /\ session' \in {"none", "PollAck", "RangeReport"}
           /\ deadline' \in Time \cup {None}
           /\ deadline' = None <=> session' = "none"
<1>1. now \in Time /\ Gap(now, now) <= TimerPeriod
  BY Types, GapSums, Bounds DEF IInv
<1>2. CASE UNCHANGED <<session, deadline, age, lastUpdate, unacknowledged>>
  BY <1>2, SessionStays DEF IInv, TypeOK
<1>3. CASE BeginPhase("RangeReport", now) /\ unacknowledged' = FALSE
           /\ UNCHANGED lastUpdate
  BY <1>1, <1>3, PhaseBegins, Types, TimeIsSome, Zeros DEF IInv
<1>4. CASE /\ lastUpdate' = now /\ UNCHANGED unacknowledged
           /\ EndSession \/ UNCHANGED <<session, deadline, age>>
  <2>1. CASE EndSession
    BY <1>1, <1>4, <2>1, SessionEnds, Zeros DEF IInv, TypeOK
  <2>2. CASE UNCHANGED <<session, deadline, age>>
    BY <1>1, <1>4, <2>2, SessionStays DEF IInv, TypeOK
  <2> QED BY <1>4, <2>1, <2>2
<1>5. CASE EndSession /\ UNCHANGED <<lastUpdate, unacknowledged>>
  BY <1>5, SessionEnds, Zeros DEF IInv, TypeOK
<1> QED BY <1>2, <1>3, <1>4, <1>5 DEF Answered

\* A frame of the peer restarts the count of its silence.
LEMMA HearKeeps == ASSUME IInv, Hear PROVE IInv'
<1>1. Interrupt /\ heard' = now /\ silence' = 0 /\ Answered
  BY DEF Hear
<1>2. /\ now' = now /\ seen' = seen /\ at' = "check"
      /\ ticker' = ticker /\ lastRadio' = now
      /\ UNCHANGED <<lastTick, lastRange>> /\ SeenRecently'
  BY <1>1, InterruptLeaves
<1>3. now \in Time /\ Gap(now, now) = 0
  BY Types, GapSums DEF IInv
<1>4. SilenceCounted'
  BY <1>1, <1>2, <1>3 DEF SilenceCounted
<1>5. /\ DeadlineLeft' /\ age' \in 0..SessionTimeout
      /\ unacknowledged' \in BOOLEAN /\ lastUpdate' \in Time
      /\ session' \in {"none", "PollAck", "RangeReport"}
      /\ deadline' \in Time \cup {None}
      /\ deadline' = None <=> session' = "none"
  BY <1>1, <1>2, AnsweredKeeps
<1>6. TypeOK'
  BY <1>1, <1>2, <1>3, <1>5, StepTypes, Zeros DEF IInv, TypeOK
<1> QED BY <1>2, <1>4, <1>5, <1>6 DEF IInv

\* The loop begins again with the clock as it is.
LEMMA LoopsFresh ==
    ASSUME IInv, Loops
    PROVE  /\ now' = now /\ seen' = now /\ at' = "select"
           /\ UNCHANGED <<ticker, unacknowledged, silence>>
           /\ now \in Time /\ SeenRecently' /\ Gap(seen', now') = 0
<1>1. now \in Time /\ Gap(now, now) = 0 /\ ticker >= 0
  BY Types, GapSums, Bounds DEF IInv
<1> QED BY <1>1 DEF Loops, SeenRecently

\* The link is not stalled.
LEMMA CheckPassesKeeps == ASSUME IInv, CheckPasses PROVE IInv'
<1>1. Loops /\ UNCHANGED <<node, app, age>>
  BY DEF CheckPasses
<1>2. /\ now' = now /\ seen' = now /\ at' = "select"
      /\ UNCHANGED <<ticker, unacknowledged, silence>>
      /\ now \in Time /\ SeenRecently' /\ Gap(seen', now') = 0
  BY <1>1, LoopsFresh
<1>3. silence >= 0 /\ age >= 0
  BY Types, Bounds DEF IInv
<1>4. SilenceCounted'
  BY <1>1, <1>2, <1>3 DEF IInv, SilenceCounted, node
<1>5. DeadlineLeft'
  BY <1>1, <1>2, <1>3 DEF IInv, DeadlineLeft, node
<1>6. TypeOK'
  BY <1>1, <1>2, StepTypes DEF IInv, TypeOK, node, app
<1> QED BY <1>2, <1>4, <1>5, <1>6 DEF IInv

\* The link is recovered, which ends the session.
LEMMA CheckRecoversKeeps == ASSUME IInv, CheckRecovers PROVE IInv'
<1>1. /\ Loops /\ EndSession /\ lastTick' = now
      /\ lastRadio' = now /\ lastUpdate' = now /\ UNCHANGED <<lastRange, heard>>
  BY DEF CheckRecovers
<1>2. /\ now' = now /\ seen' = now /\ at' = "select"
      /\ UNCHANGED <<ticker, unacknowledged, silence>>
      /\ now \in Time /\ SeenRecently' /\ Gap(seen', now') = 0
  BY <1>1, LoopsFresh
<1>3. silence >= 0
  BY Types, Bounds DEF IInv
<1>4. SilenceCounted'
  BY <1>1, <1>2, <1>3 DEF IInv, SilenceCounted
<1>5. DeadlineLeft' /\ session' = "none" /\ deadline' = None /\ age' = 0
  BY <1>1, SessionEnds
<1>6. TypeOK'
  BY <1>1, <1>2, <1>5, StepTypes, Zeros DEF IInv, TypeOK
<1> QED BY <1>2, <1>4, <1>5, <1>6 DEF IInv

-----------------------------------------------------------------------------
(* The theorems *)

\* Every step keeps the invariant.
LEMMA NextTimed == IInv /\ [Next]_vars => IInv'
<1> SUFFICES ASSUME IInv, [Next]_vars PROVE IInv'
  OBVIOUS
<1>1. CASE Advance
  BY <1>1, AdvanceKeeps
<1>2. CASE Tick
  BY <1>2, TickExpiresKeeps, TickPrunesKeeps, TickIdlesKeeps,
     TickStartsRoundKeeps DEF Tick
<1>3. CASE Overhear
  BY <1>3, OverhearKeeps
<1>4. CASE Hear
  BY <1>4, HearKeeps
<1>5. CASE Check
  BY <1>5, CheckPassesKeeps, CheckRecoversKeeps DEF Check
<1>6. CASE UNCHANGED vars
  BY <1>6 DEF vars, node, app, IInv, TypeOK, SeenRecently, SilenceCounted,
              DeadlineLeft
<1> QED BY <1>1, <1>2, <1>3, <1>4, <1>5, <1>6 DEF Next

\* The invariant of the timers holds.
LEMMA TimersTimed == Spec => []IInv
BY InitTimed, NextTimed, PTL DEF Spec

\* The timers keep their types.
THEOREM TypeCorrect == Spec => []TypeOK
<1>1. IInv => TypeOK
  BY DEF IInv
<1> QED BY <1>1, TimersTimed, PTL

\* saturating_sub() never measures more than the time round the clock.
LEMMA SaturatingSubWithin ==
    ASSUME NEW x \in Time, NEW y \in Time
    PROVE  SaturatingSub(y, x) <= Gap(x, y)
<1>1. x \in Nat /\ y \in Nat /\ Width \in Nat /\ x < Width /\ y < Width
  BY Turns DEF Time
<1>2. Gap(x, y) = IF y >= x THEN y - x ELSE y - x + Width
  BY GapIs
<1> QED BY <1>1, <1>2 DEF SaturatingSub

\* prune_inactive_peer() with a clock value from before the wait finds only
\* peers that were silent for longer than reset_period_ms, wherever the clock
\* has wrapped: the value is from after the peer's last activity, so what the
\* tick measures is at most the silence.
THEOREM NeverPrunedEarlyHolds == Spec => NeverPrunedEarly
<1>1. ASSUME IInv, Next, heard # None, heard' = None
      PROVE  silence > ResetPeriod
  <2>1. TickPrunes
    <3>1. now # None
      BY <1>1, Types, TimeIsSome DEF IInv
    <3> QED BY <1>1, <3>1 DEF Next, Tick, Check, Advance, TickExpires,
               TickTooEarly, TickRests, TickStartsRound, Overhear, Hear,
               CheckPasses, CheckRecovers, node
  <2>2. at = "select" /\ SaturatingSub(seen, heard) > ResetPeriod
    BY <2>1 DEF TickPrunes, Ticks, PeerInactive
  <2>3. /\ seen \in Time /\ heard \in Time /\ now \in Time
        /\ silence \in Nat /\ ResetPeriod \in Nat
    BY <1>1, Types, Bounds DEF IInv
  <2>4. /\ Gap(heard, seen) \in Nat /\ Gap(seen, now) \in Nat
        /\ SaturatingSub(seen, heard) \in Nat
    BY <2>3, GapNat DEF SaturatingSub
  <2>5. SaturatingSub(seen, heard) <= Gap(heard, seen)
    BY <2>3, SaturatingSubWithin
  <2>6. SUFFICES ASSUME silence <= ResetPeriod PROVE FALSE
    BY <2>3
  <2>7. Gap(heard, now) = silence /\ Gap(seen, now) <= silence
    BY <1>1, <2>2, <2>6 DEF IInv, SilenceCounted
  <2>8. Gap(heard, seen) = silence - Gap(seen, now)
    BY <2>3, <2>7, GapCut
  <2> QED BY <2>2, <2>3, <2>4, <2>5, <2>6, <2>8
<1>2. IInv /\ [Next]_vars => [heard # None /\ heard' = None
                                => silence > ResetPeriod]_vars
  BY <1>1
<1> QED BY <1>2, TimersTimed, PTL DEF Spec, NeverPrunedEarly

-----------------------------------------------------------------------------
(* The peer that is silent *)

\* Until the clock wraps, the silence is the time since the last activity, the
\* value read lies in it, and a tick has found the peer inactive before only if
\* a session that had run out kept it from pruning.
LateTicks ==
    heard # None /\ heard + silence < Width =>
        /\ now = heard + silence
        /\ at = "select" => heard <= seen /\ seen <= now /\ now <= seen + ticker
        /\ \/ silence <= ticker + ResetPeriod + TimerPeriod
           \/ /\ silence <= ticker + ResetPeriod + 2 * TimerPeriod
              /\ session # "PollAck"
           \/ /\ silence <= ticker + ResetPeriod + 3 * TimerPeriod
              /\ session = "none"

\* The numbers of the state.
LEMMA Numbers ==
    ASSUME TypeOK
    PROVE  /\ now \in Nat /\ seen \in Nat /\ heard \in Nat /\ silence \in Nat
           /\ ticker \in Nat /\ ticker <= TimerPeriod /\ now < Width
           /\ silence <= MaxSilence + 1
<1>1. /\ now \in 0..Width - 1 /\ seen \in 0..Width - 1
      /\ heard \in (0..Width - 1) \cup {Width}
  BY Types DEF Time, None
<1> QED BY <1>1, Types, Bounds

\* The ticker has not counted further than the silence by more than its period
\* for each tick that was lost.
LEMMA LateBound ==
    ASSUME TypeOK, LateTicks, heard # None, heard + silence < Width
    PROVE  silence <= MaxSilence
BY Numbers, Bounds DEF LateTicks

\* A millisecond of silence is a millisecond of the ticker.
LEMMA AdvanceLate == ASSUME IInv, LateTicks, Advance PROVE LateTicks'
<1>1. /\ at = "select" /\ at' = "select" /\ now' = (now + 1) % Width
      /\ ticker' = ticker + 1
      /\ silence' = Runs(silence, heard # None, MaxSilence + 1)
      /\ UNCHANGED <<seen, heard, session>>
  BY DEF Advance, node
<1> SUFFICES ASSUME heard # None, heard + silence' < Width
             PROVE  LateTicks'
  BY <1>1 DEF LateTicks
<1>2. /\ now \in Nat /\ seen \in Nat /\ heard \in Nat /\ silence \in Nat
      /\ ticker \in Nat /\ now < Width /\ silence <= MaxSilence + 1
  BY Numbers DEF IInv
<1>3. heard + silence < Width
  BY <1>1, <1>2, Bounds DEF Runs
<1>4. silence <= MaxSilence
  BY <1>3, LateBound DEF IInv
<1>5. silence' = silence + 1
  BY <1>1, <1>2, <1>4, Bounds DEF Runs
<1>6. /\ now = heard + silence /\ heard <= seen /\ seen <= now
      /\ now <= seen + ticker
      /\ \/ silence <= ticker + ResetPeriod + TimerPeriod
         \/ /\ silence <= ticker + ResetPeriod + 2 * TimerPeriod
            /\ session # "PollAck"
         \/ /\ silence <= ticker + ResetPeriod + 3 * TimerPeriod
            /\ session = "none"
  BY <1>1, <1>3 DEF LateTicks
<1>7. now + 1 < Width
  BY <1>2, <1>5, <1>6
<1>8. now' = now + 1
  <2>1. now + 1 \in 0..2 * Width - 1
    BY <1>2, <1>7, Bounds
  <2> QED BY <1>1, <1>7, <2>1, Turn
<1> QED BY <1>1, <1>2, <1>5, <1>6, <1>8, Bounds DEF LateTicks

\* A tick long after the last activity finds the peer inactive.
LEMMA FoundInactive ==
    ASSUME IInv, LateTicks, Ticks, heard # None, heard + silence < Width,
           silence > ResetPeriod + TimerPeriod
    PROVE  PeerInactive
<1>1. /\ now \in Nat /\ seen \in Nat /\ heard \in Nat /\ silence \in Nat
      /\ ticker \in Nat /\ ticker <= TimerPeriod
  BY Numbers DEF IInv
<1>2. now = heard + silence /\ heard <= seen /\ now <= seen + ticker
  BY DEF LateTicks, Ticks
<1>3. seen - heard > ResetPeriod
  BY <1>1, <1>2, Bounds
<1> QED BY <1>1, <1>2, <1>3 DEF PeerInactive, SaturatingSub

\* A tick prunes the peer, or comes before it is inactive, or takes a session
\* that has run out one phase further.
LEMMA TickLate == ASSUME IInv, LateTicks, Tick PROVE LateTicks'
<1>1. /\ Ticks /\ at = "select" /\ at' = "check" /\ ticker = TimerPeriod
      /\ ticker' = 0 /\ UNCHANGED <<now, seen>>
  BY DEF Tick, TickExpires, TickPrunes, TickTooEarly, TickRests,
         TickStartsRound, Ticks
<1>2. CASE TickPrunes
  BY <1>2 DEF TickPrunes, LateTicks, None
<1>3. ASSUME ~ TickPrunes PROVE heard' = heard /\ silence' = silence
  BY <1>3 DEF Tick, TickExpires, TickTooEarly, TickRests, TickStartsRound, node
<1>4. SUFFICES ASSUME ~ TickPrunes, heard # None, heard + silence < Width
               PROVE  LateTicks'
  BY <1>2, <1>3 DEF LateTicks
<1>5. /\ now = heard + silence
      /\ \/ silence <= ResetPeriod + 2 * TimerPeriod
         \/ /\ silence <= ResetPeriod + 3 * TimerPeriod
            /\ session # "PollAck"
         \/ session = "none"
  BY <1>1, <1>4, Numbers, Bounds DEF LateTicks, IInv
<1>6. CASE silence <= ResetPeriod + TimerPeriod
  BY <1>1, <1>3, <1>4, <1>5, <1>6, Numbers, Bounds DEF LateTicks, IInv
<1>7. CASE silence > ResetPeriod + TimerPeriod
  <2>1. TickExpires
    BY <1>1, <1>4, <1>7, FoundInactive
       DEF Tick, TickTooEarly, TickRests, TickStartsRound
  <2>2. session # "none"
    BY <2>1 DEF TickExpires, SessionExpired, IInv, TypeOK
  <2>3. \/ session = "PollAck" /\ session' = "RangeReport"
        \/ session' = "none"
    BY <2>1 DEF TickExpires, BeginPhase, EndSession
  <2>4. \/ /\ silence <= ResetPeriod + 2 * TimerPeriod
           /\ session' # "PollAck"
        \/ /\ silence <= ResetPeriod + 3 * TimerPeriod
           /\ session' = "none"
    BY <1>5, <2>2, <2>3, Numbers, Bounds DEF IInv
  <2> QED BY <1>1, <1>3, <1>4, <1>5, <2>4, Numbers, Bounds
          DEF LateTicks, IInv
<1> QED BY <1>6, <1>7, Numbers, Bounds DEF IInv

\* A frame of the peer ends its silence; other interrupts touch nothing here.
LEMMA InterruptLate ==
    ASSUME IInv, LateTicks, Overhear \/ Hear PROVE LateTicks'
<1>1. at' = "check" /\ UNCHANGED <<now, seen, ticker>>
  BY DEF Overhear, Hear, Interrupt
<1>2. CASE Overhear
  BY <1>1, <1>2 DEF Overhear, LateTicks
<1>3. CASE Hear
  <2>1. heard' = now /\ silence' = 0
    BY <1>3 DEF Hear
  <2> QED BY <1>1, <2>1, Numbers, Bounds DEF LateTicks, IInv
<1> QED BY <1>2, <1>3

\* The loop reads the clock; a recovered link has no session.
LEMMA CheckLate == ASSUME IInv, LateTicks, Check PROVE LateTicks'
<1>1. /\ at' = "select" /\ seen' = now
      /\ UNCHANGED <<now, ticker, silence, heard>>
      /\ session' \in {session, "none"}
  BY DEF Check, CheckPasses, CheckRecovers, Loops, EndSession, node
<1> SUFFICES ASSUME heard # None, heard + silence < Width
             PROVE  LateTicks'
  BY <1>1 DEF LateTicks
<1>2. /\ now = heard + silence
      /\ \/ silence <= ticker + ResetPeriod + TimerPeriod
         \/ /\ silence <= ticker + ResetPeriod + 2 * TimerPeriod
            /\ session # "PollAck"
         \/ /\ silence <= ticker + ResetPeriod + 3 * TimerPeriod
            /\ session = "none"
  BY DEF LateTicks
<1>3. heard <= now /\ now <= now + ticker
  BY <1>2, Numbers DEF IInv
<1> QED BY <1>1, <1>2, <1>3 DEF LateTicks

\* prune_inactive_peer() is late by four ticker periods at most, unless the
\* clock wraps first: until then saturating_sub() measures the silence short
\* of one period, and only the two phases of a session come before it.
THEOREM PrunedInTimeHolds == Spec => []PrunedInTime
<1>1. Init => LateTicks
  BY DEF Init, LateTicks
<1>2. ASSUME IInv, LateTicks, [Next]_vars PROVE LateTicks'
  <2>1. CASE Next
    BY <1>2, <2>1, AdvanceLate, TickLate, InterruptLate, CheckLate DEF Next
  <2>2. CASE UNCHANGED vars
    BY <1>2, <2>2 DEF vars, node, LateTicks
  <2> QED BY <1>2, <2>1, <2>2
<1>3. ASSUME IInv, LateTicks PROVE PrunedInTime
  <2> SUFFICES ASSUME silence > MaxSilence, heard + silence < Width
               PROVE  FALSE
    BY <1>3, Numbers, Bounds DEF PrunedInTime, IInv
  <2>1. heard # None
    BY <1>3, Numbers, Bounds DEF None, IInv
  <2> QED BY <1>3, <2>1, LateBound, Numbers, Bounds DEF IInv
<1> QED BY <1>1, <1>2, <1>3, TimersTimed, PTL DEF Spec

-----------------------------------------------------------------------------
(* The session *)

\* finish_timed_out_session() comes no earlier than the timeout less one
\* ticker period, wherever the clock has wrapped: until then the deadline is
\* less than half a turn ahead of the value the tick works with.
THEOREM SessionsLastHolds == Spec => SessionsLast
<1>1. ASSUME IInv, TickExpires PROVE age + TimerPeriod >= SessionTimeout
  <2>1. at = "select" /\ SessionExpired /\ session # "none"
    BY <1>1 DEF TickExpires, Ticks, SessionExpired, IInv, TypeOK
  <2>2. /\ seen \in Time /\ now \in Time /\ deadline \in Time /\ age \in Nat
        /\ age <= SessionTimeout
    BY <1>1, <2>1, Types, Bounds DEF IInv
  <2>3. SUFFICES ASSUME age + TimerPeriod < SessionTimeout PROVE FALSE
    BY <2>2, Bounds
  <2>4. /\ Gap(now, deadline) >= SessionTimeout - age - TimerPeriod
        /\ Gap(now, deadline) <= SessionTimeout - age
        /\ Gap(seen, now) <= age
    BY <1>1, <2>1, <2>3 DEF IInv, DeadlineLeft
  <2>5. /\ Gap(now, deadline) \in Nat /\ Gap(seen, now) \in Nat
        /\ Gap(deadline, seen) \in Nat
    BY <2>2, GapNat
  <2>6. /\ Gap(seen, now) + Gap(now, deadline) > 0
        /\ Gap(seen, now) + Gap(now, deadline) < Width \div 2
    BY <2>2, <2>3, <2>4, <2>5, Bounds
  <2>7. Gap(seen, now) + Gap(now, deadline) < Width
    BY <2>5, <2>6, Bounds
  <2>8. Gap(seen, deadline) = Gap(seen, now) + Gap(now, deadline)
    BY <2>2, <2>7, GapSums
  <2>9. Gap(deadline, seen) = Width - Gap(seen, deadline)
    BY <2>2, <2>6, <2>8, GapSums
  <2>10. Gap(deadline, seen) >= Width \div 2
    BY <2>5, <2>6, <2>8, <2>9, Bounds
  <2>11. Gap(deadline, seen) < Width \div 2
    BY <2>1 DEF SessionExpired, Gap
  <2> QED BY <2>5, <2>10, <2>11, Bounds
<1>2. IInv /\ [Next]_vars
        => [TickExpires => age + TimerPeriod >= SessionTimeout]_vars
  BY <1>1
<1> QED BY <1>2, TimersTimed, PTL DEF Spec, SessionsLast
=============================================================================
