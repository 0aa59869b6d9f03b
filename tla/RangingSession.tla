--------------------------- MODULE RangingSession ---------------------------
(***************************************************************************)
(* What ranging.rs promises of a tag's sessions, without frames, radios,   *)
(* peer tables or clocks.  A session polls, then ranges with the anchors   *)
(* that answered, and gets one distance from each of them at both ends.    *)
(* A distance is named by the Poll its exchange began with.                *)
(*                                                                         *)
(* RangingSystem implements this where timeouts outlast the replies they   *)
(* wait for: see Promise there.                                            *)
(***************************************************************************)
EXTENDS Integers, FiniteSets

CONSTANTS Tags, Anchors,
          Polls,          \* what can name a Poll, in the order of their sending
          NoDistance      \* no distance since the peer was added to the table

VARIABLES phase,          \* of each tag: "idle", "polling" or "ranging"
          answered,       \* the anchors that answered its Poll
          reported,       \* those whose distance has come back
          distance        \* the last distance of each node to each other one

vars == <<phase, answered, reported, distance>>

Devices == Tags \cup Anchors

Init ==
    /\ phase = [t \in Tags |-> "idle"]
    /\ answered = [t \in Tags |-> {}]
    /\ reported = [t \in Tags |-> {}]
    /\ distance = [n \in Devices |-> [m \in Devices |-> NoDistance]]

Moves(t, p, as, rs) ==
    /\ phase' = [phase EXCEPT ![t] = p]
    /\ answered' = [answered EXCEPT ![t] = as]
    /\ reported' = [reported EXCEPT ![t] = rs]

Unmeasured == UNCHANGED distance

\* A session begins with nobody's answer.
Begin(t) ==
    /\ phase[t] = "idle"
    /\ Moves(t, "polling", {}, {}) /\ Unmeasured

\* The last of the anchors polled opens the ranging phase, and so does the
\* timeout with those that have answered.
Answer(t, a) ==
    /\ phase[t] = "polling" /\ a \notin answered[t]
    /\ \E p \in {"polling", "ranging"} :
          Moves(t, p, answered[t] \cup {a}, {})
    /\ Unmeasured

StopWaiting(t) ==
    /\ phase[t] = "polling" /\ answered[t] # {}
    /\ Moves(t, "ranging", answered[t], {}) /\ Unmeasured

Later(p, q) == q = NoDistance \/ p > q

\* An anchor measures while the tag is ranging and waits for its report.
AnchorMeasures(a, t) ==
    LET poll == distance'[a][t] IN
    /\ phase[t] = "ranging" /\ a \in answered[t] \ reported[t]
    /\ poll \in Polls /\ Later(poll, distance[a][t])
    /\ distance' = [distance EXCEPT ![a][t] = poll]
    /\ UNCHANGED <<phase, answered, reported>>

\* The tag then measures the same exchange.  The last report ends the session.
TagMeasures(t, a) ==
    LET rs == reported[t] \cup {a} IN
    /\ phase[t] = "ranging" /\ a \in answered[t] \ reported[t]
    /\ distance[a][t] # NoDistance /\ Later(distance[a][t], distance[t][a])
    /\ distance' = [distance EXCEPT ![t][a] = distance[a][t]]
    /\ IF rs = answered[t] THEN Moves(t, "idle", {}, {})
       ELSE Moves(t, "ranging", answered[t], rs)

\* A timeout, a RangingInit or a frame of another phase.
Abandon(t) ==
    /\ phase[t] # "idle"
    /\ Moves(t, "idle", {}, {}) /\ Unmeasured

\* A node drops a peer it has not heard for long, and any session with it.
Forget(n, m) ==
    /\ distance[n][m] # NoDistance
    /\ distance' = [distance EXCEPT ![n][m] = NoDistance]
    /\ IF n \in Tags THEN Moves(n, "idle", {}, {})
       ELSE UNCHANGED <<phase, answered, reported>>

Next ==
    \/ \E t \in Tags : Begin(t) \/ StopWaiting(t) \/ Abandon(t)
    \/ \E t \in Tags, a \in Anchors :
          Answer(t, a) \/ AnchorMeasures(a, t) \/ TagMeasures(t, a)
    \/ \E n, m \in Devices : Forget(n, m)

Spec == Init /\ [][Next]_vars
=============================================================================
