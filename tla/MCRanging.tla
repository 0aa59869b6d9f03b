----------------------------- MODULE MCRanging -----------------------------
(* Instances of RangingSystem for TLC. *)
EXTENDS RangingSystem, TLC

CONSTANTS t1, t2, a1, a2

OneTag    == {t1}
TwoTags   == {t1, t2}
OneAnchor == {a1}
TwoAnchors == {a1, a2}
Pair      == {t1, a1}
Fan       == {t1, a1, a2}
Rivals    == {t1, t2, a1}

FullTable == [n \in Nodes |-> Cardinality(Nodes)]

\* A tag starts rounds and a coordinator syncs below these sequence numbers.
Ticks4 == [n \in Nodes |-> IF n \in Tags THEN 4 ELSE 2]
Ticks6 == [n \in Nodes |-> IF n \in Tags THEN 6 ELSE 3]
Ticks3 == [n \in Nodes |-> IF n \in Tags THEN 3 ELSE 2]
Ticks2 == [n \in Nodes |-> IF n \in Tags THEN 2 ELSE 1]

TagSymmetry    == Permutations(Tags)
AnchorSymmetry == Permutations(Anchors)
=============================================================================
