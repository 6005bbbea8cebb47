--------------------------- MODULE MCProjections ----------------------------
(* Instances of Projections for TLC: old and new are two versions of one   *)
(* entity, other is another entity whose records cannot be applied.        *)
EXTENDS Projections

CONSTANTS old, new, other, q1, q2, k1, k2, none, c1, c2

MCPartitionOf == [e \in Events |-> IF e \in {old, new} THEN q1 ELSE q2]

MCEntityOf == [e \in Events |-> IF e = other THEN k2 ELSE k1]

MCVersion == [e \in Events |-> IF e = new THEN 2 ELSE 1]
=============================================================================
