---------------------------- MODULE MCInboxRelay ----------------------------
(* Instances of InboxRelay for TLC.  The events arrive in any order; a was *)
(* received first but occurred last.                                       *)
EXTENDS InboxRelay, TLC

CONSTANTS a, b, c, p, i1, i2

MCPartitionOf == [e \in Events |-> p]

MCReceivedAt == [e \in Events |-> CASE e = a -> 1 [] e = b -> 2 [] OTHER -> 3]

MCOccurredAt == [e \in Events |-> CASE e = a -> 3 [] e = b -> 1 [] OTHER -> 2]

InstanceSymmetry == Permutations(Instances)
=============================================================================
