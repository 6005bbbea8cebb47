--------------------------- MODULE MCSyncService ---------------------------
(* An instance of SyncService for TLC: an event, and an invalid envelope   *)
(* that bears its eventId.                                                 *)
EXTENDS SyncService

CONSTANTS e1, bad, q1, k1, i1, c1, t1, s1

MCEventId == [v \in Envelopes |-> e1]

MCSequenceOf == [v \in Envelopes |-> IF v = bad THEN -1 ELSE 1]

MCPartitionOf == [e \in Events |-> q1]

MCTime == [e \in Events |-> 1]

MCEntityOf == [e \in Events |-> k1]
=============================================================================
