---------------------------- MODULE MCEventInbox ----------------------------
(* Instances of EventInbox for TLC.  e1, e2 and e3 carry consecutive       *)
(* sequences, bad is refused by the validator.                             *)
EXTENDS EventInbox, TLC

CONSTANTS e1, e2, e3, bad, s1, s2, t1, t2

MCEventIds == Envelopes

MCEventId == [e \in Envelopes |-> e]

MCSequenceOf == [e \in Envelopes |->
    CASE e = e1 -> 1 [] e = e2 -> 2 [] e = e3 -> 3 [] OTHER -> NoSequence]

MCValid == Envelopes \ {bad}

ThreadSymmetry == Permutations(Threads)
=============================================================================
