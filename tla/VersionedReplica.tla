-------------------------- MODULE VersionedReplica --------------------------
(***************************************************************************)
(* What the projection tables promise: each entity only ever moves to an   *)
(* event of its own with a newer version, one event at a time, in whatever *)
(* order and however often the events are delivered.                       *)
(***************************************************************************)
EXTENDS Integers

CONSTANTS Events, NoEvent, Entities, EntityOf, Version

VARIABLE replica   \* the last event applied to each entity, NoEvent before the first

VersionAt(k) == IF replica[k] = NoEvent THEN -1 ELSE Version[replica[k]]

Init == replica = [k \in Entities |-> NoEvent]

Advance(e) ==
    /\ EntityOf[e] \in Entities
    /\ Version[e] > VersionAt(EntityOf[e])
    /\ replica' = [replica EXCEPT ![EntityOf[e]] = e]

Next == \E e \in Events : Advance(e)

Spec == Init /\ [][Next]_replica
=============================================================================
