---------------------------- MODULE EventJournal ----------------------------
(***************************************************************************)
(* What the ingestion endpoint promises to a source, whatever the          *)
(* interleaving of its requests, the crashes of the application and the    *)
(* errors of the database: an event enters the journal at most once, never *)
(* leaves it, and is acknowledged only after it has entered it.            *)
(***************************************************************************)
CONSTANT EventIds

VARIABLES journal,       \* the events that are durable
          acknowledged   \* the events a source has been told are durable

vars == <<journal, acknowledged>>

Init ==
    /\ journal = {}
    /\ acknowledged = {}

Store(id) ==
    /\ id \notin journal
    /\ journal' = journal \union {id}
    /\ UNCHANGED acknowledged

Acknowledge(ids) ==
    /\ ids \subseteq journal
    /\ acknowledged' = acknowledged \union ids
    /\ UNCHANGED journal

Next ==
    \/ \E id \in EventIds : Store(id)
    \/ \E ids \in SUBSET EventIds : Acknowledge(ids)

Spec == Init /\ [][Next]_vars
=============================================================================
