---------------------------- MODULE SyncPipeline ----------------------------
(***************************************************************************)
(* The synchronisation flow end to end: the consumers of Projections on    *)
(* one side, the relay and the operators of InboxRelay on the other.  They *)
(* share the topics and nothing else: the relay appends to log, the        *)
(* consumers read it, and no consumer ever writes event_inbox.             *)
(***************************************************************************)
EXTENDS Projections

CONSTANTS Instances, ReceivedAt, OccurredAt, BATCH_SIZE, MAX_ATTEMPTS,
          LeaseTx, ProcessTx, MaxFaults, MaxReplays

ASSUME PipelineConstants ==
    /\ ReceivedAt \in [Events -> Nat]
    /\ OccurredAt \in [Events -> Nat]
    /\ BATCH_SIZE \in Nat \ {0}
    /\ MAX_ATTEMPTS \in Nat \ {0}
    /\ LeaseTx \in BOOLEAN
    /\ ProcessTx \in BOOLEAN
    /\ MaxFaults \in Nat
    /\ MaxReplays \in Nat

VARIABLES state, attempts, pc, batch, current, inflight, failures, faults, replays

Relay == INSTANCE InboxRelay

relaySide == <<state, attempts, pc, batch, current, inflight, failures,
               faults, replays>>

consumerSide == <<groupVars, consumerVars, projection, dlt, disruptions>>

pipelineVars == <<vars, relaySide>>

PipelineInit == Init /\ Relay!Init

Relaying == Relay!Next /\ UNCHANGED consumerSide

Consuming == Consume /\ UNCHANGED relaySide

PipelineNext == Relaying \/ Consuming

PipelineSpec == PipelineInit /\ [][PipelineNext]_pipelineVars

-----------------------------------------------------------------------------

(* A record of the event is in a dead letter topic. *)
DeadLettered(e) ==
    \E r \in dlt : r.partition = PartitionOf[e] /\ EventAt(r) = e

CaughtUp(q) == position[q] = Len(log[q])

(* "0 perte d'événement acquitté", relay and consumers together: when the  *)
(* consumers have caught up, an event marked SENT in event_inbox is        *)
(* reflected in its projection or sits in a dead letter topic, whatever    *)
(* was lost, retried, duplicated, replayed or restarted in between.        *)
NoSilentLoss ==
    \A e \in Relay!Rows("SENT") : CaughtUp(PartitionOf[e]) =>
        Reflected(e) \/ DeadLettered(e)
=============================================================================
