---------------------------- MODULE SyncService ----------------------------
(***************************************************************************)
(* The synchronisation service from a posted envelope to a projected row:  *)
(* the request threads of EventInbox before the relay and the consumers of *)
(* SyncPipeline.  The endpoint and the relay share event_inbox: the        *)
(* transaction that accepts an event inserts its row RECEIVED, and from    *)
(* then on only the relay and the operators write its state.  Envelopes    *)
(* with one eventId carry one event.                                       *)
(***************************************************************************)
EXTENDS SyncPipeline

CONSTANTS Threads, Sources, Envelopes, NullElement, EventId, SequenceOf, Valid,
          MAX_BATCH_SIZE, DbErrors

ASSUME ServiceConstants ==
    /\ Sources # {}
    /\ NullElement \notin Envelopes
    /\ EventId \in [Envelopes -> Events]
    /\ SequenceOf \in [Envelopes -> Nat \union {-1}]
    /\ Valid \subseteq Envelopes
    /\ MAX_BATCH_SIZE \in Nat
    /\ DbErrors \in BOOLEAN

VARIABLES inbox, lastSequence, serving, request, gaps, answers

Endpoint == INSTANCE EventInbox WITH EventIds <- Events, stage <- serving

endpointSide == <<inbox, lastSequence, serving, request, gaps, answers>>

serviceVars == <<pipelineVars, endpointSide>>

ServiceInit == PipelineInit /\ Endpoint!Init

(* A step of the endpoint.  The row it commits, if any, is one the relay   *)
(* finds RECEIVED.                                                         *)
Ingesting ==
    /\ Endpoint!Next
    /\ IF inbox' = inbox THEN UNCHANGED <<log, relaySide>>
       ELSE Relay!Accept(EventId[inbox'[Len(inbox')].event])
    /\ UNCHANGED consumerSide

(* Relay, broker and operators, on the rows there are. *)
Forwarding ==
    /\ \/ \E i \in Instances : Relay!Cycle(i) \/ Relay!Broker(i) \/ Relay!Disturbance(i)
       \/ \E S \in SUBSET Events : Relay!Replay(S)
    /\ UNCHANGED <<consumerSide, endpointSide>>

Projecting == Consuming /\ UNCHANGED endpointSide

ServiceNext == Ingesting \/ Forwarding \/ Projecting

ServiceSpec == ServiceInit /\ [][ServiceNext]_serviceVars

-----------------------------------------------------------------------------

(* "0 perte d'événement acquitté": an event its source was answered        *)
(* ACCEPTED or DUPLICATE for, and may therefore forget, is still to be     *)
(* sent, or DEAD for an operator to replay, or SENT; and then, when its    *)
(* consumers have caught up, it is in its projection, or a newer version   *)
(* is, or it is in a dead letter topic.                                    *)
AcknowledgedArrives ==
    \A e \in Endpoint!Acknowledged :
        \/ state[e] \in {"RECEIVED", "LEASED", "DEAD"}
        \/ /\ state[e] = "SENT"
           /\ CaughtUp(PartitionOf[e]) => Reflected(e) \/ DeadLettered(e)

Accepted(e) ==
    \E i \in DOMAIN inbox : EventId[inbox[i].event] = e /\ inbox[i].event \in Valid

(* Nothing is in a topic or in a projected row that was not posted,        *)
(* validated and stored: no replay, late send or retry brings up an event  *)
(* whose request was refused or whose transaction rolled back.             *)
ProjectedWasAccepted ==
    /\ \A q \in Partitions : \A n \in DOMAIN log[q] : Accepted(log[q][n])
    /\ \A k \in Entities : projection[k] # NoEvent => Accepted(projection[k])
=============================================================================
