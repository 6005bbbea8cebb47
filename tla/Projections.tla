---------------------------- MODULE Projections -----------------------------
(***************************************************************************)
(* The projection consumers: ProjectionConsumer hands each Kafka record to *)
(* ProjectionUpdater.apply, one database transaction, and acknowledges its *)
(* offset by hand; KafkaConfig retries a failed record and then publishes  *)
(* it to the dead letter topic.                                            *)
(*                                                                         *)
(* The commit of the projection and the commit of the offset are two       *)
(* steps.  A consumer that has lost its partition to another one goes on   *)
(* with the record it holds.                                               *)
(***************************************************************************)
EXTENDS Integers, Sequences

CONSTANTS
    Consumers,       \* members of the group sia-b2b-projections, one thread each
    Events,
    NoEvent,
    Partitions,      \* topic partitions
    PartitionOf,     \* the partition of an event: its topic and entityRef
    Entities,        \* rows of the projection tables: table and source_ref
    EntityOf,        \* the row an event updates; order.* events have none
    Version,         \* entityVersion
    Poison,          \* events whose record can never be parsed or applied
    MAX_TRIES,       \* deliveries of a record before it is dead-lettered
    MaxLog,          \* bound on the records of a partition
    MaxDisruptions   \* bound on crashes, rebalances and failed DLT publications

ASSUME ProjectionConstants ==
    /\ NoEvent \notin Events
    /\ Partitions # {}
    /\ PartitionOf \in [Events -> Partitions]
    /\ Version \in [Events -> Nat]
    /\ DOMAIN EntityOf = Events
    /\ MAX_TRIES \in Nat \ {0}
    /\ MaxLog \in Nat
    /\ MaxDisruptions \in Nat

VARIABLES
    log,           \* the topic partitions
    owner,         \* the consumer a partition is assigned to
    position,      \* records of a partition its owner has passed
    committed,     \* records of a partition whose offset is committed
    stage,         \* what a consumer does
    hand,          \* the record it holds: partition and offset
    tries,         \* failed deliveries of that record
    projection,    \* last_event_id of each projected row, NoEvent if there is none
    dlt,           \* records in the dead letter topics
    disruptions    \* crashes, rebalances and failed DLT publications so far

groupVars == <<owner, position, committed>>
consumerVars == <<stage, hand, tries>>
vars == <<log, groupVars, consumerVars, projection, dlt, disruptions>>

Records == [partition : Partitions, offset : Nat \ {0}]

NoRecord == [partition |-> CHOOSE q \in Partitions : TRUE, offset |-> 1]

TypeOK ==
    /\ log \in [Partitions -> Seq(Events)]
    /\ owner \in [Partitions -> Consumers]
    /\ position \in [Partitions -> Nat]
    /\ committed \in [Partitions -> Nat]
    /\ stage \in [Consumers -> {"idle", "delivered", "applied", "exhausted"}]
    /\ hand \in [Consumers -> Records]
    /\ tries \in [Consumers -> 0..MAX_TRIES]
    /\ projection \in [Entities -> Events \union {NoEvent}]
    /\ dlt \subseteq Records
    /\ disruptions \in 0..MaxDisruptions

Init ==
    /\ log = [q \in Partitions |-> <<>>]
    /\ owner \in [Partitions -> Consumers]
    /\ position = [q \in Partitions |-> 0]
    /\ committed = [q \in Partitions |-> 0]
    /\ stage = [c \in Consumers |-> "idle"]
    /\ hand = [c \in Consumers |-> NoRecord]
    /\ tries = [c \in Consumers |-> 0]
    /\ projection = [k \in Entities |-> NoEvent]
    /\ dlt = {}
    /\ disruptions = 0

-----------------------------------------------------------------------------

(* InboxRelayService appends an event, in any order and any number of times. *)
Publish(e) ==
    /\ Len(log[PartitionOf[e]]) < MaxLog
    /\ log' = [log EXCEPT ![PartitionOf[e]] = Append(@, e)]
    /\ UNCHANGED <<groupVars, consumerVars, projection, dlt, disruptions>>

-----------------------------------------------------------------------------

EventAt(r) == log[r.partition][r.offset]

Owns(c) == owner[hand[c].partition] = c

(* The listener container passes the next record of an assigned partition  *)
(* to the @KafkaListener method.                                           *)
Deliver(c, q) ==
    /\ stage[c] = "idle"
    /\ owner[q] = c
    /\ position[q] < Len(log[q])
    /\ hand' = [hand EXCEPT ![c] = [partition |-> q, offset |-> position[q] + 1]]
    /\ stage' = [stage EXCEPT ![c] = "delivered"]
    /\ tries' = [tries EXCEPT ![c] = 0]
    /\ UNCHANGED <<log, groupVars, projection, dlt, disruptions>>

(* Mutant: no version guard. *)
LastWriteWins(e) ==
    projection' = IF EntityOf[e] \notin Entities THEN projection
                  ELSE [projection EXCEPT ![EntityOf[e]] = e]

(* INSERT ... ON CONFLICT (source_ref) DO UPDATE ... WHERE                 *)
(* source_version < EXCLUDED.source_version                                *)
Upsert(e) ==
    LET k == EntityOf[e]
        stale == projection[k] # NoEvent /\ Version[projection[k]] >= Version[e]
    IN  projection' = IF k \notin Entities \/ stale THEN projection
                      ELSE [projection EXCEPT ![k] = e]

(* objectMapper.readValue and updater.apply, committed. *)
Apply(c) ==
    /\ stage[c] = "delivered"
    /\ EventAt(hand[c]) \notin Poison
    /\ Upsert(EventAt(hand[c]))
    /\ stage' = [stage EXCEPT ![c] = "applied"]
    /\ UNCHANGED <<log, groupVars, hand, tries, dlt, disruptions>>

Pass(c) == position' = [position EXCEPT ![hand[c].partition] = hand[c].offset]

Release(c) ==
    /\ stage' = [stage EXCEPT ![c] = "idle"]
    /\ hand' = [hand EXCEPT ![c] = NoRecord]
    /\ tries' = [tries EXCEPT ![c] = 0]

(* Mutant: the offset is committed before the projection. *)
AcknowledgeEarly(c) ==
    /\ stage[c] \in {"delivered", "applied"}
    /\ Owns(c)
    /\ committed' = [committed EXCEPT ![hand[c].partition] = hand[c].offset]
    /\ Pass(c)
    /\ Release(c)
    /\ UNCHANGED <<log, owner, projection, dlt, disruptions>>

(* acknowledge() commits the offset at once (MANUAL_IMMEDIATE). *)
Acknowledge(c) ==
    /\ stage[c] = "applied"
    /\ Owns(c)
    /\ committed' = [committed EXCEPT ![hand[c].partition] = hand[c].offset]
    /\ Pass(c)
    /\ Release(c)
    /\ UNCHANGED <<log, owner, projection, dlt, disruptions>>

(* Mutant: redelivered without end. *)
FailForever(c) ==
    /\ stage[c] \in {"delivered", "applied"}
    /\ Owns(c)
    /\ tries' = [tries EXCEPT ![c] = IF @ > MAX_TRIES THEN @ ELSE @ + 1]
    /\ stage' = [stage EXCEPT ![c] = "delivered"]
    /\ UNCHANGED <<log, groupVars, hand, projection, dlt, disruptions>>

(* process() throws: the record is unreadable, the transaction rolls back, *)
(* or acknowledge() fails after the commit.  The container seeks back to   *)
(* the record as long as deliveries are left.                              *)
Fail(c) ==
    /\ stage[c] \in {"delivered", "applied"}
    /\ Owns(c)
    /\ tries' = [tries EXCEPT ![c] = @ + 1]
    /\ stage' = [stage EXCEPT
           ![c] = IF tries[c] + 1 < MAX_TRIES THEN "delivered" ELSE "exhausted"]
    /\ UNCHANGED <<log, groupVars, hand, projection, dlt, disruptions>>

(* The partition has gone to another consumer: neither the commit of the   *)
(* offset nor the redelivery of the record happens here.                   *)
LosePartition(c) ==
    /\ stage[c] # "idle"
    /\ ~Owns(c)
    /\ Release(c)
    /\ UNCHANGED <<log, groupVars, projection, dlt, disruptions>>

(* Mutant: the record is skipped with a log line. *)
SkipRecord(c) ==
    /\ stage[c] = "exhausted"
    /\ Owns(c)
    /\ Pass(c)
    /\ Release(c)
    /\ UNCHANGED <<log, owner, committed, projection, dlt, disruptions>>

(* DeadLetterPublishingRecoverer publishes the record and the container    *)
(* goes on after it, with or without a commit of its offset.               *)
DeadLetter(c) ==
    /\ stage[c] = "exhausted"
    /\ Owns(c)
    /\ dlt' = dlt \union {hand[c]}
    /\ Pass(c)
    /\ committed' \in
           {committed, [committed EXCEPT ![hand[c].partition] = hand[c].offset]}
    /\ Release(c)
    /\ UNCHANGED <<log, owner, projection, disruptions>>

Disrupt ==
    /\ disruptions < MaxDisruptions
    /\ disruptions' = disruptions + 1

(* The publication to the dead letter topic fails: the record is delivered *)
(* again, with a new series of tries.                                      *)
DeadLetterFails(c) ==
    /\ stage[c] = "exhausted"
    /\ Disrupt
    /\ stage' = [stage EXCEPT ![c] = "delivered"]
    /\ tries' = [tries EXCEPT ![c] = 0]
    /\ UNCHANGED <<log, groupVars, hand, projection, dlt>>

(* The group gives a partition to a member that is polling; it starts from *)
(* the committed offset.                                                   *)
Rebalance(c, q) ==
    /\ stage[c] = "idle"
    /\ owner[q] # c
    /\ Disrupt
    /\ owner' = [owner EXCEPT ![q] = c]
    /\ position' = [position EXCEPT ![q] = committed[q]]
    /\ UNCHANGED <<log, committed, consumerVars, projection, dlt>>

(* The consumer dies and restarts from the committed offsets. *)
Crash(c) ==
    /\ Disrupt
    /\ Release(c)
    /\ position' = [q \in Partitions |->
           IF owner[q] = c THEN committed[q] ELSE position[q]]
    /\ UNCHANGED <<log, owner, committed, projection, dlt>>

-----------------------------------------------------------------------------

Process(c) ==
    \/ \E q \in Partitions : Deliver(c, q)
    \/ Apply(c)
    \/ Acknowledge(c)
    \/ Fail(c)
    \/ LosePartition(c)
    \/ DeadLetter(c)

Disruption(c) ==
    \/ DeadLetterFails(c)
    \/ \E q \in Partitions : Rebalance(c, q)
    \/ Crash(c)

Consume == \E c \in Consumers : Process(c) \/ Disruption(c)

Next == Consume \/ \E e \in Events : Publish(e)

Spec == Init /\ [][Next]_vars

(* The consumer threads run, and a dead letter publication that does not   *)
(* fail ends.  An update may fail every time, a rebalance is never owed.   *)
Fairness == \A c \in Consumers : WF_vars(Process(c))

FairSpec == Spec /\ Fairness

-----------------------------------------------------------------------------

(* The row of e, if it has one, holds e or something as new. *)
Reflected(e) ==
    LET k == EntityOf[e] IN
    k \in Entities =>
        /\ projection[k] # NoEvent
        /\ Version[projection[k]] >= Version[e]

Handled(q, n) ==
    \/ Reflected(log[q][n])
    \/ [partition |-> q, offset |-> n] \in dlt

(* No record is lost: one whose offset is committed, or that its owner has *)
(* passed, is reflected in its projection or in the dead letter topic,     *)
(* whatever crashed, was rebalanced or failed between the commit of the    *)
(* projection and the commit of the offset.                                *)
PassedIsHandled ==
    \A q \in Partitions :
        \A n \in 1..Len(log[q]) :
            n <= committed[q] \/ n <= position[q] => Handled(q, n)

Published(e) == \E n \in DOMAIN log[PartitionOf[e]] : log[PartitionOf[e]][n] = e

(* Once the consumers have passed everything and nothing was dead-lettered,*)
(* each row holds a newest event of its entity, in whatever order and      *)
(* however often the events were published.                                *)
ConvergesToNewest ==
    dlt = {} /\ (\A q \in Partitions : position[q] = Len(log[q])) =>
        \A e \in Events : Published(e) /\ EntityOf[e] \in Entities =>
            /\ Published(projection[EntityOf[e]])
            /\ EntityOf[projection[EntityOf[e]]] = EntityOf[e]
            /\ Version[projection[EntityOf[e]]] >= Version[e]

(* A record never blocks its partition: it is passed, however often it is  *)
(* retried and whoever owns the partition.                                 *)
PartitionAdvances ==
    \A q \in Partitions, n \in 1..MaxLog :
        Len(log[q]) >= n ~> position[q] >= n

(* A record that cannot be applied ends in the dead letter topic. *)
PoisonIsDeadLettered ==
    \A q \in Partitions, n \in 1..MaxLog :
        Len(log[q]) >= n /\ log[q][n] \in Poison
            ~> [partition |-> q, offset |-> n] \in dlt

(* The projection tables implement the abstract replica. *)
Replica == INSTANCE VersionedReplica WITH replica <- projection
ReplicaSpec == Replica!Spec
=============================================================================
