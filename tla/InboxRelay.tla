----------------------------- MODULE InboxRelay -----------------------------
(***************************************************************************)
(* The relay from event_inbox to Kafka (InboxRelayService), the manual     *)
(* replay of SyncHealthService.replayEvents, and the Kafka producer the    *)
(* relay sends through.                                                    *)
(*                                                                         *)
(* Each relay instance runs one cycle at a time: lease the oldest RECEIVED *)
(* rows, read every LEASED row of the table (findLeased), then publish     *)
(* them one by one and save the entity it read, all its columns, with the  *)
(* outcome.  A send that timed out after KAFKA_TIMEOUT_SECONDS stays with  *)
(* the producer and may still reach the broker.                            *)
(***************************************************************************)
EXTENDS Integers, SequencesExt

CONSTANTS
    Instances,     \* application instances, one relay scheduler each
    Events,        \* events that ingestion accepts
    NoEvent,       \* no event is being published
    Partitions,    \* topic partitions
    PartitionOf,   \* the partition of an event: its topic and entityRef
    ReceivedAt,    \* received_at, the order of leaseBatch
    OccurredAt,    \* occurred_at, the order of findLeased
    BATCH_SIZE,    \* rows leased by one cycle
    MAX_ATTEMPTS,  \* failed attempts that make a row DEAD
    LeaseTx,       \* TRUE iff @Transactional acts on this.leaseBatch()
    ProcessTx,     \* TRUE iff @Transactional acts on this.processOne(event)
    MaxFaults,     \* bound on crashes and failed database calls
    MaxReplays     \* bound on manual replays

ASSUME RelayConstants ==
    /\ NoEvent \notin Events
    /\ PartitionOf \in [Events -> Partitions]
    /\ ReceivedAt \in [Events -> Nat]
    /\ OccurredAt \in [Events -> Nat]
    /\ BATCH_SIZE \in Nat \ {0}
    /\ MAX_ATTEMPTS \in Nat \ {0}
    /\ LeaseTx \in BOOLEAN
    /\ ProcessTx \in BOOLEAN
    /\ MaxFaults \in Nat
    /\ MaxReplays \in Nat

VARIABLES
    state,      \* event_inbox.state of each event, "ABSENT" before it is accepted
    attempts,   \* event_inbox.attempts
    pc,         \* where each relay instance is in its cycle
    batch,      \* the entities it still has to process: event -> attempts as read
    current,    \* the one of them it is publishing, or NoEvent
    inflight,   \* sends of its producer the broker has not resolved, oldest first
    log,        \* the topic partitions
    failures,   \* failed publications of each event
    faults,     \* crashes and failed database calls so far
    replays     \* manual replays so far

rowVars == <<state, attempts>>
cycleVars == <<pc, batch, current>>
kafkaVars == <<inflight, log>>
boundVars == <<faults, replays>>
vars == <<rowVars, cycleVars, kafkaVars, failures, boundVars>>

InboxState == {"RECEIVED", "LEASED", "SENT", "DEAD"}

Rows(s) == {e \in Events : state[e] = s}

NoEntity == [e \in {} |-> 0]

TypeOK ==
    /\ state \in [Events -> InboxState \union {"ABSENT"}]
    /\ attempts \in [Events -> Nat]
    /\ pc \in [Instances ->
           {"idle", "leased", "loop", "sending", "acked", "failed"}]
    /\ DOMAIN batch = Instances
    /\ \A i \in Instances :
           /\ DOMAIN batch[i] \subseteq Events
           /\ batch[i] \in [DOMAIN batch[i] -> Nat]
    /\ current \in [Instances -> Events \union {NoEvent}]
    /\ inflight \in [Instances -> Seq(Events)]
    /\ log \in [Partitions -> Seq(Events)]
    /\ failures \in [Events -> Nat]
    /\ faults \in 0..MaxFaults
    /\ replays \in 0..MaxReplays

Init ==
    /\ state = [e \in Events |-> "ABSENT"]
    /\ attempts = [e \in Events |-> 0]
    /\ pc = [i \in Instances |-> "idle"]
    /\ batch = [i \in Instances |-> NoEntity]
    /\ current = [i \in Instances |-> NoEvent]
    /\ inflight = [i \in Instances |-> <<>>]
    /\ log = [p \in Partitions |-> <<>>]
    /\ failures = [e \in Events |-> 0]
    /\ faults = 0
    /\ replays = 0

-----------------------------------------------------------------------------

(* EventIngestionService.ingest commits the row of an accepted event. *)
Accept(e) ==
    /\ state[e] = "ABSENT"
    /\ state' = [state EXCEPT ![e] = "RECEIVED"]
    /\ UNCHANGED <<attempts, cycleVars, kafkaVars, failures, boundVars>>

-----------------------------------------------------------------------------
(* One cycle of relay(). *)

(* The rows the sub-select of leaseBatch may return: the BATCH_SIZE oldest *)
(* RECEIVED ones, all of them when there are fewer.                        *)
Oldest(S) ==
    LET received == Rows("RECEIVED") IN
    /\ Cardinality(S) <= BATCH_SIZE
    /\ S # received => Cardinality(S) = BATCH_SIZE
    /\ \A e \in S, f \in received \ S : ReceivedAt[e] <= ReceivedAt[f]

(* relay() calls leaseBatch() on itself.  When that call opens no          *)
(* transaction the @Modifying query is refused, every cycle ends there and *)
(* nothing changes; so does a cycle that leases no row.                    *)
LeaseBatch(i) ==
    /\ LeaseTx
    /\ pc[i] = "idle"
    /\ \E S \in SUBSET Rows("RECEIVED") :
           /\ S # {}
           /\ Oldest(S)
           /\ state' = [e \in Events |-> IF e \in S THEN "LEASED" ELSE state[e]]
    /\ pc' = [pc EXCEPT ![i] = "leased"]
    /\ UNCHANGED <<attempts, batch, current, kafkaVars, failures, boundVars>>

(* Mutants: findLeased limited to a batch; without its state filter. *)
FindLeasedLimited(i) ==
    /\ pc[i] = "leased"
    /\ \E S \in SUBSET Rows("LEASED") :
           /\ S = Rows("LEASED") \/ Cardinality(S) = BATCH_SIZE
           /\ Cardinality(S) <= BATCH_SIZE
           /\ \A e \in S, f \in Rows("LEASED") \ S : OccurredAt[e] <= OccurredAt[f]
           /\ batch' = [batch EXCEPT ![i] = [e \in S |-> attempts[e]]]
    /\ pc' = [pc EXCEPT ![i] = "loop"]
    /\ UNCHANGED <<rowVars, current, kafkaVars, failures, boundVars>>

FindUnfiltered(i) ==
    /\ pc[i] = "leased"
    /\ batch' = [batch EXCEPT ![i] =
           [e \in Rows("LEASED") \union Rows("SENT") |-> attempts[e]]]
    /\ pc' = [pc EXCEPT ![i] = "loop"]
    /\ UNCHANGED <<rowVars, current, kafkaVars, failures, boundVars>>

(* Every LEASED row of the table, whoever leased it. *)
FindLeased(i) ==
    /\ pc[i] = "leased"
    /\ batch' = [batch EXCEPT ![i] = [e \in Rows("LEASED") |-> attempts[e]]]
    /\ pc' = [pc EXCEPT ![i] = "loop"]
    /\ UNCHANGED <<rowVars, current, kafkaVars, failures, boundVars>>

(* processOne, up to the wait for the broker: the next entity in the order *)
(* of occurred_at is handed to the producer.                               *)
Send(i) ==
    /\ pc[i] = "loop"
    /\ \E e \in DOMAIN batch[i] :
           /\ \A f \in DOMAIN batch[i] : OccurredAt[e] <= OccurredAt[f]
           /\ current' = [current EXCEPT ![i] = e]
           /\ inflight' = [inflight EXCEPT ![i] = Append(@, e)]
    /\ pc' = [pc EXCEPT ![i] = "sending"]
    /\ UNCHANGED <<rowVars, batch, log, failures, boundVars>>

EndCycle(i) ==
    /\ pc[i] = "loop"
    /\ DOMAIN batch[i] = {}
    /\ pc' = [pc EXCEPT ![i] = "idle"]
    /\ UNCHANGED <<rowVars, batch, current, kafkaVars, failures, boundVars>>

(* inboxRepository.save of the detached entity: the merge overwrites the   *)
(* row with what the entity holds, whatever the row has become.            *)
SaveEntity(i, newState, newAttempts) ==
    /\ state' = [state EXCEPT ![current[i]] = newState]
    /\ attempts' = [attempts EXCEPT ![current[i]] = newAttempts]
    /\ batch' = [batch EXCEPT
           ![i] = [e \in DOMAIN batch[i] \ {current[i]} |-> batch[i][e]]]
    /\ current' = [current EXCEPT ![i] = NoEvent]
    /\ pc' = [pc EXCEPT ![i] = "loop"]

Read(i) == batch[i][current[i]]

(* Mutant: the outcome is not written. *)
MarkSentForgotten(i) ==
    /\ pc[i] = "acked"
    /\ SaveEntity(i, "LEASED", Read(i))
    /\ UNCHANGED <<kafkaVars, failures, boundVars>>

(* The broker acknowledged within the timeout. *)
MarkSent(i) ==
    /\ pc[i] = "acked"
    /\ SaveEntity(i, "SENT", Read(i))
    /\ UNCHANGED <<kafkaVars, failures, boundVars>>

(* Mutant: attempts compared with one too few. *)
IsLastEarly(i) == Read(i) + 2 >= MAX_ATTEMPTS

IsLast(i) == Read(i) + 1 >= MAX_ATTEMPTS

(* Mutant: the attempts left are counted down. *)
RetryCountsDown(i) ==
    /\ ProcessTx
    /\ pc[i] = "failed"
    /\ ~IsLast(i)
    /\ SaveEntity(i, "LEASED", Read(i) - 1)
    /\ UNCHANGED <<kafkaVars, failures, boundVars>>

(* Failed, with attempts left, in a transaction of processOne.             *)
(* resetToReceived sets the row to RECEIVED, then save writes the entity,  *)
(* whose state is the LEASED it was read with, over it.                    *)
Retry(i) ==
    /\ ProcessTx
    /\ pc[i] = "failed"
    /\ ~IsLast(i)
    /\ SaveEntity(i, "LEASED", Read(i) + 1)
    /\ UNCHANGED <<kafkaVars, failures, boundVars>>

(* relay() leaves the rest of its batch until the next cycle. *)
LeaveCycle(i) ==
    /\ pc' = [pc EXCEPT ![i] = "idle"]
    /\ batch' = [batch EXCEPT ![i] = NoEntity]
    /\ current' = [current EXCEPT ![i] = NoEvent]

(* Failed, with attempts left, but relay() called processOne on itself and *)
(* no transaction is open: resetToReceived is refused, its exception       *)
(* leaves the catch and relay(), and the attempt is never saved.           *)
RetryRefused(i) ==
    /\ ~ProcessTx
    /\ pc[i] = "failed"
    /\ ~IsLast(i)
    /\ LeaveCycle(i)
    /\ UNCHANGED <<rowVars, kafkaVars, failures, boundVars>>

(* Failed for the last time. *)
MarkDead(i) ==
    /\ pc[i] = "failed"
    /\ IsLast(i)
    /\ SaveEntity(i, "DEAD", Read(i) + 1)
    /\ UNCHANGED <<kafkaVars, failures, boundVars>>

-----------------------------------------------------------------------------
(* The producer and the broker. *)

(* The sends of one producer to one partition keep their order. *)
Resolvable(i, k) ==
    \A j \in 1..(k - 1) :
        PartitionOf[inflight[i][j]] # PartitionOf[inflight[i][k]]

(* The send at k is the one processOne waits for. *)
Awaited(i, k) == pc[i] = "sending" /\ k = Len(inflight[i])

Fail(e) == failures' = [failures EXCEPT ![e] = @ + 1]

(* The partition leader appends the record, and the acknowledgement        *)
(* reaches the sender in time if it is still waiting.                      *)
BrokerAppend(i, k) ==
    LET e == inflight[i][k] IN
    /\ Resolvable(i, k)
    /\ log' = [log EXCEPT ![PartitionOf[e]] = Append(@, e)]
    /\ inflight' = [inflight EXCEPT ![i] = RemoveAt(@, k)]
    /\ pc' = IF Awaited(i, k) THEN [pc EXCEPT ![i] = "acked"] ELSE pc
    /\ UNCHANGED <<rowVars, batch, current, failures, boundVars>>

(* The producer gives the send up: broker unreachable, retries exhausted. *)
BrokerDrop(i, k) ==
    /\ Resolvable(i, k)
    /\ inflight' = [inflight EXCEPT ![i] = RemoveAt(@, k)]
    /\ IF Awaited(i, k)
       THEN Fail(current[i]) /\ pc' = [pc EXCEPT ![i] = "failed"]
       ELSE UNCHANGED <<failures, pc>>
    /\ UNCHANGED <<rowVars, batch, current, log, boundVars>>

(* Mutants: a timeout taken for a success; no timeout. *)
SendTimeoutIgnored(i) ==
    /\ pc[i] = "sending"
    /\ pc' = [pc EXCEPT ![i] = "acked"]
    /\ UNCHANGED <<rowVars, batch, current, kafkaVars, failures, boundVars>>

SendNeverTimesOut(i) == FALSE /\ pc[i] = "sending" /\ UNCHANGED vars

(* get() gives up after KAFKA_TIMEOUT_SECONDS: the record may be on its    *)
(* way still, or appended with its acknowledgement on the way back.        *)
SendTimeout(i) ==
    /\ pc[i] \in {"sending", "acked"}
    /\ Fail(current[i])
    /\ pc' = [pc EXCEPT ![i] = "failed"]
    /\ UNCHANGED <<rowVars, batch, current, kafkaVars, boundVars>>

-----------------------------------------------------------------------------
(* Faults and operators. *)

Fault == faults < MaxFaults /\ faults' = faults + 1

(* A database call of the cycle throws out of relay(): its transaction     *)
(* rolls back, the rest of the batch is abandoned until the next cycle.    *)
DbFault(i) ==
    /\ \/ pc[i] \in {"leased", "failed"}
       \/ pc[i] = "acked" /\ ProcessTx
    /\ Fault
    /\ LeaveCycle(i)
    /\ UNCHANGED <<rowVars, kafkaVars, failures, replays>>

(* Outside a transaction the exception of a save that follows the          *)
(* acknowledgement is caught, and counts as a failed publication.          *)
SaveFails(i) ==
    /\ ~ProcessTx
    /\ pc[i] = "acked"
    /\ Fault
    /\ Fail(current[i])
    /\ pc' = [pc EXCEPT ![i] = "failed"]
    /\ UNCHANGED <<rowVars, batch, current, kafkaVars, replays>>

(* The instance dies with its producer and starts again. *)
Crash(i) ==
    /\ Fault
    /\ LeaveCycle(i)
    /\ inflight' = [inflight EXCEPT ![i] = <<>>]
    /\ UNCHANGED <<rowVars, log, failures, replays>>

(* SyncHealthService.replayEvents: the rows an operator names go back to   *)
(* RECEIVED whatever their state, with their attempts.                     *)
Replay(S) ==
    /\ replays < MaxReplays
    /\ S # {}
    /\ state' = [e \in Events |->
           IF e \in S /\ state[e] # "ABSENT" THEN "RECEIVED" ELSE state[e]]
    /\ replays' = replays + 1
    /\ UNCHANGED <<attempts, cycleVars, kafkaVars, failures, faults>>

-----------------------------------------------------------------------------

Cycle(i) ==
    \/ LeaseBatch(i)
    \/ FindLeased(i)
    \/ Send(i)
    \/ EndCycle(i)
    \/ MarkSent(i)
    \/ Retry(i)
    \/ RetryRefused(i)
    \/ MarkDead(i)
    \/ SendTimeout(i)

Broker(i) ==
    \E k \in DOMAIN inflight[i] : BrokerAppend(i, k) \/ BrokerDrop(i, k)

Disturbance(i) == DbFault(i) \/ SaveFails(i) \/ Crash(i)

Next ==
    \/ \E e \in Events : Accept(e)
    \/ \E i \in Instances : Cycle(i) \/ Broker(i) \/ Disturbance(i)
    \/ \E S \in SUBSET Events : Replay(S)

Spec == Init /\ [][Next]_vars

(* The scheduler starts a cycle 500 ms after the last one ended, the relay *)
(* thread runs, and get() returns after its timeout.  Nothing is promised  *)
(* of the broker, of the sources or of the operators.                      *)
Fairness == \A i \in Instances : WF_vars(Cycle(i))

FairSpec == Spec /\ Fairness

-----------------------------------------------------------------------------

InLog(e) == \E k \in DOMAIN log[PartitionOf[e]] : log[PartitionOf[e]][k] = e

(* No event is SENT in event_inbox without being in its topic: SENT is     *)
(* written over any state of the row, from an entity read before, by any   *)
(* of the instances.                                                       *)
SentIsPublished == \A e \in Rows("SENT") : InLog(e)

(* No event is given up before MAX_ATTEMPTS of its publications failed,    *)
(* although attempts is read at the start of the cycle and written back at *)
(* its end, crashes lose the increment and replays do not reset it.        *)
DeadIsEarned == \A e \in Rows("DEAD") : failures[e] >= MAX_ATTEMPTS

(* With one instance, a published row is only ever reopened by a replay:   *)
(* no late save, crash or lease brings it back.                            *)
SentIsFinal ==
    [][\A e \in Rows("SENT") : state'[e] = "SENT" \/ replays' > replays]_vars

Copies(e) == Cardinality({k \in DOMAIN log[PartitionOf[e]] :
                              log[PartitionOf[e]][k] = e})

(* With one instance, an event is in its topic more than once only because *)
(* a publication failed and was retried, a cycle was cut short or an       *)
(* operator replayed it.                                                   *)
DuplicatesAreExplained ==
    \A e \in Events : Copies(e) <= 1 + failures[e] + faults + replays

(* A RECEIVED row no cycle under way has read. *)
Waiting(e) ==
    /\ state[e] = "RECEIVED"
    /\ \A i \in Instances : e \notin DOMAIN batch[i]

(* The publication of e, or of an event that occurred before it, failed. *)
FailsUpTo(e) ==
    \E i \in Instances :
        pc[i] = "failed" /\ OccurredAt[current[i]] <= OccurredAt[e]

(* With one instance, a row that waits when the last fault is over is      *)
(* published unless its publication, or that of a row before it, fails: a  *)
(* full batch, a stuck send, a late answer, rows that a crash left LEASED  *)
(* or the failure of a row that follows it never keep it waiting.          *)
(* processOne runs without its transaction, as the code calls it: a        *)
(* failure before the row cuts the cycle short.                            *)
WaitingIsReached ==
    \A e \in Events :
        Waiting(e) /\ faults = MaxFaults ~> state[e] = "SENT" \/ FailsUpTo(e)

(* Every cycle ends, whatever the broker does. *)
CycleEnds == \A i \in Instances : pc[i] # "idle" ~> pc[i] = "idle"

-----------------------------------------------------------------------------
(* "Le relais lit les événements non publiés et les émet": an accepted     *)
(* event reaches the topic or the DEAD list.  The code as built does not   *)
(* do so.                                                                  *)
AcceptedIsSettled ==
    \A e \in Events : state[e] = "RECEIVED" ~> state[e] \in {"SENT", "DEAD"}

(* A waiting row is published or its own publication fails.  With          *)
(* processOne as the code calls it, it is not: a row before it that fails  *)
(* in every cycle starves it.                                              *)
WaitingIsTried ==
    \A e \in Events, n \in 0..MAX_ATTEMPTS :
        Waiting(e) /\ failures[e] = n ~> state[e] = "SENT" \/ failures[e] > n

(* "Après 5 échecs, marque DEAD pour traitement manuel".  With processOne  *)
(* as the code calls it, no failure is ever counted in the row.            *)
FailedEnoughIsDead ==
    \A e \in Events :
        failures[e] >= MAX_ATTEMPTS ~> state[e] \in {"SENT", "DEAD"}
=============================================================================
