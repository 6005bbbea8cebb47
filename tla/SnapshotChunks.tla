--------------------------- MODULE SnapshotChunks ---------------------------
(***************************************************************************)
(* Reception of one stock snapshot in chunks: ProjectionUpdater.           *)
(* applyStockSnapshot and SnapshotChunkAccumulator.                        *)
(*                                                                         *)
(* The chunks and their counter are Redis keys, written one command at a   *)
(* time by every application instance; the SNAPSHOT_COMPLETE row is        *)
(* written in the database transaction of the record that completes the    *)
(* snapshot, which commits after the Redis keys have been deleted.         *)
(***************************************************************************)
EXTENDS Integers, Sequences

CONSTANTS
    Consumers,    \* application instances, each with partitions of the stock topic
    TOTAL,        \* totalChunks of the snapshot
    MAX_TRIES,    \* deliveries of a record before it is dead-lettered
    MaxLog,       \* bound on the records each consumer is given
    MaxFaults,    \* bound on crashes and failed Redis, commit or offset calls
    MaxExpiries   \* bound on Redis keys that reach CHUNK_TTL

ASSUME SnapshotConstants ==
    /\ TOTAL \in Nat \ {0}
    /\ MAX_TRIES \in Nat \ {0}
    /\ MaxLog \in Nat
    /\ MaxFaults \in Nat
    /\ MaxExpiries \in Nat

Chunks == 0..(TOTAL - 1)

VARIABLES
    log,       \* the chunk records of the partitions of each consumer
    position,  \* how many of them it has passed
    stage,     \* what it does with the next one
    next,      \* its loop index over the chunks
    tries,     \* failed deliveries of that record
    chunks,    \* the snapshot:<id>:chunk:<i> keys present in Redis
    count,     \* the snapshot:<id>:count key, 0 when there is none
    complete,  \* the committed SNAPSHOT_COMPLETE row of stock_projection
    faults,    \* crashes and failed calls so far
    undone,    \* completions rolled back after their keys were deleted
    expiries   \* keys expired so far

consumerVars == <<position, stage, next, tries>>
redisVars == <<chunks, count>>
faultVars == <<faults, undone, expiries>>
vars == <<log, consumerVars, redisVars, complete, faultVars>>

TypeOK ==
    /\ log \in [Consumers -> Seq(Chunks)]
    /\ position \in [Consumers -> Nat]
    /\ stage \in [Consumers ->
           {"idle", "stored", "reading", "marked", "cleaning", "applied", "exhausted"}]
    /\ next \in [Consumers -> 0..TOTAL]
    /\ tries \in [Consumers -> 0..MAX_TRIES]
    /\ chunks \subseteq Chunks
    /\ count \in Nat
    /\ complete \in BOOLEAN
    /\ faults \in 0..MaxFaults
    /\ undone \in 0..MaxFaults
    /\ expiries \in 0..MaxExpiries

Init ==
    /\ log = [c \in Consumers |-> <<>>]
    /\ position = [c \in Consumers |-> 0]
    /\ stage = [c \in Consumers |-> "idle"]
    /\ next = [c \in Consumers |-> 0]
    /\ tries = [c \in Consumers |-> 0]
    /\ chunks = {}
    /\ count = 0
    /\ complete = FALSE
    /\ faults = 0
    /\ undone = 0
    /\ expiries = 0

-----------------------------------------------------------------------------

(* The relay publishes a chunk, in any order and possibly more than once;  *)
(* its entityRef decides the partition.                                    *)
Publish(c, k) ==
    /\ Len(log[c]) < MaxLog
    /\ log' = [log EXCEPT ![c] = Append(@, k)]
    /\ UNCHANGED <<consumerVars, redisVars, complete, faultVars>>

Chunk(c) == log[c][position[c] + 1]

Goto(c, s) == stage' = [stage EXCEPT ![c] = s]

(* recordChunk: SET of the chunk (and of the total, which nothing reads). *)
StoreChunk(c) ==
    /\ stage[c] = "idle"
    /\ position[c] < Len(log[c])
    /\ chunks' = chunks \union {Chunk(c)}
    /\ Goto(c, "stored")
    /\ UNCHANGED <<log, position, next, tries, count, complete, faultVars>>

(* Mutant: strict comparison. *)
CountStrictly(c) ==
    /\ stage[c] = "stored"
    /\ count' = count + 1
    /\ Goto(c, IF count + 1 > TOTAL THEN "reading" ELSE "applied")
    /\ UNCHANGED <<log, position, next, tries, chunks, complete, faultVars>>

(* recordChunk: INCR and the completion test.  The counter counts          *)
(* deliveries, so a chunk delivered twice counts twice.                    *)
CountChunk(c) ==
    /\ stage[c] = "stored"
    /\ count' = count + 1
    /\ Goto(c, IF count + 1 >= TOTAL THEN "reading" ELSE "applied")
    /\ UNCHANGED <<log, position, next, tries, chunks, complete, faultVars>>

(* Mutant: a missing chunk is skipped. *)
ReadAnyChunk(c) ==
    /\ stage[c] = "reading"
    /\ next[c] \in Chunks
    /\ next' = [next EXCEPT ![c] = @ + 1]
    /\ UNCHANGED <<log, position, stage, tries, redisVars, complete, faultVars>>

(* applyCompleteSnapshot: getChunk of the next chunk. *)
ReadChunk(c) ==
    /\ stage[c] = "reading"
    /\ next[c] \in chunks
    /\ next' = [next EXCEPT ![c] = @ + 1]
    /\ UNCHANGED <<log, position, stage, tries, redisVars, complete, faultVars>>

(* The SNAPSHOT_COMPLETE row is written, not yet committed; another        *)
(* consumer that writes it waits for that transaction to end.              *)
Mark(c) ==
    /\ stage[c] = "reading"
    /\ next[c] = TOTAL
    /\ \A d \in Consumers : stage[d] \notin {"marked", "cleaning"}
    /\ Goto(c, "marked")
    /\ next' = [next EXCEPT ![c] = 0]
    /\ UNCHANGED <<log, position, tries, redisVars, complete, faultVars>>

(* cleanup: DEL of the counter, and of the total. *)
DeleteCount(c) ==
    /\ stage[c] = "marked"
    /\ count' = 0
    /\ Goto(c, "cleaning")
    /\ UNCHANGED <<log, position, next, tries, chunks, complete, faultVars>>

(* cleanup: DEL of the next chunk. *)
DeleteChunk(c) ==
    /\ stage[c] = "cleaning"
    /\ next[c] \in Chunks
    /\ chunks' = chunks \ {next[c]}
    /\ next' = [next EXCEPT ![c] = @ + 1]
    /\ UNCHANGED <<log, position, stage, tries, count, complete, faultVars>>

(* The transaction of apply commits. *)
Commit(c) ==
    /\ stage[c] = "cleaning"
    /\ next[c] = TOTAL
    /\ complete' = TRUE
    /\ Goto(c, "applied")
    /\ UNCHANGED <<log, position, next, tries, redisVars, faultVars>>

(* The consumer goes on with the next record. *)
Advance(c) ==
    /\ position' = [position EXCEPT ![c] = @ + 1]
    /\ next' = [next EXCEPT ![c] = 0]
    /\ tries' = [tries EXCEPT ![c] = 0]
    /\ Goto(c, "idle")

Acknowledge(c) ==
    /\ stage[c] = "applied"
    /\ Advance(c)
    /\ UNCHANGED <<log, redisVars, complete, faultVars>>

(* Mutant: tries are not compared with their limit. *)
ThrowForever(c) ==
    /\ tries' = [tries EXCEPT ![c] = IF @ > MAX_TRIES THEN @ ELSE @ + 1]
    /\ next' = [next EXCEPT ![c] = 0]
    /\ Goto(c, "idle")

(* process() throws, the transaction rolls back, and the container         *)
(* delivers the record again as long as deliveries are left.               *)
Throw(c) ==
    /\ tries' = [tries EXCEPT ![c] = @ + 1]
    /\ next' = [next EXCEPT ![c] = 0]
    /\ Goto(c, IF tries[c] + 1 < MAX_TRIES THEN "idle" ELSE "exhausted")

(* "Tranche .. manquante": counted, but not in Redis. *)
MissingChunk(c) ==
    /\ stage[c] = "reading"
    /\ next[c] \in Chunks \ chunks
    /\ Throw(c)
    /\ UNCHANGED <<log, position, redisVars, complete, faultVars>>

(* The record goes to the dead letter topic; see Projections. *)
DeadLetter(c) ==
    /\ stage[c] = "exhausted"
    /\ Advance(c)
    /\ UNCHANGED <<log, redisVars, complete, faultVars>>

-----------------------------------------------------------------------------

(* A transaction that deleted keys and has not committed is rolled back. *)
Fault(c) ==
    /\ faults < MaxFaults
    /\ faults' = faults + 1
    /\ undone' = IF stage[c] = "cleaning" THEN undone + 1 ELSE undone

(* A Redis command, the commit or the acknowledgement throws. *)
CallFails(c) ==
    /\ stage[c] \notin {"idle", "exhausted"}
    /\ Throw(c)
    /\ Fault(c)
    /\ UNCHANGED <<log, position, redisVars, complete, expiries>>

(* The consumer dies and is given the record again when it restarts. *)
Crash(c) ==
    /\ stage[c] # "idle"
    /\ Goto(c, "idle")
    /\ next' = [next EXCEPT ![c] = 0]
    /\ tries' = [tries EXCEPT ![c] = 0]
    /\ Fault(c)
    /\ UNCHANGED <<log, position, redisVars, complete, expiries>>

(* A key reaches CHUNK_TTL.  A chunk may outlive the counter: a crash      *)
(* between INCR and EXPIRE leaves the counter its earlier deadline.        *)
Expire ==
    /\ expiries < MaxExpiries
    /\ expiries' = expiries + 1
    /\ \/ \E k \in chunks : chunks' = chunks \ {k} /\ UNCHANGED count
       \/ count > 0 /\ count' = 0 /\ UNCHANGED chunks
    /\ UNCHANGED <<log, consumerVars, complete, faults, undone>>

-----------------------------------------------------------------------------

Process(c) ==
    \/ StoreChunk(c)
    \/ CountChunk(c)
    \/ ReadChunk(c)
    \/ MissingChunk(c)
    \/ Mark(c)
    \/ DeleteCount(c)
    \/ DeleteChunk(c)
    \/ Commit(c)
    \/ Acknowledge(c)
    \/ DeadLetter(c)

Next ==
    \/ Expire
    \/ \E c \in Consumers :
           \/ Process(c)
           \/ CallFails(c)
           \/ Crash(c)
           \/ \E k \in Chunks : Publish(c, k)

Spec == Init /\ [][Next]_vars

(* The listener threads run; faults are not owed. *)
FairSpec == Spec /\ \A c \in Consumers : WF_vars(Process(c))

-----------------------------------------------------------------------------

Published(k) == \E c \in Consumers : \E n \in DOMAIN log[c] : log[c][n] = k

AllPublished == \A k \in Chunks : Published(k)

AllPassed == \A c \in Consumers : position[c] = Len(log[c])

(* A snapshot is never marked complete before each of its chunks has been  *)
(* received, although its counter counts retries, duplicates and crashed   *)
(* deliveries as chunks.                                                   *)
CompleteIsWhole == complete => AllPublished

(* What may lose a snapshot: a key that expired, a completion rolled back  *)
(* after it deleted its keys, or as many failures as a record has tries,   *)
(* which may give it up stored but not counted.                            *)
Excused == undone > 0 \/ expiries > 0 \/ faults >= MAX_TRIES

(* When every chunk has been received and every record passed, the         *)
(* snapshot is complete: duplicates, retries, crashes, concurrent cleanups *)
(* and records given up for a chunk that is missing do not lose it, unless *)
(* it is excused.                                                          *)
WholeIsComplete == AllPublished /\ AllPassed => complete \/ Excused

(* The same as a promise: the snapshot completes once it is received. *)
SnapshotCompletes == AllPublished ~> complete \/ Excused

(* "Quand toutes les tranches sont reçues, le snapshot est prêt à être     *)
(* appliqué": received whole within CHUNK_TTL, it is not lost.             *)
ReceivedIsNotLost == AllPublished /\ AllPassed => complete \/ expiries > 0
=============================================================================
