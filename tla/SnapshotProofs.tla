--------------------------- MODULE SnapshotProofs ---------------------------
(***************************************************************************)
(* Proofs about SnapshotChunks, for any number of instances, chunks and    *)
(* records, any limit of tries and any number of faults and expiries.      *)
(***************************************************************************)
EXTENDS SnapshotChunks, FiniteSetTheorems, TLAPS

(* A consumer is at work on its next record, or owes it another try. *)
Busy(c) == stage[c] # "idle" \/ tries[c] > 0

WithinLog ==
    \A c \in Consumers :
        /\ position[c] <= Len(log[c])
        /\ Busy(c) => position[c] < Len(log[c])

TriesLeft ==
    \A c \in Consumers :
        IF stage[c] = "exhausted" THEN tries[c] = MAX_TRIES ELSE tries[c] < MAX_TRIES

Shape == TypeOK /\ WithinLog /\ TriesLeft /\ undone <= faults

LEMMA ShapeInit == Init => Shape
  <1> SUFFICES ASSUME Init PROVE Shape
    OBVIOUS
  <1>1. TypeOK
    <2>1. complete \in BOOLEAN
      BY DEF Init
    <2>2. log \in [Consumers -> Seq(Chunks)] /\ chunks \subseteq Chunks
      BY DEF Init
    <2> QED
      BY <2>1, <2>2, SnapshotConstants DEF Init, TypeOK
  <1>2. WithinLog /\ TriesLeft
    BY SnapshotConstants DEF Init, WithinLog, TriesLeft, Busy
  <1> QED
    BY <1>1, <1>2 DEF Init, Shape

(* Publish appends a record; those that were there stay where they are. *)
LEMMA PublishAppends ==
    ASSUME TypeOK, NEW c \in Consumers, NEW k \in Chunks, Publish(c, k), NEW d \in Consumers
    PROVE  /\ log'[d] \in Seq(Chunks)
           /\ Len(log'[d]) = IF d = c THEN Len(log[d]) + 1 ELSE Len(log[d])
           /\ \A n \in 1..Len(log[d]) : log'[d][n] = log[d][n]
  <1>1. log[d] \in Seq(Chunks) /\ log[c] \in Seq(Chunks)
    BY DEF TypeOK
  <1>2. log'[d] = IF d = c THEN Append(log[d], k) ELSE log[d]
    BY DEF TypeOK, Publish
  <1>3. CASE d = c
    BY <1>1, <1>2, <1>3
  <1>4. CASE d # c
    BY <1>1, <1>2, <1>4
  <1> QED
    BY <1>3, <1>4

LEMMA ShapePublish ==
    ASSUME Shape, NEW c \in Consumers, NEW k \in Chunks, Publish(c, k)
    PROVE  Shape'
  <1>1. log' \in [Consumers -> Seq(Chunks)]
    BY DEF Shape, TypeOK, Publish
  <1>2. \A d \in Consumers : Len(log[d]) \in Nat /\ Len(log[d]) <= Len(log'[d])
    <2> SUFFICES ASSUME NEW d \in Consumers
                 PROVE  Len(log[d]) \in Nat /\ Len(log[d]) <= Len(log'[d])
      OBVIOUS
    <2>1. Len(log[d]) \in Nat
      BY DEF Shape, TypeOK
    <2> QED
      BY <2>1, PublishAppends DEF Shape
  <1> QED
    BY <1>1, <1>2 DEF Shape, TypeOK, WithinLog, TriesLeft, Busy, Publish,
       consumerVars, redisVars, faultVars

(* The steps of a consumer that hold on to the record. *)
LEMMA ShapeWork ==
    ASSUME Shape, NEW c \in Consumers,
           \/ StoreChunk(c) \/ CountChunk(c) \/ ReadChunk(c) \/ Mark(c)
           \/ DeleteCount(c) \/ DeleteChunk(c) \/ Commit(c)
    PROVE  Shape'
  <1>1. chunks' \subseteq Chunks
    <2>1. CASE StoreChunk(c)
      <3>1. Chunk(c) \in Chunks
        BY <2>1 DEF Shape, TypeOK, StoreChunk, Chunk
      <3> QED
        BY <2>1, <3>1 DEF Shape, TypeOK, StoreChunk
    <2> QED
      BY <2>1 DEF Shape, TypeOK, CountChunk, ReadChunk, Mark, DeleteCount, DeleteChunk,
         Commit, redisVars
  <1>2. /\ stage' \in [Consumers ->
              {"idle", "stored", "reading", "marked", "cleaning", "applied", "exhausted"}]
    BY DEF Shape, TypeOK, StoreChunk, CountChunk, ReadChunk, Mark, DeleteCount,
       DeleteChunk, Commit, Goto
  <1>3. next' \in [Consumers -> 0..TOTAL]
    <2>1. CASE ReadChunk(c) \/ DeleteChunk(c)
      <3>1. next[c] \in Chunks /\ next' = [next EXCEPT ![c] = @ + 1]
        BY <2>1 DEF Shape, TypeOK, ReadChunk, DeleteChunk
      <3> QED
        BY <3>1, SnapshotConstants DEF Shape, TypeOK, Chunks
    <2>2. CASE Mark(c)
      BY <2>2, SnapshotConstants DEF Shape, TypeOK, Mark
    <2> QED
      BY <2>1, <2>2 DEF Shape, TypeOK, StoreChunk, CountChunk, DeleteCount, Commit
  <1>4. count' \in Nat /\ complete' \in BOOLEAN
    <2>1. count' \in Nat
      BY DEF Shape, TypeOK, StoreChunk, CountChunk, ReadChunk, Mark, DeleteCount,
         DeleteChunk, Commit, redisVars
    <2>2. complete' = complete \/ complete' = TRUE
      BY DEF StoreChunk, CountChunk, ReadChunk, Mark, DeleteCount, DeleteChunk, Commit
    <2> QED
      BY <2>1, <2>2 DEF Shape, TypeOK
  <1>5. UNCHANGED <<log, position, tries, faultVars>>
    BY DEF StoreChunk, CountChunk, ReadChunk, Mark, DeleteCount, DeleteChunk, Commit
  <1>6. /\ stage[c] # "exhausted" /\ stage'[c] # "exhausted" /\ position[c] < Len(log[c])
        /\ \A d \in Consumers : d # c => stage'[d] = stage[d]
    BY DEF Shape, TypeOK, WithinLog, Busy, StoreChunk, CountChunk, ReadChunk, Mark,
       DeleteCount, DeleteChunk, Commit, Goto
  <1>7. TypeOK'
    BY <1>1, <1>2, <1>5, <1>3, <1>4 DEF Shape, TypeOK, faultVars
  <1>8. WithinLog' /\ TriesLeft'
    BY <1>5, <1>6 DEF Shape, WithinLog, TriesLeft, Busy
  <1> QED
    BY <1>5, <1>7, <1>8 DEF Shape, faultVars

(* The steps that go on with the next record. *)
LEMMA ShapeAdvance ==
    ASSUME Shape, NEW c \in Consumers, Acknowledge(c) \/ DeadLetter(c)
    PROVE  Shape'
  <1>1. position[c] < Len(log[c])
    BY DEF Shape, WithinLog, Busy, Acknowledge, DeadLetter
  <1>5. /\ position' = [position EXCEPT ![c] = @ + 1]
        /\ next' = [next EXCEPT ![c] = 0]
        /\ tries' = [tries EXCEPT ![c] = 0]
        /\ stage' = [stage EXCEPT ![c] = "idle"]
        /\ UNCHANGED <<log, redisVars, complete, faultVars>>
    BY DEF Acknowledge, DeadLetter, Advance, Goto
  <1>2. TypeOK'
    BY <1>5, SnapshotConstants DEF Shape, TypeOK, redisVars, faultVars
  <1>3. WithinLog'
    BY <1>1, <1>5 DEF Shape, TypeOK, WithinLog, Busy
  <1>4. TriesLeft'
    BY <1>5, SnapshotConstants DEF Shape, TypeOK, TriesLeft
  <1> QED
    BY <1>2, <1>3, <1>4 DEF Shape, Acknowledge, DeadLetter, faultVars

(* The steps that give the record back, to be delivered again or given up. *)
LEMMA ShapeThrow ==
    ASSUME Shape, NEW c \in Consumers, MissingChunk(c) \/ CallFails(c) \/ Crash(c)
    PROVE  Shape'
  <1>1. position[c] < Len(log[c])
    BY DEF Shape, WithinLog, Busy, MissingChunk, CallFails, Crash
  <1>2. /\ UNCHANGED <<log, position, redisVars, complete, expiries>>
        /\ \/ faults' = faults /\ undone' = undone
           \/ /\ faults' = faults + 1 /\ faults < MaxFaults
              /\ undone' = undone \/ undone' = undone + 1
    BY DEF MissingChunk, CallFails, Crash, Fault, faultVars
  <1>3. /\ next' = [next EXCEPT ![c] = 0]
        /\ \E s \in {"idle", "exhausted"}, n \in 0..MAX_TRIES :
              /\ stage' = [stage EXCEPT ![c] = s]
              /\ tries' = [tries EXCEPT ![c] = n]
              /\ s = "exhausted" => n = MAX_TRIES
              /\ s = "idle" => n < MAX_TRIES
    <2>1. tries[c] \in Nat /\ (stage[c] # "exhausted" => tries[c] < MAX_TRIES)
      BY DEF Shape, TypeOK, TriesLeft
    <2>2. CASE Throw(c) /\ stage[c] # "exhausted"
      <3>1. tries[c] + 1 \in 0..MAX_TRIES
        BY <2>1, <2>2, SnapshotConstants
      <3>2. CASE tries[c] + 1 < MAX_TRIES
        BY <2>2, <3>1, <3>2 DEF Throw, Goto
      <3>3. CASE ~(tries[c] + 1 < MAX_TRIES)
        <4>1. tries[c] + 1 = MAX_TRIES
          BY <3>1, <3>3, SnapshotConstants
        <4>2. stage' = [stage EXCEPT ![c] = "exhausted"]
          BY <2>2, <3>3 DEF Throw, Goto
        <4> QED
          BY <2>2, <3>1, <4>1, <4>2 DEF Throw
      <3> QED
        BY <3>2, <3>3
    <2>3. CASE Crash(c)
      <3>1. /\ next' = [next EXCEPT ![c] = 0]
            /\ stage' = [stage EXCEPT ![c] = "idle"]
            /\ tries' = [tries EXCEPT ![c] = 0]
        BY <2>3 DEF Crash, Goto
      <3>2. 0 \in 0..MAX_TRIES /\ 0 < MAX_TRIES
        BY SnapshotConstants
      <3> QED
        BY <3>1, <3>2
    <2> QED
      BY <2>2, <2>3 DEF MissingChunk, CallFails
  <1>4. TypeOK'
    BY <1>2, <1>3, SnapshotConstants DEF Shape, TypeOK, redisVars
  <1>5. WithinLog' /\ TriesLeft'
    BY <1>1, <1>2, <1>3 DEF Shape, TypeOK, WithinLog, TriesLeft, Busy
  <1>6. undone' <= faults'
    BY <1>2 DEF Shape, TypeOK
  <1> QED
    BY <1>4, <1>5, <1>6 DEF Shape

LEMMA ShapeExpire == Shape /\ Expire => Shape'
  BY SnapshotConstants
  DEF Shape, TypeOK, WithinLog, TriesLeft, Busy, Expire, consumerVars

LEMMA ShapeNext == Shape /\ [Next]_vars => Shape'
  <1> SUFFICES ASSUME Shape, [Next]_vars PROVE Shape'
    OBVIOUS
  <1>1. CASE UNCHANGED vars
    BY <1>1 DEF Shape, TypeOK, WithinLog, TriesLeft, Busy, vars, consumerVars, redisVars,
       faultVars
  <1>2. ASSUME NEW c \in Consumers, Process(c) PROVE Shape'
    BY <1>2, ShapeWork, ShapeAdvance, ShapeThrow DEF Process
  <1> QED
    BY <1>1, <1>2, ShapePublish, ShapeThrow, ShapeExpire DEF Next

(* Every variable keeps its type, no offset is ahead of the log, and the   *)
(* tries of a record stay within their limit.                              *)
THEOREM ShapeInvariant == Spec => []Shape
  BY ShapeInit, ShapeNext, PTL DEF Spec

(* The keys, offsets and counters keep their types; in particular no       *)
(* record is tried more than MAX_TRIES times.                              *)
THEOREM TypeCorrect == Spec => []TypeOK
  BY ShapeInvariant, PTL DEF Shape

-----------------------------------------------------------------------------
(* What CompleteIsWhole needs of the chunks on their way to completion. *)

ChunksArePublished == \A k \in chunks : Published(k)

ReadArePublished ==
    \A c \in Consumers :
        /\ stage[c] \in {"idle", "stored"} => next[c] = 0
        /\ stage[c] = "reading" => \A k \in Chunks : k < next[c] => Published(k)
        /\ stage[c] \in {"marked", "cleaning"} => AllPublished

Whole == ChunksArePublished /\ ReadArePublished /\ CompleteIsWhole

LEMMA LogChange ==
    ASSUME [Next]_vars, log' # log
    PROVE  \E c \in Consumers, k \in Chunks : Publish(c, k)
  BY DEF Next, vars, Process, StoreChunk, CountChunk, ReadChunk, MissingChunk, Mark,
         DeleteCount, DeleteChunk, Commit, Acknowledge, DeadLetter, CallFails, Crash, Expire

LEMMA LogGrows ==
    ASSUME Shape, [Next]_vars, NEW c \in Consumers
    PROVE  /\ Len(log[c]) \in Nat /\ Len(log'[c]) \in Nat /\ Len(log[c]) <= Len(log'[c])
           /\ \A n \in 1..Len(log[c]) : log'[c][n] = log[c][n]
  <1>1. Len(log[c]) \in Nat
    BY DEF Shape, TypeOK
  <1>2. CASE log' = log
    BY <1>1, <1>2
  <1>3. CASE log' # log
    <2>1. PICK d \in Consumers, k \in Chunks : Publish(d, k)
      BY <1>3, LogChange
    <2> QED
      BY <1>1, <2>1, PublishAppends DEF Shape
  <1> QED
    BY <1>2, <1>3

LEMMA PublishedStays ==
    ASSUME Shape, [Next]_vars, NEW k \in Chunks, Published(k)
    PROVE  Published(k)'
  <1>1. PICK c \in Consumers : \E n \in DOMAIN log[c] : log[c][n] = k
    BY DEF Published
  <1>2. PICK n \in DOMAIN log[c] : log[c][n] = k
    BY <1>1
  <1>3. n \in 1..Len(log[c])
    BY <1>2 DEF Shape, TypeOK
  <1>4. log'[c] \in Seq(Chunks)
    BY ShapeNext DEF Shape, TypeOK
  <1>5. n \in DOMAIN log'[c] /\ log'[c][n] = k
    BY <1>2, <1>3, <1>4, LogGrows
  <1> QED
    BY <1>5 DEF Published

LEMMA AllPublishedStays == Shape /\ [Next]_vars /\ AllPublished => AllPublished'
  BY PublishedStays DEF AllPublished

LEMMA ChunkIsPublished ==
    ASSUME Shape, NEW c \in Consumers, position[c] < Len(log[c])
    PROVE  Chunk(c) \in Chunks /\ Published(Chunk(c))
  <1>1. log[c] \in Seq(Chunks) /\ position[c] + 1 \in 1..Len(log[c])
    BY DEF Shape, TypeOK
  <1> QED
    BY <1>1 DEF Chunk, Published

LEMMA ChunksNext == Shape /\ Whole /\ [Next]_vars => ChunksArePublished'
  <1> SUFFICES ASSUME Shape, Whole, [Next]_vars, NEW k \in chunks' PROVE Published(k)'
    BY DEF ChunksArePublished
  <1>1. k \in Chunks
    BY ShapeNext DEF Shape, TypeOK
  <1>2. CASE k \in chunks
    BY <1>1, <1>2, PublishedStays DEF Whole, ChunksArePublished
  <1>3. CASE k \notin chunks
    <2>1. PICK c \in Consumers : StoreChunk(c)
      BY <1>3 DEF Next, vars, redisVars, Process, StoreChunk, CountChunk, ReadChunk,
         MissingChunk, Mark, DeleteCount, DeleteChunk, Commit, Acknowledge, DeadLetter,
         CallFails, Crash, Expire, Publish
    <2>2. k = Chunk(c) /\ position[c] < Len(log[c])
      BY <1>3, <2>1 DEF StoreChunk
    <2> QED
      BY <1>1, <2>2, ChunkIsPublished, PublishedStays
  <1> QED
    BY <1>2, <1>3

LEMMA ReadNext == Shape /\ Whole /\ [Next]_vars => ReadArePublished'
  <1> SUFFICES ASSUME Shape, Whole, [Next]_vars, NEW d \in Consumers
               PROVE  /\ stage'[d] \in {"idle", "stored"} => next'[d] = 0
                      /\ stage'[d] = "reading" =>
                             \A k \in Chunks : k < next'[d] => Published(k)'
                      /\ stage'[d] \in {"marked", "cleaning"} => AllPublished'
    BY DEF ReadArePublished
  <1>1. stage \in [Consumers -> {"idle", "stored", "reading", "marked", "cleaning",
                                 "applied", "exhausted"}]
        /\ next \in [Consumers -> 0..TOTAL]
    BY DEF Shape, TypeOK
  <1>2. CASE stage'[d] = stage[d] /\ next'[d] = next[d]
    BY <1>2, PublishedStays, AllPublishedStays DEF Whole, ReadArePublished
  <1>3. ASSUME NEW c \in Consumers, StoreChunk(c), c = d
        PROVE  stage'[d] = "stored" /\ next'[d] = 0
    BY <1>1, <1>3 DEF StoreChunk, Goto, Whole, ReadArePublished
  <1>4. ASSUME NEW c \in Consumers, CountChunk(c), c = d
        PROVE  stage'[d] \in {"reading", "applied"} /\ next'[d] = 0
    BY <1>1, <1>4 DEF CountChunk, Goto, Whole, ReadArePublished
  <1>5. ASSUME NEW c \in Consumers, ReadChunk(c), c = d
        PROVE  /\ stage'[d] = "reading"
               /\ \A k \in Chunks : k < next'[d] => Published(k)'
    <2>1. /\ next[d] \in chunks /\ next[d] \in Chunks /\ next'[d] = next[d] + 1
          /\ stage[d] = "reading" /\ stage'[d] = "reading"
      BY <1>1, <1>5 DEF ReadChunk, Shape, TypeOK
    <2>2. \A k \in Chunks : k < next[d] + 1 => k < next[d] \/ k = next[d]
      BY <1>1, SnapshotConstants DEF Chunks
    <2>3. \A k \in Chunks : k < next[d] + 1 => Published(k)
      BY <2>1, <2>2 DEF Whole, ReadArePublished, ChunksArePublished
    <2> QED
      BY <2>1, <2>3, PublishedStays
  <1>6. ASSUME NEW c \in Consumers, Mark(c), c = d
        PROVE  stage'[d] = "marked" /\ AllPublished'
    <2>1. stage[d] = "reading" /\ next[d] = TOTAL /\ stage'[d] = "marked"
      BY <1>1, <1>6 DEF Mark, Goto
    <2>2. \A k \in Chunks : k < TOTAL
      BY SnapshotConstants DEF Chunks
    <2>3. AllPublished
      BY <2>1, <2>2 DEF Whole, ReadArePublished, AllPublished
    <2> QED
      BY <2>1, <2>3, AllPublishedStays
  <1>7. ASSUME NEW c \in Consumers, DeleteCount(c) \/ DeleteChunk(c), c = d
        PROVE  stage'[d] = "cleaning" /\ AllPublished'
    BY <1>1, <1>7, AllPublishedStays DEF DeleteCount, DeleteChunk, Goto, Whole,
       ReadArePublished
  <1>8. ASSUME NEW c \in Consumers, Commit(c), c = d
        PROVE  stage'[d] = "applied"
    BY <1>1, <1>8 DEF Commit, Goto
  <1>9. ASSUME NEW c \in Consumers, c = d,
               \/ Acknowledge(c) \/ DeadLetter(c) \/ MissingChunk(c) \/ CallFails(c)
               \/ Crash(c)
        PROVE  stage'[d] \in {"idle", "exhausted"} /\ next'[d] = 0
    BY <1>1, <1>9 DEF Acknowledge, DeadLetter, Advance, MissingChunk, CallFails, Throw,
       Crash, Goto
  <1>10. ASSUME NEW c \in Consumers, c # d, Process(c) \/ CallFails(c) \/ Crash(c)
         PROVE  stage'[d] = stage[d] /\ next'[d] = next[d]
    BY <1>1, <1>10 DEF Process, StoreChunk, CountChunk, ReadChunk, MissingChunk, Mark,
       DeleteCount, DeleteChunk, Commit, Acknowledge, DeadLetter, Advance, CallFails,
       Throw, Crash, Goto
  <1>11. ASSUME UNCHANGED vars \/ Expire
                \/ \E c \in Consumers, k \in Chunks : Publish(c, k)
         PROVE  stage'[d] = stage[d] /\ next'[d] = next[d]
    BY <1>11 DEF vars, consumerVars, Expire, Publish
  <1>12. ASSUME NEW c \in Consumers, Process(c) \/ CallFails(c) \/ Crash(c)
         PROVE  \/ stage'[d] = stage[d] /\ next'[d] = next[d]
                \/ stage'[d] \in {"idle", "stored", "reading", "applied", "exhausted"}
                   /\ next'[d] = 0
                \/ stage'[d] = "reading" /\ \A k \in Chunks : k < next'[d] => Published(k)'
                \/ stage'[d] \in {"marked", "cleaning"} /\ AllPublished'
                \/ stage'[d] = "applied"
    <2>1. CASE c # d
      BY <1>10, <1>12, <2>1
    <2>2. CASE c = d
      BY <1>3, <1>4, <1>5, <1>6, <1>7, <1>8, <1>9, <1>12, <2>2 DEF Process
    <2> QED
      BY <2>1, <2>2
  <1>13. \A k \in Chunks : ~(k < 0)
    BY SnapshotConstants DEF Chunks
  <1>14. ASSUME NEW c \in Consumers, Process(c) \/ CallFails(c) \/ Crash(c)
         PROVE  /\ stage'[d] \in {"idle", "stored"} => next'[d] = 0
                /\ stage'[d] = "reading" =>
                       \A k \in Chunks : k < next'[d] => Published(k)'
                /\ stage'[d] \in {"marked", "cleaning"} => AllPublished'
    BY <1>2, <1>12, <1>13, <1>14
  <1> QED
    BY <1>2, <1>11, <1>14 DEF Next

LEMMA CompleteNext == Shape /\ Whole /\ [Next]_vars => CompleteIsWhole'
  <1> SUFFICES ASSUME Shape, Whole, [Next]_vars, complete' PROVE AllPublished'
    BY DEF CompleteIsWhole
  <1>1. CASE complete
    BY <1>1, AllPublishedStays DEF Whole, CompleteIsWhole
  <1>2. CASE ~complete
    <2>1. PICK c \in Consumers : Commit(c)
      BY <1>2 DEF Next, vars, Process, StoreChunk, CountChunk, ReadChunk,
         MissingChunk, Mark, DeleteCount, DeleteChunk, Acknowledge, DeadLetter,
         CallFails, Crash, Expire, Publish
    <2> QED
      BY <2>1, AllPublishedStays DEF Commit, Whole, ReadArePublished
  <1> QED
    BY <1>1, <1>2

LEMMA WholeInit == Init => Whole
  BY SnapshotConstants
  DEF Init, Whole, ChunksArePublished, ReadArePublished, CompleteIsWhole

(* The counter may count retries, duplicates and crashed deliveries: the   *)
(* row is written only once every chunk was read from Redis, and only      *)
(* received chunks are there.                                              *)
THEOREM CompleteSnapshotsAreWhole == Spec => []CompleteIsWhole
  <1>1. Shape /\ Whole /\ [Next]_vars => Whole'
    BY ChunksNext, ReadNext, CompleteNext DEF Whole
  <1>2. Whole => CompleteIsWhole
    BY DEF Whole
  <1> QED
    BY <1>1, <1>2, WholeInit, ShapeInvariant, PTL DEF Spec

-----------------------------------------------------------------------------
(* What WholeIsComplete needs: the keys in Redis account for the records.  *)

Open == ~complete /\ ~Excused

Undisturbed == Open /\ \A c \in Consumers : stage[c] # "cleaning"

(* The chunk of the record has been stored at least once. *)
Stored(c, n) == n <= position[c] \/ (n = position[c] + 1 /\ Busy(c))

StoredAreKept ==
    Undisturbed => \A c \in Consumers : \A n \in 1..Len(log[c]) :
                       Stored(c, n) => log[c][n] \in chunks

(* The record has surely been counted: more of its tries failed than there *)
(* were faults, so that one of them found a chunk missing, after it        *)
(* counted.                                                                *)
SurelyCounted(c, n) ==
    \/ n <= position[c]
    \/ /\ n = position[c] + 1
       /\ \/ stage[c] \in {"reading", "marked", "cleaning", "applied"}
          \/ tries[c] > faults

Counted == {r \in Consumers \X (Nat \ {0}) : SurelyCounted(r[1], r[2])}

CountIsEnough ==
    /\ IsFiniteSet(Counted)
    /\ Undisturbed => Cardinality(Counted) <= count

AllCounted == \A k \in Chunks : \E r \in Counted : log[r[1]][r[2]] = k

(* A consumer that will complete the snapshot, or be excused. *)
Finishing(c) ==
    \/ stage[c] = "cleaning"
    \/ /\ position[c] < Len(log[c])
       /\ stage[c] \notin {"applied", "exhausted"}
       /\ tries[c] <= faults

SomeoneFinishes == Open /\ AllCounted => \E c \in Consumers : Finishing(c)

Accounted == StoredAreKept /\ CountIsEnough /\ SomeoneFinishes

LEMMA FaultsGrow ==
    ASSUME Shape, [Next]_vars
    PROVE  /\ faults \in Nat /\ faults' \in Nat /\ faults <= faults'
           /\ undone \in Nat /\ undone' \in Nat /\ undone <= undone'
           /\ expiries \in Nat /\ expiries' \in Nat /\ expiries <= expiries'
           /\ complete => complete'
  <1>1. faults \in Nat /\ undone \in Nat /\ expiries \in Nat
    BY SnapshotConstants DEF Shape, TypeOK
  <1>2. /\ faults' = faults \/ faults' = faults + 1
        /\ undone' = undone \/ undone' = undone + 1
        /\ expiries' = expiries \/ expiries' = expiries + 1
    BY DEF Next, vars, faultVars, Process, StoreChunk, CountChunk, ReadChunk, MissingChunk,
       Mark, DeleteCount, DeleteChunk, Commit, Acknowledge, DeadLetter, CallFails, Crash,
       Fault, Expire, Publish
  <1>3. complete => complete'
    BY DEF Next, vars, Process, StoreChunk, CountChunk, ReadChunk, MissingChunk,
       Mark, DeleteCount, DeleteChunk, Commit, Acknowledge, DeadLetter, CallFails, Crash,
       Expire, Publish
  <1> QED
    BY <1>1, <1>2, <1>3

LEMMA OpenWasOpen == Shape /\ [Next]_vars /\ Open' => Open
  BY FaultsGrow, SnapshotConstants DEF Open, Excused

(* A cleanup ends with its commit, or is rolled back. *)
LEMMA CleaningGoesOn ==
    ASSUME Shape, [Next]_vars, Open', NEW c \in Consumers, stage[c] = "cleaning"
    PROVE  stage'[c] = "cleaning"
  <1>1. stage \in [Consumers -> {"idle", "stored", "reading", "marked", "cleaning",
                                 "applied", "exhausted"}]
    BY DEF Shape, TypeOK
  <1>2. ~complete' /\ ~(undone' > 0) /\ undone \in Nat
    BY FaultsGrow DEF Open, Excused
  <1>3. ASSUME NEW d \in Consumers, CallFails(d) \/ Crash(d)
        PROVE  d # c
    BY <1>2, <1>3 DEF CallFails, Crash, Fault
  <1>4. ASSUME NEW d \in Consumers, CallFails(d) \/ Crash(d)
        PROVE  stage'[c] = "cleaning"
    BY <1>1, <1>3, <1>4 DEF CallFails, Crash, Throw, Goto
  <1>5. ASSUME NEW d \in Consumers, Process(d)
        PROVE  stage'[c] = "cleaning"
    BY <1>1, <1>2, <1>5 DEF Process, StoreChunk, CountChunk, ReadChunk, MissingChunk, Mark,
       DeleteCount, DeleteChunk, Commit, Acknowledge, DeadLetter, Advance, Throw, Goto
  <1>6. CASE UNCHANGED stage
    BY <1>6
  <1> QED
    BY <1>4, <1>5, <1>6 DEF Next, vars, consumerVars, Expire, Publish

LEMMA UndisturbedWas == Shape /\ [Next]_vars /\ Undisturbed' => Undisturbed
  BY OpenWasOpen, CleaningGoesOn DEF Undisturbed

(* What a step does to the progress of the consumers it does not concern. *)
LEMMA OthersStay ==
    ASSUME Shape, [Next]_vars, NEW c \in Consumers,
           ~(Process(c) \/ CallFails(c) \/ Crash(c))
    PROVE  position'[c] = position[c] /\ stage'[c] = stage[c] /\ tries'[c] = tries[c]
  <1>1. CASE UNCHANGED <<position, stage, tries>>
    BY <1>1
  <1>2. ASSUME NEW d \in Consumers, Process(d) \/ CallFails(d) \/ Crash(d)
        PROVE  position'[c] = position[c] /\ stage'[c] = stage[c] /\ tries'[c] = tries[c]
    <2>1. c # d
      BY <1>2
    <2> QED
      BY <1>2, <2>1 DEF Shape, TypeOK, Process, StoreChunk, CountChunk, ReadChunk,
         MissingChunk, Mark, DeleteCount, DeleteChunk, Commit, Acknowledge, DeadLetter,
         Advance, CallFails, Throw, Crash, Goto
  <1> QED
    BY <1>1, <1>2 DEF Next, vars, consumerVars, Expire, Publish

(* A record is first stored by StoreChunk. *)
LEMMA FirstStored ==
    ASSUME Shape, [Next]_vars, NEW c \in Consumers, NEW n \in Nat,
           Stored(c, n)', ~Stored(c, n)
    PROVE  StoreChunk(c) /\ n = position[c] + 1
  <1>1. /\ position \in [Consumers -> Nat] /\ tries \in [Consumers -> 0..MAX_TRIES]
        /\ stage \in [Consumers -> {"idle", "stored", "reading", "marked", "cleaning",
                                    "applied", "exhausted"}]
    BY DEF Shape, TypeOK
  <1>2. Process(c) \/ CallFails(c) \/ Crash(c)
    BY OthersStay DEF Stored, Busy
  <1>3. ~(Acknowledge(c) \/ DeadLetter(c))
    BY <1>1 DEF Stored, Busy, Acknowledge, DeadLetter, Advance, Goto
  <1>4. ~(CountChunk(c) \/ ReadChunk(c) \/ Mark(c) \/ DeleteCount(c) \/ DeleteChunk(c)
          \/ Commit(c) \/ MissingChunk(c) \/ CallFails(c) \/ Crash(c))
    BY <1>1 DEF Stored, Busy, CountChunk, ReadChunk, Mark, DeleteCount, DeleteChunk, Commit,
       MissingChunk, CallFails, Crash
  <1>5. StoreChunk(c)
    BY <1>2, <1>3, <1>4 DEF Process
  <1> QED
    BY <1>5 DEF StoreChunk, Stored

LEMMA ChunksStay ==
    ASSUME Shape, [Next]_vars, Undisturbed'
    PROVE  chunks \subseteq chunks'
  <1>1. ~Expire
    BY FaultsGrow DEF Undisturbed, Open, Excused, Expire
  <1>2. ASSUME NEW c \in Consumers PROVE ~DeleteChunk(c)
    BY UndisturbedWas DEF Undisturbed, DeleteChunk
  <1> QED
    BY <1>1, <1>2 DEF Next, vars, redisVars, Process, StoreChunk, CountChunk, ReadChunk,
       MissingChunk, Mark, DeleteCount, Commit, Acknowledge, DeadLetter, CallFails, Crash,
       Publish

LEMMA StoredNext == Shape /\ StoredAreKept /\ [Next]_vars => StoredAreKept'
  <1> SUFFICES ASSUME Shape, StoredAreKept, [Next]_vars, Undisturbed',
                      NEW c \in Consumers, NEW n \in 1..Len(log'[c]), Stored(c, n)'
               PROVE  log'[c][n] \in chunks'
    BY DEF StoredAreKept
  <1>1. n \in Nat
    BY LogGrows
  <1>2. CASE Stored(c, n)
    <2>1. n \in 1..Len(log[c])
      BY <1>2, LogGrows DEF Shape, TypeOK, WithinLog, Stored
    <2>2. log[c][n] \in chunks
      BY <1>2, <2>1, UndisturbedWas DEF StoredAreKept
    <2> QED
      BY <2>1, <2>2, LogGrows, ChunksStay
  <1>3. CASE ~Stored(c, n)
    <2>1. StoreChunk(c) /\ n = position[c] + 1
      BY <1>1, <1>3, FirstStored
    <2>2. log' = log /\ chunks' = chunks \union {Chunk(c)}
      BY <2>1 DEF StoreChunk
    <2> QED
      BY <2>1, <2>2 DEF Chunk
  <1> QED
    BY <1>2, <1>3

(* A record is first counted by CountChunk, as long as the failures do not *)
(* suffice to give it up before.                                           *)
LEMMA FirstCounted ==
    ASSUME Shape, [Next]_vars, NEW c \in Consumers, NEW n \in Nat,
           SurelyCounted(c, n)', ~SurelyCounted(c, n)
    PROVE  /\ n = position[c] + 1
           /\ CountChunk(c) \/ (DeadLetter(c) /\ faults >= MAX_TRIES)
  <1>1. /\ position \in [Consumers -> Nat] /\ tries \in [Consumers -> 0..MAX_TRIES]
        /\ stage \in [Consumers -> {"idle", "stored", "reading", "marked", "cleaning",
                                    "applied", "exhausted"}]
    BY DEF Shape, TypeOK
  <1>2. tries[c] \in Nat /\ position[c] \in Nat /\ MAX_TRIES \in Nat
    BY <1>1, SnapshotConstants
  <1>3. Process(c) \/ CallFails(c) \/ Crash(c)
    BY <1>2, OthersStay, FaultsGrow DEF SurelyCounted
  <1>4. ~(StoreChunk(c) \/ ReadChunk(c) \/ Mark(c) \/ DeleteCount(c) \/ DeleteChunk(c)
          \/ Commit(c))
    BY <1>1, <1>2 DEF SurelyCounted, StoreChunk, ReadChunk, Mark, DeleteCount, DeleteChunk,
       Commit, Goto, faultVars
  <1>5. ~Acknowledge(c)
    <2> SUFFICES ASSUME Acknowledge(c) PROVE FALSE
      OBVIOUS
    <2>1. position'[c] = position[c] + 1 /\ stage'[c] = "idle" /\ tries'[c] = 0
          /\ stage[c] = "applied"
      BY <1>1 DEF Acknowledge, Advance, Goto
    <2> QED
      BY <1>2, <2>1, FaultsGrow DEF SurelyCounted
  <1>6. ~MissingChunk(c)
    BY <1>1, <1>2 DEF SurelyCounted, MissingChunk, Throw, Goto, faultVars
  <1>7. ~(CallFails(c) \/ Crash(c))
    <2> SUFFICES ASSUME CallFails(c) \/ Crash(c) PROVE FALSE
      OBVIOUS
    <2>1. /\ position'[c] = position[c] /\ stage'[c] \in {"idle", "exhausted"}
          /\ faults' = faults + 1
          /\ tries'[c] = tries[c] + 1 \/ tries'[c] = 0
      BY <1>1 DEF CallFails, Crash, Throw, Goto, Fault
    <2> QED
      BY <1>2, <2>1, FaultsGrow DEF SurelyCounted
  <1>8. CASE CountChunk(c)
    BY <1>8 DEF CountChunk, SurelyCounted
  <1>9. CASE DeadLetter(c)
    <2>1. position'[c] = position[c] + 1 /\ stage'[c] = "idle" /\ tries'[c] = 0
          /\ tries[c] = MAX_TRIES
      BY <1>1, <1>9 DEF DeadLetter, Advance, Goto, Shape, TriesLeft
    <2> QED
      BY <1>2, <1>9, <2>1, FaultsGrow DEF SurelyCounted
  <1> QED
    BY <1>3, <1>4, <1>5, <1>6, <1>7, <1>8, <1>9 DEF Process

LEMMA CountedGrows ==
    ASSUME Shape, [Next]_vars, ~(Counted' \subseteq Counted)
    PROVE  \E c \in Consumers :
               /\ Counted' \subseteq Counted \union {<<c, position[c] + 1>>}
               /\ CountChunk(c) \/ (DeadLetter(c) /\ faults >= MAX_TRIES)
  <1>1. ASSUME NEW r \in Counted', r \notin Counted
        PROVE  /\ r[1] \in Consumers /\ r = <<r[1], position[r[1]] + 1>>
               /\ CountChunk(r[1]) \/ (DeadLetter(r[1]) /\ faults >= MAX_TRIES)
    <2>1. r \in Consumers \X (Nat \ {0}) /\ SurelyCounted(r[1], r[2])'
      BY <1>1 DEF Counted
    <2>2. ~SurelyCounted(r[1], r[2])
      BY <1>1, <2>1 DEF Counted
    <2>3. r = <<r[1], r[2]>> /\ r[1] \in Consumers /\ r[2] \in Nat
      BY <2>1
    <2> QED
      BY <2>1, <2>2, <2>3, FirstCounted
  <1>2. PICK r \in Counted' : r \notin Counted
    OBVIOUS
  <1>3. ASSUME NEW q \in Counted', q \notin Counted
        PROVE  q[1] = r[1]
    <2>1. \/ position'[r[1]] = position[r[1]] /\ stage'[r[1]] # stage[r[1]]
          \/ position'[r[1]] # position[r[1]]
      BY <1>1, <1>2 DEF Shape, TypeOK, CountChunk, DeadLetter, Advance, Goto
    <2>2. CASE CountChunk(q[1])
      BY <1>1, <1>2, <1>3, <2>1, <2>2 DEF Shape, TypeOK, CountChunk, Goto
    <2>3. CASE DeadLetter(q[1])
      BY <1>1, <1>2, <1>3, <2>1, <2>3 DEF Shape, TypeOK, DeadLetter, Advance, Goto
    <2> QED
      BY <1>1, <1>3, <2>2, <2>3
  <1>4. Counted' \subseteq Counted \union {<<r[1], position[r[1]] + 1>>}
    BY <1>1, <1>2, <1>3
  <1> QED
    BY <1>1, <1>2, <1>4

LEMMA CountNext == Shape /\ CountIsEnough /\ [Next]_vars => CountIsEnough'
  <1> SUFFICES ASSUME Shape, CountIsEnough, [Next]_vars PROVE CountIsEnough'
    OBVIOUS
  <1>1. IsFiniteSet(Counted) /\ Cardinality(Counted) \in Nat
    BY FS_CardinalityType DEF CountIsEnough
  <1>2. count \in Nat /\ count' \in Nat
    BY ShapeNext DEF Shape, TypeOK
  <1>3. CASE Counted' \subseteq Counted
    <2>1. IsFiniteSet(Counted') /\ Cardinality(Counted') <= Cardinality(Counted)
      BY <1>1, <1>3, FS_Subset
    <2>2. Cardinality(Counted') \in Nat
      BY <2>1, FS_CardinalityType
    <2>3. ASSUME Undisturbed' PROVE count <= count'
      <3>1. ~Expire
        BY <2>3, FaultsGrow DEF Undisturbed, Open, Excused, Expire
      <3>2. ASSUME NEW c \in Consumers PROVE ~DeleteCount(c)
        BY <2>3 DEF Undisturbed, DeleteCount, Goto, Shape, TypeOK
      <3> QED
        BY <1>2, <3>1, <3>2 DEF Next, vars, redisVars, Process, StoreChunk, CountChunk,
           ReadChunk, MissingChunk, Mark, DeleteChunk, Commit, Acknowledge, DeadLetter,
           CallFails, Crash, Publish
    <2> QED
      BY <1>1, <1>2, <2>1, <2>2, <2>3, UndisturbedWas DEF CountIsEnough
  <1>4. CASE ~(Counted' \subseteq Counted)
    <2>1. PICK c \in Consumers :
              /\ Counted' \subseteq Counted \union {<<c, position[c] + 1>>}
              /\ CountChunk(c) \/ (DeadLetter(c) /\ faults >= MAX_TRIES)
      BY <1>4, CountedGrows
    <2>2. /\ IsFiniteSet(Counted \union {<<c, position[c] + 1>>})
          /\ Cardinality(Counted \union {<<c, position[c] + 1>>}) <= Cardinality(Counted) + 1
          /\ Cardinality(Counted \union {<<c, position[c] + 1>>}) \in Nat
      <3> DEFINE x == <<c, position[c] + 1>>
      <3>1. /\ IsFiniteSet(Counted \union {x})
            /\ Cardinality(Counted \union {x}) =
                   IF x \in Counted THEN Cardinality(Counted) ELSE Cardinality(Counted) + 1
        BY <1>1, FS_AddElement
      <3> HIDE DEF x
      <3>2. Cardinality(Counted \union {x}) <= Cardinality(Counted) + 1
        BY <1>1, <3>1
      <3>3. Cardinality(Counted \union {x}) \in Nat
        BY <3>1, FS_CardinalityType
      <3> QED
        BY <3>1, <3>2, <3>3 DEF x
    <2>3. /\ IsFiniteSet(Counted')
          /\ Cardinality(Counted') <= Cardinality(Counted \union {<<c, position[c] + 1>>})
      BY <2>1, <2>2, FS_Subset
    <2>4. Cardinality(Counted') \in Nat
      BY <2>3, FS_CardinalityType
    <2>5. Undisturbed' => count' = count + 1
      BY <2>1, FaultsGrow, SnapshotConstants
      DEF Undisturbed, Open, Excused, CountChunk
    <2> QED
      BY <1>1, <1>2, <2>2, <2>3, <2>4, <2>5, UndisturbedWas DEF CountIsEnough
  <1> QED
    BY <1>3, <1>4

(* A set of records with every chunk has at least as many records. *)
LEMMA EnoughRecords ==
    ASSUME NEW S, IsFiniteSet(S), NEW L,
           \A k \in Chunks : \E r \in S : L[r[1]][r[2]] = k
    PROVE  Cardinality(S) >= TOTAL
  <1>1. PICK f : f = [k \in Chunks |-> CHOOSE r \in S : L[r[1]][r[2]] = k]
    OBVIOUS
  <1>2. \A k \in Chunks : f[k] \in S /\ L[f[k][1]][f[k][2]] = k
    BY <1>1
  <1>3. f \in Injection(Chunks, S)
    <2>1. f \in [Chunks -> S]
      BY <1>1, <1>2
    <2>2. \A j, k \in Chunks : f[j] = f[k] => j = k
      BY <1>2
    <2> QED
      BY <2>1, <2>2 DEF Injection, IsInjective
  <1>4. Cardinality(Chunks) <= Cardinality(S)
    BY <1>3, FS_Injection
  <1>5. Cardinality(Chunks) = TOTAL
    <2>1. 0 \in Int /\ TOTAL - 1 \in Int /\ ~(0 > TOTAL - 1)
      BY SnapshotConstants
    <2>2. Cardinality(0..(TOTAL - 1)) = (TOTAL - 1) - 0 + 1
      BY <2>1, FS_Interval
    <2> QED
      BY <2>2, SnapshotConstants DEF Chunks
  <1>6. Cardinality(S) \in Nat
    BY FS_CardinalityType
  <1> QED
    BY <1>4, <1>5, <1>6, SnapshotConstants

LEMMA FullyCounted ==
    ASSUME Shape, StoredAreKept, CountIsEnough, Undisturbed, AllCounted
    PROVE  Chunks \subseteq chunks /\ count >= TOTAL
  <1>1. ASSUME NEW k \in Chunks PROVE k \in chunks
    <2>1. PICK r \in Counted : log[r[1]][r[2]] = k
      BY DEF AllCounted
    <2>2. r[1] \in Consumers /\ r[2] \in Nat \ {0} /\ SurelyCounted(r[1], r[2])
      BY <2>1 DEF Counted
    <2>3. tries[r[1]] \in Nat /\ faults \in Nat
      BY <2>2, SnapshotConstants DEF Shape, TypeOK
    <2>4. Stored(r[1], r[2])
      BY <2>2, <2>3 DEF SurelyCounted, Stored, Busy
    <2>5. r[2] \in 1..Len(log[r[1]])
      BY <2>2, <2>4 DEF Shape, TypeOK, WithinLog, Stored
    <2> QED
      BY <2>1, <2>2, <2>4, <2>5 DEF StoredAreKept
  <1>2. Cardinality(Counted) >= TOTAL
    BY EnoughRecords DEF AllCounted, CountIsEnough
  <1>3. Cardinality(Counted) \in Nat /\ count \in Nat
    BY FS_CardinalityType DEF CountIsEnough, Shape, TypeOK
  <1> QED
    BY <1>1, <1>2, <1>3, SnapshotConstants DEF CountIsEnough

(* Once everything is counted, a finishing consumer goes on until it has   *)
(* completed the snapshot: no chunk is missing, and each of its failures   *)
(* is a fault.                                                             *)
LEMMA FinishingGoesOn ==
    ASSUME Shape, StoredAreKept, CountIsEnough, [Next]_vars, Undisturbed, AllCounted, Open',
           NEW c \in Consumers, Finishing(c)
    PROVE  Finishing(c)'
  <1>1. /\ position \in [Consumers -> Nat] /\ tries \in [Consumers -> 0..MAX_TRIES]
        /\ stage \in [Consumers -> {"idle", "stored", "reading", "marked", "cleaning",
                                    "applied", "exhausted"}]
    BY DEF Shape, TypeOK
  <1>2. /\ position[c] \in Nat /\ tries[c] \in Nat
        /\ position[c] < Len(log[c]) /\ tries[c] <= faults
        /\ stage[c] \in {"idle", "stored", "reading", "marked"}
    BY <1>1, SnapshotConstants DEF Undisturbed, Finishing
  <1>3. /\ Chunks \subseteq chunks /\ count >= TOTAL
        /\ count \in Nat /\ faults' < MAX_TRIES
    BY FullyCounted, FaultsGrow, SnapshotConstants DEF Shape, TypeOK, Open, Excused
  <1>4. position[c] < Len(log'[c])
    BY <1>2, LogGrows
  <1>5. CASE ~(Process(c) \/ CallFails(c) \/ Crash(c))
    BY <1>2, <1>4, <1>5, OthersStay, FaultsGrow DEF Finishing
  <1>6. CASE StoreChunk(c) \/ CountChunk(c) \/ ReadChunk(c) \/ Mark(c) \/ DeleteCount(c)
    <2>1. /\ position' = position /\ tries' = tries
          /\ stage'[c] \in {"stored", "reading", "marked", "cleaning"}
      BY <1>1, <1>2, <1>3, <1>6, SnapshotConstants
      DEF StoreChunk, CountChunk, ReadChunk, Mark, DeleteCount, Goto
    <2> QED
      BY <1>2, <1>4, <2>1, FaultsGrow DEF Finishing
  <1>7. CASE CallFails(c)
    <2>1. /\ position' = position /\ faults' = faults + 1
          /\ tries'[c] = tries[c] + 1
          /\ stage'[c] = IF tries[c] + 1 < MAX_TRIES THEN "idle" ELSE "exhausted"
      BY <1>1, <1>7 DEF CallFails, Throw, Goto, Fault
    <2>2. tries[c] + 1 <= faults' /\ tries[c] + 1 < MAX_TRIES
      BY <1>2, <1>3, <2>1, FaultsGrow, SnapshotConstants
    <2> QED
      BY <1>2, <1>4, <2>1, <2>2 DEF Finishing
  <1>8. CASE Crash(c)
    <2>1. position' = position /\ tries'[c] = 0 /\ stage'[c] = "idle"
      BY <1>1, <1>8 DEF Crash, Goto
    <2> QED
      BY <1>2, <1>4, <2>1, FaultsGrow DEF Finishing
  <1>9. ~(DeleteChunk(c) \/ Commit(c) \/ Acknowledge(c) \/ MissingChunk(c) \/ DeadLetter(c))
    BY <1>2, <1>3 DEF DeleteChunk, Commit, Acknowledge, MissingChunk, DeadLetter
  <1> QED
    BY <1>5, <1>6, <1>7, <1>8, <1>9 DEF Process

(* Whoever counts the last record finds the counter full and reads on. *)
LEMMA LastCounterFinishes ==
    ASSUME Shape, CountIsEnough, CountIsEnough', [Next]_vars, Undisturbed', AllCounted',
           ~AllCounted
    PROVE  \E c \in Consumers : Finishing(c)'
  <1>1. PICK k \in Chunks : \A r \in Counted : log[r[1]][r[2]] # k
    BY DEF AllCounted
  <1>2. PICK r \in Counted' : log'[r[1]][r[2]] = k
    BY DEF AllCounted
  <1>3. r[1] \in Consumers /\ r[2] \in Nat \ {0} /\ SurelyCounted(r[1], r[2])'
    BY <1>2 DEF Counted
  <1>4. ~SurelyCounted(r[1], r[2])
    <2> SUFFICES ASSUME SurelyCounted(r[1], r[2]) PROVE FALSE
      OBVIOUS
    <2>1. r \in Counted
      BY <1>2, <1>3 DEF Counted
    <2>2. tries[r[1]] \in Nat /\ faults \in Nat
      BY <1>3, SnapshotConstants DEF Shape, TypeOK
    <2>3. r[2] \in 1..Len(log[r[1]])
      BY <1>3, <2>2 DEF Shape, TypeOK, WithinLog, Busy, SurelyCounted
    <2> QED
      BY <1>1, <1>2, <1>3, <2>1, <2>3, LogGrows
  <1>5. PICK c \in Consumers : c = r[1]
    BY <1>3
  <1>6. CountChunk(c)
    BY <1>3, <1>4, <1>5, FirstCounted, FaultsGrow, SnapshotConstants
    DEF Undisturbed, Open, Excused
  <1>7. tries[c] <= faults /\ tries[c] \in Nat
    <2>1. tries[c] \in Nat /\ faults \in Nat
      BY SnapshotConstants DEF Shape, TypeOK
    <2>2. r[2] = position[c] + 1
      BY <1>3, <1>4, <1>5, FirstCounted
    <2> QED
      BY <1>4, <1>5, <2>1, <2>2 DEF SurelyCounted
  <1>8. count + 1 >= TOTAL
    <2>1. count' = count + 1
      BY <1>6 DEF CountChunk
    <2>2. IsFiniteSet(Counted') /\ Cardinality(Counted') <= count'
      BY DEF CountIsEnough
    <2>3. Cardinality(Counted') >= TOTAL
      BY <2>2, EnoughRecords DEF AllCounted
    <2>4. Cardinality(Counted') \in Nat /\ count \in Nat
      BY <2>2, FS_CardinalityType DEF Shape, TypeOK
    <2> QED
      BY <2>1, <2>2, <2>3, <2>4, SnapshotConstants
  <1>9. /\ stage'[c] = "reading" /\ position' = position /\ tries' = tries
        /\ faults' = faults /\ log' = log /\ position[c] < Len(log[c])
    BY <1>6, <1>8 DEF CountChunk, Goto, faultVars, Shape, TypeOK, WithinLog, Busy
  <1> QED
    BY <1>7, <1>9 DEF Finishing

LEMMA AccountedNext == Shape /\ Accounted /\ [Next]_vars => Accounted'
  <1> SUFFICES ASSUME Shape, Accounted, [Next]_vars, Open', AllCounted'
               PROVE  \E c \in Consumers : Finishing(c)'
    BY StoredNext, CountNext DEF Accounted, SomeoneFinishes
  <1>1. CASE \E c \in Consumers : stage'[c] = "cleaning"
    BY <1>1 DEF Finishing
  <1>2. CASE Undisturbed' /\ AllCounted
    <2>1. PICK c \in Consumers : Finishing(c)
      BY <1>2, OpenWasOpen DEF Accounted, SomeoneFinishes
    <2> QED
      BY <1>2, <2>1, FinishingGoesOn, UndisturbedWas DEF Accounted
  <1>3. CASE Undisturbed' /\ ~AllCounted
    BY <1>3, LastCounterFinishes, CountNext DEF Accounted
  <1> QED
    BY <1>1, <1>2, <1>3 DEF Undisturbed

LEMMA AccountedInit == Init => Accounted
  <1> SUFFICES ASSUME Init PROVE Accounted
    OBVIOUS
  <1>1. \A c \in Consumers : /\ Len(log[c]) = 0 /\ position[c] = 0 /\ stage[c] = "idle"
                            /\ tries[c] = 0 /\ faults = 0
    BY DEF Init
  <1>2. Counted = {}
    BY <1>1 DEF Counted, SurelyCounted
  <1>3. StoredAreKept
    BY <1>1 DEF StoredAreKept
  <1>4. CountIsEnough
    BY <1>2, FS_EmptySet DEF CountIsEnough, Init
  <1>5. ~AllCounted
    <2>1. 0 \in Chunks
      BY SnapshotConstants DEF Chunks
    <2> QED
      BY <1>2, <2>1 DEF AllCounted
  <1> QED
    BY <1>3, <1>4, <1>5 DEF Accounted, SomeoneFinishes

LEMMA AccountedIsComplete == Shape /\ Accounted => WholeIsComplete
  <1> SUFFICES ASSUME Shape, Accounted, AllPublished, AllPassed, Open PROVE FALSE
    BY DEF WholeIsComplete, Open
  <1>1. \A c \in Consumers : /\ Len(log[c]) \in Nat /\ position[c] = Len(log[c])
                            /\ stage[c] = "idle"
    <2> SUFFICES ASSUME NEW c \in Consumers
                 PROVE  Len(log[c]) \in Nat /\ position[c] = Len(log[c]) /\ stage[c] = "idle"
      OBVIOUS
    <2>1. Len(log[c]) \in Nat /\ position[c] = Len(log[c])
      BY DEF AllPassed, Shape, TypeOK
    <2>2. ~(position[c] < Len(log[c]))
      BY <2>1
    <2> QED
      BY <2>1, <2>2 DEF Shape, WithinLog, Busy
  <1>2. \A c \in Consumers : ~Finishing(c)
    <2> SUFFICES ASSUME NEW c \in Consumers PROVE ~Finishing(c)
      OBVIOUS
    <2>1. stage[c] = "idle" /\ ~(position[c] < Len(log[c]))
      BY <1>1
    <2> QED
      BY <2>1 DEF Finishing
  <1>3. AllCounted
    <2> SUFFICES ASSUME NEW k \in Chunks
                 PROVE  \E r \in Counted : log[r[1]][r[2]] = k
      BY DEF AllCounted
    <2>1. PICK c \in Consumers : \E n \in DOMAIN log[c] : log[c][n] = k
      BY DEF AllPublished, Published
    <2>2. PICK n \in DOMAIN log[c] : log[c][n] = k
      BY <2>1
    <2>3. n \in 1..Len(log[c])
      BY <2>2 DEF Shape, TypeOK
    <2>4. <<c, n>> \in Counted
      BY <1>1, <2>3 DEF Counted, SurelyCounted
    <2> QED
      BY <2>2, <2>4
  <1> QED
    BY <1>2, <1>3 DEF Accounted, SomeoneFinishes

(* A snapshot received whole and passed is complete, unless a key expired, *)
(* a cleanup was rolled back or a record's tries may all have been faults, *)
(* although the counter counts duplicates and the records are stored,      *)
(* counted and read without a lock.                                        *)
THEOREM WholeSnapshotsComplete == Spec => []WholeIsComplete
  BY AccountedInit, AccountedNext, AccountedIsComplete, ShapeInvariant, PTL DEF Spec
=============================================================================
