------------------------- MODULE ProjectionsProofs -------------------------
(***************************************************************************)
(* Proofs about Projections, for any number of consumers, partitions,      *)
(* events and rows, any limit of tries and any number of disruptions.      *)
(***************************************************************************)
EXTENDS Projections, TLAPS

(* Whoever appends, and however long the topics get: what follows does not *)
(* depend on the bound MaxLog, so that it also holds of the consumers when *)
(* the relay feeds them.                                                   *)
Extend(e) ==
    /\ log' = [log EXCEPT ![PartitionOf[e]] = Append(@, e)]
    /\ UNCHANGED <<groupVars, consumerVars, projection, dlt, disruptions>>

Evolve == Consume \/ \E e \in Events : Extend(e)

LEMMA NextEvolves == [Next]_vars => [Evolve]_vars
  BY DEF Next, Evolve, Publish, Extend

(* What a step may do to the log: it appends one event to its partition,   *)
(* and the records that were there stay where they are.                    *)
LEMMA AppendKeeps ==
    ASSUME TypeOK, NEW e \in Events, log' = [log EXCEPT ![PartitionOf[e]] = Append(@, e)]
    PROVE  /\ log' \in [Partitions -> Seq(Events)]
           /\ PartitionOf[e] \in Partitions
           /\ Len(log'[PartitionOf[e]]) = Len(log[PartitionOf[e]]) + 1
           /\ log'[PartitionOf[e]][Len(log[PartitionOf[e]]) + 1] = e
           /\ \A n \in 1..Len(log[PartitionOf[e]]) :
                  log'[PartitionOf[e]][n] = log[PartitionOf[e]][n]
           /\ \A q \in Partitions \ {PartitionOf[e]} : log'[q] = log[q]
  <1> DEFINE p == PartitionOf[e]
  <1>1. p \in Partitions /\ log \in [Partitions -> Seq(Events)]
    BY ProjectionConstants DEF TypeOK
  <1>2. log[p] \in Seq(Events)
    BY <1>1
  <1>3. /\ Append(log[p], e) \in Seq(Events)
        /\ Len(Append(log[p], e)) = Len(log[p]) + 1
        /\ \A n \in 1..Len(log[p]) : Append(log[p], e)[n] = log[p][n]
        /\ Append(log[p], e)[Len(log[p]) + 1] = e
    BY <1>2
  <1>4. log'[p] = Append(log[p], e) /\ \A q \in Partitions \ {p} : log'[q] = log[q]
    BY <1>1
  <1>5. log' \in [Partitions -> Seq(Events)]
    BY <1>1, <1>3
  <1> QED
    BY <1>1, <1>3, <1>4, <1>5

-----------------------------------------------------------------------------
(* Types and shape. *)

Busy(c) == stage[c] # "idle"

(* A consumer that may still fail has a try left. *)
TriesLeft ==
    \A c \in Consumers : stage[c] \in {"delivered", "applied"} => tries[c] < MAX_TRIES

(* Nobody is ahead of the log, and the record a consumer holds is in it.   *)
WithinLog ==
    /\ \A q \in Partitions : position[q] <= Len(log[q]) /\ committed[q] <= Len(log[q])
    /\ \A c \in Consumers : Busy(c) => hand[c].offset \in 1..Len(log[hand[c].partition])

Shape == TypeOK /\ TriesLeft /\ WithinLog

LEMMA NoRecordType == NoRecord \in Records
  BY ProjectionConstants DEF NoRecord, Records

LEMMA RecordFields ==
    ASSUME TypeOK, NEW c \in Consumers
    PROVE  hand[c].partition \in Partitions /\ hand[c].offset \in Nat \ {0}
  BY DEF TypeOK, Records

LEMMA ShapeInit == Init => Shape
  BY NoRecordType, ProjectionConstants
  DEF Init, Shape, TypeOK, TriesLeft, WithinLog, Busy

(* Release: the consumer is idle and keeps no tries; the others are as     *)
(* they were.                                                              *)
LEMMA ReleaseKeepsShape ==
    ASSUME Shape, NEW c \in Consumers, Release(c), UNCHANGED log,
           position' \in [Partitions -> Nat], committed' \in [Partitions -> Nat],
           \A q \in Partitions : position'[q] <= Len(log[q]) /\ committed'[q] <= Len(log[q]),
           owner' \in [Partitions -> Consumers],
           projection' \in [Entities -> Events \union {NoEvent}],
           dlt' \subseteq Records, disruptions' \in 0..MaxDisruptions
    PROVE  Shape'
  <1>1. TypeOK'
    BY NoRecordType, ProjectionConstants DEF Shape, TypeOK, Release
  <1>2. ASSUME NEW d \in Consumers, d # c
        PROVE  stage'[d] = stage[d] /\ tries'[d] = tries[d] /\ hand'[d] = hand[d]
    BY <1>2 DEF Shape, TypeOK, Release
  <1>3. stage'[c] = "idle"
    BY DEF Shape, TypeOK, Release
  <1>4. TriesLeft'
    BY <1>2, <1>3 DEF Shape, TriesLeft
  <1>5. WithinLog'
    BY <1>2, <1>3 DEF Shape, WithinLog, Busy
  <1> QED
    BY <1>1, <1>4, <1>5 DEF Shape

LEMMA ShapeExtend ==
    ASSUME Shape, NEW e \in Events, Extend(e)
    PROVE  Shape'
  <1>1. /\ log' \in [Partitions -> Seq(Events)]
        /\ \A q \in Partitions : Len(log'[q]) \in Nat /\ Len(log'[q]) >= Len(log[q])
    <2>1. log' \in [Partitions -> Seq(Events)]
      BY AppendKeeps DEF Shape, Extend
    <2>2. ASSUME NEW q \in Partitions
          PROVE  Len(log'[q]) \in Nat /\ Len(log'[q]) >= Len(log[q])
      <3>1. Len(log[q]) \in Nat /\ Len(log'[q]) \in Nat
        BY <2>1 DEF Shape, TypeOK
      <3>2. Len(log'[q]) = Len(log[q]) \/ Len(log'[q]) = Len(log[q]) + 1
        BY AppendKeeps DEF Shape, Extend
      <3> QED
        BY <3>1, <3>2
    <2> QED
      BY <2>1, <2>2
  <1>2. TypeOK' /\ TriesLeft'
    BY <1>1 DEF Shape, TypeOK, TriesLeft, Extend, groupVars, consumerVars
  <1>3. WithinLog'
    <2>1. ASSUME NEW q \in Partitions
          PROVE  position'[q] <= Len(log'[q]) /\ committed'[q] <= Len(log'[q])
      <3>1. /\ position[q] \in Nat /\ committed[q] \in Nat /\ Len(log[q]) \in Nat
            /\ position[q] <= Len(log[q]) /\ committed[q] <= Len(log[q])
        BY DEF Shape, TypeOK, WithinLog
      <3>2. position'[q] = position[q] /\ committed'[q] = committed[q]
        BY DEF Extend, groupVars
      <3>3. Len(log'[q]) \in Nat /\ Len(log'[q]) >= Len(log[q])
        BY <1>1
      <3> QED
        BY <3>1, <3>2, <3>3
    <2>2. ASSUME NEW c \in Consumers, Busy(c)'
          PROVE  hand'[c].offset \in 1..Len(log'[hand'[c].partition])
      <3>1. hand'[c] = hand[c] /\ Busy(c)
        BY <2>2 DEF Extend, consumerVars, Busy
      <3>2. hand[c].partition \in Partitions /\ hand[c].offset \in 1..Len(log[hand[c].partition])
        BY <3>1, RecordFields DEF Shape, WithinLog
      <3>3. Len(log[hand[c].partition]) \in Nat
        BY <3>2 DEF Shape, TypeOK
      <3> QED
        BY <1>1, <3>1, <3>2, <3>3
    <2> QED
      BY <2>1, <2>2 DEF WithinLog
  <1> QED
    BY <1>2, <1>3 DEF Shape

LEMMA ShapeDeliver ==
    ASSUME Shape, NEW c \in Consumers, NEW q \in Partitions, Deliver(c, q)
    PROVE  Shape'
  <1>1. position[q] \in Nat /\ Len(log[q]) \in Nat /\ position[q] < Len(log[q])
    BY DEF Deliver, Shape, TypeOK
  <1>2. [partition |-> q, offset |-> position[q] + 1] \in Records
    BY <1>1 DEF Records
  <1>3. TypeOK'
    <2>1. hand' \in [Consumers -> Records]
      BY <1>2 DEF Shape, TypeOK, Deliver
    <2>2. stage' \in [Consumers -> {"idle", "delivered", "applied", "exhausted"}]
      BY DEF Shape, TypeOK, Deliver
    <2>3. tries' \in [Consumers -> 0..MAX_TRIES]
      BY ProjectionConstants DEF Shape, TypeOK, Deliver
    <2>4. UNCHANGED <<log, owner, position, committed, projection, dlt, disruptions>>
      BY DEF Deliver, groupVars
    <2> QED
      BY <2>1, <2>2, <2>3, <2>4 DEF Shape, TypeOK
  <1>4. TriesLeft'
    BY ProjectionConstants DEF Shape, TypeOK, TriesLeft, Deliver
  <1>5. hand'[c].partition = q /\ hand'[c].offset \in 1..Len(log[q])
    BY <1>1 DEF Deliver, Shape, TypeOK
  <1>6. ASSUME NEW d \in Consumers, d # c PROVE hand'[d] = hand[d] /\ stage'[d] = stage[d]
    BY <1>6 DEF Deliver, Shape, TypeOK
  <1>7. UNCHANGED <<log, position, committed>>
    BY DEF Deliver, groupVars
  <1>8. ASSUME NEW d \in Consumers, Busy(d)'
        PROVE  hand'[d].offset \in 1..Len(log'[hand'[d].partition])
    <2>1. CASE d = c
      BY <1>5, <1>7, <2>1
    <2>2. CASE d # c
      BY <1>6, <1>7, <1>8, <2>2 DEF Shape, WithinLog, Busy
    <2> QED
      BY <2>1, <2>2
  <1>9. WithinLog'
    BY <1>7, <1>8 DEF Shape, WithinLog
  <1> QED
    BY <1>3, <1>4, <1>9 DEF Shape

LEMMA UpsertType ==
    ASSUME Shape, NEW e \in Events, Upsert(e)
    PROVE  projection' \in [Entities -> Events \union {NoEvent}]
  BY DEF Shape, TypeOK, Upsert

LEMMA EventAtType ==
    ASSUME Shape, NEW c \in Consumers, Busy(c)
    PROVE  EventAt(hand[c]) \in Events
  <1>1. hand[c].partition \in Partitions /\ hand[c].offset \in 1..Len(log[hand[c].partition])
    BY RecordFields DEF Shape, WithinLog
  <1>2. log[hand[c].partition] \in Seq(Events)
    BY <1>1 DEF Shape, TypeOK
  <1> QED
    BY <1>1, <1>2 DEF EventAt

LEMMA ShapeApply ==
    ASSUME Shape, NEW c \in Consumers, Apply(c)
    PROVE  Shape'
  <1>1. projection' \in [Entities -> Events \union {NoEvent}]
    BY EventAtType, UpsertType DEF Apply, Busy
  <1>2. TypeOK'
    BY <1>1 DEF Shape, TypeOK, Apply, groupVars
  <1>3. TriesLeft'
    BY DEF Shape, TypeOK, TriesLeft, Apply
  <1>4. WithinLog'
    BY DEF Shape, TypeOK, WithinLog, Busy, Apply, groupVars
  <1> QED
    BY <1>2, <1>3, <1>4 DEF Shape

(* Fail and DeadLetterFails, which hold on to the record. *)
LEMMA ShapeRetry ==
    ASSUME Shape, NEW c \in Consumers, Fail(c) \/ DeadLetterFails(c)
    PROVE  Shape'
  <1>1. CASE Fail(c)
    <2>1. tries[c] \in Nat /\ tries[c] + 1 \in 0..MAX_TRIES
      BY <1>1, ProjectionConstants DEF Fail, Shape, TypeOK, TriesLeft
    <2>2. TypeOK'
      BY <1>1, <2>1 DEF Shape, TypeOK, Fail, groupVars
    <2>3. TriesLeft'
      BY <1>1, <2>1, ProjectionConstants DEF Shape, TypeOK, TriesLeft, Fail
    <2>4. WithinLog'
      BY <1>1 DEF Shape, TypeOK, WithinLog, Busy, Fail, groupVars
    <2> QED
      BY <2>2, <2>3, <2>4 DEF Shape
  <1>2. CASE DeadLetterFails(c)
    <2>1. TypeOK'
      BY <1>2, ProjectionConstants DEF Shape, TypeOK, DeadLetterFails, Disrupt, groupVars
    <2>2. TriesLeft'
      BY <1>2, ProjectionConstants DEF Shape, TypeOK, TriesLeft, DeadLetterFails
    <2>3. WithinLog'
      BY <1>2 DEF Shape, TypeOK, WithinLog, Busy, DeadLetterFails, groupVars
    <2> QED
      BY <2>1, <2>2, <2>3 DEF Shape
  <1> QED
    BY <1>1, <1>2

(* Acknowledge, DeadLetter, LosePartition and Crash, which release it. *)
LEMMA ShapeSettle ==
    ASSUME Shape, NEW c \in Consumers,
           Acknowledge(c) \/ DeadLetter(c) \/ LosePartition(c) \/ Crash(c)
    PROVE  Shape'
  <1> DEFINE p == hand[c].partition
  <1>1. /\ p \in Partitions /\ hand[c] \in Records /\ hand[c].offset \in Nat
        /\ Busy(c) => hand[c].offset <= Len(log[p])
    BY RecordFields DEF Shape, TypeOK, WithinLog
  <1>2. CASE Acknowledge(c)
    <2>1. Busy(c)
      BY <1>2 DEF Acknowledge, Busy
    <2>2. /\ position' \in [Partitions -> Nat] /\ committed' \in [Partitions -> Nat]
          /\ \A q \in Partitions : position'[q] <= Len(log[q]) /\ committed'[q] <= Len(log[q])
      BY <1>1, <1>2, <2>1 DEF Acknowledge, Pass, Shape, TypeOK, WithinLog
    <2> QED
      BY <1>2, <2>2, ReleaseKeepsShape DEF Acknowledge, Shape, TypeOK
  <1>3. CASE DeadLetter(c)
    <2>1. Busy(c)
      BY <1>3 DEF DeadLetter, Busy
    <2>2. /\ position' \in [Partitions -> Nat] /\ committed' \in [Partitions -> Nat]
          /\ \A q \in Partitions : position'[q] <= Len(log[q]) /\ committed'[q] <= Len(log[q])
      BY <1>1, <1>3, <2>1 DEF DeadLetter, Pass, Shape, TypeOK, WithinLog
    <2>3. dlt' \subseteq Records
      BY <1>1, <1>3 DEF DeadLetter, Shape, TypeOK
    <2> QED
      BY <1>3, <2>2, <2>3, ReleaseKeepsShape DEF DeadLetter, Shape, TypeOK
  <1>4. CASE LosePartition(c)
    BY <1>4, ReleaseKeepsShape DEF LosePartition, groupVars, Shape, TypeOK, WithinLog
  <1>5. CASE Crash(c)
    <2>1. disruptions' \in 0..MaxDisruptions
      BY <1>5, ProjectionConstants DEF Crash, Disrupt, Shape, TypeOK
    <2>2. /\ position' \in [Partitions -> Nat]
          /\ \A q \in Partitions : position'[q] <= Len(log[q])
      BY <1>5 DEF Crash, Shape, TypeOK, WithinLog
    <2> QED
      BY <1>5, <2>1, <2>2, ReleaseKeepsShape DEF Crash, Shape, TypeOK, WithinLog
  <1> QED
    BY <1>2, <1>3, <1>4, <1>5

LEMMA ShapeRebalance ==
    ASSUME Shape, NEW c \in Consumers, NEW q \in Partitions, Rebalance(c, q)
    PROVE  Shape'
  <1>1. disruptions' \in 0..MaxDisruptions
    BY ProjectionConstants DEF Rebalance, Disrupt, Shape, TypeOK
  <1>2. TypeOK' /\ TriesLeft'
    BY <1>1 DEF Rebalance, Shape, TypeOK, TriesLeft, consumerVars
  <1>3. WithinLog'
    BY DEF Rebalance, Shape, TypeOK, WithinLog, Busy, consumerVars
  <1> QED
    BY <1>2, <1>3 DEF Shape

LEMMA ShapeNext == Shape /\ [Evolve]_vars => Shape'
  <1> SUFFICES ASSUME Shape, [Evolve]_vars PROVE Shape'
    OBVIOUS
  <1>1. CASE UNCHANGED vars
    BY <1>1 DEF vars, groupVars, consumerVars, Shape, TypeOK, TriesLeft, WithinLog, Busy
  <1>2. ASSUME NEW e \in Events, Extend(e) PROVE Shape'
    BY <1>2, ShapeExtend
  <1>3. ASSUME NEW c \in Consumers, Process(c) PROVE Shape'
    BY <1>3, ShapeDeliver, ShapeApply, ShapeRetry, ShapeSettle DEF Process
  <1>4. ASSUME NEW c \in Consumers, Disruption(c) PROVE Shape'
    BY <1>4, ShapeRetry, ShapeSettle, ShapeRebalance DEF Disruption
  <1> QED
    BY <1>1, <1>2, <1>3, <1>4 DEF Evolve, Consume

(* The types hold, tries are left to whoever holds a record, and no offset *)
(* is ahead of the log.                                                    *)
THEOREM ShapeInvariant == Spec => []Shape
  BY ShapeInit, ShapeNext, NextEvolves, PTL DEF Spec

(* The consumers, their offsets and the projection rows keep their types;  *)
(* in particular no record is tried more than MAX_TRIES times in a row.    *)
THEOREM TypeCorrect == Spec => []TypeOK
  BY ShapeInvariant, PTL DEF Shape

-----------------------------------------------------------------------------
(* What is handled stays handled. *)

LEMMA LogChange ==
    ASSUME [Evolve]_vars, log' # log
    PROVE  \E e \in Events : Extend(e)
  BY DEF Evolve, vars, Consume, Process, Disruption, Deliver, Apply, Acknowledge, Fail,
         LosePartition, DeadLetter, DeadLetterFails, Rebalance, Crash

LEMMA ProjectionChange ==
    ASSUME [Evolve]_vars, projection' # projection
    PROVE  \E c \in Consumers : Apply(c)
  BY DEF Evolve, vars, Consume, Process, Disruption, Deliver, Acknowledge, Fail,
         LosePartition, DeadLetter, DeadLetterFails, Rebalance, Crash, Extend

LEMMA DltGrows == [Evolve]_vars => dlt \subseteq dlt'
  BY DEF Evolve, vars, Consume, Process, Disruption, Deliver, Apply, Acknowledge, Fail,
         LosePartition, DeadLetter, DeadLetterFails, Rebalance, Crash, Extend

LEMMA LogGrows ==
    ASSUME Shape, [Evolve]_vars, NEW q \in Partitions, NEW n \in 1..Len(log[q])
    PROVE  log'[q][n] = log[q][n] /\ n \in 1..Len(log'[q])
  <1>1. CASE log' = log
    BY <1>1
  <1>2. CASE log' # log
    <2>1. PICK e \in Events : Extend(e)
      BY <1>2, LogChange
    <2>2. CASE q # PartitionOf[e]
      <3>1. log'[q] = log[q]
        BY <2>1, <2>2, AppendKeeps DEF Shape, Extend
      <3> QED
        BY <3>1
    <2>3. CASE q = PartitionOf[e]
      <3>1. Len(log'[q]) = Len(log[q]) + 1 /\ log'[q][n] = log[q][n]
        BY <2>1, <2>3, AppendKeeps DEF Shape, Extend
      <3>2. Len(log[q]) \in Nat
        BY DEF Shape, TypeOK
      <3> QED
        BY <3>1, <3>2
    <2> QED
      BY <2>2, <2>3
  <1> QED
    BY <1>1, <1>2

(* The version guard: a row is only ever replaced by a newer version.      *)
LEMMA UpsertAdvances ==
    ASSUME Shape, NEW e \in Events, Upsert(e)
    PROVE  \/ /\ projection' = projection
              /\ EntityOf[e] \in Entities =>
                     /\ projection[EntityOf[e]] # NoEvent
                     /\ Version[projection[EntityOf[e]]] >= Version[e]
           \/ /\ EntityOf[e] \in Entities
              /\ projection' = [projection EXCEPT ![EntityOf[e]] = e]
              /\ \/ projection[EntityOf[e]] = NoEvent
                 \/ Version[projection[EntityOf[e]]] < Version[e]
  <1> DEFINE k == EntityOf[e]
             stale == projection[k] # NoEvent /\ Version[projection[k]] >= Version[e]
  <1>1. projection' = IF k \notin Entities \/ stale THEN projection
                      ELSE [projection EXCEPT ![k] = e]
    BY DEF Upsert
  <1>2. CASE k \notin Entities \/ stale
    BY <1>1, <1>2
  <1>3. CASE k \in Entities /\ ~stale
    <2>1. projection[k] # NoEvent => Version[projection[k]] \in Nat /\ Version[e] \in Nat
      BY <1>3, ProjectionConstants DEF Shape, TypeOK
    <2>2. projection[k] = NoEvent \/ Version[projection[k]] < Version[e]
      BY <1>3, <2>1
    <2> QED
      BY <1>1, <1>3, <2>2
  <1> QED
    BY <1>2, <1>3

LEMMA VersionsGrow ==
    ASSUME Shape, [Evolve]_vars, NEW k \in Entities, projection[k] # NoEvent
    PROVE  /\ projection'[k] # NoEvent
           /\ Version[projection[k]] \in Nat /\ Version[projection'[k]] \in Nat
           /\ Version[projection'[k]] >= Version[projection[k]]
  <1>1. Version[projection[k]] \in Nat
    BY ProjectionConstants DEF Shape, TypeOK
  <1>2. CASE projection' = projection
    BY <1>1, <1>2
  <1>3. CASE projection' # projection
    <2>1. PICK c \in Consumers : Apply(c)
      BY <1>3, ProjectionChange
    <2> DEFINE e == EventAt(hand[c])
    <2>2. e \in Events /\ Upsert(e)
      BY <2>1, EventAtType DEF Apply, Busy
    <2> HIDE DEF e
    <2>3. /\ EntityOf[e] \in Entities
          /\ projection' = [projection EXCEPT ![EntityOf[e]] = e]
          /\ \/ projection[EntityOf[e]] = NoEvent
             \/ Version[projection[EntityOf[e]]] < Version[e]
      BY <1>3, <2>2, UpsertAdvances
    <2>4. CASE k = EntityOf[e]
      <3>1. projection'[k] = e /\ Version[projection[k]] < Version[e]
        BY <2>3, <2>4 DEF Shape, TypeOK
      <3>2. e # NoEvent /\ Version[e] \in Nat
        BY <2>2, ProjectionConstants
      <3> QED
        BY <1>1, <3>1, <3>2
    <2>5. CASE k # EntityOf[e]
      <3>1. projection'[k] = projection[k]
        BY <2>3, <2>5 DEF Shape, TypeOK
      <3> QED
        BY <1>1, <3>1
    <2> QED
      BY <2>4, <2>5
  <1> QED
    BY <1>2, <1>3

LEMMA ReflectedStays ==
    ASSUME Shape, [Evolve]_vars, NEW e \in Events, Reflected(e)
    PROVE  Reflected(e)'
  <1> DEFINE k == EntityOf[e]
  <1> SUFFICES ASSUME k \in Entities
               PROVE  projection'[k] # NoEvent /\ Version[projection'[k]] >= Version[e]
    BY DEF Reflected
  <1>1. projection[k] # NoEvent /\ Version[projection[k]] >= Version[e]
    BY DEF Reflected
  <1>2. Version[e] \in Nat
    BY ProjectionConstants
  <1>3. /\ projection'[k] # NoEvent
        /\ Version[projection[k]] \in Nat /\ Version[projection'[k]] \in Nat
        /\ Version[projection'[k]] >= Version[projection[k]]
    BY <1>1, VersionsGrow
  <1> QED
    BY <1>1, <1>2, <1>3

LEMMA HandledStays ==
    ASSUME Shape, [Evolve]_vars, NEW q \in Partitions, NEW n \in 1..Len(log[q]), Handled(q, n)
    PROVE  Handled(q, n)'
  <1>1. log'[q][n] = log[q][n]
    BY LogGrows
  <1>2. log[q][n] \in Events
    BY DEF Shape, TypeOK
  <1>3. CASE Reflected(log[q][n])
    <2>1. Reflected(log[q][n])'
      <3> DEFINE e == log[q][n]
      <3>1. e \in Events /\ Reflected(e)
        BY <1>2, <1>3
      <3>2. \A f \in Events : Reflected(f) => Reflected(f)'
        BY ReflectedStays
      <3>3. EntityOf[e] \in Entities =>
               projection'[EntityOf[e]] # NoEvent
               /\ Version[projection'[EntityOf[e]]] >= Version[e]
        BY <3>1, <3>2 DEF Reflected
      <3> QED
        BY <1>1, <3>3 DEF Reflected
    <2> QED
      BY <2>1 DEF Handled
  <1>4. CASE [partition |-> q, offset |-> n] \in dlt
    BY <1>4, DltGrows DEF Handled
  <1> QED
    BY <1>3, <1>4 DEF Handled

-----------------------------------------------------------------------------
(* No record is lost. *)

(* The owner of a partition holds the record it will pass next.            *)
NextInLine ==
    \A c \in Consumers :
        Busy(c) /\ Owns(c) => hand[c].offset = position[hand[c].partition] + 1

AppliedIsHandled ==
    \A c \in Consumers :
        stage[c] = "applied" => Handled(hand[c].partition, hand[c].offset)

Safe == Shape /\ NextInLine /\ AppliedIsHandled /\ PassedIsHandled

LEMMA SafeInit == Init => Safe
  <1> SUFFICES ASSUME Init PROVE Safe
    OBVIOUS
  <1>1. NextInLine /\ AppliedIsHandled
    BY DEF Init, NextInLine, AppliedIsHandled, Busy
  <1>2. PassedIsHandled
    <2>1. \A q \in Partitions : log[q] = <<>>
      BY DEF Init
    <2> QED
      BY <2>1 DEF PassedIsHandled
  <1> QED
    BY <1>1, <1>2, ShapeInit DEF Safe

LEMMA InLineNext ==
    ASSUME Shape, NextInLine, [Evolve]_vars
    PROVE  NextInLine'
  <1> USE DEF Shape, TypeOK, NextInLine, Busy, Owns
  <1>1. CASE UNCHANGED vars
    BY <1>1 DEF vars, groupVars, consumerVars
  <1>2. ASSUME NEW e \in Events, Extend(e) PROVE NextInLine'
    BY <1>2 DEF Extend, groupVars, consumerVars
  <1>3. ASSUME NEW c \in Consumers, NEW q \in Partitions, Deliver(c, q) PROVE NextInLine'
    BY <1>3 DEF Deliver, groupVars
  <1>4. ASSUME NEW c \in Consumers, Apply(c) \/ Fail(c) \/ DeadLetterFails(c)
        PROVE  NextInLine'
    BY <1>4 DEF Apply, Fail, DeadLetterFails, groupVars
  <1>5. ASSUME NEW c \in Consumers, Acknowledge(c) \/ DeadLetter(c) PROVE NextInLine'
    <2>1. /\ Owns(c) /\ owner' = owner /\ Release(c)
          /\ position' = [position EXCEPT ![hand[c].partition] = hand[c].offset]
      BY <1>5 DEF Acknowledge, DeadLetter, Pass
    <2>2. ASSUME NEW d \in Consumers, Busy(d)', Owns(d)'
          PROVE  hand'[d].offset = position'[hand'[d].partition] + 1
      <3>1. d # c /\ hand'[d] = hand[d] /\ Busy(d) /\ Owns(d)
        BY <2>1, <2>2 DEF Release
      <3>2. hand[d].partition # hand[c].partition
        BY <2>1, <3>1
      <3>3. position'[hand[d].partition] = position[hand[d].partition]
        BY <2>1, <3>1, <3>2, RecordFields
      <3> QED
        BY <3>1, <3>3
    <2> QED
      BY <2>2
  <1>6. ASSUME NEW c \in Consumers, LosePartition(c) PROVE NextInLine'
    BY <1>6 DEF LosePartition, Release, groupVars
  <1>7. ASSUME NEW c \in Consumers, NEW q \in Partitions, Rebalance(c, q) PROVE NextInLine'
    <2>1. ASSUME NEW d \in Consumers, Busy(d)', Owns(d)'
          PROVE  hand'[d].offset = position'[hand'[d].partition] + 1
      <3>1. hand'[d] = hand[d] /\ Busy(d) /\ d # c /\ hand[d].partition \in Partitions
        BY <1>7, <2>1, RecordFields DEF Rebalance, consumerVars
      <3>2. hand[d].partition # q /\ Owns(d)
        BY <1>7, <2>1, <3>1 DEF Rebalance
      <3>3. position'[hand[d].partition] = position[hand[d].partition]
        BY <1>7, <3>1, <3>2 DEF Rebalance
      <3> QED
        BY <3>1, <3>2, <3>3
    <2> QED
      BY <2>1
  <1>8. ASSUME NEW c \in Consumers, Crash(c) PROVE NextInLine'
    BY <1>8, RecordFields DEF Crash, Release
  <1> QED
    BY <1>1, <1>2, <1>3, <1>4, <1>5, <1>6, <1>7, <1>8 DEF Evolve, Consume, Process, Disruption

LEMMA AppliedNext ==
    ASSUME Shape, AppliedIsHandled, [Evolve]_vars
    PROVE  AppliedIsHandled'
  <1> SUFFICES ASSUME NEW d \in Consumers, stage'[d] = "applied",
                      NEW q, q = hand'[d].partition, NEW n, n = hand'[d].offset
               PROVE  Handled(q, n)'
    BY DEF AppliedIsHandled, Handled, Reflected
  <1>1. CASE stage[d] = "applied" /\ hand'[d] = hand[d]
    <2>1. q \in Partitions /\ n \in 1..Len(log[q]) /\ Handled(q, n)
      BY <1>1, RecordFields DEF AppliedIsHandled, Shape, WithinLog, Busy
    <2> QED
      BY <2>1, HandledStays
  <1>2. CASE Apply(d)
    <2>1. hand'[d] = hand[d] /\ log' = log
      BY <1>2 DEF Apply
    <2>2. /\ q \in Partitions /\ n \in 1..Len(log[q])
          /\ log[q][n] \in Events /\ Upsert(log[q][n])
      BY <1>2, <2>1, RecordFields, EventAtType DEF Apply, Shape, WithinLog, Busy, EventAt
    <2>3. PICK e \in Events : e = log[q][n] /\ Upsert(e)
      BY <2>2
    <2>4. Version[e] \in Nat /\ e # NoEvent
      BY ProjectionConstants
    <2>5. EntityOf[e] \in Entities =>
             /\ projection'[EntityOf[e]] # NoEvent
             /\ Version[projection'[EntityOf[e]]] >= Version[e]
      <3> DEFINE k == EntityOf[e]
      <3>1. k \in Entities =>
               \/ projection'[k] = e
               \/ /\ projection'[k] = projection[k] /\ projection[k] # NoEvent
                  /\ Version[projection[k]] >= Version[e]
        BY <2>3, UpsertAdvances DEF Shape, TypeOK
      <3> QED
        BY <2>4, <3>1
    <2> QED
      BY <2>1, <2>3, <2>5 DEF Handled, Reflected
  <1>3. ~(stage[d] = "applied" /\ hand'[d] = hand[d]) => Apply(d)
    <2> USE DEF Shape, TypeOK
    <2>1. CASE UNCHANGED vars
      BY <2>1 DEF vars, consumerVars
    <2>2. ASSUME NEW e \in Events, Extend(e) PROVE stage[d] = "applied" /\ hand'[d] = hand[d]
      BY <2>2 DEF Extend, consumerVars
    <2>3. ASSUME NEW c \in Consumers, Process(c), ~Apply(d)
          PROVE  stage[d] = "applied" /\ hand'[d] = hand[d]
      BY <2>3 DEF Process, Deliver, Apply, Acknowledge, Fail, LosePartition, DeadLetter, Release
    <2>4. ASSUME NEW c \in Consumers, Disruption(c)
          PROVE  stage[d] = "applied" /\ hand'[d] = hand[d]
      BY <2>4 DEF Disruption, DeadLetterFails, Rebalance, Crash, Release, consumerVars
    <2> QED
      BY <2>1, <2>2, <2>3, <2>4 DEF Evolve, Consume
  <1> QED
    BY <1>1, <1>2, <1>3

(* A step passes no record, or one that is handled.                        *)
LEMMA PassedStays ==
    ASSUME Shape, PassedIsHandled, [Evolve]_vars, log' = log,
           \A q \in Partitions : \A n \in 1..Len(log[q]) :
               n <= committed'[q] \/ n <= position'[q] =>
                   n <= committed[q] \/ n <= position[q] \/ Handled(q, n)'
    PROVE  PassedIsHandled'
  <1> SUFFICES ASSUME NEW q \in Partitions, NEW n \in 1..Len(log[q]),
                      n <= committed'[q] \/ n <= position'[q]
               PROVE  Handled(q, n)'
    BY DEF PassedIsHandled
  <1>1. CASE n <= committed[q] \/ n <= position[q]
    BY <1>1, HandledStays DEF PassedIsHandled
  <1> QED
    BY <1>1

LEMMA PassedNext ==
    ASSUME Safe, [Evolve]_vars
    PROVE  PassedIsHandled'
  <1>1. CASE UNCHANGED <<log, position, committed>>
    BY <1>1, PassedStays DEF Safe
  <1>2. ASSUME NEW e \in Events, Extend(e) PROVE PassedIsHandled'
    <2> SUFFICES ASSUME NEW q \in Partitions, NEW n \in 1..Len(log'[q]),
                        n <= committed[q] \/ n <= position[q]
                 PROVE  Handled(q, n)'
      BY <1>2 DEF PassedIsHandled, Extend, groupVars
    <2>1. n \in 1..Len(log[q])
      BY DEF Safe, Shape, TypeOK, WithinLog
    <2> QED
      BY <2>1, HandledStays DEF Safe, PassedIsHandled
  <1>3. ASSUME NEW c \in Consumers, Acknowledge(c) \/ DeadLetter(c) PROVE PassedIsHandled'
    <2>1. PICK p \in Partitions, m \in Nat :
             p = hand[c].partition /\ m = hand[c].offset
      BY RecordFields DEF Safe, Shape
    <2>2. m \in 1..Len(log[p]) /\ m = position[p] + 1 /\ position[p] \in Nat
      BY <1>3, <2>1
      DEF Acknowledge, DeadLetter, Safe, Shape, TypeOK, WithinLog, NextInLine, Busy
    <2>3. Handled(p, m)'
      <3>1. CASE Acknowledge(c)
        <4>1. Handled(p, m)
          BY <2>1, <3>1 DEF Acknowledge, Safe, AppliedIsHandled
        <4> QED
          BY <2>2, <4>1, HandledStays DEF Safe
      <3>2. CASE DeadLetter(c)
        <4>1. hand[c] = [partition |-> p, offset |-> m]
          BY <2>1 DEF Safe, Shape, TypeOK, Records
        <4> QED
          BY <3>2, <4>1 DEF DeadLetter, Handled
      <3> QED
        BY <1>3, <3>1, <3>2
    <2>4. /\ log' = log
          /\ position' = [position EXCEPT ![p] = m]
          /\ committed' = committed \/ committed' = [committed EXCEPT ![p] = m]
      BY <1>3, <2>1 DEF Acknowledge, DeadLetter, Pass
    <2>5. ASSUME NEW q \in Partitions, NEW n \in 1..Len(log[q]),
                 n <= committed'[q] \/ n <= position'[q]
          PROVE  n <= committed[q] \/ n <= position[q] \/ Handled(q, n)'
      <3>1. CASE q # p
        BY <2>4, <2>5, <3>1 DEF Safe, Shape, TypeOK
      <3>2. CASE q = p /\ n = m
        BY <2>3, <3>2
      <3>3. CASE q = p /\ n # m
        <4>1. n <= committed[q] \/ n <= m
          BY <2>4, <2>5, <3>3 DEF Safe, Shape, TypeOK
        <4> QED
          BY <2>2, <3>3, <4>1
      <3> QED
        BY <3>1, <3>2, <3>3
    <2> QED
      BY <2>4, <2>5, PassedStays DEF Safe
  <1>4. ASSUME NEW c \in Consumers, NEW q \in Partitions, Rebalance(c, q)
        PROVE  PassedIsHandled'
    BY <1>4, PassedStays DEF Rebalance, Safe, Shape, TypeOK
  <1>5. ASSUME NEW c \in Consumers, Crash(c) PROVE PassedIsHandled'
    BY <1>5, PassedStays DEF Crash, Safe, Shape, TypeOK
  <1> QED
    BY <1>1, <1>2, <1>3, <1>4, <1>5
    DEF Evolve, vars, groupVars, Consume, Process, Disruption, Deliver, Apply, Fail,
        LosePartition, DeadLetterFails

LEMMA SafeNext == Safe /\ [Evolve]_vars => Safe'
  BY ShapeNext, InLineNext, AppliedNext, PassedNext DEF Safe

(* The inductive invariant of delivery: an owner holds the next record of  *)
(* its partition, and what it applied, passed or committed is handled.     *)
THEOREM SafeInvariant == Spec => []Safe
  BY SafeInit, SafeNext, NextEvolves, PTL DEF Spec

(* A record that is passed or committed is reflected in its projection or  *)
(* dead-lettered, whatever crashes, rebalances and failures come between   *)
(* the two commits.                                                        *)
THEOREM NothingIsLost == Spec => []PassedIsHandled
  BY SafeInvariant, PTL DEF Safe

-----------------------------------------------------------------------------
(* Rows hold published events of their entity, so that they converge.      *)

InPlace == \A q \in Partitions : \A n \in 1..Len(log[q]) : PartitionOf[log[q][n]] = q

RowsAreOwn ==
    \A k \in Entities : projection[k] # NoEvent =>
        Published(projection[k]) /\ EntityOf[projection[k]] = k

LEMMA InPlaceNext ==
    ASSUME Shape, InPlace, [Evolve]_vars
    PROVE  InPlace'
  <1>1. CASE log' = log
    BY <1>1 DEF InPlace
  <1>2. CASE log' # log
    <2>1. PICK e \in Events : Extend(e)
      BY <1>2, LogChange
    <2>2. ASSUME NEW q \in Partitions, NEW n \in 1..Len(log'[q])
          PROVE  PartitionOf[log'[q][n]] = q
      <3>1. CASE q # PartitionOf[e]
        <4>1. log'[q] = log[q]
          BY <2>1, <3>1, AppendKeeps DEF Shape, Extend
        <4> QED
          BY <2>2, <4>1 DEF InPlace
      <3>2. CASE q = PartitionOf[e]
        <4>1. /\ Len(log'[q]) = Len(log[q]) + 1 /\ log'[q][Len(log[q]) + 1] = e
              /\ \A i \in 1..Len(log[q]) : log'[q][i] = log[q][i]
          <5>1. /\ Len(log'[PartitionOf[e]]) = Len(log[PartitionOf[e]]) + 1
                /\ log'[PartitionOf[e]][Len(log[PartitionOf[e]]) + 1] = e
                /\ \A i \in 1..Len(log[PartitionOf[e]]) :
                       log'[PartitionOf[e]][i] = log[PartitionOf[e]][i]
            BY <2>1, AppendKeeps DEF Shape, Extend
          <5> QED
            BY <3>2, <5>1
        <4>2. Len(log[q]) \in Nat
          BY DEF Shape, TypeOK
        <4>3. CASE n \in 1..Len(log[q])
          BY <4>1, <4>3 DEF InPlace
        <4>4. CASE n \notin 1..Len(log[q])
          <5>1. n = Len(log[q]) + 1
            BY <4>1, <4>2, <4>4
          <5> QED
            BY <3>2, <4>1, <5>1
        <4> QED
          BY <4>3, <4>4
      <3> QED
        BY <3>1, <3>2
    <2> QED
      BY <2>2 DEF InPlace
  <1> QED
    BY <1>1, <1>2

LEMMA PublishedStays ==
    ASSUME Shape, [Evolve]_vars, NEW e \in Events, Published(e)
    PROVE  Published(e)'
  <1> DEFINE q == PartitionOf[e]
  <1>1. q \in Partitions /\ log[q] \in Seq(Events) /\ log'[q] \in Seq(Events)
    BY ShapeNext, ProjectionConstants DEF Shape, TypeOK
  <1>2. PICK n \in 1..Len(log[q]) : log[q][n] = e
    BY <1>1 DEF Published
  <1>3. n \in 1..Len(log'[q]) /\ log'[q][n] = e
    BY <1>1, <1>2, LogGrows
  <1> QED
    BY <1>1, <1>3 DEF Published

LEMMA RowsNext ==
    ASSUME Shape, InPlace, RowsAreOwn, [Evolve]_vars
    PROVE  RowsAreOwn'
  <1>1. CASE projection' = projection
    <2> SUFFICES ASSUME NEW k \in Entities, projection[k] # NoEvent, NEW f, f = projection[k]
                 PROVE  Published(f)' /\ EntityOf[f] = k
      BY <1>1 DEF RowsAreOwn, Published
    <2>1. f \in Events /\ Published(f) /\ EntityOf[f] = k
      BY DEF RowsAreOwn, Shape, TypeOK
    <2> QED
      BY <2>1, PublishedStays
  <1>2. CASE projection' # projection
    <2>1. PICK c \in Consumers : Apply(c)
      BY <1>2, ProjectionChange
    <2>2. PICK q \in Partitions, n \in Nat :
             q = hand[c].partition /\ n = hand[c].offset /\ n \in 1..Len(log[q])
      BY <2>1, RecordFields DEF Apply, Shape, WithinLog, Busy
    <2>3. PICK e \in Events : e = log[q][n] /\ Upsert(e)
      BY <2>1, <2>2, EventAtType DEF Apply, Busy, EventAt
    <2>4. Published(e) /\ log' = log
      <3>1. PartitionOf[e] = q /\ log[q] \in Seq(Events)
        BY <2>2, <2>3 DEF InPlace, Shape, TypeOK
      <3>2. n \in DOMAIN log[q]
        BY <2>2, <3>1
      <3> QED
        BY <2>1, <2>3, <3>1, <3>2 DEF Published, Apply
    <2>5. EntityOf[e] \in Entities /\ projection' = [projection EXCEPT ![EntityOf[e]] = e]
      BY <1>2, <2>3, UpsertAdvances
    <2> SUFFICES ASSUME NEW k \in Entities, projection'[k] # NoEvent, NEW f, f = projection'[k]
                 PROVE  Published(f) /\ EntityOf[f] = k
      BY <2>4 DEF RowsAreOwn, Published
    <2>6. CASE k = EntityOf[e]
      <3>1. f = e
        BY <2>5, <2>6 DEF Shape, TypeOK
      <3> QED
        BY <2>4, <2>6, <3>1
    <2>7. CASE k # EntityOf[e]
      <3>1. f = projection[k]
        BY <2>5, <2>7 DEF Shape, TypeOK
      <3> QED
        BY <3>1 DEF RowsAreOwn
    <2> QED
      BY <2>6, <2>7
  <1> QED
    BY <1>1, <1>2

Settled == Safe /\ InPlace /\ RowsAreOwn

LEMMA SettledInit == Init => Settled
  <1> SUFFICES ASSUME Init PROVE InPlace /\ RowsAreOwn
    BY SafeInit DEF Settled
  <1>1. \A q \in Partitions : log[q] = <<>>
    BY DEF Init
  <1> QED
    BY <1>1 DEF Init, InPlace, RowsAreOwn

LEMMA SettledNext == Settled /\ [Evolve]_vars => Settled'
  BY SafeNext, InPlaceNext, RowsNext DEF Settled, Safe

LEMMA SettledConverges == Settled => ConvergesToNewest
  <1> SUFFICES ASSUME Settled, dlt = {}, \A q \in Partitions : position[q] = Len(log[q]),
                      NEW e \in Events, Published(e), EntityOf[e] \in Entities
               PROVE  /\ Published(projection[EntityOf[e]])
                      /\ EntityOf[projection[EntityOf[e]]] = EntityOf[e]
                      /\ Version[projection[EntityOf[e]]] >= Version[e]
    BY DEF ConvergesToNewest
  <1> DEFINE q == PartitionOf[e]
  <1>1. q \in Partitions /\ log[q] \in Seq(Events)
    BY ProjectionConstants DEF Settled, Safe, Shape, TypeOK
  <1>2. PICK n \in 1..Len(log[q]) : log[q][n] = e
    BY <1>1 DEF Published
  <1>3. Handled(q, n)
    BY <1>1, <1>2 DEF Settled, Safe, PassedIsHandled
  <1>4. Reflected(e)
    BY <1>2, <1>3 DEF Handled
  <1> QED
    BY <1>4 DEF Reflected, Settled, RowsAreOwn

(* Once everything is passed and nothing was dead-lettered, each row holds *)
(* a newest published event of its entity, in whatever order and however   *)
(* often events were published and delivered.                              *)
THEOREM Convergence == Spec => []ConvergesToNewest
  BY SettledInit, SettledNext, SettledConverges, NextEvolves, PTL DEF Spec

-----------------------------------------------------------------------------
(* The projection tables implement the abstract replica. *)

LEMMA ReplicaStep ==
    ASSUME Shape, [Evolve]_vars
    PROVE  [Replica!Next]_projection
  <1> SUFFICES ASSUME projection' # projection PROVE Replica!Next
    OBVIOUS
  <1>1. PICK c \in Consumers : Apply(c)
    BY ProjectionChange
  <1>2. PICK e \in Events : e = EventAt(hand[c]) /\ Upsert(e)
    BY <1>1, EventAtType DEF Apply, Busy
  <1>3. /\ EntityOf[e] \in Entities
        /\ projection' = [projection EXCEPT ![EntityOf[e]] = e]
        /\ \/ projection[EntityOf[e]] = NoEvent
           \/ Version[projection[EntityOf[e]]] < Version[e]
    BY <1>2, UpsertAdvances
  <1>4. Version[e] > Replica!VersionAt(EntityOf[e])
    <2>1. Version[e] \in Nat
      BY ProjectionConstants
    <2>2. CASE projection[EntityOf[e]] = NoEvent
      BY <2>1, <2>2 DEF Replica!VersionAt
    <2>3. CASE projection[EntityOf[e]] # NoEvent
      <3>1. Version[projection[EntityOf[e]]] \in Nat
        BY <1>3, <2>3, ProjectionConstants DEF Shape, TypeOK
      <3> QED
        BY <1>3, <2>1, <2>3, <3>1 DEF Replica!VersionAt
    <2> QED
      BY <2>2, <2>3
  <1> QED
    BY <1>3, <1>4 DEF Replica!Next, Replica!Advance

(* A row only ever moves to a newer version of its own entity: no replay,  *)
(* duplicate or late delivery takes a projection back.                     *)
THEOREM ImplementsReplica == Spec => ReplicaSpec
  <1>1. Init => Replica!Init
    BY DEF Init, Replica!Init
  <1>2. Shape /\ [Next]_vars => [Replica!Next]_projection
    BY NextEvolves, ReplicaStep
  <1> QED
    BY <1>1, <1>2, ShapeInvariant, PTL DEF Spec, ReplicaSpec, Replica!Spec

=============================================================================
