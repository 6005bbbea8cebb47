--------------------------- MODULE PipelineProofs ---------------------------
(***************************************************************************)
(* Proofs about SyncPipeline and SyncService, for any number of request    *)
(* threads, relay instances, consumers, partitions, events and rows, and   *)
(* any bounds.  The consumers' side is ProjectionsProofs: seen from there, *)
(* the relay only appends events to topics.  What is left to prove is the  *)
(* relay's side of the composed state, no row is SENT before its record is *)
(* in the topic, and what joins the endpoint to it: both see one table.    *)
(***************************************************************************)
EXTENDS SyncService, ProjectionsProofs, SequenceTheorems

(* The sends that remain when the broker has resolved one. *)
LEMMA ResolvedSends ==
    ASSUME NEW S, NEW s \in Seq(S), NEW k \in 1..Len(s)
    PROVE  /\ Relay!RemoveAt(s, k) \in Seq(S)
           /\ Len(Relay!RemoveAt(s, k)) = Len(s) - 1
           /\ k < Len(s) => Relay!RemoveAt(s, k)[Len(s) - 1] = s[Len(s)]
  <1> DEFINE front == SubSeq(s, 1, k - 1)
             rest  == SubSeq(s, k + 1, Len(s))
  <1>1. /\ front \in Seq(S) /\ rest \in Seq(S)
        /\ Len(front) = k - 1 /\ Len(rest) = Len(s) - k
        /\ k < Len(s) => rest[Len(s) - k] = s[Len(s)]
    OBVIOUS
  <1>2. Relay!RemoveAt(s, k) = front \o rest
    BY DEF Relay!RemoveAt
  <1> HIDE DEF front, rest
  <1>3. /\ front \o rest \in Seq(S)
        /\ Len(front \o rest) = Len(front) + Len(rest)
        /\ \A i \in 1..Len(front) + Len(rest) :
               (front \o rest)[i] =
                   IF i <= Len(front) THEN front[i] ELSE rest[i - Len(front)]
    BY <1>1, ConcatProperties
  <1>4. Len(front) + Len(rest) = Len(s) - 1
    BY <1>1
  <1>5. ASSUME k < Len(s)
        PROVE  (front \o rest)[Len(s) - 1] = rest[Len(s) - k]
    <2>1. /\ Len(s) - 1 \in 1..Len(front) + Len(rest)
          /\ ~(Len(s) - 1 <= Len(front))
          /\ Len(s) - 1 - Len(front) = Len(s) - k
      BY <1>1, <1>4, <1>5
    <2> QED
      BY <1>3, <2>1
  <1> QED
    BY <1>1, <1>2, <1>3, <1>4, <1>5

-----------------------------------------------------------------------------
(* The relay's side. *)

(* As much of the types of the relay as the pipeline needs. *)
RelayTypes ==
    /\ DOMAIN state = Events
    /\ DOMAIN pc = Instances
    /\ DOMAIN current = Instances
    /\ DOMAIN batch = Instances
    /\ \A i \in Instances : DOMAIN batch[i] \subseteq Events
    /\ inflight \in [Instances -> Seq(Events)]

(* The send an instance waits for is the last one its producer took. *)
WaitsForLast ==
    \A i \in Instances :
        pc[i] = "sending" =>
            Len(inflight[i]) > 0 /\ inflight[i][Len(inflight[i])] = current[i]

AckedIsPublished ==
    \A i \in Instances : pc[i] = "acked" => current[i] \in Events /\ Published(current[i])

SentIsPublished == \A e \in Events : state[e] = "SENT" => Published(e)

Relayed == RelayTypes /\ WaitsForLast /\ AckedIsPublished /\ SentIsPublished

Delivered == Safe /\ Relayed

LEMMA DeliveredInit == PipelineInit => Delivered
  <1> SUFFICES ASSUME PipelineInit PROVE Relayed
    BY SafeInit DEF PipelineInit, Delivered
  <1>1. DOMAIN Relay!NoEntity = {}
    BY DEF Relay!NoEntity
  <1>2. RelayTypes
    BY <1>1 DEF PipelineInit, Relay!Init, RelayTypes
  <1>3. WaitsForLast /\ AckedIsPublished /\ SentIsPublished
    BY DEF PipelineInit, Relay!Init, WaitsForLast, AckedIsPublished, SentIsPublished
  <1> QED
    BY <1>2, <1>3 DEF Relayed

(* What the broker does with a send. *)
LEMMA Resolve ==
    ASSUME RelayTypes, NEW i \in Instances, NEW k \in DOMAIN inflight[i],
           inflight' = [inflight EXCEPT ![i] = Relay!RemoveAt(@, k)]
    PROVE  /\ inflight[i][k] \in Events
           /\ inflight' \in [Instances -> Seq(Events)]
           /\ \A j \in Instances \ {i} : inflight'[j] = inflight[j]
           /\ Len(inflight'[i]) = Len(inflight[i]) - 1
           /\ k < Len(inflight[i]) =>
                  inflight'[i][Len(inflight[i]) - 1] = inflight[i][Len(inflight[i])]
  <1>1. inflight[i] \in Seq(Events) /\ k \in 1..Len(inflight[i])
    BY DEF RelayTypes
  <1>2. /\ Relay!RemoveAt(inflight[i], k) \in Seq(Events)
        /\ Len(Relay!RemoveAt(inflight[i], k)) = Len(inflight[i]) - 1
        /\ k < Len(inflight[i]) =>
               Relay!RemoveAt(inflight[i], k)[Len(inflight[i]) - 1]
                   = inflight[i][Len(inflight[i])]
    BY <1>1, ResolvedSends
  <1>3. /\ inflight'[i] = Relay!RemoveAt(inflight[i], k)
        /\ \A j \in Instances \ {i} : inflight'[j] = inflight[j]
        /\ DOMAIN inflight' = Instances
    BY DEF RelayTypes
  <1>4. inflight' \in [Instances -> Seq(Events)]
    BY <1>2, <1>3 DEF RelayTypes
  <1> QED
    BY <1>1, <1>2, <1>3, <1>4

(* A step of the relay leaves the topics alone, unless it appends an event *)
(* that one of its producers holds.                                        *)
LEMMA RelayAppends ==
    ASSUME RelayTypes, Relay!Next, log' # log
    PROVE  \E e \in Events : log' = [log EXCEPT ![PartitionOf[e]] = Append(@, e)]
  <1>1. PICK i \in Instances : \E k \in DOMAIN inflight[i] : Relay!BrokerAppend(i, k)
    BY DEF Relay!Next, Relay!Accept, Relay!Cycle, Relay!LeaseBatch, Relay!FindLeased,
           Relay!Send, Relay!EndCycle, Relay!MarkSent, Relay!Retry, Relay!MarkDead,
           Relay!RetryRefused, Relay!SendTimeout, Relay!Broker, Relay!BrokerDrop,
           Relay!Disturbance, Relay!DbFault, Relay!SaveFails, Relay!Crash,
           Relay!Replay, Relay!kafkaVars
  <1>2. PICK k \in DOMAIN inflight[i] : Relay!BrokerAppend(i, k)
    BY <1>1
  <1>3. inflight[i][k] \in Events
    BY <1>2, Resolve DEF Relay!BrokerAppend
  <1> QED
    BY <1>2, <1>3 DEF Relay!BrokerAppend

(* Seen by the consumers, a step of the pipeline is one of their own or an *)
(* append.                                                                 *)
LEMMA PipelineEvolves ==
    ASSUME RelayTypes, [PipelineNext]_pipelineVars
    PROVE  [Evolve]_vars
  <1>1. CASE Relaying
    <2>1. CASE log' = log
      BY <1>1, <2>1 DEF Relaying, consumerSide, vars
    <2>2. CASE log' # log
      BY <1>1, <2>2, RelayAppends DEF Relaying, consumerSide, Evolve, Extend
    <2> QED
      BY <2>1, <2>2
  <1>2. CASE Consuming
    BY <1>2 DEF Consuming, Evolve
  <1>3. CASE UNCHANGED pipelineVars
    BY <1>3 DEF pipelineVars
  <1> QED
    BY <1>1, <1>2, <1>3 DEF PipelineNext

(* Every step of the pipeline keeps the types of the relay.                *)
LEMMA TypesNext ==
    ASSUME RelayTypes, [PipelineNext]_pipelineVars
    PROVE  RelayTypes'
  <1> USE DEF RelayTypes, Relay!rowVars, Relay!cycleVars, Relay!kafkaVars
  <1>1. CASE \E e \in Events : Relay!Accept(e)
    BY <1>1 DEF Relay!Accept
  <1>2. ASSUME NEW i \in Instances, Relay!LeaseBatch(i) PROVE RelayTypes'
    BY <1>2 DEF Relay!LeaseBatch
  <1>3. ASSUME NEW i \in Instances, Relay!FindLeased(i) PROVE RelayTypes'
    <2>1. /\ DOMAIN batch' = Instances
          /\ \A j \in Instances \ {i} : batch'[j] = batch[j]
          /\ DOMAIN batch'[i] \subseteq Events
      BY <1>3 DEF Relay!FindLeased, Relay!Rows
    <2> QED
      BY <1>3, <2>1 DEF Relay!FindLeased
  <1>4. ASSUME NEW i \in Instances, Relay!Send(i) PROVE RelayTypes'
    <2>1. PICK e \in DOMAIN batch[i] :
              /\ current' = [current EXCEPT ![i] = e]
              /\ inflight' = [inflight EXCEPT ![i] = Append(@, e)]
      BY <1>4 DEF Relay!Send
    <2>2. inflight[i] \in Seq(Events) /\ e \in Events
      OBVIOUS
    <2>3. Append(inflight[i], e) \in Seq(Events)
      BY <2>2
    <2> QED
      BY <1>4, <2>1, <2>3 DEF Relay!Send
  <1>5. ASSUME NEW i \in Instances, Relay!EndCycle(i) PROVE RelayTypes'
    BY <1>5 DEF Relay!EndCycle
  <1>6. ASSUME NEW i \in Instances,
               Relay!MarkSent(i) \/ Relay!Retry(i) \/ Relay!MarkDead(i)
        PROVE  RelayTypes'
    <2>1. PICK s, n : Relay!SaveEntity(i, s, n) /\ UNCHANGED inflight
      BY <1>6 DEF Relay!MarkSent, Relay!Retry, Relay!MarkDead
    <2>2. /\ DOMAIN batch' = Instances
          /\ \A j \in Instances \ {i} : batch'[j] = batch[j]
          /\ DOMAIN batch'[i] \subseteq Events
      BY <2>1 DEF Relay!SaveEntity
    <2> QED
      BY <2>1, <2>2 DEF Relay!SaveEntity
  <1>7. ASSUME NEW i \in Instances, Relay!SendTimeout(i) \/ Relay!SaveFails(i)
        PROVE  RelayTypes'
    BY <1>7 DEF Relay!SendTimeout, Relay!SaveFails
  <1>8. ASSUME NEW i \in Instances, NEW k \in DOMAIN inflight[i],
               Relay!BrokerAppend(i, k)
        PROVE  RelayTypes'
    <2>1. inflight' \in [Instances -> Seq(Events)]
      BY <1>8, Resolve DEF Relay!BrokerAppend
    <2> QED
      BY <1>8, <2>1 DEF Relay!BrokerAppend
  <1>9. ASSUME NEW i \in Instances, NEW k \in DOMAIN inflight[i],
               Relay!BrokerDrop(i, k)
        PROVE  RelayTypes'
    <2>1. inflight' \in [Instances -> Seq(Events)]
      BY <1>9, Resolve DEF Relay!BrokerDrop
    <2>2. DOMAIN pc' = Instances
      BY <1>9 DEF Relay!BrokerDrop
    <2> QED
      BY <1>9, <2>1, <2>2 DEF Relay!BrokerDrop
  <1>10. ASSUME NEW i \in Instances,
                Relay!DbFault(i) \/ Relay!Crash(i) \/ Relay!RetryRefused(i)
         PROVE  RelayTypes'
    <2>1. /\ DOMAIN batch' = Instances
          /\ \A j \in Instances \ {i} : batch'[j] = batch[j]
          /\ DOMAIN batch'[i] = {}
      BY <1>10
      DEF Relay!DbFault, Relay!Crash, Relay!RetryRefused, Relay!LeaveCycle, Relay!NoEntity
    <2>2. DOMAIN pc' = Instances /\ DOMAIN current' = Instances /\ state' = state
      BY <1>10 DEF Relay!DbFault, Relay!Crash, Relay!RetryRefused, Relay!LeaveCycle
    <2>3. inflight' = inflight \/ inflight' = [inflight EXCEPT ![i] = <<>>]
      BY <1>10 DEF Relay!DbFault, Relay!Crash, Relay!RetryRefused, Relay!kafkaVars
    <2>4. inflight' \in [Instances -> Seq(Events)]
      <3>1. <<>> \in Seq(Events)
        OBVIOUS
      <3> QED
        BY <2>3, <3>1
    <2> QED
      BY <2>1, <2>2, <2>4
  <1>11. CASE \E S \in SUBSET Events : Relay!Replay(S)
    BY <1>11 DEF Relay!Replay
  <1>12. CASE Consuming \/ UNCHANGED pipelineVars
    BY <1>12 DEF Consuming, relaySide, pipelineVars
  <1> QED
    BY <1>1, <1>2, <1>3, <1>4, <1>5, <1>6, <1>7, <1>8, <1>9, <1>10, <1>11, <1>12
    DEF PipelineNext, Relaying, Relay!Next, Relay!Cycle, Relay!Broker, Relay!Disturbance

(* What takes no instance into a wait and marks no row SENT but one whose  *)
(* record is published.                                                    *)
LEMMA RelayedKept ==
    ASSUME Shape, Relayed, [Evolve]_vars, RelayTypes',
           \A e \in Events :
               state'[e] = "SENT" => state[e] = "SENT" \/ Published(e),
           \A j \in Instances :
               pc'[j] \in {"sending", "acked"} => pc'[j] = pc[j] /\ current'[j] = current[j],
           \A j \in Instances :
               pc'[j] = "sending" =>
                   /\ Len(inflight'[j]) > 0
                   /\ inflight'[j][Len(inflight'[j])] = inflight[j][Len(inflight[j])]
    PROVE  Relayed'
  <1>1. WaitsForLast'
    BY DEF Relayed, WaitsForLast
  <1>2. AckedIsPublished'
    <2> SUFFICES ASSUME NEW j \in Instances, pc'[j] = "acked", NEW f, f = current'[j]
                 PROVE  f \in Events /\ Published(f)'
      BY DEF AckedIsPublished, Published
    <2>1. f \in Events /\ Published(f)
      BY DEF Relayed, AckedIsPublished
    <2> QED
      BY <2>1, PublishedStays
  <1>3. SentIsPublished'
    <2> SUFFICES ASSUME NEW e \in Events, state'[e] = "SENT" PROVE Published(e)'
      BY DEF SentIsPublished
    <2>1. Published(e)
      BY DEF Relayed, SentIsPublished
    <2> QED
      BY <2>1, PublishedStays
  <1> QED
    BY <1>1, <1>2, <1>3 DEF Relayed

LEMMA RelayedNext ==
    ASSUME Shape, Relayed, [PipelineNext]_pipelineVars
    PROVE  Relayed'
  <1> USE DEF Relay!rowVars, Relay!cycleVars, Relay!kafkaVars
  <1>1. RelayTypes /\ RelayTypes' /\ [Evolve]_vars
    BY TypesNext, PipelineEvolves DEF Relayed
  <1>2. WaitsForLast
    BY DEF Relayed
  <1>3. CASE \E e \in Events : Relay!Accept(e)
    BY <1>1, <1>2, <1>3, RelayedKept DEF Relay!Accept, RelayTypes, WaitsForLast
  <1>4. ASSUME NEW i \in Instances, Relay!LeaseBatch(i) PROVE Relayed'
    BY <1>1, <1>2, <1>4, RelayedKept DEF Relay!LeaseBatch, RelayTypes, WaitsForLast
  <1>5. ASSUME NEW i \in Instances,
               \/ Relay!FindLeased(i) \/ Relay!EndCycle(i) \/ Relay!SendTimeout(i)
               \/ Relay!SaveFails(i)
        PROVE  Relayed'
    BY <1>1, <1>2, <1>5, RelayedKept
    DEF Relay!FindLeased, Relay!EndCycle, Relay!SendTimeout, Relay!SaveFails,
        RelayTypes, WaitsForLast
  <1>6. ASSUME NEW i \in Instances, Relay!Send(i) PROVE Relayed'
    <2>1. PICK e \in DOMAIN batch[i] :
              /\ current' = [current EXCEPT ![i] = e]
              /\ inflight' = [inflight EXCEPT ![i] = Append(@, e)]
      BY <1>6 DEF Relay!Send
    <2>2. e \in Events /\ inflight[i] \in Seq(Events)
      BY <1>1 DEF RelayTypes
    <2>3. /\ current'[i] = e
          /\ inflight'[i] = Append(inflight[i], e)
          /\ \A j \in Instances \ {i} :
                 /\ current'[j] = current[j]
                 /\ inflight'[j] = inflight[j]
                 /\ pc'[j] = pc[j]
          /\ pc'[i] = "sending"
          /\ UNCHANGED <<log, state>>
      BY <1>1, <1>6, <2>1 DEF Relay!Send, RelayTypes
    <2>4. /\ Len(inflight'[i]) > 0
          /\ inflight'[i][Len(inflight'[i])] = e
      BY <2>2, <2>3
    <2>5. WaitsForLast'
      BY <1>2, <2>3, <2>4 DEF WaitsForLast
    <2>6. AckedIsPublished' /\ SentIsPublished'
      BY <2>3 DEF Relayed, AckedIsPublished, SentIsPublished, Published
    <2> QED
      BY <1>1, <2>5, <2>6 DEF Relayed
  <1>7. ASSUME NEW i \in Instances,
               Relay!MarkSent(i) \/ Relay!Retry(i) \/ Relay!MarkDead(i)
        PROVE  Relayed'
    <2>1. PICK s, n : /\ Relay!SaveEntity(i, s, n)
                      /\ UNCHANGED <<inflight, log>>
                      /\ s = "SENT" => pc[i] = "acked"
      BY <1>7 DEF Relay!MarkSent, Relay!Retry, Relay!MarkDead
    <2>2. /\ \A e \in Events \ {current[i]} : state'[e] = state[e]
          /\ current[i] \in Events => state'[current[i]] = s
          /\ pc'[i] = "loop"
          /\ \A j \in Instances \ {i} : pc'[j] = pc[j] /\ current'[j] = current[j]
      BY <1>1, <2>1 DEF Relay!SaveEntity, RelayTypes
    <2>3. \A e \in Events : state'[e] = "SENT" => state[e] = "SENT" \/ Published(e)
      BY <2>1, <2>2 DEF Relayed, AckedIsPublished
    <2> QED
      BY <1>1, <1>2, <2>1, <2>2, <2>3, RelayedKept DEF WaitsForLast
  <1>8. ASSUME NEW i \in Instances, NEW k \in DOMAIN inflight[i],
               Relay!BrokerAppend(i, k)
        PROVE  Relayed'
    <2>1. PICK f \in Events : f = inflight[i][k]
      BY <1>1, <1>8, Resolve DEF Relay!BrokerAppend
    <2>2. log' = [log EXCEPT ![PartitionOf[f]] = Append(@, f)]
      BY <1>8, <2>1 DEF Relay!BrokerAppend
    <2>3. Published(f)'
      <3>1. /\ log' \in [Partitions -> Seq(Events)]
            /\ PartitionOf[f] \in Partitions
            /\ Len(log'[PartitionOf[f]]) = Len(log[PartitionOf[f]]) + 1
            /\ log'[PartitionOf[f]][Len(log[PartitionOf[f]]) + 1] = f
        BY <2>2, AppendKeeps DEF Shape
      <3>2. Len(log[PartitionOf[f]]) + 1 \in DOMAIN log'[PartitionOf[f]]
        BY <3>1 DEF Shape, TypeOK
      <3> QED
        BY <3>1, <3>2 DEF Published
    <2>4. /\ \A j \in Instances \ {i} : inflight'[j] = inflight[j]
          /\ Len(inflight'[i]) = Len(inflight[i]) - 1
          /\ k < Len(inflight[i]) =>
                 inflight'[i][Len(inflight[i]) - 1] = inflight[i][Len(inflight[i])]
      BY <1>1, <1>8, Resolve DEF Relay!BrokerAppend
    <2>5. /\ UNCHANGED <<state, current>>
          /\ \A j \in Instances \ {i} : pc'[j] = pc[j]
          /\ pc'[i] = IF Relay!Awaited(i, k) THEN "acked" ELSE pc[i]
      BY <1>1, <1>8 DEF Relay!BrokerAppend, RelayTypes
    <2>6. k \in Nat /\ k > 0 /\ k <= Len(inflight[i]) /\ Len(inflight[i]) \in Nat
      BY <1>1 DEF RelayTypes
    <2>7. ASSUME NEW j \in Instances, pc'[j] = "sending"
          PROVE  /\ Len(inflight'[j]) > 0
                 /\ inflight'[j][Len(inflight'[j])] = current'[j]
      <3>1. CASE j # i
        BY <1>2, <2>4, <2>5, <2>7, <3>1 DEF WaitsForLast
      <3>2. CASE j = i
        <4>1. pc[i] = "sending" /\ k < Len(inflight[i])
          BY <2>5, <2>6, <2>7, <3>2 DEF Relay!Awaited
        <4> QED
          BY <1>2, <2>4, <2>5, <2>6, <3>2, <4>1 DEF WaitsForLast
      <3> QED
        BY <3>1, <3>2
    <2>8. ASSUME NEW j \in Instances, pc'[j] = "acked", NEW e, e = current[j]
          PROVE  e \in Events /\ Published(e)'
      <3>1. CASE pc[j] = "acked"
        <4>1. e \in Events /\ Published(e)
          BY <2>8, <3>1 DEF Relayed, AckedIsPublished
        <4> QED
          BY <1>1, <4>1, PublishedStays
      <3>2. CASE pc[j] # "acked"
        <4>1. j = i /\ Relay!Awaited(i, k)
          BY <2>5, <2>8, <3>2
        <4>2. e = f
          BY <1>2, <2>1, <2>8, <4>1 DEF Relay!Awaited, WaitsForLast
        <4> QED
          BY <2>3, <4>2
      <3> QED
        BY <3>1, <3>2
    <2>9. AckedIsPublished'
      BY <2>5, <2>8 DEF AckedIsPublished, Published
    <2>10. ASSUME NEW e \in Events, state[e] = "SENT" PROVE Published(e)'
      BY <1>1, <2>10, PublishedStays DEF Relayed, SentIsPublished
    <2>11. SentIsPublished'
      BY <2>5, <2>10 DEF SentIsPublished
    <2> QED
      BY <1>1, <2>7, <2>9, <2>11 DEF Relayed, WaitsForLast
  <1>9. ASSUME NEW i \in Instances, NEW k \in DOMAIN inflight[i],
               Relay!BrokerDrop(i, k)
        PROVE  Relayed'
    <2>1. /\ \A j \in Instances \ {i} : inflight'[j] = inflight[j]
          /\ Len(inflight'[i]) = Len(inflight[i]) - 1
          /\ k < Len(inflight[i]) =>
                 inflight'[i][Len(inflight[i]) - 1] = inflight[i][Len(inflight[i])]
      BY <1>1, <1>9, Resolve DEF Relay!BrokerDrop
    <2>2. /\ UNCHANGED <<state, current, log>>
          /\ \A j \in Instances \ {i} : pc'[j] = pc[j]
          /\ pc'[i] = IF Relay!Awaited(i, k) THEN "failed" ELSE pc[i]
      BY <1>1, <1>9 DEF Relay!BrokerDrop, RelayTypes
    <2>3. k \in Nat /\ k > 0 /\ k <= Len(inflight[i]) /\ Len(inflight[i]) \in Nat
      BY <1>1 DEF RelayTypes
    <2>4. ASSUME NEW j \in Instances, pc'[j] = "sending"
          PROVE  /\ Len(inflight'[j]) > 0
                 /\ inflight'[j][Len(inflight'[j])] = inflight[j][Len(inflight[j])]
      <3>1. CASE j # i
        BY <1>2, <2>1, <2>2, <2>4, <3>1 DEF WaitsForLast
      <3>2. CASE j = i
        <4>1. pc[i] = "sending" /\ k < Len(inflight[i])
          BY <2>2, <2>3, <2>4, <3>2 DEF Relay!Awaited
        <4> QED
          BY <2>1, <2>3, <3>2, <4>1
      <3> QED
        BY <3>1, <3>2
    <2>5. \A j \in Instances :
              pc'[j] \in {"sending", "acked"} => pc'[j] = pc[j] /\ current'[j] = current[j]
      BY <2>2
    <2> QED
      BY <1>1, <2>2, <2>4, <2>5, RelayedKept
  <1>10. ASSUME NEW i \in Instances,
                Relay!DbFault(i) \/ Relay!Crash(i) \/ Relay!RetryRefused(i)
         PROVE  Relayed'
    <2>1. /\ pc'[i] = "idle"
          /\ \A j \in Instances \ {i} :
                 /\ pc'[j] = pc[j]
                 /\ current'[j] = current[j]
                 /\ inflight'[j] = inflight[j]
          /\ state' = state
      BY <1>1, <1>10
      DEF Relay!DbFault, Relay!Crash, Relay!RetryRefused, Relay!LeaveCycle,
          Relay!rowVars, Relay!kafkaVars, RelayTypes
    <2> QED
      BY <1>1, <1>2, <2>1, RelayedKept DEF WaitsForLast
  <1>11. CASE \E S \in SUBSET Events : Relay!Replay(S)
    BY <1>1, <1>2, <1>11, RelayedKept DEF Relay!Replay, RelayTypes, WaitsForLast
  <1>12. CASE Consuming \/ UNCHANGED pipelineVars
    BY <1>1, <1>2, <1>12, RelayedKept DEF Consuming, relaySide, pipelineVars, WaitsForLast
  <1> QED
    BY <1>3, <1>4, <1>5, <1>6, <1>7, <1>8, <1>9, <1>10, <1>11, <1>12
    DEF PipelineNext, Relaying, Relay!Next, Relay!Cycle, Relay!Broker, Relay!Disturbance

LEMMA DeliveredNext == Delivered /\ [PipelineNext]_pipelineVars => Delivered'
  <1> SUFFICES ASSUME Delivered, [PipelineNext]_pipelineVars PROVE Delivered'
    OBVIOUS
  <1>1. Relayed'
    BY RelayedNext DEF Delivered, Safe
  <1>2. [Evolve]_vars
    BY PipelineEvolves DEF Delivered, Relayed
  <1>3. Safe'
    BY <1>2, SafeNext DEF Delivered
  <1> QED
    BY <1>1, <1>3 DEF Delivered

LEMMA DeliveredIsNotLost == Delivered => NoSilentLoss
  <1> SUFFICES ASSUME Delivered, NEW e \in Events, state[e] = "SENT",
                      CaughtUp(PartitionOf[e])
               PROVE  Reflected(e) \/ DeadLettered(e)
    BY DEF NoSilentLoss, Relay!Rows
  <1>1. PICK q \in Partitions : q = PartitionOf[e] /\ log[q] \in Seq(Events)
    BY ProjectionConstants DEF Delivered, Safe, Shape, TypeOK
  <1>2. PICK n \in 1..Len(log[q]) : log[q][n] = e
    BY <1>1 DEF Delivered, Relayed, SentIsPublished, Published
  <1>3. Handled(q, n)
    BY <1>1, <1>2 DEF Delivered, Safe, PassedIsHandled, CaughtUp
  <1>4. [partition |-> q, offset |-> n] \in dlt => DeadLettered(e)
    BY <1>1, <1>2 DEF DeadLettered, EventAt
  <1> QED
    BY <1>2, <1>3, <1>4 DEF Handled

(* No acknowledged event is silently lost: whatever times out, crashes, is *)
(* rebalanced, retried or replayed on either side of the topics, an event  *)
(* marked SENT is in its projection, or an as recent one, or in a dead     *)
(* letter topic as soon as its consumers have caught up.                   *)
THEOREM NothingIsSilentlyLost == PipelineSpec => []NoSilentLoss
  BY DeliveredInit, DeliveredNext, DeliveredIsNotLost, PTL DEF PipelineSpec

LEMMA PipelineSettled ==
    /\ PipelineInit => Settled
    /\ RelayTypes /\ Settled /\ [PipelineNext]_pipelineVars => Settled'
  BY SettledInit, SettledNext, PipelineEvolves DEF PipelineInit

(* What the relay publishes more than once, late or out of order is put    *)
(* right behind it: the rows converge to the newest events of their        *)
(* entities.                                                               *)
THEOREM PipelineConverges == PipelineSpec => []ConvergesToNewest
  <1>1. Delivered => RelayTypes
    BY DEF Delivered, Relayed
  <1> QED
    BY <1>1, DeliveredInit, DeliveredNext, PipelineSettled, SettledConverges, PTL
    DEF PipelineSpec

(* Fed by the relay, the projection tables still implement the abstract    *)
(* replica: no retry or replay of the relay takes a row back to an older   *)
(* version.                                                                *)
THEOREM PipelineImplementsReplica == PipelineSpec => ReplicaSpec
  <1>1. PipelineInit => Replica!Init
    BY DEF PipelineInit, Init, Replica!Init
  <1>2. Delivered /\ [PipelineNext]_pipelineVars => [Replica!Next]_projection
    BY PipelineEvolves, ReplicaStep DEF Delivered, Safe, Relayed
  <1> QED
    BY <1>1, <1>2, DeliveredInit, DeliveredNext, PTL
    DEF PipelineSpec, ReplicaSpec, Replica!Spec

-----------------------------------------------------------------------------
(* The endpoint before the relay.  As much of the types of a request       *)
(* thread as the service needs: it saves a valid element of its batch.     *)
Requests == [source : Sources, batch : Seq(Endpoint!Elements), known : Int,
             results : Seq(Endpoint!Status)]

Row == [event : Valid, via : Sources]

SavesValid ==
    \A t \in Threads : serving[t] = "saving" =>
        Endpoint!MoreElements(t) /\ Endpoint!Current(t) \in Valid

Posted ==
    /\ inbox \in Seq(Row)
    /\ lastSequence \in [Sources -> Int]
    /\ DOMAIN serving = Threads
    /\ request \in [Threads -> Requests]
    /\ SavesValid

(* What a thread will answer ACCEPTED or DUPLICATE has a row.              *)
ResultsHaveRows ==
    \A t \in Threads : \A n \in 1..Len(request[t].results) :
        request[t].results[n] \in Endpoint!Acknowledgement =>
            EventId[request[t].batch[n]] \in Endpoint!Stored

Answerable == ResultsHaveRows /\ Endpoint!AcknowledgedIsStored

(* The request of an idle thread. *)
LEMMA NoRequestFields ==
    /\ Endpoint!NoRequest \in Requests
    /\ Endpoint!NoRequest.results = <<>>
  <1>1. Endpoint!NoSequence \in Int
    BY DEF Endpoint!NoSequence
  <1>2. (CHOOSE s \in Sources : TRUE) \in Sources
    BY ServiceConstants
  <1>3. <<>> \in Seq(Endpoint!Elements) /\ <<>> \in Seq(Endpoint!Status)
    OBVIOUS
  <1> QED
    BY <1>1, <1>2, <1>3 DEF Endpoint!NoRequest, Requests

(* One more result. *)
LEMMA ResultAdded ==
    ASSUME Posted, NEW t \in Threads, NEW status \in Endpoint!Status,
           Endpoint!AddResult(t, status)
    PROVE  /\ request' \in [Threads -> Requests]
           /\ DOMAIN serving' = Threads /\ serving'[t] = "element"
           /\ request'[t].results = Append(request[t].results, status)
           /\ request'[t].batch = request[t].batch
           /\ \A u \in Threads \ {t} :
                  request'[u] = request[u] /\ serving'[u] = serving[u]
  <1>1. request[t] \in Requests /\ request[t].results \in Seq(Endpoint!Status)
    BY DEF Posted, Requests
  <1>2. Append(request[t].results, status) \in Seq(Endpoint!Status)
    BY <1>1
  <1>3. [request[t] EXCEPT !.results = Append(@, status)] \in Requests
    BY <1>1, <1>2 DEF Requests
  <1>4. /\ request'[t] = [request[t] EXCEPT !.results = Append(@, status)]
        /\ \A u \in Threads \ {t} : request'[u] = request[u]
        /\ DOMAIN request' = Threads
    BY DEF Endpoint!AddResult, Posted
  <1>5. request' \in [Threads -> Requests]
    BY <1>3, <1>4 DEF Posted, Endpoint!AddResult
  <1>6. /\ request'[t].results = Append(request[t].results, status)
        /\ request'[t].batch = request[t].batch
    BY <1>1, <1>4 DEF Requests
  <1>7. /\ DOMAIN serving' = Threads /\ serving'[t] = "element"
        /\ \A u \in Threads \ {t} : serving'[u] = serving[u]
    BY DEF Endpoint!AddResult, Posted
  <1> QED
    BY <1>4, <1>5, <1>6, <1>7

(* The one row a transaction adds. *)
RowAdded(v) ==
    /\ inbox' \in Seq(Row) /\ inbox' # inbox
    /\ lastSequence' \in [Sources -> Int]
    /\ inbox'[Len(inbox')].event = v
    /\ EventId[v] \notin Endpoint!Stored
    /\ Endpoint!Stored' = Endpoint!Stored \union {EventId[v]}

LEMMA CommitAdds ==
    ASSUME Posted, NEW t \in Threads, Endpoint!Commit(t)
    PROVE  Endpoint!Current(t) \in Valid /\ RowAdded(Endpoint!Current(t))
  <1>1. PICK v : v = Endpoint!Current(t)
    OBVIOUS
  <1>2. v \in Valid /\ v \in Envelopes
    BY <1>1, ServiceConstants DEF Endpoint!Commit, Posted, SavesValid
  <1>3. PICK row : row = [event |-> v, via |-> request[t].source]
    OBVIOUS
  <1>4. row \in Row /\ row.event = v /\ request[t].source \in Sources
    BY <1>2, <1>3 DEF Posted, Requests, Row
  <1>5. PICK q \in Seq(Row) : q = inbox
    BY DEF Posted
  <1>6. inbox' = Append(q, row)
    BY <1>1, <1>3, <1>5 DEF Endpoint!Commit
  <1>7. /\ inbox' \in Seq(Row) /\ Len(inbox') = Len(q) + 1 /\ Len(q) \in Nat
        /\ inbox'[Len(q) + 1] = row
        /\ DOMAIN q = 1..Len(q) /\ DOMAIN inbox' = 1..Len(q) + 1
        /\ \A n \in 1..Len(q) : inbox'[n] = q[n]
    BY <1>4, <1>5, <1>6
  <1>8. inbox' # inbox
    BY <1>5, <1>7
  <1>9. EventId[v] \notin Endpoint!Stored
    BY <1>1 DEF Endpoint!Commit, Endpoint!Exists, Endpoint!Stored
  <1>10. Endpoint!Stored' = Endpoint!Stored \union {EventId[v]}
    <2>1. \A e : e \in Endpoint!Stored' <=> \E n \in 1..Len(q) + 1 : e = EventId[inbox'[n].event]
      BY <1>7 DEF Endpoint!Stored
    <2>2. \A e : e \in Endpoint!Stored <=> \E n \in 1..Len(q) : e = EventId[q[n].event]
      BY <1>5, <1>7 DEF Endpoint!Stored
    <2>3. \A n \in 1..Len(q) + 1 : n \in 1..Len(q) \/ n = Len(q) + 1
      BY <1>7
    <2>4. 1..Len(q) \subseteq 1..Len(q) + 1 /\ Len(q) + 1 \in 1..Len(q) + 1
      BY <1>7
    <2> QED
      BY <1>4, <1>7, <2>1, <2>2, <2>3, <2>4
  <1>11. lastSequence' \in [Sources -> Int]
    <2>1. SequenceOf[v] \in Int
      BY <1>2, ServiceConstants
    <2> QED
      BY <1>1, <1>4, <2>1 DEF Endpoint!Commit, Endpoint!UpdateLastSeen, Posted
  <1> QED
    BY <1>1, <1>2, <1>4, <1>7, <1>8, <1>9, <1>10, <1>11 DEF RowAdded

(* What a step of a thread leaves of the requests. *)
Kept(t) ==
    \A u \in Threads \ {t} : request'[u] = request[u] /\ serving'[u] = serving[u]

(* A thread that is idle, or is between two elements, saves nothing. *)
LEMMA PostedKept ==
    ASSUME Posted, NEW t \in Threads, Kept(t), inbox' \in Seq(Row),
           lastSequence' \in [Sources -> Int], DOMAIN serving' = Threads,
           request' \in [Threads -> Requests], serving'[t] # "saving"
    PROVE  Posted'
  <1> SUFFICES ASSUME NEW u \in Threads, serving'[u] = "saving"
               PROVE  Endpoint!MoreElements(u)' /\ Endpoint!Current(u)' \in Valid
    BY DEF Posted, SavesValid
  <1>1. request'[u] = request[u] /\ serving[u] = "saving"
    BY DEF Kept
  <1> QED
    BY <1>1 DEF Posted, SavesValid, Endpoint!MoreElements, Endpoint!Current

(* One more result, of an event that has a row if it says so. *)
LEMMA AnswerableKept ==
    ASSUME Posted, Answerable, Endpoint!Stored \subseteq Endpoint!Stored',
           NEW t \in Threads, NEW status \in Endpoint!Status,
           Endpoint!AddResult(t, status), answers' = answers,
           status \in Endpoint!Acknowledgement =>
               EventId[Endpoint!Current(t)] \in Endpoint!Stored'
    PROVE  Answerable'
  <1>1. /\ request'[t].results = Append(request[t].results, status)
        /\ request'[t].batch = request[t].batch
        /\ \A u \in Threads \ {t} : request'[u] = request[u]
    BY ResultAdded
  <1>2. request[t].results \in Seq(Endpoint!Status)
    BY DEF Posted, Requests
  <1>3. ASSUME NEW u \in Threads, NEW n \in 1..Len(request'[u].results),
               request'[u].results[n] \in Endpoint!Acknowledgement
        PROVE  EventId[request'[u].batch[n]] \in Endpoint!Stored'
    <2>1. CASE u # t
      BY <1>1, <1>3, <2>1 DEF Answerable, ResultsHaveRows
    <2>2. CASE u = t /\ n = Len(request[t].results) + 1
      <3>1. request'[u].results[n] = status /\ request'[u].batch[n] = Endpoint!Current(t)
        BY <1>1, <1>2, <2>2 DEF Endpoint!Current
      <3> QED
        BY <1>3, <3>1
    <2>3. CASE u = t /\ n # Len(request[t].results) + 1
      <3>1. n \in 1..Len(request[t].results)
        BY <1>1, <1>2, <1>3, <2>3
      <3>2. request'[u].results[n] = request[t].results[n]
        BY <1>1, <1>2, <2>3, <3>1
      <3>3. EventId[request[t].batch[n]] \in Endpoint!Stored
        BY <1>3, <3>1, <3>2 DEF Answerable, ResultsHaveRows
      <3> QED
        BY <1>1, <2>3, <3>3
    <2> QED
      BY <2>1, <2>2, <2>3
  <1>4. Endpoint!Acknowledged' = Endpoint!Acknowledged
    BY DEF Endpoint!Acknowledged
  <1> QED
    BY <1>3, <1>4 DEF Answerable, ResultsHaveRows, Endpoint!AcknowledgedIsStored

(* A request ends, or there are new ones that have no result yet. *)
LEMMA AnswerableEnds ==
    ASSUME Answerable, UNCHANGED inbox,
           \A t \in Threads : request'[t] = request[t] \/ request'[t].results = <<>>,
           \A a \in answers' \ answers :
               a[2] \in Endpoint!Acknowledgement => EventId[a[1]] \in Endpoint!Stored
    PROVE  Answerable'
  <1>1. Endpoint!Stored' = Endpoint!Stored
    BY DEF Endpoint!Stored
  <1>2. ResultsHaveRows'
    BY <1>1 DEF Answerable, ResultsHaveRows
  <1>3. ASSUME NEW a \in answers', a[2] \in Endpoint!Acknowledgement
        PROVE  EventId[a[1]] \in Endpoint!Stored
    BY <1>3 DEF Answerable, Endpoint!AcknowledgedIsStored, Endpoint!Acknowledged
  <1> QED
    BY <1>1, <1>2, <1>3 DEF Answerable, Endpoint!AcknowledgedIsStored, Endpoint!Acknowledged

(* A step of the endpoint: it adds no row, or one of a valid envelope. *)
EndpointStep ==
    /\ Posted' /\ Answerable'
    /\ \/ UNCHANGED inbox
       \/ \E v \in Valid : RowAdded(v)

LEMMA EndpointNext ==
    ASSUME Posted, Answerable, Endpoint!Next
    PROVE  EndpointStep
  <1>1. CASE Endpoint!Crash
    <2>1. \A t \in Threads : request'[t] = Endpoint!NoRequest /\ serving'[t] = "idle"
      BY <1>1 DEF Endpoint!Crash
    <2>2. request' \in [Threads -> Requests] /\ DOMAIN serving' = Threads
      BY <1>1, NoRequestFields DEF Endpoint!Crash
    <2>3. Posted'
      BY <1>1, <2>1, <2>2 DEF Endpoint!Crash, Posted, SavesValid
    <2>4. UNCHANGED <<inbox, answers>>
      BY <1>1 DEF Endpoint!Crash
    <2>5. Answerable'
      BY <2>1, <2>4, NoRequestFields, AnswerableEnds
    <2> QED
      BY <2>3, <2>4, <2>5 DEF EndpointStep
  <1>2. ASSUME NEW t \in Threads, Endpoint!Step(t)
        PROVE  EndpointStep
    <2>1. ASSUME NEW status \in Endpoint!Status, Endpoint!AddResult(t, status),
                 UNCHANGED <<inbox, lastSequence, answers>>,
                 status \in Endpoint!Acknowledgement =>
                     EventId[Endpoint!Current(t)] \in Endpoint!Stored
          PROVE  EndpointStep
      <3>1. Endpoint!Stored' = Endpoint!Stored
        BY <2>1 DEF Endpoint!Stored
      <3>2. Answerable'
        BY <2>1, <3>1, AnswerableKept
      <3>3. Posted'
        BY <2>1, ResultAdded, PostedKept DEF Kept, Posted
      <3> QED
        BY <2>1, <3>2, <3>3 DEF EndpointStep
    <2>2. ASSUME NEW status \in Endpoint!Status, Endpoint!AddResult(t, status),
                 Endpoint!Commit(t), answers' = answers
          PROVE  EndpointStep
      <3>1. PICK v \in Valid : v = Endpoint!Current(t) /\ RowAdded(v)
        BY <2>2, CommitAdds
      <3>2. Answerable'
        BY <2>2, <3>1, AnswerableKept DEF RowAdded
      <3>3. Posted'
        BY <2>2, <3>1, ResultAdded, PostedKept DEF Kept, RowAdded
      <3> QED
        BY <3>1, <3>2, <3>3 DEF EndpointStep
    <2>3. ASSUME NEW r \in Requests, request' = [request EXCEPT ![t] = r],
                 r.results = <<>>, serving'[t] # "saving", DOMAIN serving' = Threads,
                 \A u \in Threads \ {t} : serving'[u] = serving[u],
                 UNCHANGED <<inbox, lastSequence>>,
                 \A a \in answers' \ answers :
                     a[2] \in Endpoint!Acknowledgement => EventId[a[1]] \in Endpoint!Stored
          PROVE  EndpointStep
      <3>1. /\ request' \in [Threads -> Requests]
            /\ \A u \in Threads : request'[u] = IF u = t THEN r ELSE request[u]
        BY <2>3 DEF Posted
      <3>2. Posted'
        BY <2>3, <3>1, PostedKept DEF Kept, Posted
      <3>3. Answerable'
        BY <2>3, <3>1, AnswerableEnds
      <3> QED
        BY <2>3, <3>2, <3>3 DEF EndpointStep
    <2>4. ASSUME NEW s \in Sources, NEW b \in Endpoint!Batches, Endpoint!Receive(t, s, b)
          PROVE  EndpointStep
      <3>1. PICK r : r = [source |-> s, batch |-> b,
                          known |-> lastSequence[s], results |-> <<>>]
        OBVIOUS
      <3>2. b \in Seq(Endpoint!Elements)
        BY ServiceConstants DEF Endpoint!Batches
      <3>3. r \in Requests /\ r.results = <<>>
        BY <3>1, <3>2 DEF Requests, Posted
      <3>4. /\ request' = [request EXCEPT ![t] = r]
            /\ serving' = [serving EXCEPT ![t] = "element"]
            /\ UNCHANGED <<inbox, lastSequence, answers>>
        BY <2>4, <3>1 DEF Endpoint!Receive
      <3> QED
        BY <2>3, <3>3, <3>4 DEF Posted
    <2>5. CASE Endpoint!AnswerDuplicate(t)
      <3>1. EventId[Endpoint!Current(t)] \in Endpoint!Stored /\ "DUPLICATE" \in Endpoint!Status
        BY <2>5 DEF Endpoint!AnswerDuplicate, Endpoint!Exists, Endpoint!Stored, Endpoint!Status
      <3> QED
        BY <2>1, <2>5, <3>1 DEF Endpoint!AnswerDuplicate
    <2>6. CASE Endpoint!AnswerInvalid(t) \/ Endpoint!SaveConflict(t)
               \/ Endpoint!TransactionFails(t)
      <3>1. "REJECTED" \in Endpoint!Status /\ "REJECTED" \notin Endpoint!Acknowledgement
        BY DEF Endpoint!Status, Endpoint!Acknowledgement
      <3> QED
        BY <2>1, <2>6, <3>1
        DEF Endpoint!AnswerInvalid, Endpoint!SaveConflict, Endpoint!TransactionFails
    <2>7. CASE Endpoint!CheckSequence(t)
      <3>1. /\ Endpoint!MoreElements(t) /\ Endpoint!Current(t) \in Valid
            /\ serving' = [serving EXCEPT ![t] = "saving"]
            /\ UNCHANGED <<inbox, lastSequence, request, answers>>
        BY <2>7 DEF Endpoint!CheckSequence
      <3>2. Posted'
        BY <3>1 DEF Posted, SavesValid, Endpoint!MoreElements, Endpoint!Current
      <3>3. Answerable'
        BY <3>1, AnswerableEnds
      <3> QED
        BY <3>1, <3>2, <3>3 DEF EndpointStep
    <2>8. CASE Endpoint!Save(t) \/ Endpoint!CommitReplyLost(t)
      BY <2>2, <2>8 DEF Endpoint!Save, Endpoint!CommitReplyLost, Endpoint!Status
    <2>9. CASE Endpoint!AbortOnNull(t)
      BY <2>3, <2>9, NoRequestFields DEF Endpoint!AbortOnNull, Posted
    <2>10. CASE Endpoint!Respond(t)
      <3>1. ASSUME NEW a \in answers' \ answers, a[2] \in Endpoint!Acknowledgement
            PROVE  EventId[a[1]] \in Endpoint!Stored
        <4>1. PICK n \in 1..Len(request[t].results) :
                       a = <<request[t].batch[n], request[t].results[n]>>
          BY <2>10, <3>1 DEF Endpoint!Respond
        <4> QED
          BY <3>1, <4>1 DEF Answerable, ResultsHaveRows
      <3>2. /\ request' = [request EXCEPT ![t] = Endpoint!NoRequest]
            /\ serving' = [serving EXCEPT ![t] = "idle"]
            /\ UNCHANGED <<inbox, lastSequence>>
        BY <2>10 DEF Endpoint!Respond
      <3> QED
        BY <2>3, <3>1, <3>2, NoRequestFields DEF Posted
    <2> QED
      BY <1>2, <2>4, <2>5, <2>6, <2>7, <2>8, <2>9, <2>10 DEF Endpoint!Step
  <1> QED
    BY <1>1, <1>2 DEF Endpoint!Next

-----------------------------------------------------------------------------
(* The table the endpoint and the relay share.                             *)
Known == {e \in Events : state[e] # "ABSENT"}

(* The relay, its producers and the topics only ever hold events that have *)
(* a row.                                                                  *)
Tracked ==
    /\ state \in [Events -> Relay!InboxState \union {"ABSENT"}]
    /\ \A i \in Instances : DOMAIN batch[i] \subseteq Known
    /\ \A i \in Instances : current[i] \in Known \union {NoEvent}
    /\ inflight \in [Instances -> Seq(Known)]
    /\ log \in [Partitions -> Seq(Known)]

(* The rows the relay sees are the ones the endpoint has committed.        *)
OneTable == Known = Endpoint!Stored

(* A step that neither adds a row nor hands anybody another event.         *)
LEMMA TrackedKept ==
    ASSUME Tracked, RelayTypes, RelayTypes', Known' = Known,
           state' \in [Events -> Relay!InboxState \union {"ABSENT"}],
           \A i \in Instances : DOMAIN batch'[i] \subseteq Known,
           \A i \in Instances : current'[i] \in Known \union {NoEvent},
           inflight' \in [Instances -> Seq(Known)],
           log' \in [Partitions -> Seq(Known)]
    PROVE  Tracked'
  BY DEF Tracked

(* The sends that remain, and the one that was resolved, are of rows.      *)
LEMMA ResolveKnown ==
    ASSUME Tracked, NEW i \in Instances, NEW k \in DOMAIN inflight[i],
           inflight' = [inflight EXCEPT ![i] = Relay!RemoveAt(@, k)]
    PROVE  inflight[i][k] \in Known /\ inflight' \in [Instances -> Seq(Known)]
  <1>1. inflight[i] \in Seq(Known) /\ k \in 1..Len(inflight[i])
    BY DEF Tracked
  <1>2. Relay!RemoveAt(inflight[i], k) \in Seq(Known)
    BY <1>1, ResolvedSends
  <1>3. \A j \in Instances : inflight'[j] =
            IF j = i THEN Relay!RemoveAt(inflight[i], k) ELSE inflight[j]
    BY DEF Tracked
  <1>4. DOMAIN inflight' = Instances
    BY DEF Tracked
  <1> QED
    BY <1>1, <1>2, <1>3, <1>4 DEF Tracked

LEMMA ForwardingKeeps ==
    ASSUME Tracked, RelayTypes, RelayTypes', Forwarding
    PROVE  Tracked' /\ Known' = Known
  <1> USE DEF Relay!rowVars, Relay!cycleVars, Relay!kafkaVars
  <1> DEFINE States == Relay!InboxState \union {"ABSENT"}
  <1>0. /\ {"RECEIVED", "LEASED", "SENT", "DEAD"} \subseteq States
        /\ NoEvent \notin Events
    BY ProjectionConstants DEF Relay!InboxState
  <1> HIDE DEF States
  <1>s. state \in [Events -> States]
    BY DEF Tracked, States
  <1>a. ASSUME state' \in [Events -> States], Known' = Known,
               \A i \in Instances : DOMAIN batch'[i] \subseteq Known,
               \A i \in Instances : current'[i] \in Known \union {NoEvent},
               inflight' \in [Instances -> Seq(Known)],
               log' \in [Partitions -> Seq(Known)]
        PROVE  Tracked' /\ Known' = Known
    BY <1>a, TrackedKept DEF States
  <1>b. /\ \A i \in Instances : DOMAIN batch[i] \subseteq Known
        /\ \A i \in Instances : current[i] \in Known \union {NoEvent}
        /\ inflight \in [Instances -> Seq(Known)]
        /\ log \in [Partitions -> Seq(Known)]
    BY DEF Tracked
  <1>c. UNCHANGED state => state' \in [Events -> States] /\ Known' = Known
    BY <1>s DEF Known
  <1>1. ASSUME NEW i \in Instances, Relay!LeaseBatch(i) PROVE Tracked' /\ Known' = Known
    <2>1. PICK S \in SUBSET Relay!Rows("RECEIVED") :
              state' = [e \in Events |-> IF e \in S THEN "LEASED" ELSE state[e]]
      BY <1>1 DEF Relay!LeaseBatch
    <2>2. \A e \in S : state[e] = "RECEIVED"
      BY DEF Relay!Rows
    <2>3. Known' = Known
      BY <2>1, <2>2 DEF Known
    <2>4. state' \in [Events -> States]
      BY <1>0, <1>s, <2>1
    <2> QED
      BY <1>1, <1>a, <1>b, <2>3, <2>4 DEF Relay!LeaseBatch
  <1>2. ASSUME NEW i \in Instances, Relay!FindLeased(i) PROVE Tracked' /\ Known' = Known
    <2>1. DOMAIN batch'[i] = Relay!Rows("LEASED")
          /\ \A j \in Instances \ {i} : batch'[j] = batch[j]
      BY <1>2 DEF Relay!FindLeased, RelayTypes
    <2>2. Relay!Rows("LEASED") \subseteq Known
      BY DEF Relay!Rows, Known
    <2> QED
      BY <1>2, <1>a, <1>b, <1>c, <2>1, <2>2 DEF Relay!FindLeased
  <1>3. ASSUME NEW i \in Instances, Relay!Send(i) PROVE Tracked' /\ Known' = Known
    <2>1. PICK e \in DOMAIN batch[i] :
              /\ current' = [current EXCEPT ![i] = e]
              /\ inflight' = [inflight EXCEPT ![i] = Append(@, e)]
      BY <1>3 DEF Relay!Send
    <2>2. e \in Known /\ inflight[i] \in Seq(Known)
      BY <1>b
    <2>3. Append(inflight[i], e) \in Seq(Known)
      BY <2>2
    <2>4. inflight' \in [Instances -> Seq(Known)]
      BY <1>b, <2>1, <2>3
    <2>5. \A j \in Instances : current'[j] \in Known \union {NoEvent}
      BY <1>b, <2>1, <2>2 DEF RelayTypes
    <2> QED
      BY <1>3, <1>a, <1>b, <1>c, <2>4, <2>5 DEF Relay!Send
  <1>4. ASSUME NEW i \in Instances,
               Relay!EndCycle(i) \/ Relay!SendTimeout(i) \/ Relay!SaveFails(i)
        PROVE  Tracked' /\ Known' = Known
    BY <1>4, <1>a, <1>b, <1>c DEF Relay!EndCycle, Relay!SendTimeout, Relay!SaveFails
  <1>5. ASSUME NEW i \in Instances,
               Relay!MarkSent(i) \/ Relay!Retry(i) \/ Relay!MarkDead(i)
        PROVE  Tracked' /\ Known' = Known
    <2>1. PICK s, n : /\ s \in {"SENT", "LEASED", "DEAD"}
                      /\ Relay!SaveEntity(i, s, n) /\ UNCHANGED <<inflight, log>>
      BY <1>5 DEF Relay!MarkSent, Relay!Retry, Relay!MarkDead
    <2>2. \A e \in Events : state'[e] = IF e = current[i] THEN s ELSE state[e]
      BY <2>1 DEF Relay!SaveEntity, RelayTypes
    <2>3. state' \in [Events -> States]
      BY <1>0, <1>s, <2>1 DEF Relay!SaveEntity
    <2>4. Known' = Known
      BY <1>0, <1>b, <2>1, <2>2 DEF Known
    <2>5. /\ \A j \in Instances : DOMAIN batch'[j] \subseteq DOMAIN batch[j]
          /\ \A j \in Instances : current'[j] \in {current[j], NoEvent}
      BY <2>1 DEF Relay!SaveEntity, RelayTypes
    <2> QED
      BY <1>a, <1>b, <2>1, <2>3, <2>4, <2>5
  <1>6. ASSUME NEW i \in Instances, NEW k \in DOMAIN inflight[i],
               Relay!BrokerAppend(i, k)
        PROVE  Tracked' /\ Known' = Known
    <2>1. PICK e : e = inflight[i][k]
      OBVIOUS
    <2>2. e \in Known /\ e \in Events /\ inflight' \in [Instances -> Seq(Known)]
      BY <1>6, <2>1, ResolveKnown DEF Relay!BrokerAppend, Known
    <2>3. log' = [log EXCEPT ![PartitionOf[e]] = Append(@, e)]
      BY <1>6, <2>1 DEF Relay!BrokerAppend
    <2>4. log[PartitionOf[e]] \in Seq(Known)
      BY <1>b, <2>2, ProjectionConstants
    <2>5. Append(log[PartitionOf[e]], e) \in Seq(Known)
      BY <2>2, <2>4
    <2>6. log' \in [Partitions -> Seq(Known)]
      BY <1>b, <2>3, <2>5
    <2> QED
      BY <1>6, <1>a, <1>b, <1>c, <2>2, <2>6 DEF Relay!BrokerAppend
  <1>7. ASSUME NEW i \in Instances, NEW k \in DOMAIN inflight[i], Relay!BrokerDrop(i, k)
        PROVE  Tracked' /\ Known' = Known
    <2>1. inflight' \in [Instances -> Seq(Known)]
      BY <1>7, ResolveKnown DEF Relay!BrokerDrop
    <2> QED
      BY <1>7, <1>a, <1>b, <1>c, <2>1 DEF Relay!BrokerDrop
  <1>8. ASSUME NEW i \in Instances,
               Relay!DbFault(i) \/ Relay!Crash(i) \/ Relay!RetryRefused(i)
        PROVE  Tracked' /\ Known' = Known
    <2>1. /\ \A j \in Instances \ {i} : batch'[j] = batch[j] /\ current'[j] = current[j]
          /\ DOMAIN batch'[i] = {} /\ current'[i] = NoEvent
          /\ UNCHANGED <<state, log>>
      BY <1>8 DEF Relay!DbFault, Relay!Crash, Relay!RetryRefused, Relay!LeaveCycle,
                  Relay!NoEntity, Relay!rowVars, Relay!kafkaVars, RelayTypes
    <2>2. inflight' = inflight \/ inflight' = [inflight EXCEPT ![i] = <<>>]
      BY <1>8 DEF Relay!DbFault, Relay!Crash, Relay!RetryRefused, Relay!kafkaVars
    <2>3. <<>> \in Seq(Known)
      OBVIOUS
    <2>4. inflight' \in [Instances -> Seq(Known)]
      BY <1>b, <2>2, <2>3
    <2> QED
      BY <1>a, <1>b, <1>c, <2>1, <2>4
  <1>9. ASSUME NEW S \in SUBSET Events, Relay!Replay(S) PROVE Tracked' /\ Known' = Known
    <2>1. state' = [e \in Events |->
              IF e \in S /\ state[e] # "ABSENT" THEN "RECEIVED" ELSE state[e]]
      BY <1>9 DEF Relay!Replay
    <2>2. Known' = Known
      BY <2>1 DEF Known
    <2>3. state' \in [Events -> States]
      BY <1>0, <1>s, <2>1
    <2> QED
      BY <1>9, <1>a, <1>b, <2>2, <2>3 DEF Relay!Replay
  <1> QED
    BY <1>1, <1>2, <1>3, <1>4, <1>5, <1>6, <1>7, <1>8, <1>9
    DEF Forwarding, Relay!Cycle, Relay!Broker, Relay!Disturbance

(* A step of the endpoint leaves the relay's side alone, or inserts there  *)
(* the row it has committed.                                               *)
LEMMA IngestingKeeps ==
    ASSUME Posted, Answerable, Tracked, OneTable, RelayTypes, Ingesting
    PROVE  /\ Posted' /\ Answerable' /\ Tracked' /\ OneTable'
           /\ [PipelineNext]_pipelineVars
  <1>1. EndpointStep
    BY EndpointNext DEF Ingesting
  <1>2. CASE UNCHANGED inbox
    <2>1. UNCHANGED <<log, relaySide>> /\ UNCHANGED pipelineVars
      BY <1>2 DEF Ingesting, consumerSide, pipelineVars, vars
    <2>2. Endpoint!Stored' = Endpoint!Stored
      BY <1>2 DEF Endpoint!Stored
    <2>3. Tracked' /\ OneTable'
      BY <2>1, <2>2 DEF Tracked, OneTable, Known, relaySide
    <2> QED
      BY <1>1, <2>1, <2>3 DEF EndpointStep
  <1>3. ASSUME NEW v \in Valid, RowAdded(v)
        PROVE  Tracked' /\ OneTable' /\ PipelineNext
    <2>1. PICK e \in Events : e = EventId[v]
      BY ServiceConstants
    <2>2. Relay!Accept(e)
      BY <1>3, <2>1 DEF Ingesting, RowAdded
    <2>3. /\ \A f \in Events : state'[f] = IF f = e THEN "RECEIVED" ELSE state[f]
          /\ UNCHANGED <<batch, current, inflight, log>>
      BY <2>2 DEF Relay!Accept, Relay!cycleVars, Relay!kafkaVars, RelayTypes
    <2>4. Known' = Known \union {e}
      BY <2>3 DEF Known
    <2>5. OneTable'
      BY <1>3, <2>1, <2>4 DEF OneTable, RowAdded
    <2>6. state' \in [Events -> Relay!InboxState \union {"ABSENT"}]
      BY <2>2 DEF Relay!Accept, Tracked, Relay!InboxState
    <2>7. Seq(Known) \subseteq Seq(Known \union {e})
      OBVIOUS
    <2>8. Tracked'
      BY <2>3, <2>4, <2>6, <2>7 DEF Tracked
    <2>9. PipelineNext
      BY <2>2 DEF Ingesting, PipelineNext, Relaying, Relay!Next
    <2> QED
      BY <2>5, <2>8, <2>9
  <1> QED
    BY <1>1, <1>2, <1>3 DEF EndpointStep

(* A consumer writes nothing but its own side. *)
LEMMA ConsumeReads == Consume => UNCHANGED log
  BY DEF Consume, Process, Disruption, Deliver, Apply, Acknowledge, Fail,
         LosePartition, DeadLetter, DeadLetterFails, Rebalance, Crash

(* A step that leaves the endpoint and its rows alone.                     *)
LEMMA EndpointKept ==
    ASSUME Posted, Answerable, OneTable, UNCHANGED endpointSide, Known' = Known
    PROVE  Posted' /\ Answerable' /\ OneTable'
  <1>1. Endpoint!Stored' = Endpoint!Stored /\ Endpoint!Acknowledged' = Endpoint!Acknowledged
    BY DEF endpointSide, Endpoint!Stored, Endpoint!Acknowledged
  <1>2. Posted'
    BY DEF Posted, SavesValid, Endpoint!MoreElements, Endpoint!Current, endpointSide
  <1>3. Answerable'
    BY <1>1 DEF Answerable, ResultsHaveRows, Endpoint!AcknowledgedIsStored, endpointSide
  <1> QED
    BY <1>1, <1>2, <1>3 DEF OneTable

OneService == Posted /\ Answerable /\ Tracked /\ OneTable

LEMMA OneServiceInit == ServiceInit => OneService
  <1> SUFFICES ASSUME ServiceInit PROVE OneService
    OBVIOUS
  <1> USE DEF ServiceInit, PipelineInit
  <1>1. \A t \in Threads : request[t] = Endpoint!NoRequest /\ serving[t] = "idle"
    BY DEF Endpoint!Init
  <1>2. inbox = <<>> /\ answers = {}
    BY DEF Endpoint!Init
  <1>3. Posted
    <2>1. <<>> \in Seq(Row)
      OBVIOUS
    <2>2. lastSequence \in [Sources -> Int]
      BY DEF Endpoint!Init, Endpoint!NoSequence
    <2>3. DOMAIN serving = Threads /\ request \in [Threads -> Requests]
      BY NoRequestFields DEF Endpoint!Init
    <2> QED
      BY <1>1, <1>2, <2>1, <2>2, <2>3 DEF Posted, SavesValid
  <1>4. Answerable
    BY <1>1, <1>2, NoRequestFields
    DEF Answerable, ResultsHaveRows, Endpoint!AcknowledgedIsStored, Endpoint!Acknowledged
  <1>5. Known = {} /\ state \in [Events -> Relay!InboxState \union {"ABSENT"}]
    BY DEF Relay!Init, Known
  <1>6. OneTable
    BY <1>2, <1>5 DEF OneTable, Endpoint!Stored
  <1>7. Tracked
    <2>1. <<>> \in Seq({})
      OBVIOUS
    <2>2. DOMAIN Relay!NoEntity = {}
      BY DEF Relay!NoEntity
    <2> QED
      BY <1>5, <2>1, <2>2 DEF Relay!Init, Tracked
  <1> QED
    BY <1>3, <1>4, <1>6, <1>7 DEF OneService

LEMMA OneServiceNext ==
    ASSUME OneService, RelayTypes, [ServiceNext]_serviceVars
    PROVE  OneService' /\ [PipelineNext]_pipelineVars
  <1>1. CASE Ingesting
    BY <1>1, IngestingKeeps DEF OneService
  <1>2. CASE Forwarding
    <2>1. Relaying /\ UNCHANGED endpointSide
      BY <1>2 DEF Forwarding, Relaying, Relay!Next
    <2>2. [PipelineNext]_pipelineVars
      BY <2>1 DEF PipelineNext
    <2>3. RelayTypes'
      BY <2>2, TypesNext
    <2>4. Tracked' /\ Known' = Known
      BY <1>2, <2>3, ForwardingKeeps DEF OneService
    <2> QED
      BY <2>1, <2>2, <2>4, EndpointKept DEF OneService
  <1>3. CASE Projecting \/ UNCHANGED serviceVars
    <2>1. UNCHANGED <<log, relaySide, endpointSide>> /\ [PipelineNext]_pipelineVars
      BY <1>3, ConsumeReads
      DEF Projecting, Consuming, PipelineNext, serviceVars, pipelineVars, vars
    <2>2. Tracked' /\ Known' = Known
      BY <2>1 DEF OneService, Tracked, Known, relaySide
    <2> QED
      BY <2>1, <2>2, EndpointKept DEF OneService
  <1> QED
    BY <1>1, <1>2, <1>3 DEF ServiceNext

(* The inductive invariant of the service. *)
Served == OneService /\ Relayed /\ Settled

LEMMA ServedInit == ServiceInit => Served
  BY OneServiceInit, DeliveredInit, PipelineSettled DEF ServiceInit, Served, Delivered

LEMMA ServedNext ==
    ASSUME Served, [ServiceNext]_serviceVars
    PROVE  Served' /\ [PipelineNext]_pipelineVars
  <1>1. RelayTypes /\ Shape
    BY DEF Served, Relayed, Settled, Safe
  <1>2. OneService' /\ [PipelineNext]_pipelineVars
    BY <1>1, OneServiceNext DEF Served
  <1> QED
    BY <1>1, <1>2, RelayedNext, PipelineSettled DEF Served

(* The service implements the pipeline: the events whose rows the endpoint *)
(* commits are the ones the relay accepts, each once.                      *)
THEOREM ServiceImplementsPipeline == ServiceSpec => PipelineSpec
  <1>1. ServiceInit => PipelineInit
    BY DEF ServiceInit
  <1> QED
    BY <1>1, ServedInit, ServedNext, PTL DEF ServiceSpec, PipelineSpec

LEMMA ServedArrives == Served => AcknowledgedArrives
  <1> SUFFICES ASSUME Served, NEW e \in Endpoint!Acknowledged
               PROVE  \/ state[e] \in {"RECEIVED", "LEASED", "DEAD"}
                      \/ /\ state[e] = "SENT"
                         /\ CaughtUp(PartitionOf[e]) => Reflected(e) \/ DeadLettered(e)
    BY DEF AcknowledgedArrives
  <1>1. e \in Known
    BY DEF Served, OneService, Answerable, OneTable, Endpoint!AcknowledgedIsStored
  <1>2. e \in Events /\ state[e] \in {"RECEIVED", "LEASED", "SENT", "DEAD"}
    BY <1>1 DEF Known, Served, OneService, Tracked, Relay!InboxState
  <1>3. NoSilentLoss
    BY DeliveredIsNotLost DEF Served, Settled, Delivered
  <1>4. state[e] = "SENT" => (CaughtUp(PartitionOf[e]) => Reflected(e) \/ DeadLettered(e))
    BY <1>2, <1>3 DEF NoSilentLoss, Relay!Rows
  <1> QED
    BY <1>2, <1>4

(* Nothing acknowledged is lost: an event whose source was told it may     *)
(* forget it is on its way to its projection, waits for an operator, or is *)
(* reflected or dead-lettered, whatever fails on the way.                  *)
THEOREM AcknowledgedEventsArrive == ServiceSpec => []AcknowledgedArrives
  BY ServedInit, ServedNext, ServedArrives, PTL DEF ServiceSpec

LEMMA ServedWasAccepted == Served => ProjectedWasAccepted
  <1> SUFFICES ASSUME Served PROVE ProjectedWasAccepted
    OBVIOUS
  <1>1. ASSUME NEW e \in Known PROVE Accepted(e)
    <2>1. PICK i \in DOMAIN inbox : e = EventId[inbox[i].event]
      BY DEF Served, OneService, OneTable, Endpoint!Stored
    <2>2. inbox \in Seq(Row)
      BY DEF Served, OneService, Posted
    <2>3. inbox[i] \in Row
      BY <2>2
    <2> QED
      BY <2>1, <2>3 DEF Accepted, Row
  <1>2. log \in [Partitions -> Seq(Known)]
    BY DEF Served, OneService, Tracked
  <1>3. ASSUME NEW q \in Partitions, NEW n \in DOMAIN log[q] PROVE log[q][n] \in Known
    <2>1. log[q] \in Seq(Known)
      BY <1>2
    <2> QED
      BY <2>1
  <1>4. ASSUME NEW k \in Entities, NEW f, f = projection[k], f # NoEvent
        PROVE  f \in Known
    <2>1. f \in Events /\ Published(f)
      BY <1>4 DEF Served, Settled, RowsAreOwn, Safe, Shape, TypeOK
    <2>2. PartitionOf[f] \in Partitions
      BY <2>1, ProjectionConstants
    <2>3. PICK n \in DOMAIN log[PartitionOf[f]] : log[PartitionOf[f]][n] = f
      BY <2>1 DEF Published
    <2> QED
      BY <1>3, <2>2, <2>3
  <1> QED
    BY <1>1, <1>3, <1>4 DEF ProjectedWasAccepted

(* Only what was posted, validated and stored is ever published or         *)
(* projected.                                                              *)
THEOREM ProjectedEventsWereAccepted == ServiceSpec => []ProjectedWasAccepted
  BY ServedInit, ServedNext, ServedWasAccepted, PTL DEF ServiceSpec
=============================================================================
