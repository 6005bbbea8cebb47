-------------------------- MODULE InboxRelayProofs --------------------------
(***************************************************************************)
(* Proofs about InboxRelay, for any number of relay instances, events,     *)
(* attempts, faults and replays.                                           *)
(***************************************************************************)
EXTENDS InboxRelay, FiniteSetTheorems, SequenceTheorems, TLAPS

(* The sends that remain when the broker has resolved one. *)
LEMMA RemoveAtEffect ==
    ASSUME NEW S, NEW s \in Seq(S), NEW k \in 1..Len(s)
    PROVE  /\ RemoveAt(s, k) \in Seq(S)
           /\ Len(RemoveAt(s, k)) = Len(s) - 1
           /\ k < Len(s) => RemoveAt(s, k)[Len(s) - 1] = s[Len(s)]
  <1> DEFINE front == SubSeq(s, 1, k - 1)
             rest  == SubSeq(s, k + 1, Len(s))
  <1>1. front \in Seq(S) /\ rest \in Seq(S)
    OBVIOUS
  <1>2. Len(front) = k - 1 /\ Len(rest) = Len(s) - k
    OBVIOUS
  <1>3. k < Len(s) => rest[Len(s) - k] = s[Len(s)]
    OBVIOUS
  <1>4. RemoveAt(s, k) = front \o rest
    BY DEF RemoveAt
  <1> HIDE DEF front, rest
  <1>5. /\ front \o rest \in Seq(S)
        /\ Len(front \o rest) = Len(front) + Len(rest)
        /\ \A i \in 1..Len(front) + Len(rest) :
               (front \o rest)[i] =
                   IF i <= Len(front) THEN front[i] ELSE rest[i - Len(front)]
    BY <1>1, ConcatProperties
  <1>6. Len(front) + Len(rest) = Len(s) - 1
    BY <1>2
  <1>7. ASSUME k < Len(s)
        PROVE  (front \o rest)[Len(s) - 1] = rest[Len(s) - k]
    <2>1. /\ Len(s) - 1 \in 1..Len(front) + Len(rest)
          /\ ~(Len(s) - 1 <= Len(front))
          /\ Len(s) - 1 - Len(front) = Len(s) - k
      BY <1>2, <1>6, <1>7
    <2> QED
      BY <1>5, <2>1
  <1> QED
    BY <1>3, <1>4, <1>5, <1>6, <1>7


(* The sends that remain, one by one. *)
LEMMA RemoveAtElements ==
    ASSUME NEW S, NEW s \in Seq(S), NEW k \in 1..Len(s)
    PROVE  /\ DOMAIN RemoveAt(s, k) = 1..(Len(s) - 1)
           /\ \A j \in 1..(Len(s) - 1) :
                  RemoveAt(s, k)[j] = IF j < k THEN s[j] ELSE s[j + 1]
  <1> DEFINE front == SubSeq(s, 1, k - 1)
             rest  == SubSeq(s, k + 1, Len(s))
  <1>1. /\ front \in Seq(S) /\ rest \in Seq(S)
        /\ Len(front) = k - 1 /\ Len(rest) = Len(s) - k
        /\ \A j \in 1..(k - 1) : front[j] = s[j]
        /\ \A j \in 1..(Len(s) - k) : rest[j] = s[j + k]
    OBVIOUS
  <1>2. RemoveAt(s, k) = front \o rest
    BY DEF RemoveAt
  <1> HIDE DEF front, rest
  <1>3. /\ front \o rest \in Seq(S)
        /\ Len(front \o rest) = Len(front) + Len(rest)
        /\ \A j \in 1..Len(front) + Len(rest) :
               (front \o rest)[j] =
                   IF j <= Len(front) THEN front[j] ELSE rest[j - Len(front)]
    BY <1>1, ConcatProperties
  <1>4. Len(s) \in Nat /\ k \in Nat /\ k >= 1 /\ k <= Len(s)
    OBVIOUS
  <1>5. DOMAIN (front \o rest) = 1..(Len(s) - 1)
    BY <1>1, <1>3, <1>4
  <1>6. ASSUME NEW j \in 1..(Len(s) - 1)
        PROVE  (front \o rest)[j] = IF j < k THEN s[j] ELSE s[j + 1]
    <2>1. j \in 1..Len(front) + Len(rest)
      BY <1>1, <1>4
    <2>2. CASE j < k
      <3>1. j <= Len(front) /\ j \in 1..(k - 1)
        BY <1>1, <1>4, <2>2
      <3> QED
        BY <1>1, <1>3, <2>1, <2>2, <3>1
    <2>3. CASE ~(j < k)
      <3>1. /\ ~(j <= Len(front))
            /\ j - Len(front) = j - k + 1
            /\ j - k + 1 \in 1..(Len(s) - k)
            /\ (j - k + 1) + k = j + 1
        BY <1>1, <1>4, <2>3
      <3> QED
        BY <1>1, <1>3, <2>1, <2>3, <3>1
    <2> QED
      BY <2>2, <2>3
  <1> QED
    BY <1>2, <1>5, <1>6

-----------------------------------------------------------------------------
(* Types. *)

(* An instance that publishes holds the entity it publishes. *)
HoldsEntity ==
    \A i \in Instances :
        pc[i] \in {"sending", "acked", "failed"} => current[i] \in DOMAIN batch[i]

Shape == TypeOK /\ HoldsEntity

LEMMA NoEntityType == DOMAIN NoEntity = {}
  BY DEF NoEntity

LEMMA ShapeInit == Init => Shape
  BY NoEntityType, RelayConstants DEF Init, Shape, TypeOK, HoldsEntity

(* Every save writes a state and a natural number of attempts into the row *)
(* of the entity it holds.                                                 *)
LEMMA SaveEntityShape ==
    ASSUME Shape, NEW i \in Instances, pc[i] \in {"acked", "failed"},
           NEW s \in InboxState, NEW n \in Nat, SaveEntity(i, s, n),
           UNCHANGED <<kafkaVars, failures, boundVars>>
    PROVE  Shape'
  <1> USE DEF Shape
  <1>1. /\ DOMAIN batch' = Instances
        /\ \A j \in Instances \ {i} : batch'[j] = batch[j]
        /\ batch'[i] = [e \in DOMAIN batch[i] \ {current[i]} |-> batch[i][e]]
    BY DEF SaveEntity, TypeOK
  <1>2. ASSUME NEW j \in Instances
        PROVE  /\ DOMAIN batch'[j] \subseteq Events
               /\ batch'[j] \in [DOMAIN batch'[j] -> Nat]
    <2>1. CASE j = i
      BY <1>1, <2>1 DEF TypeOK
    <2>2. CASE j # i
      BY <1>1, <2>2 DEF TypeOK
    <2> QED
      BY <2>1, <2>2
  <1>3. TypeOK'
    BY <1>1, <1>2 DEF SaveEntity, TypeOK, kafkaVars, boundVars
  <1>4. HoldsEntity'
    BY <1>1 DEF SaveEntity, TypeOK, HoldsEntity
  <1> QED
    BY <1>3, <1>4

(* The attempts of the entity being published, as they were read. *)
LEMMA ReadType ==
    ASSUME Shape, NEW i \in Instances, pc[i] \in {"sending", "acked", "failed"}
    PROVE  /\ current[i] \in Events
           /\ current[i] \in DOMAIN batch[i]
           /\ Read(i) \in Nat
  BY DEF Shape, TypeOK, HoldsEntity, Read

(* The broker resolves one send: the producer keeps the others, and a send *)
(* that is waited for is still the last one unless it was resolved.        *)
LEMMA ResolvedSend ==
    ASSUME Shape, NEW i \in Instances, NEW k \in DOMAIN inflight[i],
           inflight' = [inflight EXCEPT ![i] = RemoveAt(@, k)]
    PROVE  /\ inflight[i][k] \in Events
           /\ inflight' \in [Instances -> Seq(Events)]
           /\ \A j \in Instances \ {i} : inflight'[j] = inflight[j]
           /\ Len(inflight'[i]) = Len(inflight[i]) - 1
           /\ k < Len(inflight[i]) =>
                  inflight'[i][Len(inflight[i]) - 1] = inflight[i][Len(inflight[i])]
  <1>1. inflight[i] \in Seq(Events) /\ k \in 1..Len(inflight[i])
    BY DEF Shape, TypeOK
  <1>2. inflight[i][k] \in Events
    BY <1>1
  <1>3. /\ inflight'[i] = RemoveAt(inflight[i], k)
        /\ \A j \in Instances \ {i} : inflight'[j] = inflight[j]
        /\ inflight' = [j \in Instances |-> IF j = i THEN RemoveAt(inflight[i], k)
                                                    ELSE inflight[j]]
    BY DEF Shape, TypeOK
  <1>4. /\ RemoveAt(inflight[i], k) \in Seq(Events)
        /\ Len(RemoveAt(inflight[i], k)) = Len(inflight[i]) - 1
        /\ k < Len(inflight[i]) =>
               RemoveAt(inflight[i], k)[Len(inflight[i]) - 1]
                   = inflight[i][Len(inflight[i])]
    BY <1>1, RemoveAtEffect
  <1>5. inflight' \in [Instances -> Seq(Events)]
    BY <1>3, <1>4 DEF Shape, TypeOK
  <1> QED
    BY <1>2, <1>3, <1>4, <1>5

LEMMA ShapeStep == Shape /\ [Next]_vars => Shape'
  <1> SUFFICES ASSUME Shape, [Next]_vars PROVE Shape'
    OBVIOUS
  <1> USE DEF Shape, rowVars, cycleVars, kafkaVars, boundVars
  <1>1. CASE \E e \in Events : Accept(e)
    BY <1>1 DEF Accept, TypeOK, HoldsEntity, InboxState
  <1>2. ASSUME NEW i \in Instances, LeaseBatch(i) PROVE Shape'
    BY <1>2 DEF LeaseBatch, TypeOK, HoldsEntity, InboxState
  <1>3. ASSUME NEW i \in Instances, FindLeased(i) PROVE Shape'
    <2>1. /\ DOMAIN batch' = Instances
          /\ \A j \in Instances \ {i} : batch'[j] = batch[j]
          /\ batch'[i] = [e \in Rows("LEASED") |-> attempts[e]]
      BY <1>3 DEF FindLeased, TypeOK
    <2>2. /\ DOMAIN batch'[i] = Rows("LEASED")
          /\ batch'[i] \in [DOMAIN batch'[i] -> Nat]
      BY <2>1 DEF Rows, TypeOK
    <2>3. TypeOK'
      BY <1>3, <2>1, <2>2 DEF FindLeased, TypeOK, Rows
    <2>4. HoldsEntity'
      BY <1>3, <2>1 DEF FindLeased, TypeOK, HoldsEntity
    <2> QED
      BY <2>3, <2>4
  <1>4. ASSUME NEW i \in Instances, Send(i) PROVE Shape'
    <2>1. PICK e \in DOMAIN batch[i] :
              /\ current' = [current EXCEPT ![i] = e]
              /\ inflight' = [inflight EXCEPT ![i] = Append(@, e)]
      BY <1>4 DEF Send
    <2>2. e \in Events
      BY DEF TypeOK
    <2>3. inflight' \in [Instances -> Seq(Events)]
      <3>1. inflight[i] \in Seq(Events)
        BY DEF TypeOK
      <3>2. Append(inflight[i], e) \in Seq(Events)
        BY <2>2, <3>1
      <3> QED
        BY <2>1, <3>2 DEF TypeOK
    <2>4. TypeOK'
      BY <1>4, <2>1, <2>2, <2>3 DEF Send, TypeOK
    <2>5. HoldsEntity'
      BY <1>4, <2>1 DEF Send, TypeOK, HoldsEntity
    <2> QED
      BY <2>4, <2>5
  <1>5. ASSUME NEW i \in Instances, EndCycle(i) PROVE Shape'
    BY <1>5 DEF EndCycle, TypeOK, HoldsEntity
  <1>6. ASSUME NEW i \in Instances, MarkSent(i) PROVE Shape'
    <2>1. Read(i) \in Nat /\ pc[i] = "acked"
      BY <1>6, ReadType DEF MarkSent
    <2> QED
      BY <1>6, <2>1, SaveEntityShape DEF MarkSent, InboxState
  <1>7. ASSUME NEW i \in Instances, Retry(i) PROVE Shape'
    <2>1. Read(i) + 1 \in Nat /\ pc[i] = "failed"
      BY <1>7, ReadType DEF Retry
    <2> QED
      BY <1>7, <2>1, SaveEntityShape DEF Retry, InboxState
  <1>8. ASSUME NEW i \in Instances, MarkDead(i) PROVE Shape'
    <2>1. Read(i) + 1 \in Nat /\ pc[i] = "failed"
      BY <1>8, ReadType DEF MarkDead
    <2> QED
      BY <1>8, <2>1, SaveEntityShape DEF MarkDead, InboxState
  <1>9. ASSUME NEW i \in Instances, SendTimeout(i) PROVE Shape'
    <2>1. current[i] \in Events
      BY <1>9, ReadType DEF SendTimeout
    <2> QED
      BY <1>9, <2>1 DEF SendTimeout, Fail, TypeOK, HoldsEntity
  <1>10. ASSUME NEW i \in Instances, NEW k \in DOMAIN inflight[i],
                BrokerAppend(i, k)
         PROVE  Shape'
    <2>1. inflight[i][k] \in Events /\ inflight' \in [Instances -> Seq(Events)]
      BY <1>10, ResolvedSend DEF BrokerAppend
    <2>2. log' \in [Partitions -> Seq(Events)]
      <3> DEFINE e == inflight[i][k]
      <3>1. PartitionOf[e] \in Partitions
        BY <2>1, RelayConstants
      <3>2. log[PartitionOf[e]] \in Seq(Events)
        BY <3>1 DEF TypeOK
      <3>3. Append(log[PartitionOf[e]], e) \in Seq(Events)
        BY <2>1, <3>2
      <3> QED
        BY <1>10, <3>3 DEF BrokerAppend, TypeOK
    <2>3. pc' = pc \/ (pc[i] = "sending" /\ pc' = [pc EXCEPT ![i] = "acked"])
      BY <1>10 DEF BrokerAppend, Awaited
    <2>4. TypeOK'
      BY <1>10, <2>1, <2>2, <2>3 DEF BrokerAppend, TypeOK
    <2>5. HoldsEntity'
      BY <1>10, <2>3 DEF BrokerAppend, TypeOK, HoldsEntity
    <2> QED
      BY <2>4, <2>5
  <1>11. ASSUME NEW i \in Instances, NEW k \in DOMAIN inflight[i],
                BrokerDrop(i, k)
         PROVE  Shape'
    <2>1. inflight' \in [Instances -> Seq(Events)]
      BY <1>11, ResolvedSend DEF BrokerDrop
    <2>2. \/ UNCHANGED <<pc, failures>>
          \/ /\ pc[i] = "sending"
             /\ pc' = [pc EXCEPT ![i] = "failed"]
             /\ failures' = [failures EXCEPT ![current[i]] = @ + 1]
      BY <1>11 DEF BrokerDrop, Awaited, Fail
    <2>3. pc[i] = "sending" => current[i] \in Events
      BY ReadType
    <2>4. /\ failures' \in [Events -> Nat]
          /\ pc' \in [Instances ->
                 {"idle", "leased", "loop", "sending", "acked", "failed"}]
      <3>1. CASE UNCHANGED <<pc, failures>>
        BY <3>1 DEF TypeOK
      <3>2. CASE /\ pc[i] = "sending"
                 /\ pc' = [pc EXCEPT ![i] = "failed"]
                 /\ failures' = [failures EXCEPT ![current[i]] = @ + 1]
        <4>1. current[i] \in Events
          BY <2>3, <3>2
        <4>2. failures' \in [Events -> Nat]
          BY <3>2, <4>1 DEF TypeOK
        <4> QED
          BY <3>2, <4>2 DEF TypeOK
      <3> QED
        BY <2>2, <3>1, <3>2
    <2>5. TypeOK'
      BY <1>11, <2>1, <2>4 DEF BrokerDrop, TypeOK
    <2>6. HoldsEntity'
      BY <1>11, <2>2 DEF BrokerDrop, TypeOK, HoldsEntity
    <2> QED
      BY <2>5, <2>6
  <1>12. ASSUME NEW i \in Instances, DbFault(i) \/ Crash(i) \/ RetryRefused(i) PROVE Shape'
    <2>1. /\ pc' = [pc EXCEPT ![i] = "idle"]
          /\ batch' = [batch EXCEPT ![i] = NoEntity]
          /\ current' = [current EXCEPT ![i] = NoEvent]
          /\ faults' \in 0..MaxFaults
          /\ inflight' \in [Instances -> Seq(Events)]
          /\ UNCHANGED <<rowVars, log, failures, replays>>
      <3>1. CASE DbFault(i)
        BY <3>1, RelayConstants DEF DbFault, Fault, LeaveCycle, TypeOK
      <3>2. CASE Crash(i)
        BY <3>2, RelayConstants DEF Crash, Fault, LeaveCycle, TypeOK
      <3>3. CASE RetryRefused(i)
        BY <3>3 DEF RetryRefused, LeaveCycle, TypeOK
      <3> QED
        BY <1>12, <3>1, <3>2, <3>3
    <2>2. /\ DOMAIN batch' = Instances
          /\ \A j \in Instances \ {i} : batch'[j] = batch[j]
          /\ batch'[i] = NoEntity
      BY <2>1 DEF TypeOK
    <2>3. ASSUME NEW j \in Instances
          PROVE  /\ DOMAIN batch'[j] \subseteq Events
                 /\ batch'[j] \in [DOMAIN batch'[j] -> Nat]
      BY <2>2 DEF TypeOK, NoEntity
    <2>4. TypeOK'
      BY <2>1, <2>2, <2>3 DEF TypeOK
    <2>5. HoldsEntity'
      BY <2>1, <2>2 DEF TypeOK, HoldsEntity
    <2> QED
      BY <2>4, <2>5
  <1>13. CASE \E S \in SUBSET Events : Replay(S)
    BY <1>13, RelayConstants DEF Replay, TypeOK, HoldsEntity, InboxState
  <1>14. CASE UNCHANGED vars
    BY <1>14 DEF vars, TypeOK, HoldsEntity
  <1>15. ASSUME NEW i \in Instances, SaveFails(i) PROVE Shape'
    <2>1. current[i] \in Events
      BY <1>15, ReadType DEF SaveFails
    <2> QED
      BY <1>15, <2>1, RelayConstants DEF SaveFails, Fail, Fault, TypeOK, HoldsEntity
  <1> QED
    BY <1>1, <1>2, <1>3, <1>4, <1>5, <1>6, <1>7, <1>8, <1>9, <1>10, <1>11,
       <1>12, <1>13, <1>14, <1>15
    DEF Next, Cycle, Broker, Disturbance

(* The state of the rows, of the cycles and of the producers keeps its     *)
(* type, whatever the instances do to each other's rows.                   *)
THEOREM TypeCorrect == Spec => []TypeOK
  <1>1. Shape => TypeOK
    BY DEF Shape
  <1> QED
    BY <1>1, ShapeInit, ShapeStep, PTL DEF Spec

-----------------------------------------------------------------------------
(* SENT means published. *)

(* The send an instance waits for is the last one its producer took. *)
WaitsForLast ==
    \A i \in Instances :
        pc[i] = "sending" =>
            Len(inflight[i]) > 0 /\ inflight[i][Len(inflight[i])] = current[i]

(* An acknowledged record is in its topic. *)
AckedIsInLog == \A i \in Instances : pc[i] = "acked" => InLog(current[i])

Published == WaitsForLast /\ AckedIsInLog /\ SentIsPublished

LEMMA PublishedInit == Init => Published
  BY DEF Init, Published, WaitsForLast, AckedIsInLog, SentIsPublished, Rows

(* An append keeps what is in the topics and adds the record sent. *)
LEMMA LogGrows ==
    ASSUME Shape, NEW i \in Instances, NEW k \in DOMAIN inflight[i],
           BrokerAppend(i, k), NEW e \in Events, InLog(e) \/ e = inflight[i][k]
    PROVE  InLog(e)'
  <1> DEFINE f == inflight[i][k]
             q == PartitionOf[f]
             r == PartitionOf[e]
  <1>1. f \in Events
    BY ResolvedSend DEF BrokerAppend
  <1>2. q \in Partitions /\ r \in Partitions
    BY <1>1, RelayConstants
  <1>3. log[q] \in Seq(Events) /\ log[r] \in Seq(Events)
    BY <1>2 DEF Shape, TypeOK
  <1>4. log' = [log EXCEPT ![q] = Append(@, f)]
    BY DEF BrokerAppend
  <1>5. log'[q] = Append(log[q], f) /\ (r # q => log'[r] = log[r])
    BY <1>2, <1>4 DEF Shape, TypeOK
  <1>6. CASE e = f
    <2>1. /\ Len(log[q]) + 1 \in DOMAIN Append(log[q], f)
          /\ Append(log[q], f)[Len(log[q]) + 1] = f
      BY <1>1, <1>3
    <2> QED
      BY <1>5, <1>6, <2>1 DEF InLog
  <1>7. CASE e # f
    <2>1. PICK n \in DOMAIN log[r] : log[r][n] = e
      BY <1>7 DEF InLog
    <2>2. n \in DOMAIN log'[r] /\ log'[r][n] = e
      <3>1. CASE r = q
        <4>1. n \in DOMAIN Append(log[q], f) /\ Append(log[q], f)[n] = e
          BY <1>1, <1>3, <2>1, <3>1
        <4> QED
          BY <1>5, <3>1, <4>1
      <3>2. CASE r # q
        BY <1>5, <2>1, <3>2
      <3> QED
        BY <3>1, <3>2
    <2> QED
      BY <2>2 DEF InLog
  <1> QED
    BY <1>6, <1>7

(* A save publishes nothing and marks SENT a row whose record is in the log. *)
LEMMA SaveEntityPublished ==
    ASSUME Shape, Published, NEW i \in Instances, NEW s \in InboxState, NEW n,
           SaveEntity(i, s, n), s = "SENT" => InLog(current[i]),
           UNCHANGED kafkaVars
    PROVE  Published'
  <1>1. \A e \in Events : InLog(e)' <=> InLog(e)
    BY DEF InLog, kafkaVars
  <1>2. SentIsPublished'
    <2> SUFFICES ASSUME NEW e \in Events, state'[e] = "SENT" PROVE InLog(e)'
      BY DEF SentIsPublished, Rows
    <2>1. CASE e = current[i]
      BY <1>1, <2>1 DEF SaveEntity, Shape, TypeOK
    <2>2. CASE e # current[i]
      BY <1>1, <2>2 DEF SaveEntity, Shape, TypeOK, Published, SentIsPublished, Rows
    <2> QED
      BY <2>1, <2>2
  <1>3. \A j \in Instances : pc'[j] \in {"sending", "acked"} =>
            pc'[j] = pc[j] /\ current'[j] = current[j]
    BY DEF SaveEntity, Shape, TypeOK
  <1>4. WaitsForLast'
    BY <1>3 DEF Published, WaitsForLast, kafkaVars
  <1>5. AckedIsInLog'
    BY <1>3 DEF Published, AckedIsInLog, InLog, kafkaVars
  <1> QED
    BY <1>2, <1>4, <1>5 DEF Published

(* What leaves the topics and the producers alone, marks no row SENT and   *)
(* takes no instance into a wait.                                          *)
LEMMA QuietPublished ==
    ASSUME Shape, Published, UNCHANGED log,
           \A e \in Events : state'[e] = "SENT" => state[e] = "SENT",
           \A j \in Instances :
               pc'[j] \in {"sending", "acked"} =>
                   /\ pc'[j] = pc[j]
                   /\ current'[j] = current[j]
                   /\ inflight'[j] = inflight[j]
    PROVE  Published'
  <1>1. \A e : InLog(e)' <=> InLog(e)
    BY DEF InLog
  <1>2. SentIsPublished'
    BY <1>1 DEF Published, SentIsPublished, Rows
  <1>3. WaitsForLast'
    BY DEF Published, WaitsForLast
  <1>4. AckedIsInLog'
    BY <1>1 DEF Published, AckedIsInLog, InLog
  <1> QED
    BY <1>2, <1>3, <1>4 DEF Published

LEMMA PublishedStep == Shape /\ Published /\ [Next]_vars => Published'
  <1> SUFFICES ASSUME Shape, Published, [Next]_vars PROVE Published'
    OBVIOUS
  <1> USE DEF rowVars, cycleVars, kafkaVars, boundVars
  <1>1. CASE \E e \in Events : Accept(e)
    BY <1>1, QuietPublished DEF Accept, Shape, TypeOK
  <1>2. ASSUME NEW i \in Instances, LeaseBatch(i) PROVE Published'
    BY <1>2, QuietPublished DEF LeaseBatch, Shape, TypeOK
  <1>3. ASSUME NEW i \in Instances, FindLeased(i) PROVE Published'
    BY <1>3, QuietPublished DEF FindLeased, Shape, TypeOK
  <1>4. ASSUME NEW i \in Instances, Send(i) PROVE Published'
    <2>1. PICK e \in DOMAIN batch[i] :
              /\ current' = [current EXCEPT ![i] = e]
              /\ inflight' = [inflight EXCEPT ![i] = Append(@, e)]
      BY <1>4 DEF Send
    <2>2. e \in Events /\ inflight[i] \in Seq(Events)
      BY DEF Shape, TypeOK
    <2>3. /\ current'[i] = e
          /\ inflight'[i] = Append(inflight[i], e)
          /\ \A j \in Instances \ {i} :
                 /\ current'[j] = current[j]
                 /\ inflight'[j] = inflight[j]
                 /\ pc'[j] = pc[j]
          /\ pc'[i] = "sending"
          /\ UNCHANGED <<log, state>>
      BY <1>4, <2>1 DEF Send, Shape, TypeOK
    <2>4. /\ Len(inflight'[i]) > 0
          /\ inflight'[i][Len(inflight'[i])] = e
      BY <2>2, <2>3
    <2>5. WaitsForLast'
      BY <2>3, <2>4 DEF Published, WaitsForLast
    <2>6. AckedIsInLog'
      BY <2>3 DEF Published, AckedIsInLog, InLog
    <2>7. SentIsPublished'
      BY <2>3 DEF Published, SentIsPublished, InLog, Rows
    <2> QED
      BY <2>5, <2>6, <2>7 DEF Published
  <1>5. ASSUME NEW i \in Instances, EndCycle(i) PROVE Published'
    BY <1>5, QuietPublished DEF EndCycle, Shape, TypeOK
  <1>6. ASSUME NEW i \in Instances, MarkSent(i) PROVE Published'
    <2>1. InLog(current[i])
      BY <1>6 DEF MarkSent, Published, AckedIsInLog
    <2> QED
      BY <1>6, <2>1, SaveEntityPublished DEF MarkSent, InboxState
  <1>7. ASSUME NEW i \in Instances, Retry(i) PROVE Published'
    BY <1>7, SaveEntityPublished DEF Retry, InboxState
  <1>8. ASSUME NEW i \in Instances, MarkDead(i) PROVE Published'
    BY <1>8, SaveEntityPublished DEF MarkDead, InboxState
  <1>9. ASSUME NEW i \in Instances, SendTimeout(i) PROVE Published'
    BY <1>9, QuietPublished DEF SendTimeout, Shape, TypeOK
  <1>10. ASSUME NEW i \in Instances, NEW k \in DOMAIN inflight[i],
                BrokerAppend(i, k)
         PROVE  Published'
    <2>1. \A e \in Events : InLog(e) \/ e = inflight[i][k] => InLog(e)'
      BY <1>10, LogGrows
    <2>2. /\ inflight[i][k] \in Events
          /\ \A j \in Instances \ {i} : inflight'[j] = inflight[j]
          /\ Len(inflight'[i]) = Len(inflight[i]) - 1
          /\ k < Len(inflight[i]) =>
                 inflight'[i][Len(inflight[i]) - 1] = inflight[i][Len(inflight[i])]
      BY <1>10, ResolvedSend DEF BrokerAppend
    <2>3. /\ UNCHANGED <<state, current>>
          /\ \A j \in Instances \ {i} : pc'[j] = pc[j]
          /\ pc'[i] = IF Awaited(i, k) THEN "acked" ELSE pc[i]
      BY <1>10 DEF BrokerAppend, Shape, TypeOK
    <2>4. k \in Nat /\ k > 0 /\ k <= Len(inflight[i]) /\ Len(inflight[i]) \in Nat
      BY DEF Shape, TypeOK
    <2>5. \A j \in Instances : pc[j] \in {"sending", "acked"} => current[j] \in Events
      BY ReadType
    <2>6. ASSUME NEW j \in Instances, pc'[j] = "sending"
          PROVE  /\ Len(inflight'[j]) > 0
                 /\ inflight'[j][Len(inflight'[j])] = current'[j]
      <3>1. CASE j # i
        BY <2>2, <2>3, <2>6, <3>1 DEF Published, WaitsForLast
      <3>2. CASE j = i
        <4>1. pc[i] = "sending" /\ k < Len(inflight[i])
          BY <2>3, <2>4, <2>6, <3>2 DEF Awaited
        <4> QED
          BY <2>2, <2>3, <2>4, <3>2, <4>1 DEF Published, WaitsForLast
      <3> QED
        BY <3>1, <3>2
    <2>7. ASSUME NEW j \in Instances, pc'[j] = "acked"
          PROVE  InLog(current[j])'
      <3>1. CASE pc[j] = "acked"
        <4>1. InLog(current[j]) /\ current[j] \in Events /\ current'[j] = current[j]
          BY <2>3, <2>5, <3>1 DEF Published, AckedIsInLog
        <4> QED
          BY <2>1, <4>1 DEF InLog
      <3>2. CASE pc[j] # "acked"
        <4>1. j = i /\ Awaited(i, k)
          BY <2>3, <2>7, <3>2
        <4>2. current[i] = inflight[i][k]
          BY <4>1 DEF Awaited, Published, WaitsForLast
        <4> QED
          BY <2>1, <2>2, <2>3, <4>1, <4>2 DEF InLog
      <3> QED
        BY <3>1, <3>2
    <2>8. SentIsPublished'
      BY <2>1, <2>3 DEF Published, SentIsPublished, Rows
    <2> QED
      BY <2>6, <2>7, <2>8 DEF Published, WaitsForLast, AckedIsInLog
  <1>11. ASSUME NEW i \in Instances, NEW k \in DOMAIN inflight[i],
                BrokerDrop(i, k)
         PROVE  Published'
    <2>1. /\ \A j \in Instances \ {i} : inflight'[j] = inflight[j]
          /\ Len(inflight'[i]) = Len(inflight[i]) - 1
          /\ k < Len(inflight[i]) =>
                 inflight'[i][Len(inflight[i]) - 1] = inflight[i][Len(inflight[i])]
      BY <1>11, ResolvedSend DEF BrokerDrop
    <2>2. /\ UNCHANGED <<state, current, log>>
          /\ \A j \in Instances \ {i} : pc'[j] = pc[j]
          /\ pc'[i] = IF Awaited(i, k) THEN "failed" ELSE pc[i]
      BY <1>11 DEF BrokerDrop, Shape, TypeOK
    <2>3. k \in Nat /\ k > 0 /\ k <= Len(inflight[i]) /\ Len(inflight[i]) \in Nat
      BY DEF Shape, TypeOK
    <2>4. ASSUME NEW j \in Instances, pc'[j] = "sending"
          PROVE  /\ Len(inflight'[j]) > 0
                 /\ inflight'[j][Len(inflight'[j])] = current'[j]
      <3>1. CASE j # i
        BY <2>1, <2>2, <2>4, <3>1 DEF Published, WaitsForLast
      <3>2. CASE j = i
        <4>1. pc[i] = "sending" /\ k < Len(inflight[i])
          BY <2>2, <2>3, <2>4, <3>2 DEF Awaited
        <4> QED
          BY <2>1, <2>2, <2>3, <3>2, <4>1 DEF Published, WaitsForLast
      <3> QED
        BY <3>1, <3>2
    <2>5. AckedIsInLog'
      BY <2>2 DEF Published, AckedIsInLog, InLog
    <2>6. SentIsPublished'
      BY <2>2 DEF Published, SentIsPublished, InLog, Rows
    <2> QED
      BY <2>4, <2>5, <2>6 DEF Published, WaitsForLast
  <1>12. ASSUME NEW i \in Instances, DbFault(i) \/ Crash(i) \/ RetryRefused(i)
         PROVE  Published'
    <2>1. /\ pc'[i] = "idle"
          /\ \A j \in Instances \ {i} :
                 /\ pc'[j] = pc[j]
                 /\ current'[j] = current[j]
                 /\ inflight'[j] = inflight[j]
          /\ UNCHANGED <<state, log>>
      BY <1>12 DEF DbFault, Crash, RetryRefused, LeaveCycle, Shape, TypeOK
    <2> QED
      BY <2>1, QuietPublished
  <1>13. CASE \E S \in SUBSET Events : Replay(S)
    BY <1>13, QuietPublished DEF Replay, Shape, TypeOK
  <1>14. CASE UNCHANGED vars
    BY <1>14, QuietPublished DEF vars
  <1>15. ASSUME NEW i \in Instances, SaveFails(i) PROVE Published'
    BY <1>15, QuietPublished DEF SaveFails, Shape, TypeOK
  <1> QED
    BY <1>1, <1>2, <1>3, <1>4, <1>5, <1>6, <1>7, <1>8, <1>9, <1>10, <1>11,
       <1>12, <1>13, <1>14, <1>15
    DEF Next, Cycle, Broker, Disturbance

(* With any number of instances publishing and overwriting the same rows,  *)
(* with late appends, crashes and replays, no row is SENT whose record is  *)
(* not in its topic.                                                       *)
THEOREM SentArePublished == Spec => []SentIsPublished
  <1>1. Published => SentIsPublished
    BY DEF Published
  <1> QED
    BY <1>1, ShapeInit, ShapeStep, PublishedInit, PublishedStep, PTL DEF Spec

-----------------------------------------------------------------------------
(* DEAD is earned. *)

(* attempts, in the rows and in the entities read from them, never exceeds *)
(* the failures that really happened; an entity whose publication has just *)
(* failed owes one more.                                                   *)
Counted ==
    /\ \A e \in Events : attempts[e] <= failures[e]
    /\ \A i \in Instances : \A e \in DOMAIN batch[i] : batch[i][e] <= failures[e]
    /\ \A i \in Instances :
           pc[i] = "failed" => Read(i) + 1 <= failures[current[i]]

Earned == Counted /\ DeadIsEarned

LEMMA EarnedInit == Init => Earned
  BY NoEntityType DEF Init, Earned, Counted, DeadIsEarned, Rows

(* A save writes attempts that were counted, and DEAD with enough of them. *)
LEMMA SaveEntityEarned ==
    ASSUME Shape, Earned, NEW i \in Instances, pc[i] \in {"acked", "failed"},
           NEW s \in InboxState, NEW n \in Nat, SaveEntity(i, s, n),
           n <= failures[current[i]], s = "DEAD" => n >= MAX_ATTEMPTS,
           UNCHANGED failures
    PROVE  Earned'
  <1>1. /\ \A j \in Instances \ {i} :
               /\ batch'[j] = batch[j]
               /\ current'[j] = current[j]
               /\ pc'[j] = pc[j]
        /\ batch'[i] = [e \in DOMAIN batch[i] \ {current[i]} |-> batch[i][e]]
        /\ pc'[i] = "loop"
    BY DEF SaveEntity, Shape, TypeOK
  <1>2. /\ current[i] \in Events
        /\ attempts'[current[i]] = n
        /\ state'[current[i]] = s
        /\ \A e \in Events \ {current[i]} :
               attempts'[e] = attempts[e] /\ state'[e] = state[e]
    BY ReadType DEF SaveEntity, Shape, TypeOK
  <1>3. ASSUME NEW e \in Events PROVE attempts'[e] <= failures'[e]
    BY <1>2 DEF Earned, Counted
  <1>4. ASSUME NEW j \in Instances, NEW e \in DOMAIN batch'[j]
        PROVE  batch'[j][e] <= failures'[e]
    <2>1. CASE j = i
      BY <1>1, <1>4, <2>1 DEF Earned, Counted
    <2>2. CASE j # i
      BY <1>1, <1>4, <2>2 DEF Earned, Counted
    <2> QED
      BY <2>1, <2>2
  <1>5. ASSUME NEW j \in Instances, pc'[j] = "failed"
        PROVE  Read(j)' + 1 <= failures'[current'[j]]
    BY <1>1, <1>5 DEF Earned, Counted, Read
  <1>6. Counted'
    BY <1>3, <1>4, <1>5 DEF Counted
  <1>7. ASSUME NEW e \in Events, state'[e] = "DEAD"
        PROVE  failures'[e] >= MAX_ATTEMPTS
    <2>1. CASE e = current[i]
      BY <1>2, <1>7, <2>1, RelayConstants DEF Shape, TypeOK
    <2>2. CASE e # current[i]
      BY <1>2, <1>7, <2>2 DEF Earned, DeadIsEarned, Rows
    <2> QED
      BY <2>1, <2>2
  <1> QED
    BY <1>6, <1>7 DEF Earned, DeadIsEarned, Rows

(* What marks no row DEAD, and counts no failure without an instance that  *)
(* saw it.                                                                 *)
LEMMA QuietEarned ==
    ASSUME Shape, Earned, UNCHANGED attempts,
           failures' \in [Events -> Nat],
           \A e \in Events : failures[e] <= failures'[e],
           \A e \in Events : state'[e] = "DEAD" => state[e] = "DEAD",
           \A j \in Instances :
               \/ batch'[j] = batch[j]
               \/ \A e \in DOMAIN batch'[j] :
                      e \in Events /\ batch'[j][e] = attempts[e],
           \A j \in Instances :
               pc'[j] = "failed" =>
                   /\ batch'[j] = batch[j]
                   /\ current'[j] = current[j]
                   /\ \/ pc[j] = "failed"
                      \/ /\ pc[j] \in {"sending", "acked"}
                         /\ failures'[current[j]] = failures[current[j]] + 1
    PROVE  Earned'
  <1> USE DEF Shape, TypeOK
  <1>1. ASSUME NEW e \in Events PROVE attempts'[e] <= failures'[e]
    BY DEF Earned, Counted
  <1>2. ASSUME NEW j \in Instances, NEW e \in DOMAIN batch'[j]
        PROVE  batch'[j][e] <= failures'[e]
    <2>1. CASE batch'[j] = batch[j]
      <3>1. /\ e \in Events
            /\ batch[j][e] \in Nat
            /\ batch[j][e] <= failures[e]
        BY <1>2, <2>1 DEF Earned, Counted
      <3> QED
        BY <2>1, <3>1
    <2>2. CASE \A f \in DOMAIN batch'[j] : f \in Events /\ batch'[j][f] = attempts[f]
      BY <1>1, <1>2, <2>2
    <2> QED
      BY <2>1, <2>2
  <1>3. ASSUME NEW j \in Instances, pc'[j] = "failed"
        PROVE  (Read(j) + 1 <= failures[current[j]])'
    <2>1. /\ pc[j] \in {"sending", "acked", "failed"}
          /\ batch'[j] = batch[j]
          /\ current'[j] = current[j]
      BY <1>3
    <2>2. /\ current[j] \in Events
          /\ current[j] \in DOMAIN batch[j]
          /\ Read(j) \in Nat
      BY <2>1, ReadType
    <2>3. Read(j)' = Read(j)
      BY <2>1 DEF Read
    <2>4. CASE pc[j] = "failed"
      <3>1. Read(j) + 1 <= failures[current[j]]
        BY <2>4 DEF Earned, Counted
      <3> QED
        BY <2>1, <2>2, <2>3, <3>1
    <2>5. CASE pc[j] # "failed"
      <3>1. Read(j) <= failures[current[j]]
        BY <2>2 DEF Earned, Counted, Read
      <3>2. failures'[current[j]] = failures[current[j]] + 1
        BY <1>3, <2>5
      <3> QED
        BY <2>1, <2>2, <2>3, <3>1, <3>2
    <2> QED
      BY <2>4, <2>5
  <1>4. Counted'
    BY <1>1, <1>2, <1>3 DEF Counted
  <1>5. ASSUME NEW e \in Events, state'[e] = "DEAD"
        PROVE  failures'[e] >= MAX_ATTEMPTS
    BY <1>5, RelayConstants DEF Earned, DeadIsEarned, Rows
  <1> QED
    BY <1>4, <1>5 DEF Earned, DeadIsEarned, Rows

LEMMA EarnedStep == Shape /\ Earned /\ [Next]_vars => Earned'
  <1> SUFFICES ASSUME Shape, Earned, [Next]_vars PROVE Earned'
    OBVIOUS
  <1> USE DEF rowVars, cycleVars, kafkaVars, boundVars
  <1>1. CASE \E e \in Events : Accept(e)
    BY <1>1, QuietEarned DEF Accept, Shape, TypeOK
  <1>2. ASSUME NEW i \in Instances, LeaseBatch(i) PROVE Earned'
    BY <1>2, QuietEarned DEF LeaseBatch, Shape, TypeOK
  <1>3. ASSUME NEW i \in Instances, FindLeased(i) PROVE Earned'
    BY <1>3, QuietEarned DEF FindLeased, Rows, Shape, TypeOK
  <1>4. ASSUME NEW i \in Instances, Send(i) PROVE Earned'
    BY <1>4, QuietEarned DEF Send, Shape, TypeOK
  <1>5. ASSUME NEW i \in Instances, EndCycle(i) PROVE Earned'
    BY <1>5, QuietEarned DEF EndCycle, Shape, TypeOK
  <1>6. ASSUME NEW i \in Instances, MarkSent(i) PROVE Earned'
    <2>1. Read(i) \in Nat /\ Read(i) <= failures[current[i]]
      BY <1>6, ReadType DEF MarkSent, Earned, Counted, Read
    <2> QED
      BY <1>6, <2>1, SaveEntityEarned DEF MarkSent, InboxState
  <1>7. ASSUME NEW i \in Instances, Retry(i) PROVE Earned'
    <2>1. Read(i) + 1 \in Nat /\ Read(i) + 1 <= failures[current[i]]
      BY <1>7, ReadType DEF Retry, Earned, Counted
    <2> QED
      BY <1>7, <2>1, SaveEntityEarned DEF Retry, InboxState
  <1>8. ASSUME NEW i \in Instances, MarkDead(i) PROVE Earned'
    <2>1. Read(i) + 1 \in Nat /\ Read(i) + 1 <= failures[current[i]]
      BY <1>8, ReadType DEF MarkDead, Earned, Counted
    <2>2. Read(i) + 1 >= MAX_ATTEMPTS
      BY <1>8 DEF MarkDead, IsLast
    <2> QED
      BY <1>8, <2>1, <2>2, SaveEntityEarned DEF MarkDead, InboxState
  <1>9. ASSUME NEW i \in Instances, SendTimeout(i) PROVE Earned'
    <2>1. current[i] \in Events
      BY <1>9, ReadType DEF SendTimeout
    <2> QED
      BY <1>9, <2>1, QuietEarned DEF SendTimeout, Fail, Shape, TypeOK
  <1>10. ASSUME NEW i \in Instances, NEW k \in DOMAIN inflight[i],
                BrokerAppend(i, k)
         PROVE  Earned'
    BY <1>10, QuietEarned DEF BrokerAppend, Shape, TypeOK
  <1>11. ASSUME NEW i \in Instances, NEW k \in DOMAIN inflight[i],
                BrokerDrop(i, k)
         PROVE  Earned'
    <2>1. CASE Awaited(i, k)
      <3>1. current[i] \in Events /\ pc[i] = "sending"
        BY <2>1, ReadType DEF Awaited
      <3>2. /\ failures' \in [Events -> Nat]
            /\ failures'[current[i]] = failures[current[i]] + 1
            /\ \A e \in Events : failures[e] <= failures'[e]
        <4>1. failures' = [failures EXCEPT ![current[i]] = @ + 1]
          BY <1>11, <2>1 DEF BrokerDrop, Fail
        <4> QED
          BY <3>1, <4>1 DEF Shape, TypeOK
      <3>3. /\ UNCHANGED <<state, attempts, batch, current>>
            /\ \A j \in Instances \ {i} : pc'[j] = pc[j]
        BY <1>11, <2>1 DEF BrokerDrop, Shape, TypeOK
      <3> QED
        BY <3>1, <3>2, <3>3, QuietEarned DEF Shape, TypeOK
    <2>2. CASE ~Awaited(i, k)
      BY <1>11, <2>2, QuietEarned DEF BrokerDrop, Shape, TypeOK
    <2> QED
      BY <2>1, <2>2
  <1>12. ASSUME NEW i \in Instances, DbFault(i) \/ Crash(i) \/ RetryRefused(i)
         PROVE  Earned'
    <2>1. /\ pc'[i] = "idle" /\ batch'[i] = NoEntity
          /\ \A j \in Instances \ {i} :
                 /\ pc'[j] = pc[j]
                 /\ current'[j] = current[j]
                 /\ batch'[j] = batch[j]
          /\ UNCHANGED <<state, attempts, failures>>
      BY <1>12 DEF DbFault, Crash, RetryRefused, LeaveCycle, Shape, TypeOK
    <2> QED
      BY <2>1, NoEntityType, QuietEarned DEF Shape, TypeOK
  <1>13. CASE \E S \in SUBSET Events : Replay(S)
    BY <1>13, QuietEarned DEF Replay, Shape, TypeOK
  <1>14. CASE UNCHANGED vars
    BY <1>14, QuietEarned DEF vars, Shape, TypeOK
  <1>15. ASSUME NEW i \in Instances, SaveFails(i) PROVE Earned'
    <2>1. current[i] \in Events
      BY <1>15, ReadType DEF SaveFails
    <2> QED
      BY <1>15, <2>1, QuietEarned DEF SaveFails, Fail, Shape, TypeOK
  <1> QED
    BY <1>1, <1>2, <1>3, <1>4, <1>5, <1>6, <1>7, <1>8, <1>9, <1>10, <1>11,
       <1>12, <1>13, <1>14, <1>15
    DEF Next, Cycle, Broker, Disturbance

(* With any number of instances that overwrite each other's attempts, with *)
(* crashes that lose increments and replays that keep them, no event is    *)
(* DEAD before MAX_ATTEMPTS of its publications failed.                    *)
THEOREM DeadAreEarned == Spec => []DeadIsEarned
  <1>1. Earned => DeadIsEarned
    BY DEF Earned
  <1> QED
    BY <1>1, ShapeInit, ShapeStep, EarnedInit, EarnedStep, PTL DEF Spec

-----------------------------------------------------------------------------
(* SENT is final, with one instance. *)

(* No row an instance has read and not saved is SENT. *)
UnsentBatch ==
    \A i \in Instances : \A e \in DOMAIN batch[i] : state[e] # "SENT"

LEMMA UnsentInit == Init => UnsentBatch
  BY NoEntityType DEF Init, UnsentBatch

(* With one instance, nobody but the cycle that read a row marks it SENT.  *)
LEMMA UnsentStep ==
    ASSUME NEW i \in Instances, Instances = {i}, Shape, UnsentBatch, [Next]_vars
    PROVE  UnsentBatch' /\ \A e \in Rows("SENT") :
                               state'[e] = "SENT" \/ replays' > replays
  <1> USE DEF rowVars, cycleVars, kafkaVars, boundVars, Shape, TypeOK, UnsentBatch, Rows
  <1>1. CASE \E e \in Events : Accept(e)
    BY <1>1 DEF Accept
  <1>2. CASE LeaseBatch(i)
    BY <1>2 DEF LeaseBatch
  <1>3. CASE FindLeased(i)
    BY <1>3 DEF FindLeased
  <1>4. CASE Send(i) \/ EndCycle(i) \/ SendTimeout(i) \/ SaveFails(i)
    BY <1>4 DEF Send, EndCycle, SendTimeout, SaveFails
  <1>5. ASSUME NEW s \in InboxState, NEW n, SaveEntity(i, s, n),
               pc[i] \in {"acked", "failed"}
        PROVE  UnsentBatch' /\ \A e \in Rows("SENT") : state'[e] = "SENT"
    <2>1. /\ current[i] \in Events
          /\ state[current[i]] # "SENT"
      BY <1>5, ReadType
    <2>2. /\ batch'[i] = [e \in DOMAIN batch[i] \ {current[i]} |-> batch[i][e]]
          /\ \A e \in Events \ {current[i]} : state'[e] = state[e]
      BY <1>5 DEF SaveEntity
    <2> QED
      BY <2>1, <2>2
  <1>6. CASE MarkSent(i) \/ Retry(i) \/ MarkDead(i)
    BY <1>5, <1>6 DEF MarkSent, Retry, MarkDead, InboxState
  <1>7. CASE Broker(i)
    BY <1>7 DEF Broker, BrokerAppend, BrokerDrop
  <1>8. CASE DbFault(i) \/ Crash(i) \/ RetryRefused(i)
    <2>1. batch'[i] = NoEntity /\ UNCHANGED state
      BY <1>8 DEF DbFault, Crash, RetryRefused, LeaveCycle
    <2> QED
      BY <2>1, NoEntityType
  <1>9. CASE \E S \in SUBSET Events : Replay(S)
    BY <1>9 DEF Replay
  <1>10. CASE UNCHANGED vars
    BY <1>10 DEF vars
  <1> QED
    BY <1>1, <1>2, <1>3, <1>4, <1>6, <1>7, <1>8, <1>9, <1>10
    DEF Next, Cycle, Disturbance

(* With one instance, only a replay reopens a published row, whatever      *)
(* times out late, crashes or is leased.  (With two it does not hold: the  *)
(* second one saves the entity it read before.)                            *)
THEOREM SentStaysSent ==
    ASSUME NEW i \in Instances, Instances = {i}
    PROVE  Spec => SentIsFinal
  <1>1. Shape /\ UnsentBatch /\ [Next]_vars =>
            UnsentBatch' /\ [\A e \in Rows("SENT") :
                                 state'[e] = "SENT" \/ replays' > replays]_vars
    BY UnsentStep
  <1> QED
    BY <1>1, ShapeInit, ShapeStep, UnsentInit, PTL DEF Spec, SentIsFinal
-----------------------------------------------------------------------------
(* Duplicates are explained, with one instance. *)

Occurrences(s, e) == Cardinality({k \in DOMAIN s : s[k] = e})

LEMMA OccurrencesType ==
    ASSUME NEW S, NEW s \in Seq(S), NEW e
    PROVE  /\ IsFiniteSet({k \in DOMAIN s : s[k] = e})
           /\ Occurrences(s, e) \in Nat
  <1>1. DOMAIN s = 1..Len(s) /\ Len(s) \in Nat
    OBVIOUS
  <1>2. IsFiniteSet(1..Len(s))
    BY <1>1, FS_Interval
  <1>3. IsFiniteSet({k \in DOMAIN s : s[k] = e})
    BY <1>1, <1>2, FS_Subset
  <1> QED
    BY <1>3, FS_CardinalityType DEF Occurrences

LEMMA OccurrencesAppend ==
    ASSUME NEW S, NEW s \in Seq(S), NEW f \in S, NEW e
    PROVE  /\ e = f => Occurrences(Append(s, f), e) = Occurrences(s, e) + 1
           /\ e # f => Occurrences(Append(s, f), e) = Occurrences(s, e)
  <1> DEFINE before == {k \in DOMAIN s : s[k] = e}
             after  == {k \in DOMAIN Append(s, f) : Append(s, f)[k] = e}
  <1>1. /\ Len(s) \in Nat
        /\ DOMAIN s = 1..Len(s)
        /\ DOMAIN Append(s, f) = 1..(Len(s) + 1)
        /\ Append(s, f)[Len(s) + 1] = f
        /\ \A k \in 1..Len(s) : Append(s, f)[k] = s[k]
    OBVIOUS
  <1>2. \A k \in 1..(Len(s) + 1) : k = Len(s) + 1 \/ k \in 1..Len(s)
    BY <1>1
  <1>3. Len(s) + 1 \notin before
    BY <1>1
  <1>4. CASE e = f
    <2>1. after = before \cup {Len(s) + 1}
      BY <1>1, <1>2, <1>4
    <2>2. IsFiniteSet(before)
      BY OccurrencesType
    <2>3. Cardinality(after) = Cardinality(before) + 1
      BY <1>3, <2>1, <2>2, FS_AddElement
    <2> QED
      BY <1>4, <2>3 DEF Occurrences
  <1>5. CASE e # f
    <2>1. after = before
      BY <1>1, <1>2, <1>5
    <2> QED
      BY <1>5, <2>1 DEF Occurrences
  <1> QED
    BY <1>4, <1>5

(* A send that is resolved leaves its producer once, and no other does. *)
LEMMA OccurrencesRemove ==
    ASSUME NEW S, NEW s \in Seq(S), NEW k \in 1..Len(s), NEW e
    PROVE  /\ Occurrences(RemoveAt(s, k), e) <= Occurrences(s, e)
           /\ s[k] = e => Occurrences(RemoveAt(s, k), e) <= Occurrences(s, e) - 1
  <1> DEFINE r == RemoveAt(s, k)
             before == {j \in DOMAIN s : s[j] = e}
             after  == {j \in DOMAIN r : r[j] = e}
  <1>1. Len(s) \in Nat /\ k \in Nat /\ DOMAIN s = 1..Len(s)
    OBVIOUS
  <1>2. /\ DOMAIN r = 1..(Len(s) - 1)
        /\ \A j \in 1..(Len(s) - 1) : r[j] = IF j < k THEN s[j] ELSE s[j + 1]
    BY RemoveAtElements
  <1>3. PICK move : move = [j \in after |-> IF j < k THEN j ELSE j + 1]
    OBVIOUS
  <1>4. ASSUME NEW j \in after PROVE move[j] \in before \ {k}
    <2>1. j \in 1..(Len(s) - 1) /\ r[j] = e
      BY <1>2
    <2>2. CASE j < k
      BY <1>1, <1>2, <1>3, <2>1, <2>2
    <2>3. CASE ~(j < k)
      <3>1. move[j] = j + 1 /\ j + 1 \in 1..Len(s) /\ j + 1 # k
        BY <1>1, <1>3, <2>1, <2>3
      <3> QED
        BY <1>1, <1>2, <2>1, <2>3, <3>1
    <2> QED
      BY <2>2, <2>3
  <1>5. ASSUME NEW j \in after, NEW l \in after, move[j] = move[l] PROVE j = l
    <2>1. j \in Int /\ l \in Int /\ k \in Int
      BY <1>1, <1>2
    <2>2. move[j] = IF j < k THEN j ELSE j + 1
      BY <1>3
    <2>3. move[l] = IF l < k THEN l ELSE l + 1
      BY <1>3
    <2>4. (IF j < k THEN j ELSE j + 1) = (IF l < k THEN l ELSE l + 1)
      BY <1>5, <2>2, <2>3
    <2> HIDE DEF after
    <2> QED
      BY <2>1, <2>4
  <1>6. move \in Injection(after, before \ {k})
    <2>1. move \in [after -> before \ {k}]
      BY <1>3, <1>4
    <2> QED
      BY <1>5, <2>1 DEF Injection, IsInjective
  <1>7. IsFiniteSet(before)
    BY OccurrencesType
  <1>8. /\ IsFiniteSet(before \ {k})
        /\ Cardinality(before \ {k}) =
               IF k \in before THEN Cardinality(before) - 1 ELSE Cardinality(before)
    BY <1>7, FS_RemoveElement
  <1>9. Cardinality(after) <= Cardinality(before \ {k})
    <2> HIDE DEF after, before
    <2> QED
      BY <1>6, <1>8, FS_Injection
  <1>10. IsFiniteSet(after)
    <2> HIDE DEF after, before
    <2> QED
      BY <1>6, <1>8, FS_Injection
  <1>11. Cardinality(after) \in Nat /\ Cardinality(before) \in Nat
    BY <1>7, <1>10, FS_CardinalityType
  <1>12. s[k] = e => k \in before
    BY <1>1
  <1>13. Occurrences(s, e) = Cardinality(before) /\ Occurrences(r, e) = Cardinality(after)
    BY DEF Occurrences
  <1> HIDE DEF before, after, r
  <1>14. /\ Occurrences(r, e) <= Occurrences(s, e)
         /\ s[k] = e => Occurrences(r, e) <= Occurrences(s, e) - 1
    BY <1>8, <1>9, <1>11, <1>12, <1>13
  <1> QED
    BY <1>14 DEF r

(* What has been spent on an event: its records in the topic and those the *)
(* producer may still append.                                              *)
Spent(i, e) == Copies(e) + Occurrences(inflight[i], e)

Allowed(e) == 1 + failures[e] + faults + replays

(* An event the instance will still publish: it has read the row and not   *)
(* published it in this cycle, or will find it when it reads the table.    *)
Owing(i, e) ==
    /\ e \in DOMAIN batch[i] \/ state[e] \in {"ABSENT", "RECEIVED", "LEASED"}
    /\ ~(pc[i] \in {"sending", "acked"} /\ current[i] = e)

(* Every record beyond the first was allowed by a failure, a fault or a    *)
(* replay, and what is owed is allowed as well: a row read, published and  *)
(* saved SENT is not published again before one of them happens.           *)
Explained(i) ==
    \A e \in Events :
        /\ Spent(i, e) <= Allowed(e)
        /\ Owing(i, e) => Spent(i, e) < Allowed(e)

CountsAreNat ==
    \A i \in Instances, e \in Events : Spent(i, e) \in Nat /\ Allowed(e) \in Nat

LEMMA CountsType == Shape => CountsAreNat
  <1> SUFFICES ASSUME Shape, NEW i \in Instances, NEW e \in Events
               PROVE  Spent(i, e) \in Nat /\ Allowed(e) \in Nat
    BY DEF CountsAreNat
  <1>1. log[PartitionOf[e]] \in Seq(Events) /\ inflight[i] \in Seq(Events)
    BY RelayConstants DEF Shape, TypeOK
  <1>2. Copies(e) = Occurrences(log[PartitionOf[e]], e)
    BY DEF Copies, Occurrences
  <1>3. Occurrences(log[PartitionOf[e]], e) \in Nat /\ Occurrences(inflight[i], e) \in Nat
    BY <1>1, OccurrencesType
  <1>4. failures[e] \in Nat /\ faults \in Nat /\ replays \in Nat
    BY RelayConstants DEF Shape, TypeOK
  <1> QED
    BY <1>2, <1>3, <1>4 DEF Spent, Allowed

LEMMA ExplainedInit ==
    ASSUME Init, NEW i \in Instances PROVE Explained(i)
  <1> SUFFICES ASSUME NEW e \in Events
               PROVE  Spent(i, e) = 0 /\ Allowed(e) = 1
    BY DEF Explained
  <1>1. inflight[i] = <<>> /\ log[PartitionOf[e]] = <<>>
    BY RelayConstants DEF Init
  <1>2. {k \in DOMAIN <<>> : <<>>[k] = e} = {}
    OBVIOUS
  <1>3. Copies(e) = 0 /\ Occurrences(inflight[i], e) = 0
    BY <1>1, <1>2, FS_EmptySet DEF Copies, Occurrences
  <1> QED
    BY <1>3 DEF Spent, Allowed, Init

(* What is spent on an event stays within what is allowed when neither     *)
(* grows but with the other.                                               *)
LEMMA ExplainedKept ==
    ASSUME Shape, Shape', NEW i \in Instances, Explained(i),
           \A e \in Events :
               /\ Allowed(e) <= Allowed(e)'
               /\ \/ Spent(i, e)' <= Spent(i, e) /\ (Owing(i, e)' => Owing(i, e))
                  \/ Spent(i, e)' <= Spent(i, e) /\ Allowed(e)' = Allowed(e) + 1
                  \/ Spent(i, e)' <= Spent(i, e) /\ Allowed(e)' = Allowed(e) + 2
                  \/ /\ Owing(i, e) /\ ~Owing(i, e)'
                     /\ Spent(i, e)' = Spent(i, e) + 1
    PROVE  Explained(i)'
  <1> SUFFICES ASSUME NEW e \in Events
               PROVE  /\ Spent(i, e)' <= Allowed(e)'
                      /\ Owing(i, e)' => Spent(i, e)' < Allowed(e)'
    BY DEF Explained
  <1>1. /\ Spent(i, e) \in Nat /\ Spent(i, e)' \in Nat
        /\ Allowed(e) \in Nat /\ Allowed(e)' \in Nat
    <2>1. CountsAreNat
      BY CountsType
    <2>2. CountsAreNat'
      BY CountsType, PTL
    <2> QED
      BY <2>1, <2>2 DEF CountsAreNat
  <1>2. Spent(i, e) <= Allowed(e) /\ (Owing(i, e) => Spent(i, e) < Allowed(e))
    BY DEF Explained
  <1> QED
    BY <1>1, <1>2

LEMMA SpentKept ==
    ASSUME NEW i \in Instances, NEW e \in Events, UNCHANGED log, inflight'[i] = inflight[i]
    PROVE  Spent(i, e)' = Spent(i, e)
  BY DEF Spent, Copies, Occurrences

(* What publishes nothing, counts nothing and owes nothing new. *)
LEMMA QuietExplained ==
    ASSUME Shape, Shape', NEW i \in Instances, Explained(i),
           UNCHANGED <<kafkaVars, failures, boundVars>>,
           \A e \in Events : Owing(i, e)' => Owing(i, e)
    PROVE  Explained(i)'
  <1> SUFFICES ASSUME NEW e \in Events
               PROVE  /\ Allowed(e) <= Allowed(e)'
                      /\ Spent(i, e)' <= Spent(i, e)
    BY ExplainedKept
  <1>1. Spent(i, e) \in Nat /\ Allowed(e) \in Nat
    BY CountsType DEF CountsAreNat
  <1>2. Spent(i, e)' = Spent(i, e)
    BY SpentKept DEF kafkaVars
  <1>3. Allowed(e)' = Allowed(e)
    BY DEF Allowed, boundVars
  <1> QED
    BY <1>1, <1>2, <1>3

LEMMA SaveEntityExplained ==
    ASSUME Shape, Shape', NEW i \in Instances, Explained(i),
           pc[i] \in {"acked", "failed"}, NEW s \in InboxState, NEW n,
           SaveEntity(i, s, n), s \in {"SENT", "DEAD"} \/ pc[i] = "failed",
           UNCHANGED <<kafkaVars, failures, boundVars>>
    PROVE  Explained(i)'
  <1>1. /\ current[i] \in Events
        /\ current[i] \in DOMAIN batch[i]
    BY ReadType
  <1>2. /\ state'[current[i]] = s
        /\ \A e \in Events \ {current[i]} : state'[e] = state[e]
        /\ DOMAIN batch'[i] = DOMAIN batch[i] \ {current[i]}
        /\ pc'[i] = "loop"
    BY <1>1 DEF SaveEntity, Shape, TypeOK
  <1>3. ASSUME NEW e \in Events, Owing(i, e)' PROVE Owing(i, e)
    <2>1. CASE e = current[i]
      BY <1>1, <1>2, <1>3, <2>1 DEF Owing
    <2>2. CASE e # current[i]
      BY <1>2, <1>3, <2>2 DEF Owing
    <2> QED
      BY <2>1, <2>2
  <1> QED
    BY <1>3, QuietExplained

(* A resolved send is spent once less, and is in its topic once more if    *)
(* the broker appended it.                                                 *)
LEMMA SpentResolved ==
    ASSUME Shape, NEW i \in Instances, NEW k \in DOMAIN inflight[i], NEW e \in Events,
           inflight' = [inflight EXCEPT ![i] = RemoveAt(@, k)],
           \/ UNCHANGED log
           \/ log' = [log EXCEPT ![PartitionOf[inflight[i][k]]] = Append(@, inflight[i][k])]
    PROVE  Spent(i, e)' <= Spent(i, e)
  <1>1. inflight[i] \in Seq(Events) /\ k \in 1..Len(inflight[i])
    BY DEF Shape, TypeOK
  <1>2. PICK f : f = inflight[i][k]
    OBVIOUS
  <1>3. f \in Events
    BY <1>1, <1>2
  <1>4. inflight'[i] = RemoveAt(inflight[i], k)
    BY DEF Shape, TypeOK
  <1>5. /\ Occurrences(inflight'[i], e) <= Occurrences(inflight[i], e)
        /\ e = f => Occurrences(inflight'[i], e) <= Occurrences(inflight[i], e) - 1
    BY <1>1, <1>2, <1>4, OccurrencesRemove
  <1>6. RemoveAt(inflight[i], k) \in Seq(Events)
    BY <1>1, RemoveAtEffect
  <1>7. /\ Occurrences(inflight'[i], e) \in Nat
        /\ Occurrences(inflight[i], e) \in Nat
    BY <1>1, <1>4, <1>6, OccurrencesType
  <1>8. PICK q : q = PartitionOf[e]
    OBVIOUS
  <1>9. q \in Partitions /\ log[q] \in Seq(Events)
    BY <1>8, RelayConstants DEF Shape, TypeOK
  <1>10. /\ Copies(e) = Occurrences(log[q], e)
         /\ Copies(e)' = Occurrences(log'[q], e)
    BY <1>8 DEF Copies, Occurrences
  <1>11. Occurrences(log[q], e) \in Nat
    BY <1>9, OccurrencesType
  <1>12. \/ log'[q] = log[q]
         \/ log'[q] = Append(log[q], f) /\ (e = f \/ e # f)
    BY <1>2, <1>9 DEF Shape, TypeOK
  <1>13. CASE log'[q] = log[q]
    <2>1. e = f => q = PartitionOf[f]
      BY <1>8
    <2> QED
      BY <1>5, <1>7, <1>10, <1>11, <1>13 DEF Spent
  <1>14. CASE log'[q] = Append(log[q], f)
    <2>1. /\ e = f => Occurrences(log'[q], e) = Occurrences(log[q], e) + 1
          /\ e # f => Occurrences(log'[q], e) = Occurrences(log[q], e)
      BY <1>3, <1>9, <1>14, OccurrencesAppend
    <2> QED
      BY <1>5, <1>7, <1>10, <1>11, <2>1 DEF Spent
  <1> QED
    BY <1>12, <1>13, <1>14

(* A failure allows its event one more record, and no other. *)
LEMMA FailAllows ==
    ASSUME Shape, NEW f \in Events, Fail(f), UNCHANGED boundVars, NEW e \in Events
    PROVE  /\ e = f => Allowed(e)' = Allowed(e) + 1
           /\ e # f => Allowed(e)' = Allowed(e)
  <1>1. failures[e] \in Nat /\ faults \in Nat /\ replays \in Nat
    BY RelayConstants DEF Shape, TypeOK
  <1>2. /\ e = f => failures'[e] = failures[e] + 1
        /\ e # f => failures'[e] = failures[e]
    BY DEF Fail, Shape, TypeOK
  <1> QED
    BY <1>1, <1>2 DEF Allowed, boundVars

LEMMA ExplainedStep ==
    ASSUME NEW i \in Instances, Instances = {i}, Shape, Shape', Explained(i), [Next]_vars
    PROVE  Explained(i)'
  <1>1. CASE \E e \in Events : Accept(e)
    BY <1>1, QuietExplained
    DEF Accept, Owing, Shape, TypeOK, cycleVars, kafkaVars, boundVars
  <1>2. CASE LeaseBatch(i)
    BY <1>2, QuietExplained
    DEF LeaseBatch, Owing, Rows, Shape, TypeOK, kafkaVars, boundVars
  <1>3. CASE FindLeased(i)
    BY <1>3, QuietExplained
    DEF FindLeased, Owing, Rows, Shape, TypeOK, rowVars, kafkaVars, boundVars
  <1>4. CASE Send(i)
    <2>1. PICK f \in DOMAIN batch[i] :
              /\ current' = [current EXCEPT ![i] = f]
              /\ inflight' = [inflight EXCEPT ![i] = Append(@, f)]
      BY <1>4 DEF Send
    <2>2. /\ f \in Events /\ inflight[i] \in Seq(Events)
          /\ inflight'[i] = Append(inflight[i], f)
          /\ current'[i] = f /\ pc'[i] = "sending" /\ pc[i] = "loop"
          /\ UNCHANGED <<state, batch, log, failures, boundVars>>
      BY <1>4, <2>1 DEF Send, Shape, TypeOK, rowVars
    <2> SUFFICES ASSUME NEW e \in Events
                 PROVE  /\ Allowed(e) <= Allowed(e)'
                        /\ \/ Spent(i, e)' <= Spent(i, e) /\ (Owing(i, e)' => Owing(i, e))
                           \/ /\ Owing(i, e) /\ ~Owing(i, e)'
                              /\ Spent(i, e)' = Spent(i, e) + 1
      BY ExplainedKept
    <2>3. Copies(e)' = Copies(e) /\ Allowed(e)' = Allowed(e)
      BY <2>2 DEF Copies, Allowed, boundVars
    <2>4. Spent(i, e) \in Nat /\ Allowed(e) \in Nat
      BY CountsType DEF CountsAreNat
    <2>5. Occurrences(inflight[i], e) \in Nat
      BY <2>2, OccurrencesType
    <2>6. Copies(e) \in Nat
      <3>1. log[PartitionOf[e]] \in Seq(Events)
        BY RelayConstants DEF Shape, TypeOK
      <3> QED
        BY <3>1, OccurrencesType DEF Copies, Occurrences
    <2>7. CASE e = f
      <3>1. Owing(i, e) /\ ~Owing(i, e)'
        BY <2>2, <2>7 DEF Owing
      <3>2. Occurrences(inflight'[i], e) = Occurrences(inflight[i], e) + 1
        BY <2>2, <2>7, OccurrencesAppend
      <3>3. Spent(i, e)' = Spent(i, e) + 1
        BY <2>3, <2>5, <2>6, <3>2 DEF Spent
      <3> QED
        BY <2>3, <2>4, <3>1, <3>3
    <2>8. CASE e # f
      <3>1. Owing(i, e)' => Owing(i, e)
        BY <2>2, <2>8 DEF Owing
      <3>2. Occurrences(inflight'[i], e) = Occurrences(inflight[i], e)
        BY <2>2, <2>8, OccurrencesAppend
      <3>3. Spent(i, e)' = Spent(i, e)
        BY <2>3, <3>2 DEF Spent
      <3> QED
        BY <2>3, <2>4, <3>1, <3>3
    <2> QED
      BY <2>7, <2>8
  <1>5. CASE EndCycle(i)
    BY <1>5, QuietExplained
    DEF EndCycle, Owing, Shape, TypeOK, rowVars, kafkaVars, boundVars
  <1>6. CASE MarkSent(i)
    BY <1>6, SaveEntityExplained DEF MarkSent, InboxState
  <1>7. CASE Retry(i)
    BY <1>7, SaveEntityExplained DEF Retry, InboxState
  <1>8. CASE MarkDead(i)
    BY <1>8, SaveEntityExplained DEF MarkDead, InboxState
  <1>9. CASE SendTimeout(i)
    <2>1. current[i] \in Events
      BY <1>9, ReadType DEF SendTimeout
    <2>2. /\ pc'[i] = "failed" /\ pc[i] \in {"sending", "acked"}
          /\ UNCHANGED <<state, batch, current, log, inflight, boundVars>>
          /\ Fail(current[i])
      BY <1>9 DEF SendTimeout, Shape, TypeOK, rowVars, kafkaVars
    <2> SUFFICES ASSUME NEW e \in Events
                 PROVE  /\ Allowed(e) <= Allowed(e)'
                        /\ \/ Spent(i, e)' <= Spent(i, e) /\ (Owing(i, e)' => Owing(i, e))
                           \/ Spent(i, e)' <= Spent(i, e) /\ Allowed(e)' = Allowed(e) + 1
      BY ExplainedKept
    <2>3. Spent(i, e) \in Nat /\ Allowed(e) \in Nat /\ Spent(i, e)' = Spent(i, e)
      BY <2>2, CountsType, SpentKept DEF CountsAreNat
    <2>4. CASE e = current[i]
      <3>1. Allowed(e)' = Allowed(e) + 1
        BY <2>1, <2>2, <2>4, FailAllows
      <3> QED
        BY <2>3, <3>1
    <2>5. CASE e # current[i]
      <3>1. Allowed(e)' = Allowed(e)
        BY <2>1, <2>2, <2>5, FailAllows
      <3>2. Owing(i, e)' => Owing(i, e)
        BY <2>2, <2>5 DEF Owing
      <3> QED
        BY <2>3, <3>1, <3>2
    <2> QED
      BY <2>4, <2>5
  <1>10. ASSUME NEW k \in DOMAIN inflight[i], BrokerAppend(i, k) PROVE Explained(i)'
    <2>1. /\ inflight' = [inflight EXCEPT ![i] = RemoveAt(@, k)]
          /\ log' = [log EXCEPT ![PartitionOf[inflight[i][k]]] = Append(@, inflight[i][k])]
          /\ UNCHANGED <<state, batch, current, failures, boundVars>>
          /\ pc'[i] = pc[i] \/ (pc'[i] = "acked" /\ pc[i] = "sending")
      <3>1. pc' = pc \/ (pc[i] = "sending" /\ pc' = [pc EXCEPT ![i] = "acked"])
        BY <1>10 DEF BrokerAppend, Awaited
      <3>2. pc'[i] = pc[i] \/ (pc'[i] = "acked" /\ pc[i] = "sending")
        BY <3>1 DEF Shape, TypeOK
      <3>3. log' = [log EXCEPT ![PartitionOf[inflight[i][k]]] = Append(@, inflight[i][k])]
        BY <1>10 DEF BrokerAppend
      <3> QED
        BY <1>10, <3>2, <3>3 DEF BrokerAppend, rowVars
    <2> SUFFICES ASSUME NEW e \in Events
                 PROVE  /\ Allowed(e) <= Allowed(e)'
                        /\ Spent(i, e)' <= Spent(i, e)
                        /\ Owing(i, e)' => Owing(i, e)
      BY ExplainedKept
    <2>2. Spent(i, e)' <= Spent(i, e)
      BY <2>1, SpentResolved
    <2>3. Allowed(e) \in Nat /\ Allowed(e)' = Allowed(e)
      BY <2>1, CountsType DEF CountsAreNat, Allowed, boundVars
    <2>4. Owing(i, e)' => Owing(i, e)
      BY <2>1 DEF Owing
    <2> QED
      BY <2>2, <2>3, <2>4
  <1>11. ASSUME NEW k \in DOMAIN inflight[i], BrokerDrop(i, k) PROVE Explained(i)'
    <2>1. /\ inflight' = [inflight EXCEPT ![i] = RemoveAt(@, k)]
          /\ UNCHANGED <<state, batch, current, log, boundVars>>
          /\ \/ UNCHANGED <<failures, pc>>
             \/ Fail(current[i]) /\ pc'[i] = "failed" /\ pc[i] = "sending"
      <3>1. CASE Awaited(i, k)
        <4>1. /\ Fail(current[i])
              /\ pc' = [pc EXCEPT ![i] = "failed"]
          BY <1>11, <3>1 DEF BrokerDrop
        <4>2. pc'[i] = "failed" /\ pc[i] = "sending"
          BY <3>1, <4>1 DEF Awaited, Shape, TypeOK
        <4> QED
          BY <1>11, <4>1, <4>2 DEF BrokerDrop, rowVars
      <3>2. CASE ~Awaited(i, k)
        BY <1>11, <3>2 DEF BrokerDrop, rowVars
      <3> QED
        BY <3>1, <3>2
    <2> SUFFICES ASSUME NEW e \in Events
                 PROVE  /\ Allowed(e) <= Allowed(e)'
                        /\ \/ Spent(i, e)' <= Spent(i, e) /\ (Owing(i, e)' => Owing(i, e))
                           \/ Spent(i, e)' <= Spent(i, e) /\ Allowed(e)' = Allowed(e) + 1
      BY ExplainedKept
    <2>2. Spent(i, e)' <= Spent(i, e)
      BY <2>1, SpentResolved
    <2>3. Allowed(e) \in Nat
      BY CountsType DEF CountsAreNat
    <2>4. CASE UNCHANGED <<failures, pc>>
      <3>1. Allowed(e)' = Allowed(e) /\ (Owing(i, e)' => Owing(i, e))
        BY <2>1, <2>4 DEF Allowed, Owing, boundVars
      <3> QED
        BY <2>2, <2>3, <3>1
    <2>5. CASE Fail(current[i]) /\ pc'[i] = "failed" /\ pc[i] = "sending"
      <3>1. current[i] \in Events
        BY <2>5, ReadType
      <3>2. CASE e = current[i]
        <4>1. Allowed(e)' = Allowed(e) + 1
          BY <2>1, <2>5, <3>1, <3>2, FailAllows
        <4> QED
          BY <2>2, <2>3, <4>1
      <3>3. CASE e # current[i]
        <4>1. Allowed(e)' = Allowed(e)
          BY <2>1, <2>5, <3>1, <3>3, FailAllows
        <4>2. Owing(i, e)' => Owing(i, e)
          BY <2>1, <2>5, <3>3 DEF Owing
        <4> QED
          BY <2>2, <2>3, <4>1, <4>2
      <3> QED
        BY <3>2, <3>3
    <2> QED
      BY <2>1, <2>4, <2>5
  <1>12. CASE DbFault(i) \/ Crash(i)
    <2>1. /\ faults' = faults + 1
          /\ UNCHANGED <<log, failures, replays>>
          /\ inflight'[i] = inflight[i] \/ inflight'[i] = <<>>
      BY <1>12 DEF DbFault, Crash, Fault, Shape, TypeOK, kafkaVars
    <2> SUFFICES ASSUME NEW e \in Events
                 PROVE  /\ Allowed(e) <= Allowed(e)'
                        /\ Spent(i, e)' <= Spent(i, e) /\ Allowed(e)' = Allowed(e) + 1
      BY ExplainedKept
    <2>2. Spent(i, e) \in Nat /\ Allowed(e) \in Nat
      BY CountsType DEF CountsAreNat
    <2>3. failures[e] \in Nat /\ faults \in Nat /\ replays \in Nat
      BY RelayConstants DEF Shape, TypeOK
    <2>4. Allowed(e)' = Allowed(e) + 1
      BY <2>1, <2>3 DEF Allowed
    <2>5. Spent(i, e)' <= Spent(i, e)
      <3>1. CASE inflight'[i] = inflight[i]
        BY <2>1, <2>2, <3>1, SpentKept
      <3>2. CASE inflight'[i] = <<>>
        <4>1. {j \in DOMAIN <<>> : <<>>[j] = e} = {}
          OBVIOUS
        <4>2. Occurrences(inflight'[i], e) = 0
          BY <3>2, <4>1, FS_EmptySet DEF Occurrences
        <4>3. Occurrences(inflight[i], e) \in Nat
          <5>1. inflight[i] \in Seq(Events)
            BY DEF Shape, TypeOK
          <5> QED
            BY <5>1, OccurrencesType
        <4>4. Copies(e)' = Copies(e)
          BY <2>1 DEF Copies
        <4>5. Copies(e) \in Nat
          <5>1. log[PartitionOf[e]] \in Seq(Events)
            BY RelayConstants DEF Shape, TypeOK
          <5> QED
            BY <5>1, OccurrencesType DEF Copies, Occurrences
        <4> QED
          BY <4>2, <4>3, <4>4, <4>5 DEF Spent
      <3> QED
        BY <2>1, <3>1, <3>2
    <2> QED
      BY <2>2, <2>4, <2>5
  <1>13. CASE \E S \in SUBSET Events : Replay(S)
    <2>1. /\ replays' = replays + 1
          /\ UNCHANGED <<log, inflight, failures, faults>>
      BY <1>13 DEF Replay, kafkaVars
    <2> SUFFICES ASSUME NEW e \in Events
                 PROVE  /\ Allowed(e) <= Allowed(e)'
                        /\ Spent(i, e)' <= Spent(i, e) /\ Allowed(e)' = Allowed(e) + 1
      BY ExplainedKept
    <2>2. Spent(i, e) \in Nat /\ Allowed(e) \in Nat /\ Spent(i, e)' = Spent(i, e)
      BY <2>1, CountsType, SpentKept DEF CountsAreNat
    <2>3. failures[e] \in Nat /\ faults \in Nat /\ replays \in Nat
      BY RelayConstants DEF Shape, TypeOK
    <2>4. Allowed(e)' = Allowed(e) + 1
      BY <2>1, <2>3 DEF Allowed
    <2> QED
      BY <2>2, <2>4
  <1>14. CASE UNCHANGED vars
    BY <1>14, QuietExplained DEF vars, Owing, rowVars, cycleVars
  <1>15. CASE SaveFails(i)
    <2>1. current[i] \in Events
      BY <1>15, ReadType DEF SaveFails
    <2>2. /\ faults' = faults + 1
          /\ UNCHANGED <<log, inflight, replays>>
          /\ failures' = [failures EXCEPT ![current[i]] = @ + 1]
      BY <1>15 DEF SaveFails, Fault, Fail, kafkaVars
    <2> SUFFICES ASSUME NEW e \in Events
                 PROVE  /\ Allowed(e) <= Allowed(e)'
                        /\ \/ Spent(i, e)' <= Spent(i, e) /\ Allowed(e)' = Allowed(e) + 1
                           \/ Spent(i, e)' <= Spent(i, e) /\ Allowed(e)' = Allowed(e) + 2
      BY ExplainedKept
    <2>3. Spent(i, e) \in Nat /\ Allowed(e) \in Nat /\ Spent(i, e)' = Spent(i, e)
      BY <2>2, CountsType, SpentKept DEF CountsAreNat
    <2>4. failures[e] \in Nat /\ faults \in Nat /\ replays \in Nat
      BY RelayConstants DEF Shape, TypeOK
    <2>5. failures'[e] = failures[e] \/ failures'[e] = failures[e] + 1
      BY <2>1, <2>2 DEF Shape, TypeOK
    <2>6. Allowed(e)' = Allowed(e) + 1 \/ Allowed(e)' = Allowed(e) + 2
      BY <2>2, <2>4, <2>5 DEF Allowed
    <2> QED
      BY <2>3, <2>6
  <1>16. CASE RetryRefused(i)
    <2>1. /\ UNCHANGED <<state, log, inflight, failures, faults, replays>>
          /\ pc[i] = "failed" /\ DOMAIN batch'[i] = {}
      BY <1>16, NoEntityType
      DEF RetryRefused, LeaveCycle, Shape, TypeOK, rowVars, kafkaVars, boundVars
    <2>2. \A e \in Events : Owing(i, e)' => Owing(i, e)
      BY <2>1 DEF Owing
    <2> QED
      BY <2>1, <2>2, QuietExplained DEF kafkaVars, boundVars
  <1> QED
    BY <1>1, <1>2, <1>3, <1>4, <1>5, <1>6, <1>7, <1>8, <1>9, <1>10, <1>11,
       <1>12, <1>13, <1>14, <1>15, <1>16
    DEF Next, Cycle, Broker, Disturbance

(* With one instance, an event is in its topic twice only because a        *)
(* publication failed, a cycle was cut short or an operator replayed it:   *)
(* no lease, late append or save of a row read before publishes it again.  *)
THEOREM DuplicatesExplained ==
    ASSUME NEW i \in Instances, Instances = {i}
    PROVE  Spec => []DuplicatesAreExplained
  <1>1. Shape /\ Explained(i) => DuplicatesAreExplained
    <2> SUFFICES ASSUME Shape, Explained(i), NEW e \in Events
                 PROVE  Copies(e) <= 1 + failures[e] + faults + replays
      BY DEF DuplicatesAreExplained
    <2>1. inflight[i] \in Seq(Events) /\ log[PartitionOf[e]] \in Seq(Events)
      BY RelayConstants DEF Shape, TypeOK
    <2>2. Occurrences(inflight[i], e) \in Nat /\ Copies(e) \in Nat
      BY <2>1, OccurrencesType DEF Copies, Occurrences
    <2>3. Spent(i, e) <= Allowed(e) /\ Allowed(e) \in Nat
      BY CountsType DEF Explained, CountsAreNat
    <2> QED
      BY <2>2, <2>3 DEF Spent, Allowed
  <1>2. Init => Explained(i)
    BY ExplainedInit
  <1>3. Shape /\ Shape' /\ Explained(i) /\ [Next]_vars => Explained(i)'
    BY ExplainedStep
  <1> QED
    BY <1>1, <1>2, <1>3, ShapeInit, ShapeStep, PTL DEF Spec

=============================================================================
