-------------------------- MODULE EventInboxProofs --------------------------
(***************************************************************************)
(* Proofs about EventInbox, for any number of request threads, sources and *)
(* envelopes and any batch size.                                           *)
(***************************************************************************)
EXTENDS EventInbox, TLAPS, SequenceTheorems

(* What AddResult leaves of the requests. *)
LEMMA AddResultEffect ==
    ASSUME TypeOK, NEW t \in Threads, NEW status \in Status,
           AddResult(t, status)
    PROVE  /\ request' \in [Threads ->
                  [source : Sources, batch : Seq(Elements),
                   known : Nat \union {NoSequence}, results : Seq(Status)]]
           /\ stage' \in [Threads -> {"idle", "element", "saving"}]
           /\ stage'[t] = "element"
           /\ request'[t].results = Append(request[t].results, status)
           /\ request'[t].batch = request[t].batch
           /\ request'[t].known = request[t].known
           /\ request'[t].source = request[t].source
           /\ \A u \in Threads \ {t} :
                  request'[u] = request[u] /\ stage'[u] = stage[u]
  <1>1. request[t].results \in Seq(Status)
    BY DEF TypeOK
  <1>2. Append(request[t].results, status) \in Seq(Status)
    BY <1>1
  <1> QED
    BY <1>2 DEF TypeOK, AddResult

LEMMA NoRequestType ==
    /\ NoRequest \in [source : Sources, batch : Seq(Elements),
                      known : Nat \union {NoSequence}, results : Seq(Status)]
    /\ NoRequest.known = NoSequence
    /\ Len(NoRequest.batch) = 0
    /\ Len(NoRequest.results) = 0
  BY InboxConstants DEF NoRequest, NoSequence

(* The element a thread works on is one of its batch. *)
LEMMA CurrentType ==
    ASSUME TypeOK, NEW t \in Threads, MoreElements(t)
    PROVE  Current(t) \in Elements
  <1>1. request[t].results \in Seq(Status) /\ request[t].batch \in Seq(Elements)
    BY DEF TypeOK
  <1>2. Len(request[t].results) + 1 \in 1..Len(request[t].batch)
    BY <1>1 DEF MoreElements
  <1> QED
    BY <1>1, <1>2 DEF Current

(* A thread works inside its batch, on a validated envelope when it saves, *)
(* and the elements it has a result for are envelopes.                     *)
WithinBatch ==
    \A t \in Threads :
        /\ Len(request[t].results) <= Len(request[t].batch)
        /\ stage[t] = "saving" => MoreElements(t) /\ Current(t) \in Valid
        /\ \A i \in 1..Len(request[t].results) : request[t].batch[i] \in Envelopes

Shape == TypeOK /\ WithinBatch

LEMMA ShapeInit == Init => Shape
  <1> SUFFICES ASSUME Init PROVE Shape
    OBVIOUS
  <1>1. TypeOK
    BY NoRequestType, InboxConstants DEF Init, TypeOK, NoSequence
  <1>2. \A t \in Threads : request[t] = NoRequest /\ stage[t] = "idle"
    BY DEF Init
  <1>3. WithinBatch
    <2> SUFFICES ASSUME NEW t \in Threads
                 PROVE  /\ Len(request[t].results) <= Len(request[t].batch)
                        /\ stage[t] # "saving"
                        /\ 1..Len(request[t].results) = {}
      BY Zenon DEF WithinBatch
    <2> QED
      BY <1>2, NoRequestType
  <1> QED
    BY <1>1, <1>3 DEF Shape

(* Adding a result keeps the shape, when the element is an envelope. *)
LEMMA AddResultShape ==
    ASSUME Shape, NEW t \in Threads, NEW status \in Status,
           AddResult(t, status), MoreElements(t), Current(t) \in Envelopes
    PROVE  WithinBatch'
  <1>1. request[t].results \in Seq(Status) /\ request[t].batch \in Seq(Elements)
    BY DEF Shape, TypeOK
  <1>2. /\ stage'[t] = "element"
        /\ request'[t].results = Append(request[t].results, status)
        /\ request'[t].batch = request[t].batch
        /\ \A u \in Threads \ {t} :
               request'[u] = request[u] /\ stage'[u] = stage[u]
    BY AddResultEffect DEF Shape
  <1>3. Len(request'[t].results) = Len(request[t].results) + 1
    BY <1>1, <1>2
  <1> SUFFICES ASSUME NEW u \in Threads
               PROVE  /\ Len(request'[u].results) <= Len(request'[u].batch)
                      /\ stage'[u] = "saving" =>
                             MoreElements(u)' /\ Current(u)' \in Valid
                      /\ \A i \in 1..Len(request'[u].results) :
                             request'[u].batch[i] \in Envelopes
    BY DEF WithinBatch
  <1>4. CASE u # t
    BY <1>2, <1>4 DEF Shape, WithinBatch, MoreElements, Current
  <1>5. CASE u = t
    <2>1. Len(request'[t].results) <= Len(request'[t].batch)
      BY <1>1, <1>2, <1>3 DEF MoreElements
    <2>2. ASSUME NEW i \in 1..Len(request'[t].results)
          PROVE  request'[t].batch[i] \in Envelopes
      BY <1>1, <1>2, <1>3 DEF Current, Shape, WithinBatch
    <2> QED
      BY <1>2, <1>5, <2>1, <2>2
  <1> QED
    BY <1>4, <1>5

(* The steps that leave the requests alone, or end them. *)
LEMMA ShapeStep == Shape /\ [Next]_vars => Shape'
  <1> SUFFICES ASSUME Shape, [Next]_vars PROVE Shape'
    OBVIOUS
  <1> USE DEF Shape
  <1>1. CASE Crash
    <2>1. TypeOK'
      BY <1>1, NoRequestType DEF Crash, TypeOK
    <2>2. \A t \in Threads : request'[t] = NoRequest /\ stage'[t] = "idle"
      BY <1>1 DEF Crash
    <2>3. WithinBatch'
      <3> SUFFICES ASSUME NEW t \in Threads
                   PROVE  /\ Len(request'[t].results) <= Len(request'[t].batch)
                          /\ stage'[t] # "saving"
                          /\ 1..Len(request'[t].results) = {}
        BY Zenon DEF WithinBatch
      <3> QED
        BY <2>2, NoRequestType
    <2> QED
      BY <2>1, <2>3
  <1>2. ASSUME NEW t \in Threads, Step(t)
        PROVE  Shape'
    <2>1. CASE \E s \in Sources, batch \in Batches : Receive(t, s, batch)
      <3> PICK s \in Sources, batch \in Batches : Receive(t, s, batch)
        BY <2>1
      <3>1. batch \in Seq(Elements)
        BY InboxConstants DEF Batches
      <3> DEFINE r == [source |-> s, batch |-> batch,
                       known |-> lastSequence[s], results |-> <<>>]
      <3>2. r \in [source : Sources, batch : Seq(Elements),
                   known : Nat \union {NoSequence}, results : Seq(Status)]
        BY <3>1 DEF TypeOK
      <3>3. TypeOK'
        BY <3>2 DEF Receive, TypeOK
      <3>4. /\ request'[t] = r /\ stage'[t] = "element"
            /\ \A u \in Threads \ {t} :
                   request'[u] = request[u] /\ stage'[u] = stage[u]
        BY DEF Receive, TypeOK
      <3>5. Len(r.results) = 0 /\ r.batch = batch /\ Len(batch) \in Nat
        BY <3>1
      <3> HIDE DEF r
      <3>6. WithinBatch'
        <4> SUFFICES ASSUME NEW u \in Threads
                     PROVE  /\ Len(request'[u].results) <= Len(request'[u].batch)
                            /\ stage'[u] = "saving" =>
                                   MoreElements(u)' /\ Current(u)' \in Valid
                            /\ \A i \in 1..Len(request'[u].results) :
                                   request'[u].batch[i] \in Envelopes
          BY DEF WithinBatch
        <4>1. CASE u # t
          BY <3>4, <4>1 DEF WithinBatch, MoreElements, Current
        <4>2. CASE u = t
          BY <3>4, <3>5, <4>2
        <4> QED
          BY <4>1, <4>2
      <3> QED
        BY <3>3, <3>6
    <2>2. CASE AnswerDuplicate(t)
      <3>1. MoreElements(t) /\ Current(t) \in Envelopes /\ AddResult(t, "DUPLICATE")
        BY <2>2, CurrentType DEF AnswerDuplicate, Elements
      <3>2. TypeOK'
        BY <2>2, <3>1, AddResultEffect DEF AnswerDuplicate, TypeOK, Status
      <3> QED
        BY <3>1, <3>2, AddResultShape DEF Status
    <2>3. CASE AnswerInvalid(t)
      <3>1. MoreElements(t) /\ Current(t) \in Envelopes /\ AddResult(t, "REJECTED")
        BY <2>3, CurrentType DEF AnswerInvalid, Elements
      <3>2. TypeOK'
        BY <2>3, <3>1, AddResultEffect DEF AnswerInvalid, TypeOK, Status
      <3> QED
        BY <3>1, <3>2, AddResultShape DEF Status
    <2>4. CASE CheckSequence(t)
      <3>1. Current(t) \in Envelopes
        BY <2>4, CurrentType DEF CheckSequence, Elements
      <3>2. TypeOK'
        BY <2>4, <3>1 DEF CheckSequence, TypeOK
      <3>3. WithinBatch'
        BY <2>4 DEF CheckSequence, TypeOK, WithinBatch, MoreElements, Current
      <3> QED
        BY <3>2, <3>3
    <2>5. ASSUME Commit(t), NEW status \in {"ACCEPTED", "REJECTED"},
                 AddResult(t, status), UNCHANGED <<gaps, answers>>
          PROVE  Shape'
      <3>1. MoreElements(t) /\ Current(t) \in Envelopes
        BY <2>5, InboxConstants DEF Commit, WithinBatch
      <3>2. status \in Status
        BY <2>5 DEF Status
      <3>3. SequenceOf[Current(t)] \in Nat \union {NoSequence}
        BY <3>1, InboxConstants
      <3>4. request[t].source \in Sources
        BY DEF TypeOK
      <3>5. inbox' \in Seq([event : Envelopes, via : Sources])
        BY <2>5, <3>1, <3>4 DEF Commit, TypeOK
      <3>6. lastSequence' \in [Sources -> Nat \union {NoSequence}]
        BY <2>5, <3>3, <3>4 DEF Commit, UpdateLastSeen, TypeOK
      <3>7. TypeOK'
        BY <2>5, <3>2, <3>5, <3>6, AddResultEffect DEF TypeOK
      <3> QED
        BY <2>5, <3>1, <3>2, <3>7, AddResultShape
    <2>6. CASE SaveConflict(t)
      <3>1. MoreElements(t) /\ Current(t) \in Envelopes /\ AddResult(t, "REJECTED")
        BY <2>6, InboxConstants DEF SaveConflict, WithinBatch
      <3>2. TypeOK'
        BY <2>6, <3>1, AddResultEffect DEF SaveConflict, TypeOK, Status
      <3> QED
        BY <3>1, <3>2, AddResultShape DEF Status
    <2>7. CASE TransactionFails(t)
      <3>1. MoreElements(t) /\ Current(t) \in Envelopes /\ AddResult(t, "REJECTED")
        BY <2>7, CurrentType, InboxConstants
        DEF TransactionFails, WithinBatch, Elements
      <3>2. TypeOK'
        BY <2>7, <3>1, AddResultEffect DEF TransactionFails, TypeOK, Status
      <3> QED
        BY <3>1, <3>2, AddResultShape DEF Status
    <2>8. ASSUME UNCHANGED <<inbox, lastSequence, gaps>>,
                 stage' = [stage EXCEPT ![t] = "idle"],
                 request' = [request EXCEPT ![t] = NoRequest],
                 answers' \subseteq Envelopes \X Status
          PROVE  Shape'
      <3>1. TypeOK'
        BY <2>8, NoRequestType DEF TypeOK
      <3>2. /\ request'[t] = NoRequest /\ stage'[t] = "idle"
            /\ \A u \in Threads \ {t} :
                   request'[u] = request[u] /\ stage'[u] = stage[u]
        BY <2>8 DEF TypeOK
      <3>3. WithinBatch'
        <4> SUFFICES ASSUME NEW u \in Threads
                     PROVE  /\ Len(request'[u].results) <= Len(request'[u].batch)
                            /\ stage'[u] = "saving" =>
                                   MoreElements(u)' /\ Current(u)' \in Valid
                            /\ \A i \in 1..Len(request'[u].results) :
                                   request'[u].batch[i] \in Envelopes
          BY DEF WithinBatch
        <4>1. CASE u # t
          BY <3>2, <4>1 DEF WithinBatch, MoreElements, Current
        <4>2. CASE u = t
          BY <3>2, <4>2, NoRequestType
        <4> QED
          BY <4>1, <4>2
      <3> QED
        BY <3>1, <3>3
    <2>9. CASE AbortOnNull(t)
      BY <2>8, <2>9 DEF AbortOnNull, TypeOK
    <2>10. CASE Respond(t)
      <3>1. \A i \in 1..Len(request[t].results) :
                /\ request[t].batch[i] \in Envelopes
                /\ request[t].results[i] \in Status
        BY DEF TypeOK, WithinBatch
      <3>2. answers' \subseteq Envelopes \X Status
        BY <2>10, <3>1 DEF Respond, TypeOK
      <3> QED
        BY <2>8, <2>10, <3>2 DEF Respond
    <2> QED
      BY <1>2, <2>1, <2>2, <2>3, <2>4, <2>5, <2>6, <2>7, <2>9, <2>10
      DEF Step, Save, CommitReplyLost
  <1>3. CASE UNCHANGED vars
    BY <1>3 DEF vars, TypeOK, WithinBatch, MoreElements, Current
  <1> QED
    BY <1>1, <1>2, <1>3 DEF Next

(* The types hold, and a request stays within the elements of its batch. *)
THEOREM ShapeInvariant == Spec => []Shape
  BY ShapeInit, ShapeStep, PTL DEF Spec

(* Every variable keeps its type. *)
THEOREM TypeCorrect == Spec => []TypeOK
  BY ShapeInvariant, PTL DEF Shape

-----------------------------------------------------------------------------
LEMMA RowType ==
    ASSUME Shape, NEW i \in DOMAIN inbox
    PROVE  inbox[i] \in [event : Envelopes, via : Sources]
  <1> DEFINE row == [event : Envelopes, via : Sources]
  <1>1. inbox \in Seq(row)
    BY DEF Shape, TypeOK
  <1> HIDE DEF row
  <1>2. inbox[i] \in row
    BY <1>1
  <1> QED
    BY <1>2 DEF row

(* What a commit changes. *)
CommitEffect(t) ==
    /\ Len(inbox) + 1 \notin DOMAIN inbox
    /\ DOMAIN inbox' = DOMAIN inbox \union {Len(inbox) + 1}
    /\ \A i \in DOMAIN inbox : inbox'[i] = inbox[i]
    /\ inbox'[Len(inbox) + 1] =
           [event |-> Current(t), via |-> request[t].source]
    /\ \A i \in DOMAIN inbox : EventId[inbox[i].event] # EventId[Current(t)]
    /\ Current(t) \in Envelopes
    /\ request[t].source \in Sources
    /\ SequenceOf[Current(t)] \in Nat \union {NoSequence}
    /\ \A s \in Sources : lastSequence'[s] =
           IF s = request[t].source /\ SequenceOf[Current(t)] > lastSequence[s]
           THEN SequenceOf[Current(t)] ELSE lastSequence[s]

LEMMA CommitChanges ==
    ASSUME Shape, NEW t \in Threads, Commit(t)
    PROVE  CommitEffect(t)
  <1>1. MoreElements(t) /\ Current(t) \in Envelopes
    BY InboxConstants DEF Commit, Shape, WithinBatch
  <1>2. SequenceOf[Current(t)] \in Nat \union {NoSequence}
    BY <1>1, InboxConstants
  <1>3. request[t].source \in Sources
    BY DEF Shape, TypeOK
  <1>4. inbox \in Seq([event : Envelopes, via : Sources])
    BY DEF Shape, TypeOK
  <1>5. \A i \in DOMAIN inbox : EventId[inbox[i].event] # EventId[Current(t)]
    BY DEF Commit, Exists
  <1>6. /\ Len(inbox) + 1 \notin DOMAIN inbox
        /\ DOMAIN inbox' = DOMAIN inbox \union {Len(inbox) + 1}
        /\ \A i \in DOMAIN inbox : inbox'[i] = inbox[i]
        /\ inbox'[Len(inbox) + 1] =
               [event |-> Current(t), via |-> request[t].source]
    <2> DEFINE row == [event |-> Current(t), via |-> request[t].source]
    <2>1. row \in [event : Envelopes, via : Sources]
      BY <1>1, <1>3
    <2>2. inbox' = Append(inbox, row)
      BY DEF Commit
    <2> HIDE DEF row
    <2>3. /\ Len(inbox) + 1 \notin DOMAIN inbox
          /\ DOMAIN inbox' = DOMAIN inbox \union {Len(inbox) + 1}
          /\ \A i \in DOMAIN inbox : inbox'[i] = inbox[i]
          /\ inbox'[Len(inbox) + 1] = row
      BY <1>4, <2>1, <2>2
    <2> QED
      BY <2>3 DEF row
  <1>7. \A s \in Sources : lastSequence'[s] =
            IF s = request[t].source /\ SequenceOf[Current(t)] > lastSequence[s]
            THEN SequenceOf[Current(t)] ELSE lastSequence[s]
    BY <1>2, <1>3 DEF Commit, UpdateLastSeen, Shape, TypeOK
  <1> QED
    BY <1>1, <1>2, <1>3, <1>5, <1>6, <1>7 DEF CommitEffect

(* A step either leaves the tables alone or is one commit of a thread, *)
(* which answers nobody and logs no gap.                               *)
LEMMA TablesChangeByCommit ==
    ASSUME Shape, [Next]_vars
    PROVE  \/ UNCHANGED <<inbox, lastSequence>>
           \/ \E t \in Threads :
                  /\ Commit(t)
                  /\ \E status \in {"ACCEPTED", "REJECTED"} : AddResult(t, status)
                  /\ UNCHANGED <<gaps, answers>>
  BY DEF Next, vars, Crash, Step, Receive, AnswerDuplicate, AnswerInvalid,
         CheckSequence, Save, SaveConflict, TransactionFails, CommitReplyLost,
         AbortOnNull, Respond

LEMMA StoredGrows == Shape /\ [Next]_vars => Stored \subseteq Stored'
  <1> SUFFICES ASSUME Shape, [Next]_vars PROVE Stored \subseteq Stored'
    OBVIOUS
  <1>1. CASE UNCHANGED <<inbox, lastSequence>>
    BY <1>1 DEF Stored
  <1>2. ASSUME NEW t \in Threads, Commit(t) PROVE Stored \subseteq Stored'
    <2>1. CommitEffect(t)
      BY <1>2, CommitChanges
    <2>2. \A i \in DOMAIN inbox : i \in DOMAIN inbox' /\ inbox'[i] = inbox[i]
      BY <2>1 DEF CommitEffect
    <2> QED
      BY <2>2 DEF Stored
  <1> QED
    BY <1>1, <1>2, TablesChangeByCommit

(* One row per event: the UNIQUE constraint refuses the second. *)
THEOREM RowsAreUnique == Spec => []OneRowPerEvent
  <1>1. Init => OneRowPerEvent
    BY DEF Init, OneRowPerEvent
  <1>2. Shape /\ OneRowPerEvent /\ [Next]_vars => OneRowPerEvent'
    <2> SUFFICES ASSUME Shape, OneRowPerEvent, [Next]_vars PROVE OneRowPerEvent'
      OBVIOUS
    <2>1. CASE UNCHANGED <<inbox, lastSequence>>
      BY <2>1 DEF OneRowPerEvent
    <2>2. ASSUME NEW t \in Threads, Commit(t) PROVE OneRowPerEvent'
      <3>1. CommitEffect(t)
        BY <2>2, CommitChanges
      <3>2. inbox'[Len(inbox) + 1].event = Current(t)
        BY <3>1 DEF CommitEffect
      <3> QED
        BY <3>1, <3>2 DEF CommitEffect, OneRowPerEvent
    <2> QED
      BY <2>1, <2>2, TablesChangeByCommit
  <1> QED
    BY <1>1, <1>2, ShapeInvariant, PTL DEF Spec

(* last_sequence of every source is the largest of its committed rows. *)
THEOREM LastSequenceCorrect == Spec => []LastSequenceIsLargest
  <1>1. Init => LastSequenceIsLargest
    BY DEF Init, LastSequenceIsLargest
  <1>2. Shape /\ LastSequenceIsLargest /\ [Next]_vars => LastSequenceIsLargest'
    <2> SUFFICES ASSUME Shape, LastSequenceIsLargest, [Next]_vars
                 PROVE  LastSequenceIsLargest'
      OBVIOUS
    <2>1. CASE UNCHANGED <<inbox, lastSequence>>
      BY <2>1 DEF LastSequenceIsLargest
    <2>2. ASSUME NEW t \in Threads, Commit(t) PROVE LastSequenceIsLargest'
      <3> DEFINE n == Len(inbox) + 1
                 sequence == SequenceOf[Current(t)]
      <3>0. CommitEffect(t)
        BY <2>2, CommitChanges
      <3>1. /\ DOMAIN inbox' = DOMAIN inbox \union {n}
            /\ \A i \in DOMAIN inbox : inbox'[i] = inbox[i]
            /\ inbox'[n].event = Current(t)
            /\ inbox'[n].via = request[t].source
            /\ sequence \in Nat \union {NoSequence}
            /\ \A s \in Sources : lastSequence'[s] =
                   IF s = request[t].source /\ sequence > lastSequence[s]
                   THEN sequence ELSE lastSequence[s]
        BY <3>0 DEF CommitEffect
      <3>2. \A s \in Sources : lastSequence[s] \in Nat \union {NoSequence}
        BY DEF Shape, TypeOK
      <3>3. \A i \in DOMAIN inbox : SequenceOf[inbox[i].event] \in Int
        <4>1. \A i \in DOMAIN inbox : inbox[i].event \in Envelopes
          BY RowType
        <4>2. \A e \in Envelopes : SequenceOf[e] \in Nat \union {NoSequence}
          BY InboxConstants
        <4> QED
          BY <4>1, <4>2 DEF NoSequence
      <3>4. SequenceOf[inbox'[n].event] = sequence
        BY <3>1
      <3> HIDE DEF n, sequence
      <3> SUFFICES ASSUME NEW s \in Sources
                   PROVE  /\ \A i \in DOMAIN inbox' : inbox'[i].via = s =>
                                 SequenceOf[inbox'[i].event] <= lastSequence'[s]
                          /\ \/ lastSequence'[s] = NoSequence
                             \/ \E i \in DOMAIN inbox' :
                                    /\ inbox'[i].via = s
                                    /\ SequenceOf[inbox'[i].event] = lastSequence'[s]
        BY DEF LastSequenceIsLargest
      <3>5. CASE s = request[t].source /\ sequence > lastSequence[s]
        BY <3>1, <3>2, <3>3, <3>4, <3>5 DEF LastSequenceIsLargest, NoSequence
      <3>6. CASE ~(s = request[t].source /\ sequence > lastSequence[s])
        BY <3>1, <3>2, <3>3, <3>4, <3>6 DEF LastSequenceIsLargest, NoSequence
      <3> QED
        BY <3>5, <3>6
    <2> QED
      BY <2>1, <2>2, TablesChangeByCommit
  <1> QED
    BY <1>1, <1>2, ShapeInvariant, PTL DEF Spec

-----------------------------------------------------------------------------
(* What is answered ACCEPTED or DUPLICATE has a row: the elements of the   *)
(* requests under way, then the answers sent.                              *)
ResultsAreStored ==
    \A t \in Threads : \A i \in 1..Len(request[t].results) :
        request[t].results[i] \in Acknowledgement =>
            EventId[request[t].batch[i]] \in Stored

AckInv == ResultsAreStored /\ AcknowledgedIsStored

(* One more result, whose event is stored if it says so. *)
LEMMA AddResultStored ==
    ASSUME Shape, ResultsAreStored, Stored \subseteq Stored',
           NEW t \in Threads, NEW status \in Status, AddResult(t, status),
           status \in Acknowledgement => EventId[Current(t)] \in Stored'
    PROVE  ResultsAreStored'
  <1>1. /\ request'[t].results = Append(request[t].results, status)
        /\ request'[t].batch = request[t].batch
        /\ \A u \in Threads \ {t} : request'[u] = request[u]
    BY AddResultEffect DEF Shape
  <1>2. request[t].results \in Seq(Status)
    BY DEF Shape, TypeOK
  <1> SUFFICES ASSUME NEW u \in Threads, NEW i \in 1..Len(request'[u].results),
                      request'[u].results[i] \in Acknowledgement
               PROVE  EventId[request'[u].batch[i]] \in Stored'
    BY DEF ResultsAreStored
  <1>3. CASE u # t
    BY <1>1, <1>3 DEF ResultsAreStored
  <1>4. CASE u = t /\ i = Len(request[t].results) + 1
    <2>1. request'[u].results[i] = status /\ request'[u].batch[i] = Current(t)
      BY <1>1, <1>2, <1>4 DEF Current
    <2> QED
      BY <2>1
  <1>5. CASE u = t /\ i # Len(request[t].results) + 1
    <2>1. i \in 1..Len(request[t].results)
      BY <1>1, <1>2, <1>5
    <2>2. request'[u].results[i] = request[t].results[i]
      BY <1>1, <1>2, <1>5, <2>1
    <2>3. EventId[request[t].batch[i]] \in Stored
      BY <2>1, <2>2 DEF ResultsAreStored
    <2> QED
      BY <1>1, <1>5, <2>3
  <1> QED
    BY <1>3, <1>4, <1>5

(* A thread that turns idle has no result. *)
LEMMA EndedStored ==
    ASSUME Shape, ResultsAreStored, Stored' = Stored,
           \A t \in Threads : request'[t] \in {request[t], NoRequest}
    PROVE  ResultsAreStored'
  <1> SUFFICES ASSUME NEW t \in Threads, NEW i \in 1..Len(request'[t].results),
                      request'[t].results[i] \in Acknowledgement
               PROVE  EventId[request'[t].batch[i]] \in Stored
    BY DEF ResultsAreStored
  <1>1. request'[t] # NoRequest
    BY NoRequestType
  <1> QED
    BY <1>1 DEF ResultsAreStored

LEMMA AckStep == Shape /\ AckInv /\ [Next]_vars => AckInv'
  <1> SUFFICES ASSUME Shape, AckInv, [Next]_vars PROVE AckInv'
    OBVIOUS
  <1> USE DEF AckInv
  <1>0. Stored \subseteq Stored'
    BY StoredGrows
  <1>1. CASE Crash
    <2>1. Stored' = Stored /\ Acknowledged' = Acknowledged
      BY <1>1 DEF Crash, Stored, Acknowledged
    <2>2. \A t \in Threads : request'[t] = NoRequest
      BY <1>1 DEF Crash
    <2> QED
      BY <2>1, <2>2, EndedStored DEF AcknowledgedIsStored
  <1>2. ASSUME NEW t \in Threads, Step(t)
        PROVE  AckInv'
    <2>1. CASE \E s \in Sources, batch \in Batches : Receive(t, s, batch)
      <3>1. Stored' = Stored /\ Acknowledged' = Acknowledged
        BY <2>1 DEF Receive, Stored, Acknowledged
      <3>2. /\ request'[t].results = <<>>
            /\ \A u \in Threads \ {t} : request'[u] = request[u]
        BY <2>1 DEF Receive, Shape, TypeOK
      <3>3. ResultsAreStored'
        <4> SUFFICES ASSUME NEW u \in Threads,
                            NEW i \in 1..Len(request'[u].results),
                            request'[u].results[i] \in Acknowledgement
                     PROVE  EventId[request'[u].batch[i]] \in Stored
          BY <3>1 DEF ResultsAreStored
        <4>1. u # t
          BY <3>2
        <4> QED
          BY <3>2, <4>1 DEF ResultsAreStored
      <3> QED
        BY <3>1, <3>3 DEF AcknowledgedIsStored
    <2>2. ASSUME NEW status \in Status, AddResult(t, status), answers' = answers,
                 status \in Acknowledgement => EventId[Current(t)] \in Stored'
          PROVE  AckInv'
      <3>1. ResultsAreStored'
        BY <1>0, <2>2, AddResultStored
      <3>2. Acknowledged' = Acknowledged
        BY <2>2 DEF Acknowledged
      <3> QED
        BY <1>0, <3>1, <3>2 DEF AcknowledgedIsStored
    <2>3. CASE AnswerDuplicate(t)
      <3>1. EventId[Current(t)] \in Stored /\ "DUPLICATE" \in Status
        BY <2>3 DEF AnswerDuplicate, Exists, Stored, Status
      <3> QED
        BY <1>0, <2>2, <2>3, <3>1 DEF AnswerDuplicate
    <2>4. CASE AnswerInvalid(t) \/ SaveConflict(t) \/ TransactionFails(t)
               \/ CommitReplyLost(t)
      <3>1. "REJECTED" \in Status /\ "REJECTED" \notin Acknowledgement
        BY DEF Status, Acknowledgement
      <3>2. AddResult(t, "REJECTED") /\ answers' = answers
        BY <2>4 DEF AnswerInvalid, SaveConflict, TransactionFails, CommitReplyLost
      <3> QED
        BY <2>2, <3>1, <3>2
    <2>5. CASE Save(t)
      <3>1. Commit(t) /\ AddResult(t, "ACCEPTED") /\ answers' = answers
        BY <2>5 DEF Save
      <3>2. CommitEffect(t)
        BY <3>1, CommitChanges
      <3>3. /\ Len(inbox) + 1 \in DOMAIN inbox'
            /\ inbox'[Len(inbox) + 1].event = Current(t)
        BY <3>2 DEF CommitEffect
      <3>4. EventId[Current(t)] \in Stored'
        BY <3>3 DEF Stored
      <3>5. "ACCEPTED" \in Status
        BY DEF Status
      <3> QED
        BY <2>2, <3>1, <3>4, <3>5
    <2>6. CASE CheckSequence(t)
      <3>1. UNCHANGED <<inbox, request, answers>>
        BY <2>6 DEF CheckSequence
      <3> QED
        BY <3>1 DEF ResultsAreStored, AcknowledgedIsStored, Stored, Acknowledged
    <2>7. CASE AbortOnNull(t)
      <3>1. Stored' = Stored /\ Acknowledged' = Acknowledged
        BY <2>7 DEF AbortOnNull, Stored, Acknowledged
      <3>2. \A u \in Threads : request'[u] \in {request[u], NoRequest}
        BY <2>7 DEF AbortOnNull, Shape, TypeOK
      <3> QED
        BY <3>1, <3>2, EndedStored DEF AcknowledgedIsStored
    <2>8. CASE Respond(t)
      <3>1. Stored' = Stored
        BY <2>8 DEF Respond, Stored
      <3>2. \A u \in Threads : request'[u] \in {request[u], NoRequest}
        BY <2>8 DEF Respond, Shape, TypeOK
      <3>3. ASSUME NEW a \in answers', a[2] \in Acknowledgement
            PROVE  EventId[a[1]] \in Stored
        <4>1. CASE a \in answers
          BY <3>3, <4>1 DEF AcknowledgedIsStored, Acknowledged
        <4>2. CASE a \notin answers
          <5> PICK i \in 1..Len(request[t].results) :
                     a = <<request[t].batch[i], request[t].results[i]>>
            BY <2>8, <4>2 DEF Respond
          <5> QED
            BY <3>3 DEF ResultsAreStored
        <4> QED
          BY <4>1, <4>2
      <3> QED
        BY <3>1, <3>2, <3>3, EndedStored DEF AcknowledgedIsStored, Acknowledged
    <2> QED
      BY <1>2, <2>1, <2>3, <2>4, <2>5, <2>6, <2>7, <2>8 DEF Step
  <1>3. CASE UNCHANGED vars
    BY <1>3 DEF vars, ResultsAreStored, AcknowledgedIsStored, Stored, Acknowledged
  <1> QED
    BY <1>1, <1>2, <1>3 DEF Next

LEMMA AckInit == Init => AckInv
  <1> SUFFICES ASSUME Init PROVE AckInv
    OBVIOUS
  <1>1. Acknowledged = {}
    BY DEF Init, Acknowledged
  <1>2. ASSUME NEW t \in Threads PROVE 1..Len(request[t].results) = {}
    <2>1. request[t] = NoRequest
      BY DEF Init
    <2> QED
      BY <2>1, NoRequestType
  <1> QED
    BY <1>1, <1>2 DEF AckInv, AcknowledgedIsStored, ResultsAreStored

(* Everything a source was told is stored is stored, for good. *)
THEOREM AcknowledgementsAreDurable == Spec => []AcknowledgedIsStored
  <1>1. AckInv => AcknowledgedIsStored
    BY DEF AckInv
  <1> QED
    BY <1>1, AckInit, AckStep, ShapeInvariant, PTL DEF Spec

-----------------------------------------------------------------------------
(* The journal: every step stores one event, acknowledges stored ones or   *)
(* is invisible.                                                           *)
LEMMA JournalStep ==
    ASSUME Shape, Shape', AckInv', [Next]_vars
    PROVE  [Journal!Next]_<<Stored, Acknowledged>>
  <1>1. CASE \E t \in Threads : Commit(t) /\ UNCHANGED <<gaps, answers>>
    <2> PICK t \in Threads : Commit(t) /\ UNCHANGED <<gaps, answers>>
      BY <1>1
    <2>1. CommitEffect(t)
      BY CommitChanges
    <2>2. Acknowledged' = Acknowledged
      BY DEF Acknowledged
    <2>3. EventId[Current(t)] \in EventIds
      BY <2>1, InboxConstants DEF CommitEffect
    <2>4. EventId[Current(t)] \notin Stored
      BY DEF Commit, Exists, Stored
    <2>5. Stored' = Stored \union {EventId[Current(t)]}
      <3>1. inbox'[Len(inbox) + 1].event = Current(t)
        BY <2>1 DEF CommitEffect
      <3>2. /\ DOMAIN inbox' = DOMAIN inbox \union {Len(inbox) + 1}
            /\ \A i \in DOMAIN inbox : inbox'[i] = inbox[i]
        BY <2>1 DEF CommitEffect
      <3> QED
        BY <3>1, <3>2 DEF Stored
    <2> QED
      BY <2>2, <2>3, <2>4, <2>5 DEF Journal!Next, Journal!Store
  <1>2. CASE UNCHANGED <<inbox, lastSequence>>
    <2>1. Stored' = Stored
      BY <1>2 DEF Stored
    <2>2. answers \subseteq answers' /\ answers' \subseteq Envelopes \X Status
      <3>1. answers \subseteq answers'
        BY DEF Next, vars, Crash, Step, Receive, AnswerDuplicate, AnswerInvalid,
               CheckSequence, Save, SaveConflict, TransactionFails,
               CommitReplyLost, AbortOnNull, Respond
      <3> QED
        BY <3>1 DEF Shape, TypeOK
    <2>3. Acknowledged' = Acknowledged \union Acknowledged'
      BY <2>2 DEF Acknowledged
    <2>4. Acknowledged' \subseteq Stored
      BY <2>1 DEF AckInv, AcknowledgedIsStored
    <2>5. Acknowledged' \subseteq EventIds
      <3>1. \A a \in answers' : a[1] \in Envelopes
        BY <2>2
      <3> QED
        BY <3>1, InboxConstants DEF Acknowledged
    <2> QED
      BY <2>1, <2>3, <2>4, <2>5 DEF Journal!Next, Journal!Acknowledge
  <1> QED
    BY <1>1, <1>2, TablesChangeByCommit

(* The endpoint implements the abstract journal. *)
THEOREM ImplementsJournal == Spec => JournalSpec
  <1>1. Init => Journal!Init
    BY DEF Init, Journal!Init, Stored, Acknowledged
  <1>2. Shape /\ Shape' /\ AckInv' /\ [Next]_vars
            => [Journal!Next]_<<Stored, Acknowledged>>
    BY JournalStep
  <1> QED
    BY <1>1, <1>2, AckInit, AckStep, ShapeInvariant, PTL
    DEF Spec, JournalSpec, Journal!Spec, Journal!vars

-----------------------------------------------------------------------------
(* The sequence a request was authenticated with is never ahead of the     *)
(* stored one, and a thread about to store a gap has logged it.            *)
KnownIsPast ==
    \A t \in Threads : request[t].known <= lastSequence[request[t].source]

GapIsLogged ==
    \A t \in Threads :
        stage[t] = "saving" /\ IsGap(request[t].known, SequenceOf[Current(t)])
            => <<Current(t), request[t].source>> \in gaps

GapInv == KnownIsPast /\ GapIsLogged

LEMMA SequenceGrows ==
    ASSUME Shape, [Next]_vars, NEW s \in Sources
    PROVE  /\ lastSequence[s] \in Int
           /\ lastSequence'[s] \in Int
           /\ lastSequence[s] <= lastSequence'[s]
  <1>1. lastSequence[s] \in Nat \union {NoSequence}
    BY DEF Shape, TypeOK
  <1>2. CASE UNCHANGED <<inbox, lastSequence>>
    BY <1>1, <1>2 DEF NoSequence
  <1>3. ASSUME NEW t \in Threads, Commit(t)
        PROVE  lastSequence'[s] \in Int /\ lastSequence[s] <= lastSequence'[s]
    <2>1. CommitEffect(t)
      BY <1>3, CommitChanges
    <2>2. SequenceOf[Current(t)] \in Int
      BY <2>1 DEF CommitEffect, NoSequence
    <2>3. \/ lastSequence'[s] = lastSequence[s]
          \/ /\ lastSequence'[s] = SequenceOf[Current(t)]
             /\ SequenceOf[Current(t)] > lastSequence[s]
      BY <2>1 DEF CommitEffect
    <2> QED
      BY <1>1, <2>2, <2>3 DEF NoSequence
  <1> QED
    BY <1>1, <1>2, <1>3, TablesChangeByCommit DEF NoSequence

LEMMA GapStep == Shape /\ GapInv /\ [Next]_vars => GapInv'
  <1> SUFFICES ASSUME Shape, GapInv, [Next]_vars PROVE GapInv'
    OBVIOUS
  <1>1. KnownIsPast'
    <2> SUFFICES ASSUME NEW t \in Threads
                 PROVE  request'[t].known <= lastSequence'[request'[t].source]
      BY DEF KnownIsPast
    <2>1. /\ request[t].source \in Sources
          /\ request[t].known \in Int
          /\ request[t].known <= lastSequence[request[t].source]
      BY DEF Shape, TypeOK, GapInv, KnownIsPast, NoSequence
    <2>2. /\ request'[t].source \in Sources
          /\ request'[t].known \in Int
      BY ShapeStep DEF Shape, TypeOK, NoSequence
    <2>3. CASE request'[t].known = request[t].known
               /\ request'[t].source = request[t].source
      BY <2>1, <2>3, SequenceGrows
    <2>4. CASE request'[t] = NoRequest
      <3>1. lastSequence'[request'[t].source] \in Nat \union {NoSequence}
        BY <2>2, ShapeStep DEF Shape, TypeOK
      <3> QED
        BY <2>4, <3>1, NoRequestType DEF NoSequence
    <2>5. ASSUME NEW s \in Sources, NEW batch \in Batches, Receive(t, s, batch)
          PROVE  request'[t].known <= lastSequence'[request'[t].source]
      <3>1. /\ request'[t].known = lastSequence[s]
            /\ request'[t].source = s
            /\ lastSequence' = lastSequence
        BY <2>5 DEF Receive, Shape, TypeOK
      <3> QED
        BY <2>2, <3>1
    <2>6. ASSUME NEW status \in Status, AddResult(t, status)
          PROVE  request'[t].known = request[t].known
                 /\ request'[t].source = request[t].source
      BY <2>6, AddResultEffect DEF Shape
    <2>7. \/ request'[t] = request[t]
          \/ request'[t] = NoRequest
          \/ \E s \in Sources, batch \in Batches : Receive(t, s, batch)
          \/ \E status \in Status : AddResult(t, status)
      <3>1. ASSUME NEW u \in Threads, Step(u), u # t
            PROVE  request'[t] = request[t]
        BY <3>1 DEF Step, Receive, AnswerDuplicate, AnswerInvalid, CheckSequence,
                    Save, SaveConflict, TransactionFails, CommitReplyLost,
                    AbortOnNull, Respond, AddResult, Shape, TypeOK
      <3>2. CASE Step(t)
        BY <3>2 DEF Step, AnswerDuplicate, AnswerInvalid, CheckSequence, Save,
                    SaveConflict, TransactionFails, CommitReplyLost, AbortOnNull,
                    Respond, Status, Shape, TypeOK
      <3> QED
        BY <3>1, <3>2 DEF Next, Crash, vars
    <2> QED
      BY <2>3, <2>4, <2>5, <2>6, <2>7
  <1>2. GapIsLogged'
    <2> SUFFICES ASSUME NEW t \in Threads, stage'[t] = "saving",
                        IsGap(request'[t].known, SequenceOf[Current(t)'])
                 PROVE  <<Current(t)', request'[t].source>> \in gaps'
      BY DEF GapIsLogged
    <2>1. gaps \subseteq gaps'
      BY DEF Next, vars, Crash, Step, Receive, AnswerDuplicate, AnswerInvalid,
             CheckSequence, Save, SaveConflict, TransactionFails,
             CommitReplyLost, AbortOnNull, Respond
    <2>2. CASE CheckSequence(t)
      BY <2>2 DEF CheckSequence, Current
    <2>3. CASE stage[t] = "saving" /\ request'[t] = request[t]
      BY <2>1, <2>3 DEF GapInv, GapIsLogged, Current
    <2>4. \/ CheckSequence(t)
          \/ stage[t] = "saving" /\ request'[t] = request[t]
      <3>1. ASSUME NEW u \in Threads, Step(u), u # t
            PROVE  stage'[t] = stage[t] /\ request'[t] = request[t]
        BY <3>1 DEF Step, Receive, AnswerDuplicate, AnswerInvalid, CheckSequence,
                    Save, SaveConflict, TransactionFails, CommitReplyLost,
                    AbortOnNull, Respond, AddResult, Shape, TypeOK
      <3>2. CASE Step(t)
        BY <3>2 DEF Step, Receive, AnswerDuplicate, AnswerInvalid, Save,
                    SaveConflict, TransactionFails, CommitReplyLost, AbortOnNull,
                    Respond, AddResult, Shape, TypeOK
      <3> QED
        BY <3>1, <3>2 DEF Next, Crash, vars
    <2> QED
      BY <2>2, <2>3, <2>4
  <1> QED
    BY <1>1, <1>2 DEF GapInv

(* A jump in the stored sequences was logged, although the detector        *)
(* compares with a value read before.                                      *)
THEOREM JumpsAreReported == Spec => JumpIsReported
  <1>1. Init => GapInv
    <2> SUFFICES ASSUME Init, NEW t \in Threads
                 PROVE  /\ request[t].known <= lastSequence[request[t].source]
                        /\ stage[t] # "saving"
      BY DEF GapInv, KnownIsPast, GapIsLogged
    <2>1. request[t] = NoRequest /\ stage[t] = "idle"
      BY DEF Init
    <2>2. lastSequence[request[t].source] = NoSequence
      BY <2>1, NoRequestType DEF Init
    <2> QED
      BY <2>1, <2>2, NoRequestType DEF NoSequence
  <1> DEFINE Jump ==
          \A i \in DOMAIN inbox' \ DOMAIN inbox :
              SequenceOf[inbox'[i].event] > lastSequence[inbox'[i].via] + 1 =>
                  \/ <<inbox'[i].event, inbox'[i].via>> \in gaps
                  \/ StoredWithoutBaseline
  <1>2. Shape /\ GapInv /\ [Next]_vars => [Jump]_vars
    <2> SUFFICES ASSUME Shape, GapInv, [Next]_vars PROVE Jump
      OBVIOUS
    <2>1. CASE UNCHANGED <<inbox, lastSequence>>
      BY <2>1
    <2>2. ASSUME NEW t \in Threads, Commit(t),
                 NEW status \in {"ACCEPTED", "REJECTED"}, AddResult(t, status)
          PROVE  Jump
      <3>1. CommitEffect(t)
        BY <2>2, CommitChanges
      <3>2. /\ request'[t].results = Append(request[t].results, status)
            /\ request[t].results \in Seq(Status) /\ status \in Status
        BY <2>2, AddResultEffect DEF Shape, TypeOK, Status
      <3>3. request'[t].results # request[t].results
        BY <3>2
      <3>4. /\ request[t].known \in Int
            /\ request[t].known <= lastSequence[request[t].source]
            /\ lastSequence[request[t].source] \in Int
            /\ SequenceOf[Current(t)] \in Int
        BY <3>1 DEF GapInv, KnownIsPast, Shape, TypeOK, NoSequence, CommitEffect
      <3>5. CASE request[t].known = NoSequence
        BY <3>3, <3>5 DEF StoredWithoutBaseline
      <3>6. CASE request[t].known # NoSequence
        <4> SUFFICES ASSUME SequenceOf[Current(t)]
                                > lastSequence[request[t].source] + 1
                     PROVE  <<Current(t), request[t].source>> \in gaps
          BY <3>1 DEF CommitEffect
        <4>1. IsGap(request[t].known, SequenceOf[Current(t)])
          BY <3>4, <3>6 DEF IsGap
        <4> QED
          BY <2>2, <4>1 DEF GapInv, GapIsLogged, Commit
      <3> QED
        BY <3>5, <3>6
    <2> QED
      BY <2>1, <2>2, TablesChangeByCommit
  <1> QED
    BY <1>1, <1>2, GapStep, ShapeInvariant, PTL DEF Spec, JumpIsReported
=============================================================================
