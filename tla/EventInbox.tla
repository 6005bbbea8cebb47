----------------------------- MODULE EventInbox -----------------------------
(***************************************************************************)
(* Ingestion of source events: IngestionController.ingest runs in one      *)
(* servlet thread per request and calls EventIngestionService.ingest, one  *)
(* database transaction per envelope of the batch.                         *)
(*                                                                         *)
(* The source row read by SourceRegistry.authenticate is detached: its     *)
(* last_sequence is the one of the start of the request for every element  *)
(* of the batch.  existsByEventId and the INSERT are two statements; only  *)
(* the UNIQUE constraint on event_id, checked when the transaction         *)
(* commits, arbitrates between two requests.                               *)
(***************************************************************************)
EXTENDS Integers, Sequences

CONSTANTS
    Threads,         \* request threads
    Sources,         \* active rows of ingest_source
    Envelopes,       \* the envelopes the sources may post
    NullElement,     \* a JSON null in the posted array
    EventIds,        \* values of event_id
    EventId,         \* the eventId of an envelope
    SequenceOf,      \* its sequence number, or NoSequence
    Valid,           \* the envelopes EnvelopeValidator.validateFull accepts
    MAX_BATCH_SIZE,  \* elements per request
    DbErrors         \* TRUE iff a transaction may fail for its own reasons

(* A null sequence; COALESCE(last_sequence, -1) makes a source that has    *)
(* stored none compare below every sequence number.                        *)
NoSequence == -1

ASSUME InboxConstants ==
    /\ Sources # {}
    /\ NullElement \notin Envelopes
    /\ EventId \in [Envelopes -> EventIds]
    /\ SequenceOf \in [Envelopes -> Nat \union {NoSequence}]
    /\ Valid \subseteq Envelopes
    /\ MAX_BATCH_SIZE \in Nat
    /\ DbErrors \in BOOLEAN

VARIABLES
    inbox,         \* event_inbox: envelope and posting source, in commit order
    lastSequence,  \* ingest_source.last_sequence of each source
    stage,         \* where each request thread is
    request,       \* the request it serves
    gaps,          \* the [SEQUENCE-GAP] warnings logged: <<envelope, source>>
    answers        \* the <<envelope, status>> pairs sources have been sent

vars == <<inbox, lastSequence, stage, request, gaps, answers>>

Status == {"ACCEPTED", "DUPLICATE", "REJECTED"}

Elements == Envelopes \union {NullElement}

Batches == UNION {[1..n -> Elements] : n \in 0..MAX_BATCH_SIZE}

NoRequest ==
    [source |-> CHOOSE s \in Sources : TRUE, batch |-> <<>>,
     known |-> NoSequence, results |-> <<>>]

TypeOK ==
    /\ inbox \in Seq([event : Envelopes, via : Sources])
    /\ lastSequence \in [Sources -> Nat \union {NoSequence}]
    /\ stage \in [Threads -> {"idle", "element", "saving"}]
    /\ request \in [Threads ->
           [source : Sources, batch : Seq(Elements),
            known : Nat \union {NoSequence}, results : Seq(Status)]]
    /\ gaps \subseteq Envelopes \X Sources
    /\ answers \subseteq Envelopes \X Status

Init ==
    /\ inbox = <<>>
    /\ lastSequence = [s \in Sources |-> NoSequence]
    /\ stage = [t \in Threads |-> "idle"]
    /\ request = [t \in Threads |-> NoRequest]
    /\ gaps = {}
    /\ answers = {}

-----------------------------------------------------------------------------

(* EventInboxRepository.existsByEventId, on the committed rows. *)
Exists(e) == \E i \in DOMAIN inbox : EventId[inbox[i].event] = EventId[e]

MoreElements(t) == Len(request[t].results) < Len(request[t].batch)

Current(t) == request[t].batch[Len(request[t].results) + 1]

(* results.add(...) at the end of one turn of the loop over the batch. *)
AddResult(t, status) ==
    /\ request' = [request EXCEPT ![t].results = Append(@, status)]
    /\ stage' = [stage EXCEPT ![t] = "element"]

(* Mutant: off by one. *)
IsGapOffByOne(known, sequence) ==
    /\ known # NoSequence
    /\ sequence > known + 2

(* SequenceGapDetector.checkAndLog, against the last_sequence the request  *)
(* was authenticated with.                                                 *)
IsGap(known, sequence) ==
    /\ known # NoSequence
    /\ sequence > known + 1

(* Mutant: without GREATEST. *)
OverwriteLastSeen(s, sequence) ==
    lastSequence' = [lastSequence EXCEPT ![s] = sequence]

(* IngestSourceRepository.updateLastSeen: GREATEST(COALESCE(last, -1), seq). *)
UpdateLastSeen(s, sequence) ==
    lastSequence' = [lastSequence EXCEPT
        ![s] = IF sequence > @ THEN sequence ELSE @]

-----------------------------------------------------------------------------

(* The body is small enough, the source is known, the signature is good    *)
(* and the JSON an array of at most MAX_BATCH_SIZE elements.  A request    *)
(* that fails one of those tests is refused whole and changes nothing.     *)
Receive(t, s, batch) ==
    /\ stage[t] = "idle"
    /\ request' = [request EXCEPT ![t] =
           [source |-> s, batch |-> batch,
            known |-> lastSequence[s], results |-> <<>>]]
    /\ stage' = [stage EXCEPT ![t] = "element"]
    /\ UNCHANGED <<inbox, lastSequence, gaps, answers>>

(* A row with this eventId is already committed. *)
AnswerDuplicate(t) ==
    /\ stage[t] = "element" /\ MoreElements(t) /\ Current(t) # NullElement
    /\ Exists(Current(t))
    /\ AddResult(t, "DUPLICATE")
    /\ UNCHANGED <<inbox, lastSequence, gaps, answers>>

(* No row has this eventId but validateFull refuses the envelope. *)
AnswerInvalid(t) ==
    /\ stage[t] = "element" /\ MoreElements(t) /\ Current(t) # NullElement
    /\ ~Exists(Current(t))
    /\ Current(t) \notin Valid
    /\ AddResult(t, "REJECTED")
    /\ UNCHANGED <<inbox, lastSequence, gaps, answers>>

(* Mutant: the outcome of validateFull is not looked at. *)
CheckUnvalidated(t) ==
    /\ stage[t] = "element" /\ MoreElements(t) /\ Current(t) # NullElement
    /\ ~Exists(Current(t))
    /\ stage' = [stage EXCEPT ![t] = "saving"]
    /\ UNCHANGED <<inbox, lastSequence, request, gaps, answers>>

(* existsByEventId said no and the envelope is valid: the gap check, then  *)
(* on to the INSERT.  A gap is only logged.                                *)
CheckSequence(t) ==
    /\ stage[t] = "element" /\ MoreElements(t) /\ Current(t) # NullElement
    /\ ~Exists(Current(t))
    /\ Current(t) \in Valid
    /\ gaps' = IF IsGap(request[t].known, SequenceOf[Current(t)])
               THEN gaps \union {<<Current(t), request[t].source>>}
               ELSE gaps
    /\ stage' = [stage EXCEPT ![t] = "saving"]
    /\ UNCHANGED <<inbox, lastSequence, request, answers>>

(* Mutant: no UNIQUE constraint on event_id. *)
CommitUnchecked(t) ==
    /\ stage[t] = "saving"
    /\ inbox' = Append(inbox, [event |-> Current(t), via |-> request[t].source])
    /\ UpdateLastSeen(request[t].source, SequenceOf[Current(t)])

(* The transaction commits: the row and last_sequence together. *)
Commit(t) ==
    /\ stage[t] = "saving"
    /\ ~Exists(Current(t))
    /\ inbox' = Append(inbox, [event |-> Current(t), via |-> request[t].source])
    /\ UpdateLastSeen(request[t].source, SequenceOf[Current(t)])

Save(t) ==
    /\ Commit(t)
    /\ AddResult(t, "ACCEPTED")
    /\ UNCHANGED <<gaps, answers>>

(* The UNIQUE constraint refuses the row another request has committed     *)
(* since existsByEventId: the exception of the commit reaches the          *)
(* controller, which answers REJECTED / INTERNAL_ERROR.                    *)
SaveConflict(t) ==
    /\ stage[t] = "saving"
    /\ Exists(Current(t))
    /\ AddResult(t, "REJECTED")
    /\ UNCHANGED <<inbox, lastSequence, gaps, answers>>

(* Mutant: the failure is swallowed and the element answered ACCEPTED. *)
FailureSwallowed(t) ==
    /\ DbErrors
    /\ stage[t] = "saving"
    /\ AddResult(t, "ACCEPTED")
    /\ UNCHANGED <<inbox, lastSequence, gaps, answers>>

(* Any other failure of the transaction, the one of updateLastSeen         *)
(* included: its exception is swallowed but has marked the transaction     *)
(* rollback-only.                                                          *)
TransactionFails(t) ==
    /\ DbErrors
    /\ \/ stage[t] = "saving"
       \/ stage[t] = "element" /\ MoreElements(t) /\ Current(t) # NullElement
    /\ AddResult(t, "REJECTED")
    /\ UNCHANGED <<inbox, lastSequence, gaps, answers>>

(* The connection is lost after the commit and before its reply. *)
CommitReplyLost(t) ==
    /\ DbErrors
    /\ Commit(t)
    /\ AddResult(t, "REJECTED")
    /\ UNCHANGED <<gaps, answers>>

(* Mutant: a null element is answered like the others. *)
AnswerNull(t) ==
    /\ stage[t] = "element" /\ MoreElements(t) /\ Current(t) = NullElement
    /\ AddResult(t, "REJECTED")
    /\ UNCHANGED <<inbox, lastSequence, gaps, answers>>

(* ingest(null, ..) throws, and so does the handler that reads             *)
(* envelope.eventId(): the request ends in an error, its earlier elements  *)
(* stay committed and are not answered.                                    *)
AbortOnNull(t) ==
    /\ stage[t] = "element" /\ MoreElements(t) /\ Current(t) = NullElement
    /\ stage' = [stage EXCEPT ![t] = "idle"]
    /\ request' = [request EXCEPT ![t] = NoRequest]
    /\ UNCHANGED <<inbox, lastSequence, gaps, answers>>

(* The 207 answer with one result per element. *)
Respond(t) ==
    /\ stage[t] = "element" /\ ~MoreElements(t)
    /\ answers' = answers \union
           {<<request[t].batch[i], request[t].results[i]>> :
               i \in 1..Len(request[t].results)}
    /\ stage' = [stage EXCEPT ![t] = "idle"]
    /\ request' = [request EXCEPT ![t] = NoRequest]
    /\ UNCHANGED <<inbox, lastSequence, gaps>>

(* The application dies: open transactions roll back, no request under way *)
(* is answered.                                                            *)
Crash ==
    /\ stage' = [t \in Threads |-> "idle"]
    /\ request' = [t \in Threads |-> NoRequest]
    /\ UNCHANGED <<inbox, lastSequence, gaps, answers>>

Step(t) ==
    \/ \E s \in Sources, batch \in Batches : Receive(t, s, batch)
    \/ AnswerDuplicate(t)
    \/ AnswerInvalid(t)
    \/ CheckSequence(t)
    \/ Save(t)
    \/ SaveConflict(t)
    \/ TransactionFails(t)
    \/ CommitReplyLost(t)
    \/ AbortOnNull(t)
    \/ Respond(t)

Next == Crash \/ \E t \in Threads : Step(t)

Spec == Init /\ [][Next]_vars

-----------------------------------------------------------------------------

Stored == {EventId[inbox[i].event] : i \in DOMAIN inbox}

Acknowledgement == {"ACCEPTED", "DUPLICATE"}

Acknowledged == {EventId[a[1]] : a \in {b \in answers : b[2] \in Acknowledgement}}

(* However the requests that carry an event interleave, event_inbox has    *)
(* one row for it: the check of EventIngestionService.ingest and its       *)
(* INSERT are separate, and a source retransmits what it got no answer for. *)
OneRowPerEvent ==
    \A i, j \in DOMAIN inbox :
        EventId[inbox[i].event] = EventId[inbox[j].event] => i = j

(* A source that was answered ACCEPTED or DUPLICATE may forget the event:  *)
(* its row is committed, and no crash or later error takes it away.        *)
AcknowledgedIsStored == Acknowledged \subseteq Stored

(* last_sequence of a source is the largest sequence among the rows it has *)
(* posted, although requests carrying older and newer sequences commit in  *)
(* any order and some of them roll back.                                   *)
LastSequenceIsLargest ==
    \A s \in Sources :
        /\ \A i \in DOMAIN inbox : inbox[i].via = s =>
               SequenceOf[inbox[i].event] <= lastSequence[s]
        /\ \/ lastSequence[s] = NoSequence
           \/ \E i \in DOMAIN inbox :
                  /\ inbox[i].via = s
                  /\ SequenceOf[inbox[i].event] = lastSequence[s]

(* The row stored by the step is one of a request whose source had no      *)
(* sequence yet when it was authenticated.                                 *)
StoredWithoutBaseline ==
    \E t \in Threads :
        /\ request'[t].results # request[t].results
        /\ request[t].known = NoSequence

(* A row whose sequence jumps over the one after last_sequence is never    *)
(* stored silently: the detector warned, although it compared with a value *)
(* read at the start of the request, unless the source had no sequence yet *)
(* at that time.                                                           *)
JumpIsReported ==
    [][\A i \in DOMAIN inbox' \ DOMAIN inbox :
          SequenceOf[inbox'[i].event] > lastSequence[inbox'[i].via] + 1 =>
              \/ <<inbox'[i].event, inbox'[i].via>> \in gaps
              \/ StoredWithoutBaseline]_vars

(* The ingestion endpoint keeps the promise of the abstract journal. *)
Journal == INSTANCE EventJournal
           WITH journal <- Stored, acknowledged <- Acknowledged
JournalSpec == Journal!Spec
=============================================================================
