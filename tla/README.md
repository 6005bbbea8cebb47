# SIA B2B: TLA+ models and proofs

SIA B2B is the back end of a B2B platform fed by events of the ERP "YME". A connector posts signed
batches of events; the platform journals them in PostgreSQL, relays them to Kafka, and consumers build
the projection tables the site reads. Next to that flow, an identity module manages professional accounts
and their sessions. A slide deck with an editing rail, in which the product was presented, and a set of
mock-up pages of the shop come with it.
This directory holds the TLA+ models of that code, the TLC configurations that check
them, and the TLAPS proofs about them.

Sources are under `src/backend/src/main/java/tn/sia/b2b/`; those of the deck and the shop are
`src/handoff/design/deck-stage.js` and `src/handoff/design/components/Product.jsx`. `PROJECT.json` maps
every definition to its lines.

## 1. Inventory

| Component | State | Operations | What is hard |
|---|---|---|---|
| Ingestion endpoint (`ingestion/web`, `ingestion/service`) | `event_inbox`, `ingest_source.last_sequence` | `POST /ingest/v1/events`: per element, idempotence check, validation, gap check, INSERT, `updateLastSeen`, one transaction each | concurrent and repeated requests, baseline of the gap check read once per batch, crash before the answer, null elements |
| Source authentication, envelope validation | none | `authenticate`, `validateFull` | stateless |
| Inbox relay (`projection/relay`) | `event_inbox.state`, `attempts`; the producer's buffer | every 500 ms: `leaseBatch`, `findLeased`, `processOne` per row | timeouts racing late appends, crash between send and save, several instances, detached entities overwriting rows |
| Replay and sync health (`ops`) | none of its own | `replayEvents`; reports | resets rows that are in use |
| Projection consumers (`projection/consumer`, `KafkaConfig`) | projection tables, consumer offsets, dead letter topics | `process`, `apply`, `upsertProjection`, retries | two commits (row, offset), rebalances, versions out of order, poison records |
| Snapshot reception (`SnapshotChunkAccumulator`) | Redis chunk keys and counter, `SNAPSHOT_COMPLETE` row | `recordChunk`, `applyCompleteSnapshot`, `cleanup` | duplicates counted, Redis deleted before the database commits, key expiry |
| Accounts (`identity`) | `users`, `password_reset_token` | register, validate, suspend, request and apply a reset | rows read, modified and written whole without a version |
| Sessions | Redis `session:*` keys and `user:sessions:*` sets | create, logout, revoke all | several Redis commands per operation, outside the transaction |
| Rate limits (`identity/service/RateLimitService`) | a Redis counter per address, its time to live | `checkAndIncrement` (INCR, then EXPIRE), `resetLoginAttempts` (DEL), expiry | two commands where one is meant, concurrent attempts, deletions and expiries in between |
| Slide deck (`handoff/design/deck-stage.js`, a third-party starter used by `Presentation Client.html`): slides and edits | slides, current index, skip marks; selection, menu, dialog, drag; rail lock, operations under way | navigation; delete, move, duplicate, skip; `dc-op` events to a host, its acknowledgements, others' edits | index set before the host has answered, late acknowledgements, menus and dialogs over a deck that changes |
| — its layout | attributes, window, `_railEnabled`, `_railVisible`, `_presenting`, `_previewMode`, `_railPx`, what the style sheet hides | `attributeChangedCallback`, `_onResize`, `_setRailWidth`, `_onMessage` | a width computed from flags has to agree with what the style sheet hides |
| — its overlay | `data-visible`, `_hideTimer`, hover and focus pins, the notice | `_flashOverlay` and its callers, presentation mode | a timer that does nothing while pinned; events caused by the hiding itself |
| — its numbers and printing | rail numbers, badges, counter, page-break mark, message to the presenter, `data-deck-active` | `_renumberRail`, `_syncCount`, `_markLastVisible`, `_broadcast`, `beforeprint`, `afterprint` | five derived views brought up to date one by one |
| — its thumbnails | clones, snapshot of the style sheets, two debounce timers, hooked links | `_materialize`, `_refreshThumb`, `_snapshotAuthorCss`, three mutation observers | edits gathered while slides come and go, style sheets that load late |
| Mock-up shop (`handoff/design`) | `sia_cart` in localStorage, the items each page shows | `Cart.add`, `remove`, `setQty`, `clear`, `useCart`, the demo lines, `OrderConfirmed.html` | several tabs, each with a view of its own of one list |
| Audit log, error handling, value objects, configuration | none that anything reads back | | |

Interactions: the endpoint inserts `event_inbox` rows, the relay and the replay update them, the relay
appends to the topics, the consumers read the topics and write the projections. No consumer writes
`event_inbox`. The identity module shares nothing with this flow, and the deck and the shop nothing with
either or with each other. The limiter is asked before the status of an account is read, and changes
nothing of it.

The hazards, each at its line and with the properties that watch it, are in `PROJECT.json`.

## 2. Modules

| Module | Models | Abstracts |
|---|---|---|
| `EventJournal` | what the endpoint promises: events enter once, never leave, are acknowledged after they entered | |
| `EventInbox` | the endpoint, one request per thread | signatures, JSON, the field tests (a set `Valid`) |
| `EventInboxProofs` | proofs about `EventInbox` | |
| `InboxRelay` | the relay of each instance, the replay, the producer and broker | message contents, topics (a function `PartitionOf`) |
| `InboxRelayProofs` | proofs about `InboxRelay` | |
| `VersionedReplica` | what a projection table promises: rows only move to newer versions | |
| `Projections` | consumers, offsets, retries, dead letters, rebalances | columns other than the version (a row is its last event) |
| `ProjectionsProofs` | proofs about `Projections` | |
| `SyncPipeline` | `Projections` composed with an instance of `InboxRelay` over a shared `log` | |
| `SyncService` | `SyncPipeline` composed with an instance of `EventInbox` over `event_inbox`: from a posted envelope to a projected row | |
| `PipelineProofs` | proofs about `SyncPipeline` and `SyncService` | |
| `SnapshotChunks` | reception of one snapshot | chunk contents, `:total` key, which nothing reads |
| `SnapshotProofs` | proofs about `SnapshotChunks` | |
| `Accounts` | one account, its sessions, its reset links | e-mails, form fields, hashing |
| `AccountsProofs` | proofs about `Accounts` | |
| `LoginLimiter` | the counter of login attempts of one address, requests that die half way | the clock (a key may expire at any time) |
| `DeckStage` | the deck: navigation, the rail, its edits, with and without a host | focus, notes, scrolling |
| `DeckStageProofs` | proofs about `DeckStage` | |
| `DeckRail` | the room of the rail: modes, attributes, window width, resizing, the left edge of the stage, the scale of the thumbnails | the slides, the scale of the stage (a function of its left edge) |
| `DeckOverlay` | the overlay, its timer and pins, presentation mode, the notice | its buttons (a navigation) |
| `DeckNumbers` | what is derived from the order of the slides and the skip marks; printing; the title of the delete dialog; the index as edits are sent to and refused by a host | how an edit chooses the index (any), when the host answers (any time), contents |
| `DeckThumbs` | clones of slides and of the page's style, the observers and timers that keep them fresh | contents (a version number), sizes |
| `Shop` | the cart in several tabs, which read and write it in steps | prices, product data, the other pages |
| `MCParts` | `LoginLimiter`, `DeckRail`, `DeckOverlay`, `DeckNumbers`, `DeckThumbs` and `Shop`, one at a time | |
| `PartsProofs` | proofs about these six | |
| `MC*` | the other instances TLC checks | |

Definitions keep the names of the code where there is one. An action is the code between two points at
which another thread, process or server can act: a database transaction is one action when only its
commit can be observed, and two (read, commit) when it decides on what it has read. Redis commands are
one action each.

Points of correspondence a reader may want to verify:

- `EventInbox.CheckSequence` and `Save` are the two halves of one transaction. The `INSERT` is only
  refused at the commit, by the UNIQUE constraint (`SaveConflict`). `open-in-view` is off, so the source
  row of a request is detached and keeps its first `last_sequence` (`request.known`).
- `updateLastSeen` failing is part of `TransactionFails`: its exception is swallowed but the transaction
  is already rollback-only.
- Sequence numbers are natural: a negative one, which no test of the code refuses, is not modelled.
- `InboxRelay.SaveEntity` writes every column: `save` of a detached entity is a merge.
- `LeaseTx` and `ProcessTx` say whether the `@Transactional` of `leaseBatch` and of `processOne` are
  effective. In the code as it stands neither is, since `relay()` calls both on `this`. Without the first no
  row is ever leased (`relay_as_built`). `relay_live` and `service` repair that call alone, as a proxy or a
  template would, and keep `processOne` as it is called. `relay_single` repairs both, so that attempts are saved
  and rows become DEAD after several of them.
- Without a transaction of `processOne`, `resetToReceived` is refused after a failure that is not the last. Its
  exception leaves the `catch` and `relay()`: the attempt is not saved, the rest of the batch is left to the
  next cycle (`RetryRefused`), and the row counts every failure as its first. A `save` that fails after the
  acknowledgement is caught, and is one more failed publication (`SaveFails`); inside a transaction its
  exception leaves `relay()` (`DbFault`).
- In a transaction, `resetToReceived` succeeds and the merge then writes the LEASED the entity was read with
  over it (`Retry`).
- `BrokerAppend` may acknowledge after `get` has timed out; `SendTimeout` is enabled both before and
  after the append. Sends of one producer to one partition keep their order (`enable.idempotence`).
- `Projections.Poison` stands for records that are unreadable or always refused, e.g. one whose
  `entityRef` holds a quote, which `buildKafkaMessage` does not escape.
- A consumer that lost its partition may still `Apply` the record it holds; it can no longer commit its
  offset (`LosePartition`).
- `Accounts.Commit` writes the whole row the transaction read, as the UPDATE of an entity without
  `@DynamicUpdate` and `@Version` does, and nothing if the entity did not change (`dirty`).
- `DeckStage` counts slides from 1, the code from 0. `location.hash` always follows the index and is not
  a variable. The anchor of a Shift click is left open (`RangeClick` takes any), which only adds behaviours.
- The five modules of the deck share no variable but what they name alike (the deck, the index, the skip
  marks, presentation mode). Each takes what another decides as any value it may have, at any time: in
  `DeckNumbers` an edit may choose any index and be sent, rendered or refused at any time, `DeckOverlay` and
  `DeckRail` let presentation begin at any time, `DeckThumbs` lets any set of slides come and go.
- An index is set in two ways: with all that shows it (`Go`, `Render` of `DeckNumbers`), or alone (`SetIndex`),
  when an edit is sent to a host and when one is refused. `behind` names what was computed for another index
  since: counter, presenter or the slide on screen. After a refusal it stays so until the next navigation or
  render (a mark and the end of printing bring some of the three up to date), and the properties say so.
- In these modules a task of the page, with the microtasks after it, is one step: mutation observers and
  `slotchange` run before any other task. A timer, a frame, a `resize` and a `storage` event are tasks of
  their own.
- Tabs may be processes of their own, and `localStorage` has no lock between them. `Cart.get`, `Cart.set` and
  the reading again on `cart-changed` are three steps (`Get`, `Set`, `Show`), each of the demo lines as well,
  and other tabs take theirs in between. Within one tab they are one task: no effect or `storage` event
  of that tab comes in between (`phase`). `overtaken` remembers that another tab changed the cart between the
  two.
- A tab may be opened on a page at any time, and its effects run later than its first render (`Open`,
  `Effects`), so a write of another tab may come in between, unheard (`missed`).
- `LoginLimiter` counts up to `Ceiling`, which is above the limit: all larger counts are refused alike. An
  expiry may come at any time once the key has a time to live, so no clock is needed.
- `MCParts` moves one part per behaviour (`part`), the others rest in one initial state. The parts share no
  variable and no property relates two of them, so nothing is lost; it only spares TLC their product.
- `DeckStage.Without` deletes slides as a filter of the deck does, but says of each place which slide comes
  there: the one that as many kept slides precede. `ASSUME WithoutFilters` of `MCDeckStage` compares both.
- `SyncService` has the endpoint and the relay see one table. The row a transaction of the endpoint commits
  is, in the same step, one the relay finds RECEIVED; `inbox` keeps of it what was posted, and `state` its
  column `state`. The time between a commit and the cycle that sees it is that of the relay, which may take
  its next step whenever it likes. The endpoint knows envelopes, the relay events: envelopes with one
  `eventId` are one event, whichever of them is stored.
- The host of a hosted deck is external. It is modelled from what the element expects of it: it applies or
  refuses an operation, acknowledges before (`HostAcks`, `early`) or after it renders, and its acknowledgements
  may come late or never (`AckLost`), as the comment in `_onSlotChange` says. A render unlocks the rail of an
  edit that was applied. The refusal of one is followed by no render: once lost, the rail stays locked until
  another answer or somebody else's edit comes (`unheard`), and `_indexBeforeEmit` stays set. Others add,
  remove, move and skip slides (`OthersEdit`, `OthersSkip`). A deck that is being streamed refuses edits, at
  any time (`NoEdit`).
- A gesture may reach `DeckStage` as a key, a tap, a button of the overlay or a script, which differ in what
  they close and clear.

## 3. Runs

Bounds are named constants of the modules. They are chosen so that the smallest instance shows each
interleaving: two actors that conflict, one fault of each kind, one retry before the limit.

| Run | Instance | Shows |
|---|---|---|
| `inbox_race` | 2 threads, 2 sources, sequences 1 and 3, an invalid envelope, null elements, batches of 1, database failures and crashes | `OneRowPerEvent`, `LastSequenceIsLargest`, `JumpIsReported`; `JournalSpec` (refinement of `EventJournal`: what is acknowledged is stored, and what is stored stays) |
| `relay_single` | 1 instance, 3 events, leases of 2, both transactions, 2 attempts, 1 fault, 1 replay | `SentIsPublished`, `DeadIsEarned`, `DuplicatesAreExplained`, `SentIsFinal` |
| `relay_live` | 1 instance, 3 events, leases of 1, `processOne` without its transaction, 1 fault, 1 replay, fairness | `WaitingIsReached`, `CycleEnds` |
| `projections` | 2 consumers, 2 partitions, 3 events (2 versions of a row, 1 that cannot be applied), 2 tries, 1 disruption, fairness | `PassedIsHandled`, `ConvergesToNewest`, `PartitionAdvances`, `PoisonIsDeadLettered`; `ReplicaSpec` (refinement of `VersionedReplica`: a projection never regresses, whatever is replayed) |
| `service` | 1 request thread, 1 event, an invalid envelope with the same `eventId`, database failures, a crash of the endpoint at any time, 1 relay instance (`processOne` without its transaction, 1 attempt) with 1 fault, 1 consumer with 1 disruption, 1 replay | `NoSilentLoss`, `AcknowledgedArrives`, `ProjectedWasAccepted` |
| `snapshot` | 2 instances, 2 chunks, 2 records each, 1 fault, 1 expiry, fairness | `CompleteIsWhole`, `WholeIsComplete`, `SnapshotCompletes` |
| `deck` | 2 slides and 1 to add, 2 edits of the reader or of others, hosted or not, acknowledgements early, late or lost, fairness of the host | `PlaceIsKept`, `RailIsFresh`, `LockIsOwed`, `RailReopens`; and, for every deck of up to 5 slides, the index arithmetic of deletions against a reference (`ASSUME DeletionKeepsPlace`) and deletion by index against a filter (`ASSUME WithoutFilters`) |
| `parts`: limiter | 3 threads, limit 2, fairness of Redis | `LockWillExpire`; `LockEnds` in `PartsSettle` |
| `parts`: rail | 2 design widths, pointer left of, within and right of the rail's range, a window that becomes narrow | `RailFollowsModes` |
| `parts`: overlay | the whole state space | `OverlayIsHeld`; `OverlayFades` in `PartsSettle` |
| `parts`: numbers | every deck of up to 2 slides with every set of marks, edits sent, rendered and refused at any time | `DerivedIsFresh` |
| `parts`: thumbnails | 2 slides, 1 link, 2 edits of anything, timers that fire | `ThumbCatchesUp` and `StyleCatchesUp` in `PartsSettle` |
| `parts`: shop | 2 tabs, one on the catalogue and the cart, one on the cart, the checkout and the confirmation; 2 products (1 of status "low"), stepper up to 2, quantities 0, 1 and "2 or more" | `StaleIsExplained`, `LinesChangeOnPurpose`; `DisplaySettles` in `PartsSettle` |
| `accounts` | 2 requests, 2 sessions, 1 reset link, 2 passwords, expiry of the set | `LiveIsTracked`, `RevocationIsComplete`: exactly what concurrent revocations may miss |

In `inbox_race` a batch has one element: two threads already disagree on the baseline of the gap check, which
is what a second element of the same batch would do. With two elements and an invalid envelope the state space is beyond TLC. The proofs hold for every batch
size. Likewise the relay is run with one instance, and two or more are covered by the proofs.

`service` is about one event: a transmission that is refused or answered too late, its retransmissions, the
copies and the replay of the event, and the redeliveries of its records. How events of one entity overtake
each other is the subject of `projections`, how requests overtake each other of `inbox_race`.
A thread already answers a request between two steps of the relay or a consumer; the proofs hold for any
number of threads and events. `AcknowledgedArrives` says where an acknowledged event is, not that it moves
on: `relay_as_built` shows that it need not. With `leaseBatch` repaired, as in `relay_live`, a row that waits when
the last fault is over is published or its publication fails, but only if no row that occurred before it fails: `processOne` then leaves
the cycle, and a row that fails in every cycle starves those after it (`InboxRelayStarved.cfg`) without ever
becoming DEAD (`InboxRelayAttempts.cfg`).

In `deck`, `PlaceIsKept` of a hosted deck speaks of an operation that was sent when nothing else was to be
answered, with no index left from a lost acknowledgement that a refusal could go back to, and during which
nobody navigated or edited; without a host it speaks of every edit. `LockIsOwed` and `RailReopens` except the
one case the code does not handle, a refusal that was lost (`DeckStageDead.cfg`).

`parts` names one property per question and part; each is a conjunction of properties that the modules of
the parts define and explain. 3 threads are the fewest for an INCR that creates the key again, after a
deletion, between the INCR and the EXPIRE of another. The cart counts up to "2 or more", where additions
are absorbed: it is the quantity beyond which lines do not differ, and `Picked` lets such a line keep
its quantity, too. `Shopping` and `Paying` keep one tab off the checkout and the other off the catalogue, so that
TLC ends in time; both pages meet in the cart, and both tabs may add the demo lines to it at the same time.
Two slides are the fewest that have an order; the configurations for the deck's numbers under "Further
counterexamples" use three, and the proofs have none of these bounds. With 2 edits a clone can be stale, be refreshed, and be stale again while
the timer waits.

`WholeIsComplete` of `snapshot` excuses a snapshot that lost a record, an expiry, or `MAX_TRIES` failed calls.
The last excuse is needed beyond the bounds of the run, as the proof showed: a chunk whose SET succeeds and
whose INCR fails at every try is stored, never counted, and dead-lettered, so all chunks are there and the
counter never says so. The bounds of the run keep the faults below `MAX_TRIES`; the theorem has no bound.

In `projections` every event has a projection; the branch of an event without one (`Upsert` of a row that
is not in `Entities`) changes nothing.

Three runs end in a violation, on purpose: each checks one sentence of the repository that the code does
not keep. `findings` in `PROJECT.json` quotes the sentence.

| Run | Sentence | Why it fails |
|---|---|---|
| `relay_as_built` | accepted events are relayed | the self-invocation of `leaseBatch` has no transaction |
| `snapshot_lost` | a snapshot received whole is applied | keys are deleted before the commit |
| `accounts_suspension` | a suspension revokes all sessions | a login under way escapes it |

### Further counterexamples

These configurations are kept for the reader and are not part of the regular runs. TLC ends each with a
counterexample (`tlc -config <cfg> <module>`). Most check one more sentence of the repository that the code
does not keep; those without a sentence check what a reader may expect, and show why the property of the
regular run is no stronger.

| Configuration, module | Property | Sentence | Why it fails |
|---|---|---|---|
| `AccountsLinks.cfg`, `MCAccounts` | `LinkIsUsedOnce` | `V2__platform_zone.sql:25` « usage unique » | two resets read the link unused, both commit |
| `AccountsStale.cfg`, `MCAccounts` | `SuspensionLasts` | `Product Backlog.html:611` « valider, rattacher et suspendre des comptes, afin de maîtriser qui accède » | a validation that read the account before its suspension writes ACTIVE after it |
| `InboxRelayStarved.cfg`, `MCInboxRelay` | `WaitingIsTried` | — | a row that fails in every cycle ends it before those that occurred later |
| `InboxRelayAttempts.cfg`, `MCInboxRelay` | `FailedEnoughIsDead` | `InboxRelayService.java:24` « Après 5 échecs, marque DEAD pour traitement manuel » | the exception of `resetToReceived` leaves `processOne` before the attempt is saved |
| `LoginLimiterCrash.cfg`, `LoginLimiter` | `LockIsTemporary` | `AuthService.java:57` « Réessayez dans 15 minutes. » | a crash between INCR and EXPIRE leaves a key that never expires |
| `LoginLimiterAttempts.cfg`, `LoginLimiter` | `RefusalIsEarned` | `Product Backlog.html:312` « limitation après 5 échecs sur 15 min » | attempts under way are counted before their password is checked |
| `DeckStageMenu.cfg`, `MCDeckStage` | `MenuIsFresh` | `deck-stage.js:1391` "close them rather than let a stale answer fire" | without a host, the `slotchange` of the deck's own move is skipped whole |
| `DeckStageRefusal.cfg`, `MCDeckStage` | `RefusalRestoresIndex` | `deck-stage.js:1656` "so the next nav starts from what's actually on screen" | the deck has been rendered since the index was noted |
| `DeckStageLock.cfg`, `MCDeckStage` | `AcknowledgedIsSafe` | `deck-stage.js:1654` "rail input is safe again" | the acknowledgement of a skip, which takes no lock, clears that of another operation |
| `DeckStageDead.cfg`, `MCDeckStage` | `RailNeverDead` | `deck-stage.js:1383` "this clears on a dropped ack so the rail can't stay dead" | no `slotchange` follows an edit that is refused |
| `DeckNumbersNoRail.cfg`, `DeckNumbers` | `NoBlankSheet` | `deck-stage.js:604` on the blank sheet after the last visible slide | a deck with `no-rail` has no observer of the marks |
| `DeckNumbersDialog.cfg`, `DeckNumbers` | `DialogNamesRailNumber` | `deck-stage.js:2882` "never name a number the rail doesn't show" | the title is fixed while a mark renumbers the rail |
| `DeckNumbersBlank.cfg`, `DeckNumbers` | `ScreenIsNotBlank` | — | a copy of the last slide is sent, which sets the index past the end, and the page is printed before the copy comes |
| `ShopOvertaken.cfg`, `Shop` | `NothingIsUndone` | — | `Cart.set` writes back what `Cart.get` read before another tab wrote |
| `DeckThumbsCopied.cfg`, `DeckThumbs` | `StyleCatchesUp` | `deck-stage.js:853` "Funnel late arrivals into the same debounced resync" | where style sheets cannot be constructed, each clone keeps a copy of its own |

The models also contain behaviours that no property states, because none holds of them:

- With both transactions repaired in `InboxRelayAsBuilt.cfg` (`LeaseTx = ProcessTx = TRUE`),
  `AcceptedIsSettled` still fails: a row whose publication failed stays LEASED (`Retry`), contrary to the
  comment in `processOne`, and a cycle that leases no RECEIVED row ends there (`LeaseBatch`), so the row
  waits for another event.
- Two instances may publish the same event at the same time, since `findLeased` reads the rows of all.
- `Replay` resets rows in any state, not only DEAD ones.
- The slower of two requests with the same event is answered REJECTED, not DUPLICATE (`SaveConflict`).
- A dead-lettered record leaves its row SENT.
- In a hosted deck, the index of a dragged slide is kept when others' edits render the deck (`Render`).
- The acknowledgement of a skip may cancel the index of a later operation (`Acknowledge`).
- A navigation between `beforeprint` and `afterprint` makes one slide active again (`Go` of `DeckNumbers`).
- Additions may take a line of the cart above the maximum of the stepper, whose plus then lowers it
  (`Picked`); each load of `OrderConfirmed.html` empties the cart (`Effects`).

The type invariants of `Accounts` and of the six parts, and `AcknowledgedIsStored`, are theorems and not repeated
in the runs.

`CHECK_DEADLOCK FALSE` appears where the bounds let a system stop (all events sent, all faults or edits used).

### Fairness

- Relay (`FairSpec`): weak fairness of each cycle. `@Scheduled(fixedDelay = 500)` starts a cycle after
  the last one, its thread runs, and `get` returns after five seconds. Nothing is assumed of the broker,
  which may never append, nor of sources and operators.
- Consumers: weak fairness of each listener thread. An update may fail each time; the retry limit and the
  dead letter topic bound it. Rebalances and crashes are never owed.
- Snapshots: weak fairness of each listener thread.
- Deck: weak fairness of `HostAnswers`, and of `Acknowledge` or `AckLost`: the host processes what it is sent,
  and an answer on its way arrives or is lost. No acknowledgement is owed. The reader and others owe nothing.
- Overlay, thumbnails: weak fairness of the timers the element has set. Pointer and focus owe nothing:
  `OverlayFades` is about an overlay that neither holds.
- Shop: weak fairness of the effects of a page, of the browser's `storage` events, and of a task that has
  begun, which ends.
- Limiter: weak fairness of the expiry of a key that has a time to live, and of a request that has counted,
  which goes on or dies.

## 4. Proofs

`EventInboxProofs` proves, for any number of threads, sources, envelopes and any batch size:

| Theorem | Statement |
|---|---|
| `TypeCorrect` | `Spec => []TypeOK` |
| `RowsAreUnique` | `Spec => []OneRowPerEvent` |
| `AcknowledgementsAreDurable` | `Spec => []AcknowledgedIsStored` |
| `LastSequenceCorrect` | `Spec => []LastSequenceIsLargest` |
| `JumpsAreReported` | `Spec => JumpIsReported` |
| `ImplementsJournal` | `Spec => JournalSpec` |

Only the assumptions `InboxConstants` are used. `TypeOK` is not inductive: a request must also hold no
more results than its batch has elements, and stay within the batch in the stage "saving"; that is the
shape invariant. `OneRowPerEvent` follows from the guard of the commit. For `AcknowledgedIsStored` the
invariant must speak of the answers to come: every result ACCEPTED or DUPLICATE of a request under way
is already of a stored event. For `JumpIsReported` it must relate the baseline of a request to the
present: `known <= last_sequence`, and a thread in "saving" whose sequence jumps over its own baseline
has already logged the warning; since the baseline is at most `last_sequence`, a jump over the latter is
one over the former. `ImplementsJournal` maps each action to one step of `EventJournal` or a stutter,
using these invariants at the step where the abstract guard needs them.

`InboxRelayProofs` proves, for any number of events and partitions, any batch size and limit of attempts:

| Theorem | Statement |
|---|---|
| `TypeCorrect` | `Spec => []TypeOK`, for any number of instances |
| `SentArePublished` | `Spec => []SentIsPublished`, for any number of instances |
| `DeadAreEarned` | `Spec => []DeadIsEarned`, for any number of instances |
| `SentStaysSent` | `Spec => SentIsFinal`, for one instance |
| `DuplicatesExplained` | `Spec => []DuplicatesAreExplained`, for one instance |

Only the assumptions `RelayConstants` are used, and `LeaseTx` and `ProcessTx` may have either value. Each theorem has an
inductive invariant:

- `Shape` adds to `TypeOK` that a cycle past its reads holds the entity of its current event.
- `Published` adds to `SentIsPublished` where a cycle stands: in "sending" what it waits for is its last
  send, and in "acked" its event is in the topic. Several instances do not disturb each other here, since
  nothing is ever removed from a topic.
- `Earned` adds a count: the attempts in a row, and those in every entity read from it, are at most the
  failures there were, and one failure more is owed to a cycle in "failed". A stale entity that overwrites
  a row can therefore only lower its count.
- `UnsentBatch`: no row that was read and not yet saved is SENT, since with one instance nobody but the
  cycle marks rows SENT. With two the theorem would be
  false, as a detached entity of one may overwrite the SENT of the other.
- `Explained` keeps an account for each event: what it has spent (records in the topic and sends the broker
  may still append) is at most what it was allowed (one, and one more for each failure, fault and replay),
  and less than that while the instance still owes it a send, because the row is waiting or has been read to be
  sent. With two instances both may send for the one allowance.

`ProjectionsProofs` proves, for any number of consumers, partitions, events and rows, any limit of tries and
any number of disruptions, from `ProjectionConstants`:

| Theorem | Statement |
|---|---|
| `TypeCorrect` | `Spec => []TypeOK` |
| `NothingIsLost` | `Spec => []PassedIsHandled` |
| `Convergence` | `Spec => []ConvergesToNewest` |
| `ImplementsReplica` | `Spec => ReplicaSpec` |

- `Shape` adds to `TypeOK` that a consumer with a record has a try left for it, and that no offset is ahead of
  the log.
- `Safe` adds what `PassedIsHandled` needs where a position moves: the owner of a partition holds the record
  right after its position, and a record in the stage "applied" is handled. What is handled stays handled,
  since logs and dead letters only grow and the version guard replaces a row only by a newer version
  (`UpsertAdvances`).
- `Settled` adds that events lie in their own partition and rows hold published events of their own entity.
  A reflected record then bounds the version of its row from below, which gives `ConvergesToNewest`.
- `ImplementsReplica` needs only `Shape`: `Apply` is the one action that changes a row.

The lemmas of this module are about `[Evolve]_vars`, where a step is one of a consumer or appends any event to
its own partition. `Next` is a case of it, and so is a step of the composed system.

`PipelineProofs` proves, for one relay instance or many, any number of consumers, partitions, events and rows,
from `PipelineConstants` and `ProjectionConstants`:

| Theorem | Statement |
|---|---|
| `NothingIsSilentlyLost` | `PipelineSpec => []NoSilentLoss` |
| `PipelineConverges` | `PipelineSpec => []ConvergesToNewest` |
| `PipelineImplementsReplica` | `PipelineSpec => ReplicaSpec` |
| `ServiceImplementsPipeline` | `ServiceSpec => PipelineSpec`, also from `ServiceConstants` |
| `AcknowledgedEventsArrive` | `ServiceSpec => []AcknowledgedArrives`, for any number of threads, sources, envelopes and any batch size |
| `ProjectedEventsWereAccepted` | `ServiceSpec => []ProjectedWasAccepted`, likewise |

A step of the pipeline is for the consumers a step of theirs, an append or a stutter (`PipelineEvolves`), so
that the invariants of `ProjectionsProofs` hold of the composition. `Relayed` adds the relay's side: a row
that is SENT, and a cycle that is about to mark it so, has its event in the topic. Both together say where an
accepted event is: still to be sent, DEAD, in the topic and to be read, reflected, or dead-lettered. This
prover cannot cite a theorem of an instantiated module, so the few facts about the relay are proved again here
on the composed state, and so are those about the endpoint.

The service adds four parts to the invariant (`OneService`):

- `Posted`: as much of the types of requests as is needed, and that a thread that saves has a valid element;
- `Answerable`: what has been answered ACCEPTED or DUPLICATE, or will be, has a row;
- `Tracked`: batches, entities, sends and topics only hold events that have a row for the relay. A replay,
  a late append and a stale entity put nothing there that the relay did not read once;
- `OneTable`: the rows the relay sees are the ones the endpoint has committed. It is what makes a step of the
  endpoint one of the pipeline: a commit adds one event, which was not stored, hence was ABSENT for the relay.

`ServiceImplementsPipeline` then carries every theorem about `PipelineSpec` over to the service.
`AcknowledgedArrives` follows from `Answerable`, `OneTable` and `NoSilentLoss`; `ProjectedWasAccepted` from
`Tracked`, `OneTable` and `RowsAreOwn`, by which a row of a projection holds an event of a topic.

`SnapshotProofs` proves, for any number of consumers, chunks, records, tries, faults and expiries, from
`SnapshotConstants`:

| Theorem | Statement |
|---|---|
| `TypeCorrect` | `Spec => []TypeOK` |
| `CompleteSnapshotsAreWhole` | `Spec => []CompleteIsWhole` |
| `WholeSnapshotsComplete` | `Spec => []WholeIsComplete` |

- `Whole`: every chunk that is stored, or was read to be applied, is of a published record; a consumer that
  completes the snapshot has read each of them.
- `Accounted`: what is stored stays stored while nothing is excused; the counter is at least the number of
  records that have surely been counted (`Counted`); and when all are stored, the snapshot is complete or
  somebody is about to find it so. The count is an injection of the chunks into the counted records
  (`EnoughRecords`), so a repeated record can only make the counter larger.

`AccountsProofs` proves, for any number of requests, sessions, reset links and passwords, whether or not the
set of sessions expires, from `AccountConstants`:

| Theorem | Statement |
|---|---|
| `TypeCorrect` | `Spec => []TypeOK` |
| `LiveSessionsAreTracked` | `Spec => []LiveIsTracked` |
| `RevocationsAreComplete` | `Spec => []RevocationIsComplete` |

`Shape` adds to `TypeOK` that no two logins hold one token and that a session which
a logout has deleted stays deleted.
`Safe` adds what holds between the Redis commands of a request: a revocation under way still has to delete
every live session it does not excuse (`RevocationsGoOn`), a login under way when a revocation reads the set
counts as overlapped, and what the set lists has been issued (`KnownAreIssued`).

`PartsProofs` proves of the six parts of `MCParts`, for every value of their constants that
`LimiterConstants` and `PartsConstants` allow:

| Theorem | Statement |
|---|---|
| `TypeCorrect` | `Spec => []TypeOK` of `LoginLimiter`, any number of threads, any limit |
| `LocksWillExpire` | `Spec => []LockWillExpire` of `LoginLimiter` |
| `PartsTypeCorrect` | `PartsSpec => []TypesOK` |
| `RailFollows` | `PartsSpec => []RailFollowsModes` |
| `OverlaysAreHeld` | `PartsSpec => []OverlayIsHeld` |
| `DerivedAreFresh` | `PartsSpec => []DerivedIsFresh`, for a deck with a rail |
| `StaleAreExplained` | `PartsSpec => []StaleIsExplained` |
| `LinesChangeAsMeant` | `PartsSpec => LinesChangeOnPurpose` |

- Limiter: `LockWillExpire` is inductive together with `TypeOK`. Whoever creates the key owes it its EXPIRE,
  and only its own EXPIRE or its own crash takes that debt away; a deletion or an expiry takes the key with
  it. The flags and the numbers of `TypeOK` are proved apart, since each backend is good at one of them.
- Rail (`Roomy`): the flags kept of the rail follow the modes, and the left edge of the stage and the scale
  of the thumbnails are those of the present width, unless a resize of the window is still to be heard.
- Overlay (`Held`): a hover pin implies that the pointer is over a visible overlay, a focus pin that something
  in it has the focus; without this the timer could hide an overlay that is held.
- Numbers (`Numbered`): numbers, badges, total and page breaks equal the functions of the present deck and
  marks that compute them; counter, presenter and the slide on screen do so for the present index unless
  `behind` names them, which only an index set alone brings about. That the labels are 1, 2, 3, ... is shown by
  counting (`LabelsAreConsecutive`): they grow strictly over the slides that count, hence are an injection into
  as many numbers as there are such slides, hence all of them. Without a rail nobody observes the marks and the
  statement is false (`DeckNumbersNoRail.cfg`).
- Shop (`Told`): a page shows the cart of the store, or has a `storage` event to come, or missed a write
  between its first render and its effects, or is about to read again after its own. For the lines, `ReadsFresh`
  says that a tab between `Cart.get` and `Cart.set` holds the cart as it is unless it was overtaken, so that its
  operation changes the one line it is about; `BusyIsReady`, that a task only runs in a page whose effects
  have run.
- `PartsMove`: each step of `PartsSpec` is for each part a step of its own or a stutter. Nothing else of
  `PartsSpec` is used, so the invariant of a part does not depend on the others being at rest.

`DeckStageProofs` proves, for a deck of any length:

| Theorem | Statement |
|---|---|
| `RailStaysFresh` | `Spec => []RailIsFresh` |
| `MovesKeepPlace` | after a move the index the element computes is that of the same slide |
| `CopiesFollow` | after a duplication the copy directly follows its original |
| `DeletionsKeepPlace` | after a deletion of any slides but not all, the index the element computes is that of the slide on screen, or of the next one kept, or of the last |
| `MovesAndCopiesKeepPlace` | a move or duplication without a host establishes `PlaceIsKept` |
| `TypeCorrect` | `Spec => []TypeOK` |
| `PlaceStaysKept` | `Spec => []PlaceIsKept`, with a host or without |
| `LocksAreOwed` | `Spec => []LockIsOwed`, whichever acknowledgements are lost |

Only the assumptions `DeckConstants` are used. `RailIsFresh` is inductive once it is known that no drag goes on
under an open dialog. The theorems about the operators are about sequences written by index. For deletions each
kept slide has a rank, the number of kept slides up to it (`Rank`); the ranks are a bijection onto the places
of the new deck, since the places below an element are fewer the lower it is, and that there is a least kept
slide of each rank is the well-foundedness of the order of the naturals.

`PlaceIsKept` is not inductive, as an operation of a host is judged against the deck it was sent for and
carried out on the deck that is there. `Inv` adds:

- `OpsArrive`: while nobody has navigated or edited since a watched operation was sent, it is the only one under way
  and has been answered at most by an early acknowledgement; carrying it out on the present deck puts the expected slide at the index the element
  has set already (`Arrives`), and refusing it finds the slide that was on screen at the index kept in
  `before` (`Returns`);
- `AcksReturn`: the same of an answer that is on its way, when nothing else is;
- `LockIsOwed`: a locked rail has an operation, or the refusal of one, under way, unless that refusal was lost;
- `WithoutHost`: a deck without a host has nothing under way; `MenuInDeck`: an open menu points into the deck.

`TypeOK` includes that no slide is lost or appears twice (the deck is injective), which every edit has to keep.

Model-checked only:

- all liveness: of the relay, the projections, snapshots, the hosted deck, the overlay, the thumbnails, the shop
  and the limiter. Fairness is outside the prover's reach;
- of `DeckStage`, that deletion by index is the filter of the code, which needs an induction over the deck
  (`ASSUME WithoutFilters`);
- of the relay, `SentIsFinal` and `DuplicatesAreExplained` are proved for one instance because they are false of
  two.

## 5. Not modelled

- Back end: signatures and clock skew, JSON and payloads, e-mails, the audit log (written, never read), the
  health report (reads only), the HTTP mapping of errors, Spring and nginx configuration, the value objects
  (immutable, without a caller) and the tables that have no code yet (carts, orders, outbox, import batches).
- Deck: speaker notes, the installation of page-wide styles, the hand-back of the focus, scrolling during a
  drag, the wait for fonts, and an element that is moved in the document, which is disconnected and connected
  again (the one deck of the repository never is). Changes that no observer of the element sees (shadow
  trees, canvases, style sheets in the body) are outside its promises.
- Mock-up pages: search, product page, account, administration and the vehicle bar show the sample data of
  `mockData.js` or keep what is chosen to themselves; `Icon.jsx` and most of `Chrome.jsx` and `Admin.jsx`
  only draw.
- Topic retention and the archiving of `event_inbox` appear in documents only.

## 6. Plan

What is left:

1. The property of the whole service that needs fairness: an acknowledged event is reflected, dead-lettered
   or DEAD in the end. It does not hold of the relay as built (`relay_as_built`, and the counterexamples of
   `InboxRelay`); once its self-invocations and the row left LEASED after a failure are repaired, TLC needs a
   smaller model of the endpoint to check it.
2. The hazards without a property. There the code does what its documents exclude, or what none of them
   speaks of; the configurations under "Further counterexamples" and the list after them show how. Once the
   code is changed, each of these sentences becomes a property of a regular run.
