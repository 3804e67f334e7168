# Formal models of fishmem

TLA+ specifications of the parts of fishmem whose correctness depends on what
happens *between* two awaits: idempotent writes, leased task rows, projections
that lag behind the row they project. Each module is translated from the
TypeScript source; `PROJECT.json` maps every definition to the lines it stands
for. TLC checks small instances; TLAPS proves the safety properties of every
modelled component, and the refinement of the idempotent writer, for every value
of the constants.

Run things inside this directory: `tlc -config X.cfg MCModule` for a row of
section 4, `tlapm M.tla` for the proofs, where `M` is `OperationJournalProofs`,
`OperationRecordsProofs`, `OperationTasksProofs`, `RecordMutationsProofs`,
`WebhookOutboxProofs`, `DocumentUploadsProofs`, `DocumentCorpusProofs` or
`BeliefProjectionProofs`.

## 1. Inventory

fishmem is a memory service for agents. A caller adds text; a language model
extracts facts; the facts are stored as records in an SQL store, indexed as
vectors and found again by a hybrid search. Paths below are relative to the
repository; `F` is `packages/fishmem/src`, `W` is `apps/web/lib/server`.

| Component | State | Operations | What makes it correct |
|---|---|---|---|
| Engine, idempotent add (`F/memory.ts` 795-1290, `F/core/journal.ts`, `F/graph/drizzle-store.ts` 1233-1470) | `fishmem_operations`, `fishmem_events`, `memories`, vectors, history, episodes | claim, reclaim, replay, retry, plan, save/project/history per record, archive, commit, fail | one attempt per key at a time; one answer per key; what is acknowledged is stored, indexed and journalled; a resumed attempt adds nothing twice |
| Engine, record mutations (`F/memory.ts` 1291-2363) | one record, its vector, its history, an operation row | update, delete, purge, invalidate, deleteAll, feedback, all through `executeMutation` | tombstones and purges are final; row and vector agree or an operation says they do not |
| Engine, derivation (`W/memory-inference-tasks.ts`, `F/memory.ts`) | operation row and task row | accept, derive facts, project vectors later | an accepted add is derived exactly once |
| Engine, documents (`F/core/documents.ts`) | versions, heads, chunks, chunk vectors | ingest, replace, delete, clean up | the head names a complete version; vectors of old versions go away |
| Engine, beliefs (`F/core/belief-reconciler.ts`, `F/memory.ts` 2682-2726, 3876-4073) | evidence rows beside the records; a view of a slot is computed from them | observe, view, project an add, rebuild, invalidate, remove | evidence follows its record; a supported value has enough independent records; conflicts stay visible |
| Engine, temporal sidecar (`F/core/sidecar.ts`, `F/core/temporal.ts`) | intervals beside the records | index, query | follows its record |
| Engine, search (`F/core/search.ts`, `rrf.ts`, `filter.ts`) | none | rank fusion, filters, keyset pages | pages neither repeat nor skip; fusion is order-independent |
| Engine, maintenance and profile (`F/core/maintenance.ts`, `profile.ts`) | records | decay, merge, summarise | a merge loses no association |
| Engine, snapshot (`F/core/snapshot.ts`) | all tables | export, import | a repeated import is a no-op |
| Stores and adapters (`F/graph/*`, `F/vector/*`) | SQL rows, vector entries | statements | atomicity of each statement |
| Application (`packages/application`) | none | commands over the engine, version check, cursors | a stale version is refused |
| Task queue (`W/operation-tasks.ts`, `W/operation-queue.ts`) | `operation_tasks`, queue messages | enqueue, claim, run, continue, finish, retry, redrive, dead-letter | one worker per task; outcomes are final; every task ends |
| Memory batches (`W/memory-batch-tasks.ts`) | progress in the task row | chunks of twenty items | recorded progress is real |
| Uploads and ingestion (`W/document-ingestion.ts`) | source asset, task, stored bytes | create, put, complete, extract, delete, expire | asset and task agree; no orphan bytes |
| Webhook outbox (`W/webhook-outbox.ts`) | deliveries | enqueue, claim, deliver, finish, retry | every event is delivered or dead |
| Web API, accounts, setup (`W/memory-api.ts`, `app-api.ts`, ...) | users, tokens, invites | routes | authorisation, formatting |
| SDKs, desktop, dashboard, docs, benchmarks | none of their own | HTTP clients, UI | - |

Interactions. A request reaches `memory-api.ts`, which calls the application
layer, which calls the engine; or it enqueues a row of `operation_tasks` and a
queue message that is only a wakeup. The minute cron and the queue consumers
both claim rows and run handlers, which call the engine again under an
idempotency key derived from the task. The engine writes several stores that
share no transaction. Nothing is coordinated by memory: processes meet in the
database only, through leases and compare-and-sets on a row's status and time.

Hard behaviours: concurrent retries of one key; leases that are never renewed;
updates that name their row by id alone; crashes between two stores; lost
replies; the row that was read before a compare-and-set and is used after it.

## 2. Plan

Order of modules, most important first:

1. `OperationJournal`, refining `IdempotentWrite` - done; proved in
   `OperationJournalProofs` (who may run, what is answered, the refinement) and
   `OperationRecordsProofs` (what attempts leave in the stores).
2. `OperationTasks` - done; proved in `OperationTasksProofs`.
3. `RecordMutations` - done for update, feedback, delete, purge, invalidate and
   deleteAll; proved in `RecordMutationsProofs`. Successors follow.
4. `DocumentUploads` - done for one upload; proved in `DocumentUploadsProofs`.
5. `DocumentCorpus` - done for one source; proved in `DocumentCorpusProofs`.
   An abstract `SourceHead` (a head and the set of indexed versions) is worth
   stating, and the composition with `DocumentUploads` through `IngestDocument`.
6. `WebhookOutbox` - done; proved in `WebhookOutboxProofs`.
7. `MemoryBatch` and `InferencePipeline`: items of a batch, and the accepted add
   that is derived later; both compose a task row with journal keys.
8. `BeliefReconciler` and `BeliefProjection` - done for one slot; proved in
   `BeliefProjectionProofs`. Then the temporal sidecar and the snapshot.
9. Pure operators against reference definitions: rank fusion, the filter
   language, keyset pages, delays of retries.

## 3. Modules and the code

### OperationJournal (and IdempotentWrite)

State: `ops` is the `fishmem_operations` row of each key (status, request hash,
frozen plan, lease, result, projection status); `memories`, `vectors`,
`history`, `links`, `events`, `episodes` are the six places an add writes; `calls`
holds each caller's position in `Memory.add` and its locals, among them `seen`, the row
`claimOperation` returned. A record is the identifier the planner drew (the
caller that drew it and a number) with the content `planned` or `edited`.

Actions follow the code from await to await: `InsertOperation` or
`FindOperation` (the insert of `claimOperation` takes effect or meets a row) and
then the select, `ReadOwnOperation` or `ReadOperation`; `ReclaimOperation` (the
compare-and-set on an expired lease), `UseStoredOperation` (what `add` makes of a
row it did not get), `RetryOperation` (`failed -> pending`), `PlanOperation`
(extraction and the frozen plan), then per record `CheckRecord`, `SaveRecord`,
`ProjectRecord`, `ReadHistory`, `AddHistory` and `LinkRecord` (the associations of
a record), then `ReadEpisode`/`ArchiveEpisode`, `AppendEvents`, `CommitOperation`
and its `Reply`. The insert and the select are two statements, so another retry
may reclaim or commit what was inserted before its own caller reads it back.
`StepThrows` is a store or a provider that throws before or after its effect;
`FailOperation` is the catch block; `Crash` may come anywhere. `EditRecord` and
`PurgeRecord` are users' mutations of stored records.

`IdempotentWrite` is the promise of a key without leases, attempts or tables:
the first command owns the key, it takes effect once, every answer is that
outcome. `Implementation` maps a row's request to the owner, its result column
to the outcome and a returned call's value to its answer.

### OperationTasks

State: the rows of `operation_tasks`, cron runs and queue consumers with their
locals, the queue and its dead-letter queue as sets of tasks, and `applied`, the
chunks whose effects took place. `SelectDue`/`Receive` read, `Claim` is the
compare-and-set on status and `updated_at` (the latter is the ghost `fresh`:
the selected rows nobody wrote since), `RunHandler` executes one chunk, the
`Finish...` actions record the outcome by the task's id alone, as the code does.
`MarkDeliveryExhausted` is the dead-letter consumer, `RetryOperationTask` the
operator. Time is relative: ticks left in a lease, ticks since a worker read the
clock (once per cron batch). `prompt` is chosen once per behaviour: are workers
done within the leases they took, and deliveries never given up?

### RecordMutations

State: one record's row, the content its vector was made from, its history, the
journal events, one operation per key, and the calls. `Arrive` is the version
check of `MemoryApplication.update`, `Begin` the engine's first read, `Claim` the
journal (one step here), `ReadCurrent`, `WriteRow`, `ProjectVector`, `AddHistory`,
`AppendEvent`, `CommitOperation` the body of `perform` and of
`completeOperation`. An attempt that threw inspects the row and then the vector
(`InspectRow`, `InspectVector`; either read may be rejected, and a rejected read
of the row counts as no row) before `FailOperation` records what it saw, which
may have changed in between. A feedback only looks at the record (`ReadRated`) and writes
history; a `deleteAll` lists the live records of its scope, here this one or
none, freezes the list (`ListRecords`, `PlanOperation`), and removes what is
listed (`DeleteListed`), in a later attempt too. A key stands for its command:
the content it writes is the key itself, so who wrote what can be read off the
row.

That a delete which removed nothing says so (`EffectIsReported`) is claimed of
calls that do not overlap. Three keys refute it for others: delete A writes the
tombstone; delete B begins after that, with no record before it; an update in
flight takes the tombstone off; B writes it again and dies; B's retry finds the
record gone, as it had found it, and answers that it removed nothing.

### DocumentUploads

State: the `source_assets` row, its task row, the raw object, the artifact row
and the artifact objects, what the engine has ingested, the API calls and
maintenance runs, the extraction workers. A document is identified with the
bytes it was extracted from. Each statement of `create`, `putContent`,
`complete`, `deleteUpload`, `deleteExpiredUploads`, `retryOperationTask` and
`processDocumentExtractionTask` is an action, among them the merge of the task's
payload at the start of a completion (`MergePayload`) and the record of what was
ingested before the asset is linked (`RecordIngested`, `LinkDocument`); a removal
deletes the raw object and the artifact's objects concurrently, that is in either
order (`DropRaw`, `DropStored`). `CallDies`, `WorkerDies` and
`HandlerThrows` may come at each. The expiry looks for assets that are a day old
and does not start while one is being created. Objects are written once: `StoreBytes` of other
content under a key is refused, like the code's DOCUMENT_OBJECT_COLLISION.
`deleteExpiredFailures` is `deleteUpload` of a failed asset and has no action of
its own.

### DocumentCorpus

State: the rows of one source (`docs`, the created_at of each version; `head`,
version and updated_at), the originals in the object store, the chunks the
vector index has, the operation of each key with its frozen plan, and the calls.
A version stands for what its id is a hash of. The ingest is `ReadHead` and
`ReadCurrent` (the two reads of `getCurrentDocument`: the head, then the row it
names), `PlanIngest` (compare, freeze `created` and the version to clean up),
`LoadSource`, `PutOriginal`, `VerifyVersion`/`CommitVersion` (the read and the
transaction of `commitDocumentVersion`), `ProjectChunks` per embedding batch,
`CleanPrevious`, `CompleteDoc`; the delete is `PlanDelete`, `AddressVersion`,
`SelectVersions` and `PurgeDocument` (the two reads and the transaction of
`purgeDocument`), `DeleteOriginals`, `DeleteChunkVectors`; the rebuild is
`ReadForRebuild`, `HydrateOriginal`, `ListChunks` and `Reproject`, so that a
delete between its reads leaves it a version without chunks. `FailDoc` is both catch blocks, which look into the stores to report
the projection status. `Listed`, `Gettable` and `SearchHits` are what `list`,
`get` and `search` show. The claim of a key is one step, since
`OperationJournal` has its steps, and no call outlives its lease here.

`DeletedIsGone` says that after a committed delete, still the newest command,
nothing of the source is left but what an unfinished operation owes whose plan
was frozen before the delete. The exception is needed from three keys on: a
delete k1 purges the rows and dies before it has removed originals and vectors;
k3 ingests again; k2 deletes and commits. What k1 has in its plan is k1's to
remove, and k2 never saw it.

### WebhookOutbox

State: the mutations that emit events, the endpoints, the rows of
`webhook_deliveries`, the drains (overlapping runs of the cron) with their
locals, and what receivers accepted. `ReadEndpoints`, `InsertDeliveries`,
`RecordMutation` are `enqueueWebhookEvent` and the success of the handler that
calls it; `MutationFails` lets the handler die between any two and run again.
`SelectDeliveries`, `ClaimDelivery`/`SkipDelivery`, `CheckEndpoint`,
`PostDelivery`, `FinishDelivery` are `processWebhookOutbox`; as in `OperationTasks` the clock is
read once per drain, leases count from then, and outcomes name the row by its
id alone. `BeginTest`/`EndTest`, `ReplayDelivery` and `ToggleEndpoint` are the
dashboard. A row's identity is the mutation, the endpoint and a number: 0 if the
identity is derived from the task, else the attempt that drew it.

### BeliefReconciler and BeliefProjection

`BeliefReconciler` has no state: it is the view of a slot as operators over a
set of evidence rows, from `ConflictingEvidenceKeys` and `Candidate` up to
`ClusterWinner` (`evaluateCluster`) and `ViewWinner`. The policy is its
constants; weights are integers.

`BeliefProjection` adds what writes the rows: `evidence` is the row of each
record, `memories` what of a record the projection looks at, `projectors` the
adds and rebuilds inside `projectBeliefSources`, `mutations` the mutations
between the change of a record and the cleanup of its row. `ReadSource`,
`Observe` (the preflight), `PutEvidence`, `Recheck`, `CorrectEvidence` are one
round of its loop; `SaveRecords` and `RetryAdd` are `createRecord`;
`ClearEvidence`, `ListRecords`, `WipeEvidence` the rest of `rebuildBeliefs`;
`MutateRecord` and `CleanEvidence` the two halves of a mutation. What the
extraction makes of a text is drawn at the start (`hints`). All of it is about
one subject and attribute of one owner; slots do not meet. An add here creates at
least one record, and no record is created by two (`ProjectionAssumption`): an
add that infers nothing has nothing to project, and identifiers are drawn fresh. Weights are natural numbers, as the policy's units
are.

## 4. Runs

The `Fault:` operators beside some definitions are not part of the system: each
is the definition with a plausible mistake, kept to show that the properties
named in `PROJECT.json` ("mutants") notice it.

| Run | Instance | Shows |
|---|---|---|
| `journal_prompt` | three retries of one command, at most two records, lease 1, clock to 2; no call outlives its lease | one attempt at a time, one answer, everything acknowledged is durable, history written once, the inductive invariant, and the refinement |
| `journal_overrun` | two retries and a third caller with another command; calls may outlive leases, replies of commits may be lost, and users edit and purge the record if the first caller planned it | what needs no promptness: acknowledged adds and archived episodes have their records, those that users purged excepted, records come from the command that owns the key, a retry never writes over an edit |
| `tasks` | two tasks of two chunks, a cron and a consumer, one crash, one redrive, lease 2, prompt; or one such task, with overruns and dead letters | claims exclude each other, final outcomes stay, no task dies before its attempts are spent; recorded progress was made; every task settles |
| `mutations` | two commands of all kinds, each called twice, one call at a time, or three calls interleaved; all failures | drift between row and vector is visible, what deletes and purges answer is true, what ended stays ended, asserted versions are honoured, acknowledged commands are journalled, replays change nothing |
| `mutations_tombstone` | two overlapping calls | violated: an update revives a deleted record (section 7) |
| `uploads_serial` | five calls of any kind one after the other, two workers, two contents, two attempts | a ready source matches its bytes, removal is complete and alone, success means ready |
| `uploads_states` | four calls that may overlap, two workers that may outlive their leases | violated: a repeated completion is answered ok and leaves the task waiting (section 7) |
| `documents` | two commands of all kinds (ingest of two versions, delete, rebuild) on one new or old source, two embedding batches; each called twice one after the other, or once each interleaved | the head names a stored version, gaps of the index are recorded, a delete leaves nothing but what unfinished operations owe, the newest ingest is current |
| `documents_ready` | as `documents`, but calls may overlap | violated: an ingest reports vectors it did not write (section 7) |
| `beliefs` | two adds of two records and one, a rebuild, one mutation of any kind, one failure or crash; the records are echoes of each other, or (without mutations) claim two values at two times | a mutation's cleanup is not undone, a record's evidence is not lost, a supported value is backed by enough independent records |
| `beliefs_hidden` | three adds of one record: a global value, and two values under one key in one context | violated: the global value is shown for the context (section 7) |
| `webhooks` | one mutation of any kind, one endpoint, two drains, two tries counted to four, lease 2, two incidents; two attempts of the mutation and prompt drains, or its last attempt and drains that outlive their leases | a success is announced; outcomes are true and final; tries past the limit are accounted for; every delivery settles |

Why the bounds suffice. *Journal*: the three roles a protocol of leases knows
are all there - the attempt that is abandoned, the one that takes over, the one
that meets both; two records are the least that can be interrupted between two
records; `MaxTime` lets a lease expire and a second one begin. *Tasks*: two
chunks have a continuation; `MaxAttempts = 2` tells a first failure from the
last; a lease of two ticks is the least under which a worker's clock may be
older than its claim and a cron batch of two shares one clock. With a batch of
one (`BatchLimit = 1`), which leaves a due task out, the tasks settle too, but
that is not one of the runs. *Mutations*: a conflict takes two commands, and a
second call per key is a retry; all forty-nine pairs of kinds are initial states
(three calls are the least that overlap and retry). *Uploads*: create, put,
complete need three of the five calls; the other two are any pair of repetition,
cancellation, expiry and redrive; two workers are a takeover. *Documents*: a
replacement needs two versions, a partial projection two batches, a stale plan a
second key; the initial source is empty or old. *Beliefs*: `MinimumEvidence = 2`
and `MinimumContexts = 2`, where the default policy says three of each, are the
least that tell an echo from independent evidence; two points in time tell valid
from over; a rebuild, an add and a mutation are the three that race. *Webhooks*:
two drains are a takeover, two tries tell a first failure from the last, and a
claim more follows each death of a drain, which `CountLimit = MaxDeliveries + 2`
still counts; a lease of two ticks lets a drain claim late; a batch (`DrainLimit
= 1`) adds only a staler clock, which `OperationTasks` has with its batch of
two. Symmetry is used in safety runs, and of the callers that send the same
command or of interchangeable values only. A `VIEW` in `journal_overrun` and
`mutations` leaves out what no later step and no property of the run reads: the
time a call began once it has its lease, or how a call that ended was answered.

Conditions on the runs, each a constant of the module, are limits of what the
code guarantees, and each is needed:

- `PromptAttempts`, `PromptWorkers`, `PromptDrains` (nobody outlives a lease).
  Leases are five minutes, one for a drain, are never renewed, and completion
  names rows by id alone. Without it two attempts commit different results for
  one key (`AgreeOnResult`, `CommittedIsFinal` fail), task outcomes are
  overwritten (`OutcomeIsFinal`), a late extraction marks a ready asset failed
  (`SuccessIsReady`), a delivered webhook is sent again (`DeliveredIsFinal`
  fails). Where the constant is a set, both cases are in the run, and a property
  that needs the condition says so.
- `RepliesLost = FALSE`: a commit that took effect and threw is recorded as
  failed and run again.
- `prompt` of `OperationTasks` also excludes dead letters: a dead-lettered task
  may still have a running worker, whose outcome overwrites `dead`.
- `LateRetries = FALSE`: a key is retried before another key is used. A retry of
  an old ingest or delete after newer ones works from its frozen plan and leaves
  vectors and originals of versions it never saw (`GapIsRecorded`,
  `DeletedIsGone`, `NewestIsCurrent` fail).
- `Serials`, `SerialCalls`, `DocSerial` (calls do not overlap). With overlapping
  calls two updates that assert one version both commit (`NoLostUpdate` fails),
  vectors are upserted in another order than rows (`DriftIsVisible`), a slow
  upload takes a ready asset back to `uploaded` (`ReadyMatchesSource`,
  `SuccessIsReady`), the expiry removes an upload that is being completed
  (`RemovalIsClean`), and of two ingests, or an ingest and a delete, one cleans
  up the vectors the other relies on (`GapIsRecorded`).

The stated failures can be seen by changing the one constant in the run's
configuration; where a property has the condition inside (`prompt`, `serial`,
`promptDrains`, `docSerial`), by taking that out as well.

## 5. Fairness

`tasks` and `webhooks` check liveness. `FairSpec` and `OutboxFairSpec` assume
that clocks advance (`Tick`, `BackoffElapses`; `OutboxTick`, `RetryDue`), that
the minute cron fires (`SelectDue`; `SelectDeliveries`), and that a worker or a
drain that does not die proceeds (`Work`; `Drain`). Nothing is assumed of the
queue: all wakeups may be lost, as the code intends ("wakeups"). Workers and
drains that die are covered because crashes are bounded; a task that kills every
worker is retried for ever, since attempts are compared with the maximum only
when a handler throws. Receivers answer or fail in the end, which the platform
sees to: the code sets no timeout on the request. The mutations that emit events
are under no fairness.

## 6. Proofs

Every theorem holds for all values of the constants that satisfy the module's
assumption (`JournalAssumption`, `TasksAssumption`, `MutationAssumption`,
`OutboxAssumption`, `UploadAssumption`, `CorpusAssumption`,
`ProjectionAssumption`): any number of callers, keys, records, tasks, workers,
failures and any lease or bound. TLC evaluates these assumptions in the runs.
"Condition" is what a theorem assumes on top, either as its hypothesis or inside
the property ("inside"). None of the properties is inductive by itself; each
module has one invariant that is, and its theorems are read off it.

### The idempotent writer

`OperationJournalProofs`:

| Theorem | Statement | Condition |
|---|---|---|
| `TypeCorrect` | `Spec => []TypeOK` | none |
| `JournalInvariant` | `Spec => [](TypeOK /\ JournalInv)` | none (the parts carry their own) |
| `OneAttemptAtATime` | `Spec => []OneAttempt` | `PromptAttempts` |
| `OneAnswer` | `Spec => []AgreeOnResult` | `PromptAttempts`, `~RepliesLost` |
| `CommitIsFinal` | `Spec => CommittedIsFinal` | the same two |
| `JournalImplementsPromise` | `Spec => Implementation` | the same two |

`OneAttempt` is not inductive: nothing in it says why a second
caller cannot reclaim. `JournalInv` adds `InTime` (a running call is younger
than its lease), `RowHeld` (the row of an attempt is pending under exactly that
attempt's lease) and `Alone` (the exclusion, widened to the reply and the catch
block, which still write the row). A reclaim needs an expired lease, but `RowHeld`
and `InTime` put the lease of any running attempt in the future; a retry needs
`failed`, but `RowHeld` says pending. For answers, `ResultsAgree` ties every
reply to the row's result, `Bound` ties the row to one request from its
insertion on (also between the insert and the select after it), so that only its
own command can commit, and `OneResult` says that
a result is there exactly when the row is committed - with `Alone`, it is
written once. `PlanHeld` (an attempt past extraction has a plan) is what types
need. The step lemmas (`InsideStep`, `OutsideStep`, `TakeOverStep`) say what a
step of one caller does to the invariant of the others, and are cited per
action. The refinement maps the commit to `TakeEffect`, the insertion to `Bind`,
each return of a result to `Answer`, everything else to a stutter.

`OperationRecordsProofs`, on top of it, is about what attempts leave in the
stores:

| Theorem | Statement | Condition |
|---|---|---|
| `RecordsInvariant` | `Spec => []RecordsInv` | none |
| `RecordsSurviveOverruns` | `Spec => []SafeAfterOverruns` | none |
| `ResumesExactly` | `Spec => []ResumedExactly` | `PromptAttempts`, `UserEdits = {}` |
| `EditsSurviveRetries` | `Spec => EditSurvivesRetry` | none |

`RecordsInv` says that plans in rows, locals and stale copies of rows belong to
the key and the request they were drawn for (`PlansOwned`), that an attempt's
cursor is inside its plan (`AtRecord`), that the records behind the cursor are
stored, indexed, in the history and linked (`RecordsWritten`), and that whoever read a
committed row or was answered holds a durable result (`ResultsDurable`). All of
it is monotone: the engine adds and never removes, only users do. That is why
two overlapping attempts, which break `OneAttempt`, do not break it.
`EpisodeWritten` names the caller whose plan an archived episode was made from.
`HistoryOnce` needs `Alone`: nobody else is between the look at a record's
history and the entry.

### Rows that are claimed under a lease

`OperationTasksProofs` (`prompt` is inside `OneWorker`, `NoEarlyDeath` and
`OutcomeIsFinal`):

| Theorem | Statement | Condition |
|---|---|---|
| `QueueIsSafe` | `Spec => []TasksInv` | none |
| `TypeCorrect` | `Spec => []TypeOK` | none |
| `ProgressWasMade` | `Spec => []ProgressIsReal` | none |
| `OneWorkerAtATime` | `Spec => []OneWorker` | `prompt`, inside |
| `DeathIsEarned` | `Spec => []NoEarlyDeath` | `prompt`, inside |
| `OutcomesAreFinal` | `Spec => OutcomeIsFinal` | `prompt`, inside |

`LeaseHolds` carries exclusion: while a prompt worker has a task, the row is
`processing`, its lease is the length of a lease less the worker's age, its
attempts are the worker's, and no selection of anybody is still fresh, so the
compare-and-set refuses. `FreshIsOpen` (a selection the claim would accept is of
an unfinished task) keeps ended tasks from being claimed, and `ChunkClaims`
(chunks before a worker's have taken effect, and an outcome about to be recorded
is true) makes recorded progress real even where workers overlap.

`WebhookOutboxProofs` (`promptDrains` is inside the second half of
`OutcomeIsTrue` and inside `DeliveredIsFinal`):

| Theorem | Statement | Condition |
|---|---|---|
| `OutboxInvariant` | `OutboxSpec => []OutboxInv` | none |
| `TypeCorrect` | `OutboxSpec => []OutboxTypeOK` | none |
| `SuccessesAreAnnounced` | `OutboxSpec => []SuccessIsAnnounced` | none |
| `AddsHaveOneRow` | `OutboxSpec => []OneRowPerAdd` | none |
| `OutcomesAreTrue` | `OutboxSpec => []OutcomeIsTrue` | `promptDrains`, inside, for deaths |
| `DeliveredStaysDelivered` | `OutboxSpec => DeliveredIsFinal` | `promptDrains`, inside |

`AnnouncedFirst` follows a mutation through its attempts: between reading
endpoints and inserting, what it read has every endpoint that stayed on; after
inserting, the rows are there. `StableIdentity` (rows of an inferred add have
number 0) gives one row however often it runs; that is proved and is not a
property of the run. `SuccessIsReceived` puts the
receipt before the record of it. `PromptInv` is `LeasesHold` as for tasks, with
two escapes the code has: an endpoint deleted under a drain takes its rows along,
and a test's row is excluded from drains by being `processing` with no lease
(`TestIsAlone`); `ClaimsCounted` ties attempts in the row to claims made, which
is what a death after at least `MaxDeliveries` needs.

### One record and its index

`RecordMutationsProofs` (`serial`, that calls do not overlap, is inside
`DriftIsVisible`, `NoLostUpdate`, the second half of `EndedIsFinal` and the part
of `AnswerIsTrue` on deletes):

| Theorem | Statement | Condition |
|---|---|---|
| `MutationsInvariant` | `Spec => []MutationsInv` | none |
| `TypeCorrect` | `Spec => []TypeOK` | none |
| `DriftIsSeen` | `Spec => []DriftIsVisible` | `serial`, inside |
| `AnswersAreTrue` | `Spec => []AnswerIsTrue` | `serial`, inside, for deletes |
| `EndedStaysEnded` | `Spec => EndedIsFinal` | `serial`, inside, for invalidations |
| `NoUpdateIsLost` | `Spec => NoLostUpdate` | `serial`, inside |
| `ReplaysChangeNothing` | `Spec => ReplayChangesNothing` | none |

What holds of calls however they overlap: one call performs an operation and
nobody a committed one (`OneActs`), a `deleteAll` works off the list it froze
(`ListIsFrozen`), a purge that was done stays done (`PurgeIsDone`), event and
history precede the commit (`EntriesFirst`). Of calls that do not (`SerialInv`):
what a call read is what is there (`Single`), content is that of an update whose
steps are known (`ContentIsUpdated`), what the inspection of a failed attempt read
still stands when it is recorded (`InspectionIsTrue`), a tombstone is the work of a delete that
found the record (`TombstoneIsOwned`), and a difference between row and vector is
owed by a key that is not recorded as indexed (`DriftIsOwned`). `TombstoneIsOwned`
is where `AnswerIsTrue` needs `serial`: without it section 3 has a counterexample.

### One source

`DocumentUploadsProofs`, all under `SerialCalls` and `PromptWorkers`:

| Theorem | Statement |
|---|---|
| `UploadInvariant` | `Spec => []UploadInv` |
| `TypeCorrect` | `Spec => []TypeOK` |
| `ReadyIsFaithful` | `Spec => []ReadyMatchesSource` |
| `RemovalsAreClean` | `Spec => []RemovalIsClean` |
| `SuccessesAreReady` | `Spec => []SuccessIsReady` |

Asset and task share no transaction, so the invariant says who may be between
them: a released task is that of an asset which has its bytes and is neither
uploaded to nor removed (`ReleasedIsLinked`), a call that removes or releases
does so before the release (`CallHolds`), one worker has the task (`SoloWorker`),
and what a worker is about to link has been read, stored, inserted and ingested
from the asset's checksum (`WorkHolds`, `MadeOfBytes`). `SuccessHolds` excludes
redriven tasks, which repeat after a success.

`DocumentCorpusProofs`:

| Theorem | Statement | Condition |
|---|---|---|
| `CorpusIsSound` | `DocSpec => []AnyInv` | none |
| `TypeCorrect` | `DocSpec => []DocTypeOK` | none |
| `CorpusInvariant` | `DocSpec => [](AnyInv /\ SerialInv)` | `~LateRetries` |
| `ListedIsReadable` | `DocSpec => []CurrentIsReadable` | `~LateRetries`; `docSerial`, inside, for originals |
| `GapsAreRecorded` | `DocSpec => []GapIsRecorded` | `~LateRetries`; `docSerial`, inside |
| `DeletedStaysGone` | `DocSpec => []DeletedIsGone` | `~LateRetries`; `docSerial`, inside |
| `NewestWins` | `DocSpec => []NewestIsCurrent` | `~LateRetries`; `docSerial`, inside |

`AnyInv` holds under any interleaving: the head names a stored version, an
operation is in the hands of one call, each command follows its steps. The rest
is a ledger of debts. Chunks and originals without a row are owed by a delete or
an ingest that did not finish (`LeftChunks`, `LeftOriginals`); chunks that the
current version lacks are owed by an unfinished ingest of that version
(`GapIsOwed`). The ledger stays true because the key used last has the newest
operation (`LatestCalls`, `LatestOps`), so a plan that is retried is not stale: a
delete's plan has all that is stored (`DeletePlans`), the head is still what an
ingest read of it (`ReadsStand`), and an ingest that found its
version current still has it (`UnmovedIsCurrent`). The second half of `GapIsOwed`:
an ingest with nothing to index may be the last to run over a gap, and then it is
another one that owes it.

### Evidence of beliefs

`BeliefProjectionProofs`, with no condition:

| Theorem | Statement |
|---|---|
| `ProjectionInvariant` | `Spec => []ProjectionInv` |
| `TypeCorrect` | `Spec => []TypeOK` |
| `MutationsWin` | `Spec => []CanonicalMutationWins` |
| `NothingGetsLost` | `Spec => []NothingIsLost` |
| `WinnersAreEarned` | `Spec => []WinnerIsEarned` |

`RowsAreOwed`: a row of a record that does not stand, or that is valid for
longer than its record, has somebody named who will take it away, write it again
or shorten it - a mutation before its cleanup, a projector before its second
look, a retry before its record, or somebody who failed or died. `Recheck` is
what makes this inductive: a projector that put a row looks at the record once
more, after every mutation that could have missed the row. `GoneForGood` (a
deleted record stands again only if it was purged and created by a retry) is
needed for a projector that decided to remove and has not yet. `RowsAreKept`: for
what an add has put, the row is there, or its record was purged, or a rebuild
answers for it.

`WinnersAreEarned` adds nothing to the invariant: with `MutationsWin` the rows of
a settled slot are those of standing records, and the rest is about the operators
of `BeliefReconciler`. That a cluster with active candidates has a best one
(`BestIsActive`) needs their scores to be numbers, and scores are sums folded over
sets (`SumIsNumber`); that independent pieces are no more than keys
(`IndependentParts`) and that a key which counts claims one value
(`CountedClaimsOne`) leads from the winner's counts back to records. These are
inductions over finite sets. The library's induction theorems take an operator as
a parameter, which none of the provers can instantiate; the proofs take the
smallest counterexample instead (`LeastNumber`, `SmallestSet`), and `SumUnfolds`
constructs the recursive function of a fold.

### Only model-checked

- Liveness: `EventuallySettled`, `DeliveriesSettle`. Fairness and ENABLED are out
  of the prover's reach.
- The properties of section 7, which are violated.

No module declares a recursive operator.

## 7. Where code and documentation differ

1. `mutations_tombstone`. `updateMemory` writes the whole row that was read,
   `forgotten` included: an update that overlaps a delete revives the record,
   against sdk/memories.mdx ("Delete creates a tombstone").
2. `uploads_states`. A completion that died half-way is answered ok ever
   after, with a task no worker will find, against document-uploads.mdx
   ("Repeating completion is safe"). Only cancelling the upload frees it.
   `StatesAgree` also says that an upload whose task is a success is ready. That
   fails too, later than the run goes: by a put that checked the status before a
   slow object write (`uploaded`), a redrive whose worker was faster (`queued`),
   and a handler that outlived its lease (`failed`); each writes the asset by its
   id, or its task's, alone.
3. `documents_ready`. An ingest that died after its version became current is
   not repaired by the same content under another key: that one finds itself
   current, projects nothing and reports its vectors ready, against
   docs/ARCHITECTURE.md ("never invent success").
4. `beliefs_hidden`. Evidence of a context that is all in conflict with itself
   is quarantined and then not counted as active: the view falls back to the
   global value and says nothing is unresolved, against
   open-source/architecture.mdx ("Conflicts remain visible; they do not [...]
   fall back to a global value while contextual evidence is unresolved").

Seen in the same models, not run as findings: whether to extract is decided on
the row read before the retry's compare-and-set, so a frozen plan can be
replaced although its records are stored (docs/ARCHITECTURE.md: "A retry reuses
the frozen plan and IDs"); a commit names the operation by id alone, so two
attempts of which one outlived its lease answer two results
(docs/EXECUTION-PLAN.md: "Client retries and receives the same result"); a task's
outcome is written by id alone, so a worker whose lease ran out overwrites a
success (operations.mdx: "Terminal success states are ..."); two overlapping
updates that assert one version both commit (update.mdx promises a conflict),
and two that upsert their vectors in another order than they wrote the row both
report the vector ready; the expiry removes an upload that was completed and
became ready meanwhile (document-uploads.mdx: "Ready source assets are retained
until ..."); an ingest that found its version current and a delete, or two
ingests, leave a current version without vectors, all reporting success; a drain
that dies over the last attempt leaves a delivery that is tried a sixth time
(webhooks.mdx: "up to five total attempts"; `AttemptsAreBounded` says that
nothing else does); a rebuild of beliefs in a scope where one key claims two
values, or with a record whose validity ends before its event date, always fails
and leaves the slot empty; the retry of an add that died creates a record that
was purged meanwhile once more; the retry of a committed versioned update is
refused with a version conflict instead of its stored result, so an item of a
batch that committed before its chunk was retried is recorded as failed
(api-reference/batch.mdx: "already completed items replay"); a purge followed by
the retry of a delete that died adds a history entry of the purged record; a
handler that dies between writing artifact objects and inserting the artifact's
row leaves objects that no removal finds; an upload whose document was ingested
and not linked is removed without its document; a batch or a document task that
runs again announces itself under a new event id; a test delivery whose request
died stays in `processing` for ever; a task that was dead-lettered while its
worker ran is overwritten by that worker's outcome.

## 8. Not modelled

`PROJECT.json` lists every component with its status. Left out for good: user
interfaces, HTTP clients, routing and validation, adapters to databases, vector
stores and model providers (a provider is a step that succeeds or throws),
accounts and set-up, benchmarks. Left for the plan of section 2: batches item by
item, deferred derivation, the temporal sidecar, maintenance, snapshots, search.
Inside the modelled parts: derived facts, slot summaries, entity links and
automatic links of an add (a failure of the two kinds of links is a warning, and
no step reads them), the in-process store (one process, no awaits between its
statements), successors of a record, credits, declared sizes and checksums of
uploads, the purge of a namespace, signatures of webhooks; of beliefs the kill
switch and the allowlist, the windows of an applicability (part of a row's
validity here), the audit view and the structural sidecar.
