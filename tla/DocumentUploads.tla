--------------------------- MODULE DocumentUploads ---------------------------
(***************************************************************************)
(* The life of an uploaded document before it is indexed: apps/web/lib/    *)
(* server/document-ingestion.ts, and the redrive of operation-tasks.ts.    *)
(* One upload (one idempotency key of create, so one source asset id) is   *)
(* spread over the row of the asset, the row of its task, the raw object,  *)
(* the extraction artifact (a row and an object) and the document index,   *)
(* which share no transaction.  API calls, the maintenance job and task    *)
(* workers write them one statement at a time and may die in between.      *)
(*                                                                         *)
(* A document is the bytes it was extracted from: extraction is a function *)
(* of them, and so are checksums, the artifact's id and its object's key.  *)
(* The claim of a task is one step, and a lease is over when no worker     *)
(* holds the task (OperationTasks has clocks and selections).  Left out:   *)
(* declared sizes and checksums, credits, dead-lettered wakeups, the       *)
(* deletion of documents that are already indexed, and the delete of an    *)
(* object that is still on its way when the call that sent it has failed.  *)
(***************************************************************************)
EXTENDS Naturals, FiniteSets

CONSTANTS
    Bytes,          \* what a client may upload
    Calls,          \* calls of the API and runs of the maintenance job
    Workers,        \* workers that run document_extract tasks
    MaxAttempts,    \* max_attempts of the task
    SerialCalls,    \* TRUE: a call begins only when no other is running
    PromptWorkers,  \* TRUE: a task is reclaimed only if its worker died
    Null            \* a column that is NULL, an object that is not there

ASSUME UploadAssumption ==
    /\ MaxAttempts \in Nat \ {0}
    /\ {SerialCalls, PromptWorkers} \subseteq BOOLEAN
    /\ Null \notin Bytes \cup Calls

VARIABLES
    asset,      \* the source_assets row
    task,       \* the operation_tasks row
    raw,        \* the raw object
    artifact,   \* the extraction_artifacts row: the bytes it was made from
    stored,     \* the artifact objects, by the bytes they were made from
    ingested,   \* the bytes whose ingest operation is committed
    calls,      \* the calls and their local variables
    workers     \* the workers and their local variables

vars == <<asset, task, raw, artifact, stored, ingested, calls, workers>>
objects == <<raw, artifact, stored>>

Kinds == {"create", "put", "complete", "cancel", "expire", "retry"}

\* A task is named by the call that created it: its id is random.
NoAsset == [status |-> "none", checksum |-> Null, task |-> Null, document |-> Null]
NoTask == [status |-> "none", id |-> Null, attempts |-> 0]
NewCall == [pc |-> "idle", kind |-> "none", bytes |-> Null,
            asset |-> NoAsset, task |-> Null, listed |-> Null]
Idle == [pc |-> "idle", task |-> Null, attempts |-> 0, checksum |-> Null]

Assets == [status : {"none", "awaiting_upload", "uploaded", "queued", "processing",
                     "ready", "failed", "cancelled"},
           checksum : Bytes \cup {Null}, task : Calls \cup {Null},
           document : Bytes \cup {Null}]

Deleting == {"dropTask", "listArtifacts", "dropObjects", "dropRaw", "dropStored",
             "dropArtifacts", "dropAsset"}
Running == Deleting \cup {"enqueue", "link", "store", "record", "payload", "head",
                          "queue", "release", "answer", "fence", "cancel", "requeue"}
Handling == {"check", "mark", "source", "artifact", "store", "insert", "ingest",
             "ingested", "link", "reread", "failing"}

TypeOK ==
    /\ asset \in Assets
    /\ task \in [status : {"none", "awaiting_upload", "pending", "processing",
                           "retry", "success", "dead", "cancelled"},
                 id : Calls \cup {Null}, attempts : 0..MaxAttempts]
    /\ raw \in Bytes \cup {Null}
    /\ artifact \in Bytes \cup {Null}
    /\ stored \subseteq Bytes
    /\ ingested \subseteq Bytes
    /\ calls \in [Calls -> [pc : {"idle", "ok", "refused", "died"} \cup Running,
                            kind : Kinds \cup {"none"}, bytes : Bytes \cup {Null},
                            asset : Assets, task : Calls \cup {Null},
                            listed : Bytes \cup {Null}]]
    /\ workers \in [Workers -> [pc : {"idle", "success", "error"} \cup Handling,
                                task : Calls \cup {Null}, attempts : 0..MaxAttempts,
                                checksum : Bytes \cup {Null}]]
    /\ asset.status \in {"queued", "ready"} => asset.checksum \in Bytes

Init ==
    /\ asset = NoAsset
    /\ task = NoTask
    /\ raw = Null
    /\ artifact = Null
    /\ stored = {}
    /\ ingested = {}
    /\ calls = [c \in Calls |-> NewCall]
    /\ workers = [w \in Workers |-> Idle]

-----------------------------------------------------------------------------
(* Calls.                                                                  *)

At(c, kind, pc) == calls[c].kind = kind /\ calls[c].pc = pc

Goto(c, pc) == calls' = [calls EXCEPT ![c].pc = pc]

\* A call ends; of its locals, its kind is remembered.
Return(c, pc) ==
    calls' = [calls EXCEPT ![c] = [NewCall EXCEPT !.pc = pc, !.kind = calls[c].kind]]

\* An UPDATE of the asset changes nothing if the row is gone.
UpdateAsset(new) == asset' = IF asset.status = "none" THEN asset ELSE new

\* An UPDATE of the task with the given id.
UpdateTask(id, new) ==
    task' = IF task.status # "none" /\ task.id = id THEN new ELSE task

MayStart == SerialCalls => \A d \in Calls : calls[d].pc \notin Running

\* A call begins, with the locals it has after its first step.
Begin(c, call) ==
    /\ calls[c].pc = "idle"
    /\ MayStart
    /\ calls' = [calls EXCEPT ![c] = call]

NewCallAt(kind, pc) == [NewCall EXCEPT !.kind = kind, !.pc = pc, !.asset = asset]

Refuse(c) == Begin(c, [NewCall EXCEPT !.pc = "refused"])

(* create: INSERT ... ON CONFLICT DO NOTHING of the asset and of the task, *)
(* then the asset is told the id of the task.  (Another command under the  *)
(* key is refused before it changes anything.)                             *)

InsertAsset(c) ==
    /\ Begin(c, NewCallAt("create", "enqueue"))
    /\ asset' = IF asset.status = "none"
                THEN [NoAsset EXCEPT !.status = "awaiting_upload"] ELSE asset
    /\ UNCHANGED <<task, objects, ingested, workers>>

EnqueueTask(c) ==
    /\ At(c, "create", "enqueue")
    /\ task' = IF task.status = "none"
               THEN [status |-> "awaiting_upload", id |-> c, attempts |-> 0] ELSE task
    /\ calls' = [calls EXCEPT ![c].pc = "link", ![c].task = task'.id]
    /\ UNCHANGED <<asset, objects, ingested, workers>>

LinkTask(c) ==
    /\ At(c, "create", "link")
    /\ UpdateAsset([asset EXCEPT !.task = calls[c].task])
    /\ Return(c, IF asset.status = "none" THEN "refused" ELSE "ok")
    /\ UNCHANGED <<task, objects, ingested, workers>>

(* putContent.                                                             *)

\* Fault: the status is not looked at.
ReplaceableAnyTime(a, b) == a.status # "none"

\* Bytes may be uploaded until completion, and repeated but not replaced.
Replaceable(a, b) ==
    \/ a.status = "awaiting_upload"
    \/ a.status = "uploaded" /\ a.checksum = b

BeginPut(c) ==
    /\ \E b \in Bytes :
         IF Replaceable(asset, b)
         THEN Begin(c, [NewCallAt("put", "store") EXCEPT !.bytes = b])
         ELSE Refuse(c)
    /\ UNCHANGED <<asset, task, objects, ingested, workers>>

\* Objects are written once; other content under the key is a collision.
StoreBytes(c) ==
    /\ At(c, "put", "store")
    /\ raw' = IF raw = Null THEN calls[c].bytes ELSE raw
    /\ IF raw' = calls[c].bytes THEN Goto(c, "record") ELSE Return(c, "refused")
    /\ UNCHANGED <<asset, task, artifact, stored, ingested, workers>>

\* The UPDATE names the asset by its id alone.
RecordUpload(c) ==
    /\ At(c, "put", "record")
    /\ UpdateAsset([asset EXCEPT !.status = "uploaded", !.checksum = calls[c].bytes])
    /\ Return(c, IF asset.status = "none" THEN "refused" ELSE "ok")
    /\ UNCHANGED <<task, objects, ingested, workers>>

(* complete: the asset is queued, then the task is released.               *)

\* What is done about the asset that was read: repeating a completion is
\* answered from the rows.
NextComplete(a) ==
    CASE a.status \in {"queued", "processing", "ready", "failed"} -> "answer"
      [] a.status = "uploaded"                                    -> "head"
      [] a.status \in {"none", "awaiting_upload", "cancelled"}    -> "refused"

\* A completion may come with a payload for the task.
BeginComplete(c) ==
    /\ IF asset.task = Null THEN Refuse(c)
       ELSE \/ Begin(c, NewCallAt("complete", "payload"))
            \/ IF NextComplete(asset) = "refused" THEN Refuse(c)
               ELSE Begin(c, NewCallAt("complete", NextComplete(asset)))
    /\ UNCHANGED <<asset, task, objects, ingested, workers>>

\* The task is read, and its payload, which is not modelled, updated by its id,
\* whatever its status.  (The update also touches updated_at, and so can spoil a
\* claim under way: here a claim that is not made.)
MergePayload(c) ==
    LET next == NextComplete(calls[c].asset) IN
    /\ At(c, "complete", "payload")
    /\ IF task.id = calls[c].asset.task /\ next # "refused" THEN Goto(c, next)
       ELSE Return(c, "refused")
    /\ UNCHANGED <<asset, task, objects, ingested, workers>>

\* The stored object must have the recorded checksum.
HeadObject(c) ==
    /\ At(c, "complete", "head")
    /\ IF raw = calls[c].asset.checksum THEN Goto(c, "queue")
       ELSE Return(c, "refused")
    /\ UNCHANGED <<asset, task, objects, ingested, workers>>

QueueAsset(c) ==
    /\ At(c, "complete", "queue")
    /\ asset' = IF asset.status = "uploaded"
                THEN [asset EXCEPT !.status = "queued"] ELSE asset
    /\ Goto(c, "release")
    /\ UNCHANGED <<task, objects, ingested, workers>>

ReleaseTask(c) ==
    /\ At(c, "complete", "release")
    /\ UpdateTask(calls[c].asset.task,
                  IF task.status = "awaiting_upload"
                  THEN [task EXCEPT !.status = "pending"] ELSE task)
    /\ Goto(c, "answer")
    /\ UNCHANGED <<asset, objects, ingested, workers>>

\* The answer shows the asset and the task; either may be gone.
AnswerComplete(c) ==
    /\ At(c, "complete", "answer")
    /\ Return(c, IF /\ task.id = calls[c].asset.task
                    /\ calls[c].asset.status = "uploaded" => asset.status # "none"
                 THEN "ok" ELSE "refused")
    /\ UNCHANGED <<asset, task, objects, ingested, workers>>

(* deleteUpload, by a client or for an expired failure, and                *)
(* deleteExpiredUploads, which has no fence.                               *)

\* An asset without a task has nothing to fence.
BeginCancel(c) ==
    /\ IF asset.status \in {"none", "ready"} \/ asset.document # Null
       THEN Refuse(c)
       ELSE Begin(c, NewCallAt("cancel", IF asset.task = Null THEN "listArtifacts"
                                         ELSE "fence"))
    /\ UNCHANGED <<asset, task, objects, ingested, workers>>

\* Fault: a task that is being worked on can be cancelled.
FenceableAnyTime(t) == t.status # "success"

Fenceable(t) == t.status \in {"awaiting_upload", "pending", "retry", "dead"}

\* A task that is gone, or was cancelled before, is as good as fenced.
FenceTask(c) ==
    LET mine == task.id = calls[c].asset.task IN
    /\ At(c, "cancel", "fence")
    /\ IF ~mine \/ Fenceable(task) \/ task.status = "cancelled"
       THEN /\ task' = IF mine THEN [task EXCEPT !.status = "cancelled"] ELSE task
            /\ Goto(c, "cancel")
       ELSE Return(c, "refused") /\ UNCHANGED task
    /\ UNCHANGED <<asset, objects, ingested, workers>>

CancelAsset(c) ==
    /\ At(c, "cancel", "cancel")
    /\ UpdateAsset([asset EXCEPT !.status = "cancelled"])
    /\ Goto(c, "dropTask")
    /\ UNCHANGED <<task, objects, ingested, workers>>

\* The SELECT of the maintenance job finds what nobody wrote for a day.  A day may
\* have passed at any time, except while the asset is being created.
BeginExpire(c) ==
    /\ asset.status \in {"awaiting_upload", "uploaded"}
    /\ \A d \in Calls : calls[d].kind = "create" => calls[d].pc \notin Running
    /\ Begin(c, NewCallAt("expire", IF asset.task = Null THEN "listArtifacts"
                                    ELSE "dropTask"))
    /\ UNCHANGED <<asset, task, objects, ingested, workers>>

\* Fault: the asset is dropped before what hangs on it.
NextDropAssetFirst(pc) ==
    CASE pc = "dropTask"      -> "listArtifacts"
      [] pc = "listArtifacts" -> "dropAsset"
      [] pc = "dropAsset"     -> "dropObjects"
      [] pc = "dropRaw"       -> "dropArtifacts"
      [] pc = "dropStored"    -> "dropArtifacts"
      [] pc = "dropArtifacts" -> "ok"

\* The order of deleteAssetRows.
NextDrop(pc) ==
    CASE pc = "dropTask"      -> "listArtifacts"
      [] pc = "listArtifacts" -> "dropObjects"
      [] pc = "dropRaw"       -> "dropArtifacts"
      [] pc = "dropStored"    -> "dropArtifacts"
      [] pc = "dropArtifacts" -> "dropAsset"
      [] pc = "dropAsset"     -> "ok"

Drop(c, pc) ==
    /\ calls[c].pc = pc
    /\ IF NextDrop(pc) = "ok" THEN Return(c, "ok")
       ELSE calls' = [calls EXCEPT
                        ![c].pc = NextDrop(pc),
                        ![c].listed = IF pc = "listArtifacts" THEN artifact ELSE @]
    /\ UNCHANGED <<ingested, workers>>

DropTask(c) ==
    /\ Drop(c, "dropTask")
    /\ UpdateTask(calls[c].asset.task, NoTask)
    /\ UNCHANGED <<asset, objects>>

ListArtifacts(c) == Drop(c, "listArtifacts") /\ UNCHANGED <<asset, task, objects>>

\* The objects are deleted at the same time: one is, the other is left, or was
\* deleted before.
DropObject(c, pc, left) ==
    \/ calls[c].pc = "dropObjects" /\ Goto(c, left) /\ UNCHANGED <<ingested, workers>>
    \/ Drop(c, pc)

DropRaw(c) ==
    /\ DropObject(c, "dropRaw", "dropStored")
    /\ raw' = Null
    /\ UNCHANGED <<asset, task, artifact, stored>>

DropStored(c) ==
    /\ DropObject(c, "dropStored", "dropRaw")
    /\ stored' = stored \ {calls[c].listed}
    /\ UNCHANGED <<asset, task, raw, artifact>>

DropArtifacts(c) ==
    /\ Drop(c, "dropArtifacts")
    /\ artifact' = Null
    /\ UNCHANGED <<asset, task, raw, stored>>

DropAsset(c) ==
    /\ Drop(c, "dropAsset")
    /\ asset' = NoAsset
    /\ UNCHANGED <<task, objects>>

(* retryOperationTask: the task is pending again, then the asset is queued *)
(* again, whatever has become of it.                                       *)

\* Fault: whatever is not done or being done can be redriven.
RedrivableUnlessDone(t) == t.status \notin {"none", "processing", "success"}

Redrivable(t) == t.status \in {"retry", "dead"}

RetryTask(c) ==
    /\ IF Redrivable(task)
       THEN /\ Begin(c, [NewCallAt("retry", "requeue") EXCEPT !.task = task.id])
            /\ task' = [task EXCEPT !.status = "pending", !.attempts = 0]
       ELSE Refuse(c) /\ UNCHANGED task
    /\ UNCHANGED <<asset, objects, ingested, workers>>

RequeueAsset(c) ==
    /\ At(c, "retry", "requeue")
    /\ asset' = IF asset.task = calls[c].task
                THEN [asset EXCEPT !.status = "queued"] ELSE asset
    /\ Return(c, "ok")
    /\ UNCHANGED <<task, objects, ingested, workers>>

\* A process dies, or a store throws: no call undoes what it did.
CallDies(c) ==
    /\ calls[c].pc \in Running
    /\ Return(c, "died")
    /\ UNCHANGED <<asset, task, objects, ingested, workers>>

-----------------------------------------------------------------------------
(* Workers: the claim, processDocumentExtractionTask, the outcome.         *)

Step(w, pc) == workers' = [workers EXCEPT ![w].pc = pc]

Abandoned ==
    PromptWorkers =>
        \A v \in Workers : workers[v].pc = "idle" \/ workers[v].task # task.id

\* A worker claims the task.  Attempts from MaxAttempts on are alike: they are
\* compared with MaxAttempts only, so the count stops there.
ClaimTask(w) ==
    LET attempts == IF task.attempts < MaxAttempts THEN task.attempts + 1
                    ELSE task.attempts
    IN
    /\ workers[w].pc = "idle"
    /\ \/ task.status \in {"pending", "retry"}
       \/ task.status = "processing" /\ Abandoned
    /\ task' = [task EXCEPT !.status = "processing", !.attempts = attempts]
    /\ workers' = [workers EXCEPT ![w] = [Idle EXCEPT !.pc = "check", !.task = task.id,
                                                      !.attempts = attempts]]
    /\ UNCHANGED <<asset, objects, ingested, calls>>

\* Fault: a linked document counts, whatever the status.
ReadyIfLinked(a) == a.document # Null

Ready(a) == a.status = "ready" /\ a.document # Null

\* Nothing to do; or to work, with the checksum read here; or an error thrown
\* before the try block.
CheckAsset(w) ==
    /\ workers[w].pc = "check"
    /\ \/ /\ Ready(asset)
          /\ Step(w, "success")
       \/ /\ ~Ready(asset)
          /\ asset.status \in {"queued", "processing", "failed"} /\ asset.checksum # Null
          /\ workers' = [workers EXCEPT ![w].pc = "mark", ![w].checksum = asset.checksum]
       \/ /\ ~Ready(asset)
          /\ asset.status \notin {"queued", "processing", "failed"} \/ asset.checksum = Null
          /\ Step(w, "error")
    /\ UNCHANGED <<asset, task, objects, ingested, calls>>

MarkProcessing(w) ==
    /\ workers[w].pc = "mark"
    /\ UpdateAsset([asset EXCEPT !.status = "processing"])
    /\ Step(w, "source")
    /\ UNCHANGED <<task, objects, ingested, calls>>

\* The raw object must be there and have the checksum of the asset.
ReadSource(w) ==
    /\ workers[w].pc = "source"
    /\ Step(w, IF raw = workers[w].checksum THEN "artifact" ELSE "failing")
    /\ UNCHANGED <<asset, task, objects, ingested, calls>>

\* An artifact whose object is intact is used again.  It is looked up by the
\* asset's id, not by its checksum.
FindArtifact(w) ==
    /\ workers[w].pc = "artifact"
    /\ IF artifact \in stored
       THEN workers' = [workers EXCEPT ![w].pc = "ingest", ![w].checksum = artifact]
       ELSE Step(w, "store")
    /\ UNCHANGED <<asset, task, objects, ingested, calls>>

StoreArtifact(w) ==
    /\ workers[w].pc = "store"
    /\ stored' = stored \cup {workers[w].checksum}
    /\ Step(w, "insert")
    /\ UNCHANGED <<asset, task, raw, artifact, ingested, calls>>

\* INSERT ... ON CONFLICT DO NOTHING; other content is a collision.
InsertArtifact(w) ==
    /\ workers[w].pc = "insert"
    /\ artifact' = IF artifact = Null THEN workers[w].checksum ELSE artifact
    /\ Step(w, IF artifact' = workers[w].checksum THEN "ingest" ELSE "failing")
    /\ UNCHANGED <<asset, task, raw, stored, ingested, calls>>

\* The ingest of the engine, under a key made of the artifact's id.
IngestDocument(w) ==
    /\ workers[w].pc = "ingest"
    /\ ingested' = ingested \cup {workers[w].checksum}
    /\ Step(w, "ingested")
    /\ UNCHANGED <<asset, task, objects, calls>>

\* The row of the artifact is told the document, for clients alone to see.
RecordIngested(w) ==
    /\ workers[w].pc = "ingested"
    /\ Step(w, "link")
    /\ UNCHANGED <<asset, task, objects, ingested, calls>>

LinkDocument(w) ==
    /\ workers[w].pc = "link"
    /\ UpdateAsset([asset EXCEPT !.status = "ready", !.document = workers[w].checksum])
    /\ Step(w, "reread")
    /\ UNCHANGED <<task, objects, ingested, calls>>

\* The row is read back for the result; if it is gone the handler throws.
RereadAsset(w) ==
    /\ workers[w].pc = "reread"
    /\ Step(w, IF asset.status = "none" THEN "failing" ELSE "success")
    /\ UNCHANGED <<asset, task, objects, ingested, calls>>

\* A store, the extractor or the engine throws inside the try block, before
\* or after its effect; outside, the task fails and the asset is untouched.
HandlerThrows(w) ==
    /\ workers[w].pc \in Handling
    /\ Step(w, IF workers[w].pc \in {"check", "mark", "failing"} THEN "error"
               ELSE "failing")
    /\ UNCHANGED <<asset, task, objects, ingested, calls>>

MarkFailed(w) ==
    /\ workers[w].pc = "failing"
    /\ UpdateAsset([asset EXCEPT !.status = "failed"])
    /\ Step(w, "error")
    /\ UNCHANGED <<task, objects, ingested, calls>>

\* processSelectedOperationTask records the outcome, by the id of the task.
FinishTask(w) ==
    /\ workers[w].pc \in {"success", "error"}
    /\ UpdateTask(workers[w].task,
                  [task EXCEPT !.status =
                     IF workers[w].pc = "success" THEN "success"
                     ELSE IF workers[w].attempts >= MaxAttempts THEN "dead"
                     ELSE "retry"])
    /\ workers' = [workers EXCEPT ![w] = Idle]
    /\ UNCHANGED <<asset, objects, ingested, calls>>

WorkerDies(w) ==
    /\ workers[w].pc # "idle"
    /\ workers' = [workers EXCEPT ![w] = Idle]
    /\ UNCHANGED <<asset, task, objects, ingested, calls>>

-----------------------------------------------------------------------------

Call(c) ==
    \/ InsertAsset(c) \/ EnqueueTask(c) \/ LinkTask(c)
    \/ BeginPut(c) \/ StoreBytes(c) \/ RecordUpload(c)
    \/ BeginComplete(c) \/ MergePayload(c) \/ HeadObject(c) \/ QueueAsset(c)
    \/ ReleaseTask(c) \/ AnswerComplete(c)
    \/ BeginCancel(c) \/ FenceTask(c) \/ CancelAsset(c) \/ BeginExpire(c)
    \/ DropTask(c) \/ ListArtifacts(c) \/ DropRaw(c) \/ DropStored(c)
    \/ DropArtifacts(c) \/ DropAsset(c)
    \/ RetryTask(c) \/ RequeueAsset(c) \/ CallDies(c)

Work(w) ==
    \/ ClaimTask(w) \/ CheckAsset(w) \/ MarkProcessing(w) \/ ReadSource(w)
    \/ FindArtifact(w) \/ StoreArtifact(w) \/ InsertArtifact(w)
    \/ IngestDocument(w) \/ RecordIngested(w) \/ LinkDocument(w) \/ RereadAsset(w)
    \/ HandlerThrows(w) \/ MarkFailed(w) \/ FinishTask(w) \/ WorkerDies(w)

\* Every call was made and nothing is queued.
AllDone ==
    /\ \A c \in Calls : calls[c].pc \notin Running \cup {"idle"}
    /\ \A w \in Workers : workers[w].pc = "idle"
    /\ task.status \notin {"pending", "retry", "processing"}
    /\ UNCHANGED vars

Next == (\E c \in Calls : Call(c)) \/ (\E w \in Workers : Work(w)) \/ AllDone

Spec == Init /\ [][Next]_vars

-----------------------------------------------------------------------------
(* What uploads promise.  The invariants hold for serial calls and prompt  *)
(* workers.                                                                *)

AtRest ==
    /\ \A c \in Calls : calls[c].pc \notin Running
    /\ \A w \in Workers : workers[w].pc = "idle"

\* document-uploads.mdx: "`ready` | The artifact and final RAG document are
\* linked", and "The object is immutable": the document of a ready source, its
\* artifact and its raw object are all of the bytes whose checksum it shows.
ReadyMatchesSource ==
    asset.status = "ready" =>
        /\ asset.document = asset.checksum
        /\ raw = asset.checksum
        /\ artifact = asset.checksum
        /\ asset.checksum \in stored \cap ingested

\* An upload that was removed, or was never created, has left neither its bytes
\* nor an artifact, whatever died while it was processed or removed.  (The
\* object of an artifact stays if the handler died before it inserted the row.)
RemovedIsGone ==
    AtRest /\ asset.status = "none" => raw = Null /\ artifact = Null

\* And document-ingestion.ts, deleteUpload: "a queued wakeup can no longer
\* acquire work before raw bytes and artifact rows are removed."  While an
\* upload is removed nobody extracts it.
RemovalIsClean ==
    /\ RemovedIsGone
    /\ \A c \in Calls, w \in Workers :
         calls[c].pc \in Deleting => workers[w].pc = "idle"

\* A task that succeeded has a ready source: a client that polls the operation
\* and one that polls the asset are told the same, unless the task was redriven
\* (RequeueAsset may come after the redriven task is done).
SuccessIsReady ==
    task.status = "success" /\ (\A c \in Calls : calls[c].kind # "retry") =>
        asset.status = "ready" /\ asset.task = task.id

\* document-uploads.mdx: "The `202` response contains the source asset in
\* `queued` state and the `document_extract` operation in `pending` state.
\* Repeating completion is safe", and of the states "`queued` | The durable
\* extraction task is pending" and "`failed` | The latest attempt failed".  When
\* nothing runs, an upload whose completion was acknowledged does not look queued
\* to a task that waits for the upload, where no worker will find it; and one whose
\* task is done looks ready, not queued, failed or uploaded.
StatesAgree == AtRest =>
    /\ /\ asset.status = "queued"
       /\ \E c \in Calls : calls[c].kind = "complete" /\ calls[c].pc = "ok"
       => task.status # "awaiting_upload"
    /\ task.status = "success" => asset.status = "ready"
=============================================================================
