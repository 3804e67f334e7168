---------------------------- MODULE DocumentCorpus ----------------------------
(***************************************************************************)
(* The document corpus of the engine: ingest, delete and rebuild of         *)
(* DocumentCorpus (packages/fishmem/src/core/documents.ts) over the         *)
(* document tables of the SQL store (graph/drizzle-store.ts), for one       *)
(* stable source.  A source has immutable versions, identified by what they *)
(* contain, and a head that names the current one.  A version is a row with *)
(* its chunk rows, an original in an object store, and the vectors of its   *)
(* chunks, embedded a batch at a time; no two of these share a transaction. *)
(*                                                                          *)
(* Every store call is a step.  The claim of a key is one step (see         *)
(* OperationJournal): a pending operation is taken over only after the      *)
(* process that ran it died.  Chunks are counted in embedding batches; the  *)
(* original store is configured; search, list and get only read.            *)
(***************************************************************************)
EXTENDS Naturals, FiniteSets

CONSTANTS
    Versions,       \* the contents clients ingest under the source key
    Batches,        \* embedding batches of 32 chunks each version has
    DocKeys,        \* idempotency keys
    DocCalls,       \* calls, each made once
    DocKeyOf,       \* the key each call sends; two calls of a key are retries
    DocSerial,      \* BOOLEAN, {TRUE}: calls do not overlap, {FALSE}: they may
    LateRetries,    \* TRUE: a key may be retried after another key was used
    NoVersion       \* no version

DocKinds == {"ingest", "delete", "rebuild"}
Chunks == Versions \X (1..Batches)

ASSUME CorpusAssumption ==
    /\ Batches \in Nat \ {0}
    /\ DocKeyOf \in [DocCalls -> DocKeys]
    /\ DocSerial \subseteq BOOLEAN
    /\ LateRetries \in BOOLEAN
    /\ NoVersion \notin Versions

VARIABLES
    docSerial,  \* do calls overlap in this behaviour?
    commands,   \* what each key's command is, and the version it names
    docs,       \* fishmem_documents: created_at of each version, 0: no row
    head,       \* fishmem_document_heads: the version and updated_at
    originals,  \* the original store
    chunkIndex, \* the vector index: chunks it has an entry of
    docOps,     \* the operation of each key
    docCalls,   \* the calls and their local variables
    docNow,     \* the clock
    latest      \* the key used last

docVars == <<docSerial, commands, docs, head, originals, chunkIndex, docOps,
             docCalls, docNow, latest>>
docWorld == <<docSerial, commands, docNow, latest>>
corpus == <<docs, head, originals, chunkIndex>>

NoHead == [version |-> NoVersion, at |-> 0]
ChunksOf(v) == {v} \X (1..Batches)
Stored(v) == docs[v] # 0

\* The part of the command that is frozen by planOperation.
NoDocPlan == [made |-> FALSE, created |-> FALSE, previous |-> NoVersion,
              documents |-> {}]
DocPlans == [made : BOOLEAN, created : BOOLEAN,
             previous : Versions \cup {NoVersion}, documents : SUBSET Versions]

NoDocOp == [status |-> "none", at |-> 0, plan |-> NoDocPlan, vector |-> FALSE]

IngestSteps == {"head", "current", "plan", "load", "original", "verify", "commit",
                "project", "clean", "complete"}
DeleteSteps == {"freeze", "address", "select", "purge", "erase", "forget", "complete"}
RebuildSteps == {"read", "hydrate", "chunks", "reproject"}
InTry == IngestSteps \cup DeleteSteps
DocRunning == InTry \cup RebuildSteps \cup {"claim", "fail"}
DocReturned == {"ok", "refused", "failed", "died"}

NewDocCall == [pc |-> "idle", at |-> 0, current |-> NoVersion, rowAt |-> 0,
               batch |-> 1, rows |-> {}]

DocTypeOK ==
    /\ docSerial \in BOOLEAN
    /\ commands \in [DocKeys -> [kind : DocKinds, version : Versions]]
    /\ docs \in [Versions -> Nat]
    /\ head \in [version : Versions \cup {NoVersion}, at : Nat]
    /\ originals \subseteq Versions
    /\ chunkIndex \subseteq Chunks
    /\ docOps \in [DocKeys -> [status : {"none", "pending", "committed", "failed"},
                               at : Nat, plan : DocPlans, vector : BOOLEAN]]
    /\ docCalls \in [DocCalls -> [pc : {"idle"} \cup DocRunning \cup DocReturned,
                                  at : Nat, current : Versions \cup {NoVersion},
                                  rowAt : Nat, batch : 1..Batches,
                                  rows : SUBSET Versions]]
    /\ docNow \in Nat
    /\ latest \in DocKeys \cup {NoVersion}

\* The source is new, or one version of it was ingested long ago.
DocInit ==
    /\ docSerial \in DocSerial
    /\ commands \in [DocKeys -> [kind : DocKinds, version : Versions]]
    /\ \E v \in Versions \cup {NoVersion} :
         /\ docs = [w \in Versions |-> IF w = v THEN 1 ELSE 0]
         /\ head = IF v = NoVersion THEN NoHead ELSE [version |-> v, at |-> 1]
         /\ originals = {v} \ {NoVersion}
         /\ chunkIndex = (IF v = NoVersion THEN {} ELSE ChunksOf(v))
    /\ docOps = [k \in DocKeys |-> NoDocOp]
    /\ docCalls = [c \in DocCalls |-> NewDocCall]
    /\ docNow = 1
    /\ latest = NoVersion

DocKind(c) == commands[DocKeyOf[c]].kind
VersionOf(c) == commands[DocKeyOf[c]].version
PlanOf(c) == docOps[DocKeyOf[c]].plan

DocAt(c, pc) == docCalls[c].pc = pc
DocGoto(c, pc) == docCalls' = [docCalls EXCEPT ![c].pc = pc]
DocReturn(c, pc) == docCalls' = [docCalls EXCEPT ![c] = [NewDocCall EXCEPT !.pc = pc]]

-----------------------------------------------------------------------------
(* Claiming the operation.                                                 *)

\* Is a process still at work on the operation of k?
InHand(k) == \E c \in DocCalls : DocKeyOf[c] = k /\ docCalls[c].pc \in InTry \cup {"fail"}

\* Which calls clients make: one after the other, or at the same time, each
\* key then once; a late retry of a key only if the constant allows it.
MayCall(c) ==
    LET k == DocKeyOf[c] IN
    /\ IF docSerial THEN \A d \in DocCalls : docCalls[d].pc \notin DocRunning
       ELSE \A d \in DocCalls : DocKeyOf[d] = k => DocAt(d, "idle")
    /\ LateRetries \/ latest = k \/ docOps[k].status \in {"none", "committed"}

\* The call reads the clock; a rebuild has no operation.
ArriveDoc(c) ==
    /\ DocAt(c, "idle")
    /\ MayCall(c)
    /\ \E t \in {docNow, docNow + 1} :
         /\ docNow' = t
         /\ docCalls' = [docCalls EXCEPT ![c].at = t,
                ![c].pc = IF DocKind(c) = "rebuild" THEN "read" ELSE "claim"]
    /\ latest' = IF DocKind(c) = "rebuild" THEN DocKeyOf[c] ELSE latest
    /\ UNCHANGED <<docSerial, commands, corpus, docOps>>

\* The try block, from its start: the plan on the row decides what is skipped.
Resume(c, plan) ==
    /\ latest' = DocKeyOf[c]
    /\ DocGoto(c, CASE DocKind(c) = "ingest" /\ ~plan.made -> "head"
                    [] DocKind(c) = "ingest" /\ plan.made  -> "load"
                    [] DocKind(c) = "delete" /\ ~plan.made -> "freeze"
                    [] DocKind(c) = "delete" /\ plan.made  -> "address")

ClaimDoc(c) ==
    LET k == DocKeyOf[c] IN
    /\ DocAt(c, "claim")
    /\ \/ /\ docOps[k].status = "none"
          /\ docOps' = [docOps EXCEPT ![k].status = "pending",
                                      ![k].at = docCalls[c].at]
          /\ Resume(c, NoDocPlan)
       \/ /\ \/ docOps[k].status = "failed"
             \/ docOps[k].status = "pending" /\ ~InHand(k)
          /\ docOps' = [docOps EXCEPT ![k].status = "pending"]
          /\ Resume(c, docOps[k].plan)
       \/ /\ docOps[k].status = "committed"
          /\ DocReturn(c, "ok")
          /\ UNCHANGED <<docOps, latest>>
       \/ /\ docOps[k].status = "pending" /\ InHand(k)
          /\ DocReturn(c, "refused")
          /\ UNCHANGED <<docOps, latest>>
    /\ UNCHANGED <<docSerial, commands, docNow, corpus>>

-----------------------------------------------------------------------------
(* Ingest.                                                                 *)

\* getCurrentDocument: the head, and then the row it names; there is no current
\* version if either is gone.
ReadHead(c) ==
    /\ DocAt(c, "head")
    /\ docCalls' = [docCalls EXCEPT ![c].pc = IF head = NoHead THEN "plan" ELSE "current",
                                    ![c].current = head.version]
    /\ UNCHANGED <<docWorld, corpus, docOps>>

ReadCurrent(c) ==
    /\ DocAt(c, "current")
    /\ docCalls' = [docCalls EXCEPT ![c].pc = "plan",
                                    ![c].current = IF Stored(@) THEN @ ELSE NoVersion]
    /\ UNCHANGED <<docWorld, corpus, docOps>>

\* `created` compares the current version with this one, once; so is the
\* version to clean up chosen.
PlanIngest(c) ==
    LET current == docCalls[c].current IN
    /\ DocAt(c, "plan")
    /\ docOps' = [docOps EXCEPT ![DocKeyOf[c]].plan =
                    [made |-> TRUE, created |-> current # VersionOf(c),
                     previous |-> current, documents |-> {}]]
    /\ docCalls' = [docCalls EXCEPT ![c].pc = "load", ![c].current = NoVersion]
    /\ UNCHANGED <<docWorld, corpus>>

\* A version that is stored keeps its created_at, a new one takes the
\* operation's.
LoadSource(c) ==
    LET v == VersionOf(c) IN
    /\ DocAt(c, "load")
    /\ docCalls' = [docCalls EXCEPT ![c].pc = "original",
                      ![c].rowAt = IF Stored(v) THEN docs[v]
                                   ELSE docOps[DocKeyOf[c]].at]
    /\ UNCHANGED <<docWorld, corpus, docOps>>

\* prepareForStorage: the original goes first.
PutOriginal(c) ==
    /\ DocAt(c, "original")
    /\ originals' = originals \cup {VersionOf(c)}
    /\ DocGoto(c, "verify")
    /\ UNCHANGED <<docWorld, docs, head, chunkIndex, docOps>>

\* commitDocumentVersion reads the row again: two ingests of one version that
\* race for its row differ in created_at, a "document id collision".
VerifyVersion(c) ==
    LET v == VersionOf(c) IN
    /\ DocAt(c, "verify")
    /\ DocGoto(c, IF Stored(v) /\ docs[v] # docCalls[c].rowAt THEN "fail" ELSE "commit")
    /\ UNCHANGED <<docWorld, corpus, docOps>>

\* Fault: the head is inserted, never moved.
HeadStays(v, t) == IF head = NoHead THEN [version |-> v, at |-> t] ELSE head

\* The head moves unless it was moved by an operation created later.
HeadAfter(v, t) ==
    IF head = NoHead \/ head.at <= t THEN [version |-> v, at |-> t] ELSE head

\* One transaction: the row and its chunks unless they are there, and the head.
CommitVersion(c) ==
    LET v == VersionOf(c) IN
    /\ DocAt(c, "commit")
    /\ docs' = [docs EXCEPT ![v] = IF Stored(v) THEN @ ELSE docCalls[c].rowAt]
    /\ head' = HeadAfter(v, docOps[DocKeyOf[c]].at)
    /\ DocGoto(c, IF PlanOf(c).created THEN "project" ELSE "complete")
    /\ UNCHANGED <<docWorld, originals, chunkIndex, docOps>>

\* Fault: the count of batches starts below the first.
AfterBatchFromZero(c, done) ==
    docCalls' = [docCalls EXCEPT ![c].batch = 0, ![c].pc = done]

AfterBatch(c, done) ==
    IF docCalls[c].batch < Batches
    THEN docCalls' = [docCalls EXCEPT ![c].batch = @ + 1]
    ELSE docCalls' = [docCalls EXCEPT ![c].batch = 1, ![c].pc = done]

\* projectChunks: embed a batch and upsert it.
ProjectChunks(c) ==
    /\ DocAt(c, "project")
    /\ chunkIndex' = chunkIndex \cup {<<VersionOf(c), docCalls[c].batch>>}
    /\ AfterBatch(c, "clean")
    /\ UNCHANGED <<docWorld, docs, head, originals, docOps>>

\* Fault: the version that was just projected is cleaned up too.
ReplacedOrSelf(c) == Versions

\* The version to clean up, whose chunk ids are listed from its rows.
Replaced(c) ==
    {v \in {PlanOf(c).previous} \ {NoVersion, VersionOf(c)} : Stored(v)}

\* cleanupDocumentVectors: a failure is a warning.
CleanPrevious(c) ==
    /\ DocAt(c, "clean")
    /\ \E ok \in BOOLEAN :
         chunkIndex' = IF ok THEN chunkIndex \ UNION {ChunksOf(v) : v \in Replaced(c)}
                             ELSE chunkIndex
    /\ DocGoto(c, "complete")
    /\ UNCHANGED <<docWorld, docs, head, originals, docOps>>

CompleteDoc(c) ==
    /\ DocAt(c, "complete")
    /\ docOps' = [docOps EXCEPT ![DocKeyOf[c]].status = "committed",
                                ![DocKeyOf[c]].vector = TRUE]
    /\ DocReturn(c, "ok")
    /\ UNCHANGED <<docWorld, corpus>>

-----------------------------------------------------------------------------
(* Delete, of the whole source that the version belongs to.                *)

\* The versions and their chunks are frozen before anything is removed.
PlanDelete(c) ==
    /\ DocAt(c, "freeze")
    /\ IF Stored(VersionOf(c))
       THEN /\ docOps' = [docOps EXCEPT ![DocKeyOf[c]].plan =
                           [NoDocPlan EXCEPT !.made = TRUE,
                                             !.documents = {v \in Versions : Stored(v)}]]
            /\ DocGoto(c, "address")
       ELSE DocGoto(c, "fail") /\ UNCHANGED docOps
    /\ UNCHANGED <<docWorld, corpus>>

\* purgeDocument has nothing to do if the addressed row is gone.  It selects the
\* versions of the source that row names, and their chunks, which it then deletes
\* by the versions.
AddressVersion(c) ==
    /\ DocAt(c, "address")
    /\ DocGoto(c, IF Stored(VersionOf(c)) THEN "select" ELSE "erase")
    /\ UNCHANGED <<docWorld, corpus, docOps>>

SelectVersions(c) ==
    /\ DocAt(c, "select")
    /\ docCalls' = [docCalls EXCEPT ![c].pc = "purge",
                                    ![c].rows = {v \in Versions : Stored(v)}]
    /\ UNCHANGED <<docWorld, corpus, docOps>>

\* Fault: the head goes only if it names a version that was selected, the
\* versions go by source key.
PurgedButHead(rows) ==
    /\ head' = IF head.version \in rows THEN NoHead ELSE head
    /\ docs' = [v \in Versions |-> 0]

\* One transaction: the head by source key, the selected rows and chunks.
Purged(rows) ==
    /\ head' = NoHead
    /\ docs' = [v \in Versions |-> IF v \in rows THEN 0 ELSE docs[v]]

PurgeDocument(c) ==
    /\ DocAt(c, "purge")
    /\ Purged(docCalls[c].rows)
    /\ docCalls' = [docCalls EXCEPT ![c].pc = "erase", ![c].rows = {}]
    /\ UNCHANGED <<docWorld, originals, chunkIndex, docOps>>

\* Fault: only the addressed version's original and vectors go.
OnlyAddressed(c) == {VersionOf(c)}

FrozenVersions(c) == PlanOf(c).documents

DeleteOriginals(c) ==
    /\ DocAt(c, "erase")
    /\ originals' = originals \ FrozenVersions(c)
    /\ DocGoto(c, "forget")
    /\ UNCHANGED <<docWorld, docs, head, chunkIndex, docOps>>

DeleteChunkVectors(c) ==
    /\ DocAt(c, "forget")
    /\ chunkIndex' = chunkIndex \ UNION {ChunksOf(v) : v \in FrozenVersions(c)}
    /\ DocGoto(c, "complete")
    /\ UNCHANGED <<docWorld, docs, head, originals, docOps>>

-----------------------------------------------------------------------------
(* Reading.                                                                *)

\* listCurrentDocuments: a head whose version has no row is not listed.
Listed == {v \in Versions : Stored(v) /\ head.version = v}

\* get: the row, and its original.
Gettable(v) == Stored(v) /\ v \in originals

\* search: of the chunks its lanes find, those of the current version.
SearchHits == {chunk \in chunkIndex : chunk[1] \in Listed}

-----------------------------------------------------------------------------
(* Rebuild: the row and the original must be there; then the version is    *)
(* projected.                                                              *)

ReadForRebuild(c) ==
    /\ DocAt(c, "read")
    /\ IF Stored(VersionOf(c)) THEN DocGoto(c, "hydrate") ELSE DocReturn(c, "failed")
    /\ UNCHANGED <<docWorld, corpus, docOps>>

HydrateOriginal(c) ==
    /\ DocAt(c, "hydrate")
    /\ IF VersionOf(c) \in originals THEN DocGoto(c, "chunks") ELSE DocReturn(c, "failed")
    /\ UNCHANGED <<docWorld, corpus, docOps>>

\* A version that was deleted in between has no chunks: nothing is projected, and
\* that is a success.
ListChunks(c) ==
    /\ DocAt(c, "chunks")
    /\ IF Stored(VersionOf(c)) THEN DocGoto(c, "reproject") ELSE DocReturn(c, "ok")
    /\ UNCHANGED <<docWorld, corpus, docOps>>

Reproject(c) ==
    /\ DocAt(c, "reproject")
    /\ chunkIndex' = chunkIndex \cup {<<VersionOf(c), docCalls[c].batch>>}
    /\ AfterBatch(c, "ok")
    /\ UNCHANGED <<docWorld, docs, head, originals, docOps>>

-----------------------------------------------------------------------------
(* Failure.                                                                *)

\* A store or the embedder throws, before or after its effect.
DocStepThrows(c) ==
    /\ \/ docCalls[c].pc \in InTry /\ DocGoto(c, "fail")
       \/ docCalls[c].pc \in RebuildSteps /\ DocReturn(c, "failed")
    /\ UNCHANGED <<docWorld, corpus, docOps>>

\* The catch blocks: what the stores hold decides the projection status.
VectorsSettled(c) ==
    CASE DocKind(c) = "ingest" ->
           Stored(VersionOf(c)) /\ ChunksOf(VersionOf(c)) \subseteq chunkIndex
      [] DocKind(c) = "delete" ->
           \A v \in FrozenVersions(c) : ChunksOf(v) \cap chunkIndex = {}

FailDoc(c) ==
    /\ DocAt(c, "fail")
    /\ docOps' = [docOps EXCEPT ![DocKeyOf[c]].status = "failed",
                                ![DocKeyOf[c]].vector = VectorsSettled(c)]
    /\ DocReturn(c, "failed")
    /\ UNCHANGED <<docWorld, corpus>>

\* The process dies, or cannot record its failure.
DocCrash(c) ==
    /\ docCalls[c].pc \in DocRunning
    /\ DocReturn(c, "died")
    /\ UNCHANGED <<docWorld, corpus, docOps>>

DocsReturned ==
    /\ \A c \in DocCalls : docCalls[c].pc \in DocReturned \cup {"idle"}
    /\ UNCHANGED docVars

DocStep(c) ==
    \/ ArriveDoc(c) \/ ClaimDoc(c)
    \/ ReadHead(c) \/ ReadCurrent(c) \/ PlanIngest(c) \/ LoadSource(c)
    \/ PutOriginal(c) \/ VerifyVersion(c) \/ CommitVersion(c) \/ ProjectChunks(c)
    \/ CleanPrevious(c) \/ CompleteDoc(c)
    \/ PlanDelete(c) \/ AddressVersion(c) \/ SelectVersions(c) \/ PurgeDocument(c)
    \/ DeleteOriginals(c) \/ DeleteChunkVectors(c)
    \/ ReadForRebuild(c) \/ HydrateOriginal(c) \/ ListChunks(c) \/ Reproject(c)
    \/ DocStepThrows(c) \/ FailDoc(c) \/ DocCrash(c)

DocNext == (\E c \in DocCalls : DocStep(c)) \/ DocsReturned

DocSpec == DocInit /\ [][DocNext]_docVars

-----------------------------------------------------------------------------
(* What the corpus promises.                                               *)

DocAtRest == \A c \in DocCalls : docCalls[c].pc \notin DocRunning

\* A search can find every chunk of what is listed.
Searchable == \A v \in Listed : ChunksOf(v) \subseteq SearchHits

IngestOf(k, v) == commands[k] = [kind |-> "ingest", version |-> v]

Unfinished(k) == docOps[k].status \in {"pending", "failed"}

\* An ingest of v, or a delete that froze v, is recorded as unfinished.
IngestOwes(v) == \E k \in DocKeys : IngestOf(k, v) /\ Unfinished(k)

DeleteOwes(v) ==
    \E k \in DocKeys :
        commands[k].kind = "delete" /\ Unfinished(k) /\ v \in docOps[k].plan.documents

\* What list shows can be read: the head names a stored version, however
\* deletes and ingests interleave.  Of calls that do not overlap, and keys that
\* are retried before another is used, every stored version has its original
\* (documents.mdx: "Historical versions remain addressable by id until the
\* source is deleted").
CurrentIsReadable ==
    /\ head # NoHead => Listed # {}
    /\ docSerial => \A v \in Versions : Stored(v) => Gettable(v)

\* When nothing runs and search misses chunks of the current version, some
\* operation of this source is recorded as unfinished: a client that retries
\* what failed repairs the index.  Holds for calls that do not overlap and keys
\* that are retried before another key is used.
GapIsRecorded ==
    docSerial /\ DocAtRest /\ ~Searchable =>
        IngestOwes(head.version)

\* docs/ARCHITECTURE.md, "Vector/FTS": "Persist warning/repair state; never
\* invent success".  A search finds a current version whose ingest committed
\* and reported its vectors ready.
IngestedIsSearchable ==
    DocAtRest /\ ~Searchable => \A k \in DocKeys :
        IngestOf(k, head.version) => ~(docOps[k].status = "committed" /\ docOps[k].vector)

\* After a delete that committed, and until another key is used, nothing of the
\* source is left but what unfinished operations account for: the chunks and the
\* originals of an earlier delete that nobody retried, and an original whose
\* ingest died before its row.
DeletedIsGone ==
    \A k \in DocKeys :
        /\ docSerial /\ DocAtRest /\ latest = k
        /\ commands[k].kind = "delete" /\ docOps[k].status = "committed"
        => /\ head = NoHead /\ \A v \in Versions : ~Stored(v)
           /\ \A chunk \in chunkIndex : DeleteOwes(chunk[1])
           /\ \A v \in originals : DeleteOwes(v) \/ IngestOwes(v)

\* The ingest that began last is the current version once it committed, also
\* when its version was current before, or is older than the one it replaces.
NewestIsCurrent ==
    \A k \in DocKeys :
        /\ docSerial /\ DocAtRest
        /\ commands[k].kind = "ingest" /\ docOps[k].status = "committed"
        /\ \A j \in DocKeys \ {k} : docOps[j].at < docOps[k].at
        => head = [version |-> commands[k].version, at |-> docOps[k].at]
=============================================================================
