--------------------------- MODULE RecordMutations ---------------------------
(***************************************************************************)
(* The mutations of one stored memory: update, feedback, delete, purge and *)
(* invalidate of the engine (packages/fishmem/src/memory.ts), each run     *)
(* through executeMutation, deleteAll of the scope the memory is in, and   *)
(* the checks that the application (packages/application/src/index.ts)     *)
(* makes before an update or a feedback.  A record is spread over stores   *)
(* that share no transaction: its row, its entry in the vector index, its  *)
(* history, the operation and its journal event.                           *)
(* Every store call is a step; calls of different keys interleave freely,  *)
(* since the idempotency key is all that excludes anybody.                 *)
(*                                                                         *)
(* A key stands for one command: the content, the importance and the time  *)
(* stamp that command writes are the key itself.  The claim of a key is    *)
(* one step (OperationJournal has its interleavings): a pending operation  *)
(* is taken over only after the process that ran it died.                  *)
(* A scope has this one record.                                            *)
(* Left out: beliefs and slot summaries (both off by default), successors  *)
(* of an invalidated record, metadata (which is written like content), the *)
(* rating a feedback gives, the episodes of a scope, and the rawStatus of  *)
(* an operation, which says of a failed one whether its row was found as   *)
(* the command leaves it.                                                  *)
(***************************************************************************)
EXTENDS Naturals, FiniteSets

CONSTANTS
    Keys,       \* idempotency keys
    Calls,      \* calls of the API, each made once
    KeyOf,      \* the key each call sends; two calls of a key are retries
    Serials,    \* BOOLEAN, {TRUE}: calls do not overlap, {FALSE}: they may
    MaxOverlap, \* bound: calls made in a behaviour in which they may overlap
    Original,   \* the content, importance and time stamp add gave the record
    Absent      \* no row, no vector, no version asserted

Kinds == {"update", "reweigh", "feedback", "delete", "purge", "invalidate",
          "deleteAll"}
Values == Keys \cup {Original}

ASSUME MutationAssumption ==
    /\ KeyOf \in [Calls -> Keys]
    /\ Serials \subseteq BOOLEAN
    /\ MaxOverlap \in Nat
    /\ Absent \notin Keys
    /\ Original \notin Keys
    /\ Absent # Original

VARIABLES
    serial,     \* does a call begin only when no other is running?
    kinds,      \* what each key's command is; a reweigh patches importance only
    asserted,   \* the version each key's client read and asserts, or Absent
    row,        \* the row of the memory
    vector,     \* the content its vector was embedded from
    history,    \* keys with an entry `${operation.id}:history`
    events,     \* keys with a journal event
    ops,        \* the operation of each key
    calls       \* the calls and their local variables; `done` is what a delete did

vars == <<serial, kinds, asserted, row, vector, history, events, ops, calls>>
record == <<row, vector, history>>
commands == <<serial, kinds, asserted>>

Rows == [content : Values, importance : Values, version : Values,
         forgotten : BOOLEAN, validTo : Keys \cup {Absent}]

NoRow == [content |-> Absent, importance |-> Absent, version |-> Absent,
          forgotten |-> FALSE, validTo |-> Absent]

Present(r) == r # NoRow

\* `before` is the row an operation found when it was inserted, or NoRow; of
\* a deleteAll, the row it found when it froze its plan, if it planned one.
\* `vector` is its vectorStatus: ready or pending.
NoOperation == [status |-> "none", before |-> NoRow, planned |-> FALSE,
                done |-> FALSE, vector |-> FALSE]

Operations == [status : {"none", "pending", "committed", "failed"},
               before : Rows \cup {NoRow}, planned : BOOLEAN,
               done : BOOLEAN, vector : BOOLEAN]

Performing == {"read", "plan", "write", "vector", "history", "event", "commit"}
Failing == {"fail", "inspect", "record"}
Running == Performing \cup Failing \cup {"begin", "claim"}
Returned == {"ok", "notFound", "conflict", "refused", "failed", "crashed"}

NewCall == [pc |-> "idle", before |-> NoRow, current |-> NoRow,
            done |-> FALSE, vectorReady |-> FALSE]

TypeOK ==
    /\ serial \in BOOLEAN
    /\ kinds \in [Keys -> Kinds]
    /\ asserted \in [Keys -> Values \cup {Absent}]
    /\ row \in Rows \cup {NoRow}
    /\ vector \in Values \cup {Absent}
    /\ history \subseteq Keys
    /\ events \subseteq Keys
    /\ ops \in [Keys -> Operations]
    /\ calls \in [Calls -> [pc : {"idle"} \cup Running \cup Returned,
                            before : Rows \cup {NoRow},
                            current : Rows \cup {NoRow},
                            done : BOOLEAN, vectorReady : BOOLEAN]]
    /\ \A c \in Calls : calls[c].pc = "write" =>
         Present(calls[c].current) \/ kinds[KeyOf[c]] = "deleteAll"

\* The record was added and indexed; nobody has touched it.
Init ==
    /\ serial \in Serials
    /\ kinds \in [Keys -> Kinds]
    /\ asserted = [k \in Keys |-> Absent]
    /\ row = [content |-> Original, importance |-> Original,
              version |-> Original, forgotten |-> FALSE, validTo |-> Absent]
    /\ vector = Original
    /\ history = {}
    /\ events = {}
    /\ ops = [k \in Keys |-> NoOperation]
    /\ calls = [c \in Calls |-> NewCall]

Kind(c) == kinds[KeyOf[c]]
IsUpdate(k) == kinds[k] \in {"update", "reweigh"}

\* Fault: a row that is not there is not forgotten either.
LiveAnyway(r) == ~r.forgotten

Live(r) == Present(r) /\ ~r.forgotten

Goto(c, pc) == calls' = [calls EXCEPT ![c].pc = pc]

\* A call ends; done is what a delete or a purge is answered.
Return(c, pc, done) ==
    calls' = [calls EXCEPT ![c] = [NewCall EXCEPT !.pc = pc, !.done = done]]

At(c, pc) == calls[c].pc = pc

\* A client reads the record and will assert its version in its update.
ReadVersion(k) ==
    /\ IsUpdate(k)
    /\ asserted[k] = Absent
    /\ Live(row)
    /\ \A c \in Calls : KeyOf[c] = k => At(c, "idle")
    /\ asserted' = [asserted EXCEPT ![k] = row.version]
    /\ UNCHANGED <<serial, kinds, record, events, ops, calls>>

-----------------------------------------------------------------------------
(* Before the operation: the application's check, the engine's first read, *)
(* and the claim.                                                          *)

\* Which calls clients make.
MayStart ==
    IF serial THEN \A d \in Calls : calls[d].pc \notin Running
    ELSE Cardinality({d \in Calls : ~At(d, "idle")}) < MaxOverlap

\* Fault: any version will do.
AnyVersion(k) == row.version \in Values

VersionMatches(k) == asserted[k] \in {Absent, row.version}

\* MemoryApplication.update and setFeedback: a record that is not there, a
\* version that is not the current one, or on to the engine.  Other commands
\* go straight on.
Arrive(c) ==
    LET k == KeyOf[c] IN
    /\ At(c, "idle")
    /\ MayStart
    /\ IF ~IsUpdate(k) /\ Kind(c) # "feedback" THEN Goto(c, "begin")
       ELSE \/ ~Live(row) /\ Return(c, "notFound", FALSE)
            \/ Live(row) /\ ~VersionMatches(k) /\ Return(c, "conflict", FALSE)
            \/ Live(row) /\ VersionMatches(k) /\ Goto(c, "begin")
    /\ UNCHANGED <<commands, record, events, ops>>

\* What the engine's own first read must find, per kind.
Found(c) ==
    \/ Kind(c) \in {"delete", "purge", "deleteAll"}
    \/ IsUpdate(KeyOf[c]) /\ Present(row)
    \/ Kind(c) \in {"invalidate", "feedback"} /\ Live(row)

\* The row as `command.before`; delete takes a tombstone for no record, and
\* deleteAll looks at the records later.  The namespace looks for a live
\* record before an update, the engine after that for any row.
Begin(c) ==
    /\ At(c, "begin")
    /\ \/ /\ Found(c)
          /\ calls' = [calls EXCEPT ![c].pc = "claim",
                          ![c].before = IF \/ Kind(c) = "delete" /\ ~Live(row)
                                           \/ Kind(c) = "deleteAll"
                                        THEN NoRow ELSE row]
       \/ /\ ~Found(c) \/ (IsUpdate(KeyOf[c]) /\ ~Live(row))
          /\ Return(c, "notFound", FALSE)
    /\ UNCHANGED <<commands, record, events, ops>>

\* Is a process still performing the operation of k?
Owned(k) ==
    \E c \in Calls : KeyOf[c] = k /\ calls[c].pc \in Performing \cup Failing

\* Fault: a committed operation is performed again.
ResumableUnlessOwned(k) == ops[k].status # "none" /\ ~Owned(k)

\* Failed, or abandoned by a process that died.
Resumable(k) ==
    \/ ops[k].status = "failed"
    \/ ops[k].status = "pending" /\ ~Owned(k)

\* The attempt works on the operation's command, not on what this call read.
Perform(c) == calls' = [calls EXCEPT ![c] = [NewCall EXCEPT !.pc = "read"]]

\* claimOperation and what executeMutation makes of it.
Claim(c) ==
    LET k == KeyOf[c] IN
    /\ At(c, "claim")
    /\ \/ /\ ops[k].status = "none"
          /\ ops' = [ops EXCEPT ![k].status = "pending",
                                ![k].before = calls[c].before]
          /\ Perform(c)
       \/ /\ Resumable(k)
          /\ ops' = [ops EXCEPT ![k].status = "pending"]
          /\ Perform(c)
       \/ /\ ops[k].status = "committed"
          /\ Return(c, "ok", ops[k].done)
          /\ UNCHANGED ops
       \/ /\ ops[k].status = "pending"
          /\ Return(c, "refused", FALSE)
          /\ UNCHANGED ops
    /\ UNCHANGED <<commands, record, events>>

-----------------------------------------------------------------------------
(* The operation: spec.perform, one store call at a time.                  *)

\* perform reads the record again.
ReadCurrent(c) ==
    /\ At(c, "read")
    /\ Kind(c) \notin {"feedback", "deleteAll"}
    /\ calls' = [calls EXCEPT
         ![c].current = row, ![c].vectorReady = FALSE,
         ![c].done = Kind(c) = "purge" /\ Present(row),
         ![c].pc =
            IF Kind(c) = "purge" THEN IF Present(row) THEN "write" ELSE "vector"
            ELSE IF Live(row) THEN "write"
            ELSE IF Kind(c) = "delete" THEN "vector" ELSE "fail"]
    /\ UNCHANGED <<commands, record, events, ops>>

\* A feedback looks at the record and leaves it as it is.
ReadRated(c) ==
    /\ At(c, "read")
    /\ Kind(c) = "feedback"
    /\ Goto(c, IF Live(row) THEN "history" ELSE "fail")
    /\ UNCHANGED <<commands, record, events, ops>>

\* deleteAll lists the live records of the scope, unless an earlier attempt
\* froze its list on the operation.
ListRecords(c) ==
    LET op == ops[KeyOf[c]] IN
    /\ At(c, "read")
    /\ Kind(c) = "deleteAll"
    /\ calls' = [calls EXCEPT
         ![c].pc = IF op.planned THEN "write" ELSE "plan",
         ![c].current = IF op.planned THEN op.before
                        ELSE IF Live(row) THEN row ELSE NoRow]
    /\ UNCHANGED <<commands, record, events, ops>>

PlanOperation(c) ==
    /\ At(c, "plan")
    /\ ops' = [ops EXCEPT ![KeyOf[c]].before = calls[c].current,
                          ![KeyOf[c]].planned = TRUE]
    /\ Goto(c, "write")
    /\ UNCHANGED <<commands, record, events>>

\* Fault: the row found when the operation was inserted is the one patched.
BaseOfOperation(c) == ops[KeyOf[c]].before

Base(c) == calls[c].current

\* The full row an update or an invalidation writes: the one it read, patched.
Patched(c) ==
    LET k == KeyOf[c] IN
    CASE Kind(c) = "update"     -> [Base(c) EXCEPT !.content = k, !.version = k]
      [] Kind(c) = "reweigh"    -> [Base(c) EXCEPT !.importance = k, !.version = k]
      [] Kind(c) = "invalidate" -> [Base(c) EXCEPT !.validTo = k, !.version = k]

\* Fault: an upsert.
StoredAnyway(new) == row' = new

\* updateMemory is an UPDATE: it changes nothing if the row is gone.
Stored(new) == row' = IF Present(row) THEN new ELSE NoRow

\* The copy of the row is not looked at again.
Written(c, pc, done) ==
    calls' = [calls EXCEPT ![c].pc = pc, ![c].current = NoRow, ![c].done = done]

\* updateMemory, forget or deleteMemories.  forget looks before it writes:
\* it may see the record, or see that it is no longer live.
WriteRow(c) ==
    /\ At(c, "write")
    /\ Kind(c) # "deleteAll"
    /\ \/ /\ Kind(c) \in {"update", "reweigh", "invalidate"}
          /\ Stored(Patched(c))
          /\ Written(c, IF Kind(c) = "update" THEN "vector" ELSE "history", FALSE)
          /\ UNCHANGED history
       \/ /\ Kind(c) = "delete"
          /\ row' = IF Present(row)
                    THEN [row EXCEPT !.forgotten = TRUE, !.version = KeyOf[c]]
                    ELSE NoRow
          /\ Written(c, "vector", TRUE)
          /\ UNCHANGED history
       \/ /\ Kind(c) = "delete" /\ ~Live(row)
          /\ Written(c, "vector", FALSE)
          /\ UNCHANGED <<row, history>>
       \/ /\ Kind(c) = "purge"
          /\ row' = NoRow
          /\ history' = {}
          /\ Written(c, "vector", TRUE)
    /\ UNCHANGED <<commands, vector, events, ops>>

\* deleteMemories of the ids on the list, which may be none.
DeleteListed(c) ==
    LET listed == Present(calls[c].current) IN
    /\ At(c, "write")
    /\ Kind(c) = "deleteAll"
    /\ IF listed THEN row' = NoRow /\ history' = {} ELSE UNCHANGED <<row, history>>
    /\ Written(c, "vector", listed)
    /\ UNCHANGED <<commands, vector, events, ops>>

\* Fault: a vector that could not be deleted counts as deleted.
DeletedAnyway(ok) == TRUE

DeletedFromIndex(ok) == ok

\* deleteAll did not list the record.
NothingToRemove(c) == Kind(c) = "deleteAll" /\ ~calls[c].done

\* An update embeds the content it wrote.  deleteVectorIndexEntry swallows an
\* error and reports it as a projection that is still pending.
ProjectVector(c) ==
    /\ At(c, "vector")
    /\ \/ /\ Kind(c) = "update"
          /\ vector' = KeyOf[c]
          /\ calls' = [calls EXCEPT ![c].pc = "history", ![c].vectorReady = TRUE]
       \/ /\ NothingToRemove(c)
          /\ calls' = [calls EXCEPT ![c].pc = "event", ![c].vectorReady = TRUE]
          /\ UNCHANGED vector
       \/ /\ Kind(c) \in {"delete", "purge", "deleteAll"} /\ ~NothingToRemove(c)
          /\ \E ok \in BOOLEAN :
               /\ vector' = IF ok THEN Absent ELSE vector
               /\ calls' = [calls EXCEPT
                     ![c].pc = IF Kind(c) = "delete" THEN "history" ELSE "event",
                     ![c].vectorReady = DeletedFromIndex(ok)]
    /\ UNCHANGED <<commands, row, history, events, ops>>

\* Fault: only the attempt that set the tombstone writes history.
RecordedIfDone(c) == Kind(c) # "delete" \/ calls[c].done

Recorded(c) == Kind(c) # "delete" \/ Present(ops[KeyOf[c]].before)

\* The entry has the operation's identity: repeating it adds nothing.
AddHistory(c) ==
    /\ At(c, "history")
    /\ history' = IF Recorded(c) THEN history \cup {KeyOf[c]} ELSE history
    /\ Goto(c, "event")
    /\ UNCHANGED <<commands, row, vector, events, ops>>

\* completeOperation: first the event, then the operation.
AppendEvent(c) ==
    /\ At(c, "event")
    /\ events' = events \cup {KeyOf[c]}
    /\ Goto(c, "commit")
    /\ UNCHANGED <<commands, record, ops>>

\* Fault: a resumed operation reports its last attempt only.
ResultOfAttempt(c) == calls[c].done

\* `deleted || Boolean(before)`, `Boolean(current || before)`.
Result(c) ==
    \/ Kind(c) \notin {"delete", "purge", "deleteAll"}
    \/ calls[c].done
    \/ Present(ops[KeyOf[c]].before)

CommitOperation(c) ==
    LET k == KeyOf[c]
        done == Result(c)
    IN
    /\ At(c, "commit")
    /\ ops' = [ops EXCEPT ![k].status = "committed", ![k].done = done,
                 ![k].vector = calls[c].vectorReady
                               \/ Kind(c) \in {"reweigh", "invalidate"}]
    /\ Return(c, "ok", done)
    /\ UNCHANGED <<commands, record, events>>

-----------------------------------------------------------------------------
(* Failure.                                                                *)

\* A store or the embedder throws, before or after its effect.
StepThrows(c) ==
    /\ calls[c].pc \in Performing
    /\ calls' = [calls EXCEPT ![c] = [NewCall EXCEPT !.pc = "fail"]]
    /\ UNCHANGED <<commands, record, events, ops>>

\* Is the row r what the command of k leaves?
RawReady(k, r) ==
    CASE kinds[k] = "update"     -> r.content = k
      [] kinds[k] = "reweigh"    -> r.importance = k
      [] kinds[k] = "invalidate" -> r.validTo = k
      [] kinds[k] = "delete"     -> r.forgotten
      [] kinds[k] = "purge"      -> ~Present(r)
      [] kinds[k] \in {"feedback", "deleteAll"} -> FALSE

\* Fault: the index is taken for what it should be.
ReadyAnyway(k, r) == TRUE

\* Is the vector what goes with the row r?
VectorReady(k, r) == vector = IF IsUpdate(k) THEN r.content ELSE Absent

\* inspectMutationProjections reads the row, and takes a read that is rejected
\* for no row.  An invalidation has no vector to look at.
InspectRow(c) ==
    LET k == KeyOf[c] IN
    /\ At(c, "fail")
    /\ Kind(c) # "deleteAll"
    /\ \E found \in {row, NoRow} :
         calls' = [calls EXCEPT ![c] =
           IF Kind(c) = "invalidate" \/ ~RawReady(k, found)
           THEN [NewCall EXCEPT !.pc = "record",
                                !.vectorReady = RawReady(k, found)]
           ELSE [NewCall EXCEPT !.pc = "inspect", !.current = found]]
    /\ UNCHANGED <<commands, record, events, ops>>

\* Then the vector; a read that is rejected is not ready.
InspectVector(c) ==
    /\ At(c, "inspect")
    /\ \E ok \in BOOLEAN :
         calls' = [calls EXCEPT ![c].pc = "record", ![c].current = NoRow,
           ![c].vectorReady = ok /\ VectorReady(KeyOf[c], calls[c].current)]
    /\ UNCHANGED <<commands, record, events, ops>>

\* failOperation with what was seen; nothing is inspected for a deleteAll.
FailOperation(c) ==
    LET k == KeyOf[c] IN
    /\ At(c, "record") \/ (At(c, "fail") /\ Kind(c) = "deleteAll")
    /\ ops' = [ops EXCEPT ![k].status = "failed",
                          ![k].vector = calls[c].vectorReady]
    /\ Return(c, "failed", FALSE)
    /\ UNCHANGED <<commands, record, events>>

\* The process dies, or cannot record its failure.
Crash(c) ==
    /\ calls[c].pc \in Running
    /\ Return(c, "crashed", FALSE)
    /\ UNCHANGED <<commands, record, events, ops>>

AllReturned ==
    /\ \A c \in Calls : calls[c].pc \in Returned \cup {"idle"}
    /\ MayStart => \A c \in Calls : ~At(c, "idle")
    /\ UNCHANGED vars

Step(c) ==
    \/ Arrive(c) \/ Begin(c) \/ Claim(c) \/ ReadCurrent(c) \/ ReadRated(c)
    \/ ListRecords(c) \/ PlanOperation(c) \/ WriteRow(c) \/ DeleteListed(c)
    \/ ProjectVector(c) \/ AddHistory(c) \/ AppendEvent(c)
    \/ CommitOperation(c) \/ StepThrows(c) \/ InspectRow(c) \/ InspectVector(c)
    \/ FailOperation(c) \/ Crash(c)

Next ==
    \/ \E k \in Keys : ReadVersion(k)
    \/ \E c \in Calls : Step(c)
    \/ AllReturned

Spec == Init /\ [][Next]_vars

-----------------------------------------------------------------------------
(* What mutations promise.                                                 *)

AtRest == \A c \in Calls : calls[c].pc \notin Running

\* The journal calls a write, or what a failed attempt left of it, fully indexed.
Indexed(k) == ops[k].status \in {"committed", "failed"} /\ ops[k].vector

\* apps/docs/content/docs/open-source/architecture.mdx: "The operation journal
\* tracks projection status so operators can distinguish a fully indexed write
\* from a stored write that still needs repair or retry."  When nothing runs
\* and the index disagrees with the row, the operation that wrote the row's
\* content, or a deletion of it, is not reported as fully indexed.  Holds for
\* calls that do not overlap.
DriftIsVisible == serial =>
    /\ AtRest /\ Live(row) /\ vector # row.content =>
          row.content \in Keys /\ ~Indexed(row.content)
    /\ AtRest /\ ~Live(row) /\ vector # Absent =>
          \E k \in Keys : /\ kinds[k] \in {"delete", "purge", "deleteAll"}
                         /\ ops[k].status # "none" /\ ~Indexed(k)

\* apps/docs/content/docs/sdk/memories.mdx: "Delete creates a tombstone and
\* removes the memory from recall."  No later mutation, resumed or not, takes
\* the tombstone off.
TombstoneIsFinal ==
    [][row.forgotten => row'.forgotten \/ ~Present(row')]_vars

\* What ended stays ended.  A purged record does not come back, whatever was
\* in flight.  Of calls that do not overlap, a record that was marked as no
\* longer true does not become true again by an update that was begun, or is
\* resumed, after the invalidation.
EndedIsFinal ==
    [][/\ ~Present(row) => ~Present(row')
       /\ serial /\ row.validTo # Absent => row'.validTo # Absent \/ ~Present(row')]_vars

\* apps/docs/content/docs/cloud/memory-operations/update.mdx: "A stale `version`
\* returns `409 VERSION_CONFLICT` instead of overwriting a concurrent
\* correction."  An update that asserts a version writes over that version, or
\* over itself.  Holds for calls that do not overlap.
NoLostUpdate ==
    [][\A c \in Calls :
          LET k == KeyOf[c] IN
          /\ serial /\ asserted[k] # Absent
          /\ calls[c].pc = "write" /\ calls'[c].pc # "write"
          /\ row' # row
          => row.version \in {asserted[k], k}]_vars

\* Of calls that do not overlap, a delete whose tombstone is on the record
\* answers that it deleted it, also when the attempt that set the tombstone was
\* not the one that answered.  (Of calls that overlap, it may not: a delete of
\* a forgotten record has no row on its operation, and if an update in flight
\* takes the tombstone off and the delete sets it again and dies, its retry
\* finds nothing to delete.)  A purge or a deleteAll that answers that it
\* removed the record did, from whatever attempt its plan is.
EffectIsReported ==
    \A k \in Keys : ops[k].status = "committed" =>
        /\ serial /\ kinds[k] = "delete" /\ row.forgotten /\ row.version = k => ops[k].done
        /\ kinds[k] \in {"purge", "deleteAll"} /\ ops[k].done => ~Present(row)

\* What a committed mutation answers is true, and it has its journal event, and
\* its history entry unless the record was purged.
AnswerIsTrue ==
    /\ EffectIsReported
    /\ \A k \in Keys : ops[k].status = "committed" =>
         /\ k \in events
         /\ \/ kinds[k] \in {"purge", "deleteAll"}
            \/ kinds[k] = "delete" /\ ~Present(ops[k].before)
            \/ k \in history
            \/ ~Present(row)

\* A retry of a committed command changes nothing, neither the record nor the
\* journal, whatever has been written to the record since.
ReplayChangesNothing ==
    [][\A c \in Calls :
          /\ calls'[c] # calls[c]
          /\ ops[KeyOf[c]].status = "committed"
          => UNCHANGED <<record, events, ops>>]_vars
=============================================================================
