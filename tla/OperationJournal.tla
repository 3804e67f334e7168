-------------------------- MODULE OperationJournal --------------------------
(***************************************************************************)
(* The idempotent add of the engine: Memory.add (packages/fishmem/src/     *)
(* memory.ts) over the fishmem_operations journal of the SQL store          *)
(* (graph/drizzle-store.ts).  A caller names its write with a key; several *)
(* callers - retries of one client, or clients that picked the same key -  *)
(* run concurrently in different processes and meet only in the database.  *)
(* Every await of the code is a point where another caller may step, a     *)
(* process may die or a provider may throw, so every store call is an      *)
(* action of its own.                                                      *)
(*                                                                         *)
(* Simplifications: one namespace; a record is the identifier the planner  *)
(* drew for it and a content that is the planned one or a user's edit; the *)
(* vector projection is inline; no facts are derived; the attempts counter *)
(* and the timestamps that nothing reads are left out, and so are the      *)
(* entity links and the automatic links of a record (linkEntities,         *)
(* autoLink): a failure of theirs is a warning, and no step reads them.    *)
(***************************************************************************)
EXTENDS Naturals, Sequences, FiniteSets

CONSTANTS
    Callers,        \* calls of add, each one made once
    Keys,           \* idempotency keys
    KeyOf,          \* the key each caller sends
    RequestOf,      \* the request hash of each caller's command
    MaxRecords,     \* bound: records one extraction returns
    Lease,          \* OPERATION_LEASE_MS, in clock ticks
    MaxTime,        \* bound: the clock stops here
    PromptAttempts, \* TRUE: no call is still running when its lease ends
    RepliesLost,    \* TRUE: the commit may take effect and still throw
    UserEdits,      \* the calls whose records users update and purge meanwhile
    Null            \* no plan, no result, no request

Ids == Callers \X (1..MaxRecords)
Plans == UNION {[1..n -> Ids] : n \in 0..MaxRecords}
Requests == {RequestOf[c] : c \in Callers}

ASSUME JournalAssumption ==
    /\ KeyOf \in [Callers -> Keys]
    /\ RequestOf = [c \in Callers |-> RequestOf[c]]
    /\ MaxRecords \in Nat
    /\ Lease \in Nat \ {0}
    /\ MaxTime \in Nat
    /\ {PromptAttempts, RepliesLost} \subseteq BOOLEAN
    /\ UserEdits \subseteq Callers
    /\ Null \notin Plans \cup Requests

VARIABLES
    ops,        \* the fishmem_operations row of each key
    memories,   \* the memories table: the content of each record, or "absent"
    vectors,    \* the vector index: the content each entry was embedded from
    history,    \* how many ADD entries fishmem_history holds of each record
    links,      \* whether the associations of each record are in the graph
    events,     \* the journal events `${operation.id}:add:${id}`
    episodes,   \* the keys whose conversation is archived
    calls,      \* the callers: where each is, and its local variables
    now         \* the wall clock

vars == <<ops, memories, vectors, history, links, events, episodes, calls, now>>
records == <<memories, vectors, history, links>>

Statuses == {"none", "pending", "committed", "failed"}
Contents == {"absent", "planned", "edited"}

\* A row that was never inserted.  A lease of 0 is the NULL of the column.
NoRow == [status |-> "none", request |-> Null, plan |-> Null, lease |-> 0,
          result |-> Null, raw |-> FALSE, vector |-> FALSE]

Rows == [status : Statuses, request : Requests \cup {Null},
         plan : Plans \cup {Null}, lease : Nat, result : Plans \cup {Null},
         raw : BOOLEAN, vector : BOOLEAN]

\* The try block of add: the attempt owns the operation.
AttemptSteps == {"extract", "check", "save", "project", "reproject",
                 "readHistory", "addHistory", "link", "episode", "saveEpisode",
                 "events", "commit"}
Attempting == AttemptSteps \cup {"claimed", "reply", "fail"}
Running == Attempting \cup {"select", "reclaim", "retry"}
Final == {"ok", "error", "crashed"}

Locals == [pc : {"idle"} \cup Running \cup Final, createdAt : Nat,
           seen : Rows, plan : Plans \cup {Null}, at : Nat \ {0}]

TypeOK ==
    /\ ops \in [Keys -> Rows]
    /\ memories \in [Ids -> Contents]
    /\ vectors \in [Ids -> Contents]
    /\ history \in [Ids -> Nat]
    /\ links \in [Ids -> BOOLEAN]
    /\ events \subseteq Ids
    /\ episodes \subseteq Keys
    /\ calls \in [Callers -> Locals]
    /\ now \in Nat

Init ==
    /\ ops = [k \in Keys |-> NoRow]
    /\ memories = [id \in Ids |-> "absent"]
    /\ vectors = [id \in Ids |-> "absent"]
    /\ history = [id \in Ids |-> 0]
    /\ links = [id \in Ids |-> FALSE]
    /\ events = {}
    /\ episodes = {}
    /\ calls = [c \in Callers |-> [pc |-> "idle", createdAt |-> 0,
                                   seen |-> NoRow, plan |-> Null, at |-> 1]]
    /\ now = 0

-----------------------------------------------------------------------------
(* Claiming the operation: DrizzleGraphStore.claimOperation and the checks *)
(* add makes of what it returns.                                           *)

Goto(c, pc) == calls' = [calls EXCEPT ![c].pc = pc]

Refuse(c) == calls' = [calls EXCEPT ![c].pc = "error", ![c].seen = NoRow]

\* Fault: the last record of the plan is left out.
PcAtSkippingLast(plan, i) == IF i < Len(plan) THEN "check" ELSE "episode"

\* Where an attempt is when it turns to the i-th record of its plan.
PcAt(plan, i) == IF i <= Len(plan) THEN "check" ELSE "episode"

\* Fault: sequences start at 1.
ZeroRecord == 0

FirstRecord == 1

\* Enter the try block with the plan found on the row this caller holds.
Attempt(c, plan) ==
    calls' = [calls EXCEPT
                ![c].pc = IF plan = Null THEN "extract" ELSE PcAt(plan, FirstRecord),
                ![c].plan = plan, ![c].at = FirstRecord, ![c].seen = NoRow]

LeaseOf(c) == calls[c].createdAt + Lease

\* INSERT ... ON CONFLICT DO NOTHING inserts: the caller owns a new operation.
InsertOperation(c) ==
    /\ calls[c].pc = "idle"
    /\ ops[KeyOf[c]] = NoRow
    /\ ops' = [ops EXCEPT ![KeyOf[c]] =
                 [status |-> "pending", request |-> RequestOf[c],
                  plan |-> Null, lease |-> now + Lease,
                  result |-> Null, raw |-> FALSE, vector |-> FALSE]]
    /\ calls' = [calls EXCEPT ![c].pc = "claimed", ![c].createdAt = now]
    /\ UNCHANGED <<records, events, episodes, now>>

\* The INSERT finds the key taken.
FindOperation(c) ==
    /\ calls[c].pc = "idle"
    /\ ops[KeyOf[c]] # NoRow
    /\ calls' = [calls EXCEPT ![c].pc = "select", ![c].createdAt = now]
    /\ UNCHANGED <<ops, records, events, episodes, now>>

\* The SELECT after the INSERT.  A caller that finds its own row owns it, also
\* when it was overtaken in between and the row has another's plan by now.
ReadOwnOperation(c) ==
    /\ calls[c].pc = "claimed"
    /\ Attempt(c, ops[KeyOf[c]].plan)
    /\ UNCHANGED <<ops, records, events, episodes, now>>

\* Any other caller has read the row it will decide on.
ReadOperation(c) ==
    /\ calls[c].pc = "select"
    /\ calls' = [calls EXCEPT ![c].pc = "reclaim", ![c].seen = ops[KeyOf[c]]]
    /\ UNCHANGED <<ops, records, events, episodes, now>>

\* Fault: a pending operation is taken from whoever runs it.
ReclaimableAnyTime(row, t) == row.status = "pending"

Reclaimable(row, t) == row.status = "pending" /\ row.lease <= t

\* Fault: the request hash is not compared.
AnyCommand(row, c) == row.status # "none"

SameCommand(row, c) == row.request = RequestOf[c]

\* The compare-and-set takes over a pending row whose lease is past.  The
\* request is compared only afterwards: a caller with another command has
\* renewed the lease by the time it is refused.
ReclaimOperation(c) ==
    LET row == ops[KeyOf[c]] IN
    /\ calls[c].pc = "reclaim"
    /\ Reclaimable(row, calls[c].createdAt)
    /\ ops' = [ops EXCEPT ![KeyOf[c]].lease = LeaseOf(c)]
    /\ IF SameCommand(row, c) THEN Attempt(c, row.plan) ELSE Refuse(c)
    /\ UNCHANGED <<records, events, episodes, now>>

\* The compare-and-set changed no row, and the caller decides on the row it
\* read before: replay a committed result, retry a failed operation, refuse.
UseStoredOperation(c) ==
    LET row == calls[c].seen IN
    /\ calls[c].pc = "reclaim"
    /\ ~Reclaimable(ops[KeyOf[c]], calls[c].createdAt)
    /\ \/ /\ SameCommand(row, c) /\ row.status = "committed"
          /\ calls' = [calls EXCEPT ![c].pc = "ok", ![c].plan = row.result,
                                    ![c].seen = NoRow]
       \/ /\ SameCommand(row, c) /\ row.status = "failed"
          /\ Goto(c, "retry")
       \/ /\ ~SameCommand(row, c) \/ row.status = "pending"
          /\ Refuse(c)
    /\ UNCHANGED <<ops, records, events, episodes, now>>

\* Fault: whatever is not running is run again.
RetryableUnlessPending(row) == row.status # "pending"

Retryable(row) == row.status = "failed"

\* retryOperation: failed -> pending.  The plan is the one of the row read
\* before the compare-and-set, not the one the row has now.
RetryOperation(c) ==
    LET k == KeyOf[c] IN
    /\ calls[c].pc = "retry"
    /\ \/ /\ Retryable(ops[k])
          /\ ops' = [ops EXCEPT ![k].status = "pending", ![k].lease = LeaseOf(c)]
          /\ Attempt(c, calls[c].seen.plan)
       \/ /\ ~Retryable(ops[k])
          /\ Refuse(c)
          /\ UNCHANGED ops
    /\ UNCHANGED <<records, events, episodes, now>>

-----------------------------------------------------------------------------
(* The attempt.                                                            *)

\* Extraction returns n facts, each is given a fresh identifier, and
\* planOperation freezes them on a row that must still be pending.
PlanOperation(c) ==
    LET k == KeyOf[c] IN
    /\ calls[c].pc = "extract"
    /\ \/ /\ ops[k].status = "pending"
          /\ \E n \in 0..MaxRecords :
               LET plan == [i \in 1..n |-> <<c, i>>] IN
               /\ ops' = [ops EXCEPT ![k].plan = plan]
               /\ calls' = [calls EXCEPT ![c].pc = PcAt(plan, FirstRecord),
                                         ![c].plan = plan, ![c].at = FirstRecord]
       \/ /\ ops[k].status # "pending"
          /\ Goto(c, "fail")
          /\ UNCHANGED ops
    /\ UNCHANGED <<records, events, episodes, now>>

Current(c) == calls[c].plan[calls[c].at]

NextRecord(c) ==
    calls' = [calls EXCEPT ![c].at = @ + 1,
                           ![c].pc = PcAt(calls[c].plan, calls[c].at + 1)]

\* Fault: a record that is there is taken for one that is complete.
CheckRecordTrustingRow(c) ==
    /\ calls[c].pc = "check"
    /\ IF memories[Current(c)] = "absent" THEN Goto(c, "save") ELSE NextRecord(c)
    /\ UNCHANGED <<ops, records, events, episodes, now>>

\* createRecord looks its identifier up.  A record that is there with other
\* content is an "idempotent memory collision".
CheckRecord(c) ==
    /\ calls[c].pc = "check"
    /\ \/ memories[Current(c)] = "absent" /\ Goto(c, "save")
       \/ memories[Current(c)] = "planned" /\ Goto(c, "reproject")
       \/ memories[Current(c)] = "edited" /\ Goto(c, "fail")
    /\ UNCHANGED <<ops, records, events, episodes, now>>

\* Fault: an upsert.
SaveRecordOver(c) ==
    /\ calls[c].pc = "save"
    /\ memories' = [memories EXCEPT ![Current(c)] = "planned"]
    /\ Goto(c, "project")
    /\ UNCHANGED <<ops, vectors, history, links, events, episodes, now>>

\* A plain INSERT: a row that appeared since the check is a key violation.
SaveRecord(c) ==
    /\ calls[c].pc = "save"
    /\ \/ /\ memories[Current(c)] = "absent"
          /\ memories' = [memories EXCEPT ![Current(c)] = "planned"]
          /\ Goto(c, "project")
       \/ /\ memories[Current(c)] # "absent"
          /\ Goto(c, "fail")
          /\ UNCHANGED memories
    /\ UNCHANGED <<ops, vectors, history, links, events, episodes, now>>

ProjectRecord(c) ==
    /\ calls[c].pc \in {"project", "reproject"}
    /\ vectors' = [vectors EXCEPT ![Current(c)] = "planned"]
    /\ Goto(c, IF calls[c].pc = "project" THEN "addHistory" ELSE "readHistory")
    /\ UNCHANGED <<ops, memories, history, links, events, episodes, now>>

\* Fault: the ADD entry is added again.
ReadHistoryBlindly(c) ==
    /\ calls[c].pc = "readHistory"
    /\ Goto(c, "addHistory")
    /\ UNCHANGED <<ops, records, events, episodes, now>>

\* An attempt that found its record adds the ADD entry only if none is there.
ReadHistory(c) ==
    /\ calls[c].pc = "readHistory"
    /\ Goto(c, IF history[Current(c)] = 0 THEN "addHistory" ELSE "link")
    /\ UNCHANGED <<ops, records, events, episodes, now>>

AddHistory(c) ==
    /\ calls[c].pc = "addHistory"
    /\ history' = [history EXCEPT ![Current(c)] = @ + 1]
    /\ Goto(c, "link")
    /\ UNCHANGED <<ops, memories, vectors, links, events, episodes, now>>

\* linkAssociations upserts the associations the caller gave the record, also of
\* a record that a resumed attempt found.  Their targets are other memories.
LinkRecord(c) ==
    /\ calls[c].pc = "link"
    /\ links' = [links EXCEPT ![Current(c)] = TRUE]
    /\ NextRecord(c)
    /\ UNCHANGED <<ops, memories, vectors, history, events, episodes, now>>

\* The raw conversation is archived last, under `episode:${operation.id}`, unless
\* an earlier attempt did.
ReadEpisode(c) ==
    /\ calls[c].pc = "episode"
    /\ Goto(c, IF KeyOf[c] \in episodes THEN "events" ELSE "saveEpisode")
    /\ UNCHANGED <<ops, records, events, episodes, now>>

\* A plain INSERT: an episode that appeared since is a key violation.
ArchiveEpisode(c) ==
    /\ calls[c].pc = "saveEpisode"
    /\ Goto(c, IF KeyOf[c] \in episodes THEN "fail" ELSE "events")
    /\ episodes' = episodes \cup {KeyOf[c]}
    /\ UNCHANGED <<ops, records, events, now>>

PlannedIds(plan) == {plan[i] : i \in 1..Len(plan)}

\* add reads every record back and completeOperation inserts its event.
AppendEvents(c) ==
    /\ calls[c].pc = "events"
    /\ \/ /\ \A id \in PlannedIds(calls[c].plan) : memories[id] # "absent"
          /\ events' = events \cup PlannedIds(calls[c].plan)
          /\ Goto(c, "commit")
       \/ /\ \E id \in PlannedIds(calls[c].plan) : memories[id] = "absent"
          /\ Goto(c, "fail")
          /\ UNCHANGED events
    /\ UNCHANGED <<ops, records, episodes, now>>

\* The UPDATE of completeOperation names the row by its id alone.
CommitOperation(c) ==
    /\ calls[c].pc = "commit"
    /\ ops' = [ops EXCEPT ![KeyOf[c]].status = "committed",
                          ![KeyOf[c]].result = calls[c].plan,
                          ![KeyOf[c]].lease = 0,
                          ![KeyOf[c]].raw = TRUE, ![KeyOf[c]].vector = TRUE]
    /\ Goto(c, "reply")
    /\ UNCHANGED <<records, events, episodes, now>>

Reply(c) ==
    /\ calls[c].pc = "reply"
    /\ Goto(c, "ok")
    /\ UNCHANGED <<ops, records, events, episodes, now>>

-----------------------------------------------------------------------------
(* Failure: the catch block, the death of a process, the clock.            *)

\* A provider or the database throws out of any step of the try block; a
\* lost reply makes a commit that happened look like one that did not.
StepThrows(c) ==
    /\ \/ calls[c].pc \in AttemptSteps
       \/ RepliesLost /\ calls[c].pc = "reply"
    /\ Goto(c, "fail")
    /\ UNCHANGED <<ops, records, events, episodes, now>>

\* inspectAddProjections and failOperation, which names the row by id alone.
FailOperation(c) ==
    LET plan == calls[c].plan
        raw == plan # Null
               /\ \A id \in PlannedIds(plan) : memories[id] # "absent"
        vector == raw /\ \A id \in PlannedIds(plan) : vectors[id] # "absent"
    IN
    /\ calls[c].pc = "fail"
    /\ ops' = [ops EXCEPT ![KeyOf[c]].status = "failed",
                          ![KeyOf[c]].lease = 0,
                          ![KeyOf[c]].raw = raw, ![KeyOf[c]].vector = vector]
    /\ Goto(c, "error")
    /\ UNCHANGED <<records, events, episodes, now>>

\* The process dies, or the database cannot be reached outside the try block:
\* by the claim, or by failOperation itself.
Crash(c) ==
    /\ calls[c].pc \in Running
    /\ Goto(c, "crashed")
    /\ UNCHANGED <<ops, records, events, episodes, now>>

Tick ==
    /\ now < MaxTime
    /\ PromptAttempts =>
         \A c \in Callers : calls[c].pc \in Running => now + 1 < LeaseOf(c)
    /\ now' = now + 1
    /\ UNCHANGED <<ops, records, events, episodes, calls>>

-----------------------------------------------------------------------------
(* Users who update or purge records meanwhile, each in one step here.     *)

EditRecord(id) ==
    /\ id[1] \in UserEdits
    /\ memories[id] = "planned"
    /\ memories' = [memories EXCEPT ![id] = "edited"]
    /\ vectors' = [vectors EXCEPT ![id] = "edited"]
    /\ UNCHANGED <<ops, history, links, events, episodes, calls, now>>

PurgeRecord(id) ==
    /\ id[1] \in UserEdits
    /\ memories[id] # "absent"
    /\ memories' = [memories EXCEPT ![id] = "absent"]
    /\ vectors' = [vectors EXCEPT ![id] = "absent"]
    /\ history' = [history EXCEPT ![id] = 0]
    /\ links' = [links EXCEPT ![id] = FALSE]
    /\ UNCHANGED <<ops, events, episodes, calls, now>>

\* Every call has returned or died.
AllReturned ==
    /\ \A c \in Callers : calls[c].pc \in Final
    /\ UNCHANGED vars

Step(c) ==
    \/ InsertOperation(c) \/ FindOperation(c) \/ ReadOwnOperation(c)
    \/ ReadOperation(c) \/ ReclaimOperation(c) \/ UseStoredOperation(c)
    \/ RetryOperation(c) \/ PlanOperation(c)
    \/ CheckRecord(c) \/ SaveRecord(c) \/ ProjectRecord(c) \/ ReadHistory(c)
    \/ AddHistory(c) \/ LinkRecord(c) \/ ReadEpisode(c) \/ ArchiveEpisode(c)
    \/ AppendEvents(c) \/ CommitOperation(c) \/ Reply(c)
    \/ StepThrows(c) \/ FailOperation(c) \/ Crash(c)

Next ==
    \/ \E c \in Callers : Step(c)
    \/ \E id \in Ids : EditRecord(id) \/ PurgeRecord(id)
    \/ Tick
    \/ AllReturned

Spec == Init /\ [][Next]_vars

-----------------------------------------------------------------------------
(* What the journal promises.                                              *)

\* At most one call is inside the try block of add for a key: the lease and
\* the compare-and-sets keep two processes from running one operation.
\* Holds when no call outlives its lease (PromptAttempts).
OneAttempt ==
    \A c, d \in Callers :
        /\ KeyOf[c] = KeyOf[d]
        /\ calls[c].pc \in AttemptSteps
        /\ calls[d].pc \in AttemptSteps
        => c = d

\* All callers of a key that get an answer get the same one: the retry that
\* replays, the retry that resumes and the first caller agree on the result.
\* Holds of calls that end within their lease: the commit names its row by id alone.
AgreeOnResult ==
    \A c, d \in Callers :
        /\ KeyOf[c] = KeyOf[d]
        /\ calls[c].pc = "ok"
        /\ calls[d].pc = "ok"
        => calls[c].plan = calls[d].plan

\* A committed operation stays committed, with its result.
CommittedIsFinal ==
    [][\A k \in Keys : ops[k].status = "committed" =>
          ops'[k].status = "committed" /\ ops'[k].result = ops[k].result]_vars

\* An answered caller, and a committed row, speak of records that have their
\* journal event and, unless users edited them, exist, are in the recall index
\* and have their ADD history and their associations, whichever attempts wrote
\* them and wherever those died.
Durable(result) ==
    \A id \in PlannedIds(result) :
        /\ id \in events
        /\ id[1] \notin UserEdits =>
              /\ memories[id] = "planned"
              /\ vectors[id] = "planned"
              /\ history[id] > 0
              /\ links[id]
AcknowledgedIsDurable ==
    /\ \A c \in Callers : calls[c].pc = "ok" => Durable(calls[c].plan)
    /\ \A k \in Keys : ops[k].status = "committed" => Durable(ops[k].result)

\* What is acknowledged is durable, and the history of a record has one ADD
\* entry however often its write was interrupted and resumed: a resumed attempt
\* completes what is missing and repeats nothing.
ResumedExactly == AcknowledgedIsDurable /\ \A id \in Ids : history[id] <= 1

\* Every record written under a key comes from the command that claimed the
\* key: a caller that reuses the key for another command writes nothing,
\* also when it is the one that takes over the abandoned operation.
RecordsMatchRequest ==
    \A id \in Ids : memories[id] # "absent" =>
        RequestOf[id[1]] = ops[KeyOf[id[1]]].request

\* The raw conversation is retained only after canonical storage succeeded:
\* an archived episode has all the records of some plan of its key, those that
\* users purged excepted.
EpisodeLast ==
    \A k \in episodes :
        \E plan \in Plans :
            /\ \A id \in PlannedIds(plan) :
                   /\ KeyOf[id[1]] = k
                   /\ id[1] \in UserEdits \/ memories[id] # "absent"
            /\ \/ plan = ops[k].plan
               \/ \E c \in Callers : KeyOf[c] = k /\ calls[c].plan = plan

\* What survives overruns and lost replies: what is acknowledged is durable, an
\* archived episode has its records, and every record comes from the command
\* that owns its key.
SafeAfterOverruns == AcknowledgedIsDurable /\ EpisodeLast /\ RecordsMatchRequest

\* A user's edit of a record survives the retries of the add that wrote it.
EditSurvivesRetry ==
    [][\A id \in Ids : memories[id] = "edited" => memories'[id] # "planned"]_vars

\* The journal implements the promise of an idempotency key: a row's request
\* is the key's owner, its result column the outcome, a returned call's value
\* the answer.  Leases, failures, crashes, resumed and re-run attempts are
\* stutters.  Holds for prompt attempts whose commit replies are not lost.
Abstract == INSTANCE IdempotentWrite WITH
    Outcomes <- Plans,
    owner <- [k \in Keys |-> ops[k].request],
    outcome <- [k \in Keys |-> ops[k].result],
    answer <- [c \in Callers |->
                 IF calls[c].pc = "ok" THEN calls[c].plan ELSE Null]
Implementation == Abstract!Spec

-----------------------------------------------------------------------------
(* Why it holds: the inductive invariant of prompt attempts.               *)

\* An attempt past its extraction holds a plan.
WithPlan == Attempting \ {"claimed", "extract", "fail"}
PlanHeld == \A c \in Callers : calls[c].pc \in WithPlan => calls[c].plan \in Plans

\* No call is older than the lease it wrote or may still write.
InTime ==
    \A c \in Callers : calls[c].pc \in Running =>
        calls[c].createdAt <= now /\ now < LeaseOf(c)

\* The row of an attempt is pending under that attempt's own lease, which is
\* in the future: nobody can reclaim it, and nobody can retry it.
Leased(c) ==
    ops[KeyOf[c]].status = "pending" /\ ops[KeyOf[c]].lease = LeaseOf(c)

RowHeld ==
    \A c \in Callers :
        /\ calls[c].pc \in AttemptSteps \cup {"claimed"} => Leased(c)
        /\ calls[c].pc = "reply" => ops[KeyOf[c]].status = "committed"
        /\ calls[c].pc = "fail" =>
              Leased(c) \/ (RepliesLost /\ ops[KeyOf[c]].status = "committed")

Alone ==
    \A c, d \in Callers :
        /\ KeyOf[c] = KeyOf[d]
        /\ calls[c].pc \in Attempting
        /\ calls[d].pc \in Attempting
        => c = d

\* Answers, and answers about to be given, are the result of the row.
ResultsAgree ==
    \A c \in Callers :
        LET row == ops[KeyOf[c]] IN
        /\ calls[c].pc \in {"reply", "ok"} =>
              row.status = "committed" /\ row.result = calls[c].plan
        /\ calls[c].pc = "reclaim" /\ calls[c].seen.status = "committed" =>
              row.status = "committed" /\ row.result = calls[c].seen.result

\* A row is bound to one request from its insertion on, and whoever is past
\* the comparison of requests runs or was told about that request.
Bound ==
    /\ \A k \in Keys : ops[k].request = Null => ops[k] = NoRow
    /\ \A c \in Callers :
        LET row == ops[KeyOf[c]] IN
        /\ calls[c].pc \in Attempting \cup {"retry", "ok"} =>
              row.request = RequestOf[c]
        /\ calls[c].pc = "select" => row.request # Null
        /\ calls[c].pc = "reclaim" =>
              row.request # Null /\ row.request = calls[c].seen.request

\* A row has a result exactly when it is committed.
OneResult ==
    \A k \in Keys : ops[k].status = "committed" <=> ops[k].result # Null

\* With prompt attempts, a row in an attempt's hands is that attempt's alone;
\* if no commit is taken for a failure, results agree as well.
JournalInv ==
    /\ PlanHeld
    /\ PromptAttempts => InTime /\ RowHeld /\ Alone
    /\ PromptAttempts /\ ~RepliesLost => ResultsAgree /\ Bound /\ OneResult
=============================================================================
