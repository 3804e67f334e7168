------------------------ MODULE OperationRecordsProofs ------------------------
(***************************************************************************)
(* Proofs about OperationJournal: what the attempts of an add leave in the *)
(* store.  Nothing here but the last section assumes that calls end before *)
(* their leases do or that replies arrive.                                 *)
(***************************************************************************)
EXTENDS OperationJournalProofs

\* Where an attempt is at work on one record of its plan, and past them all.
Touching == {"check", "save", "project", "reproject", "readHistory", "addHistory", "link"}
Written == {"episode", "saveEpisode", "events", "commit", "reply"}

\* The record under the cursor is in the index.
Projected == {"readHistory", "addHistory", "link"}

\* A call that is not past its extraction has no plan yet.
Planless == {"idle", "claimed", "select", "reclaim", "retry", "extract"}

\* Every identifier of a plan was drawn by a caller of key k, for one request:
\* the one the key is bound to.
OwnedBy(k, request, plan) ==
    plan \in Plans =>
        \A id \in PlannedIds(plan) : KeyOf[id[1]] = k /\ RequestOf[id[1]] = request

PlansOwned ==
    /\ \A k \in Keys :
         /\ OwnedBy(k, ops[k].request, ops[k].plan)
         /\ OwnedBy(k, ops[k].request, ops[k].result)
    /\ \A c \in Callers :
         /\ OwnedBy(KeyOf[c], ops[KeyOf[c]].request, calls[c].plan)
         /\ OwnedBy(KeyOf[c], ops[KeyOf[c]].request, calls[c].seen.plan)
         /\ OwnedBy(KeyOf[c], ops[KeyOf[c]].request, calls[c].seen.result)

\* The cursor of an attempt is inside its plan.
AtRecord ==
    \A c \in Callers :
        /\ calls[c].pc \in Touching => calls[c].at <= Len(calls[c].plan)
        /\ calls[c].pc \in Planless => calls[c].plan = Null

\* A record is complete, as far as users left it alone.
Stored(id) ==
    id[1] \notin UserEdits =>
        /\ memories[id] = "planned" /\ vectors[id] = "planned"
        /\ history[id] > 0 /\ links[id]

\* The records behind the cursor are complete, and the one under it has what the
\* attempt has written or found.
RecordsWritten ==
    \A c \in Callers :
        /\ calls[c].pc \in Touching \cup Written =>
             \A i \in 1..Len(calls[c].plan) :
                 i < calls[c].at \/ calls[c].pc \in Written => Stored(calls[c].plan[i])
        /\ calls[c].pc \in Touching \ {"check", "save"} /\ Current(c)[1] \notin UserEdits =>
             memories[Current(c)] = "planned"
        /\ calls[c].pc \in Projected /\ Current(c)[1] \notin UserEdits =>
             vectors[Current(c)] = "planned"
        /\ calls[c].pc = "link" /\ Current(c)[1] \notin UserEdits =>
             history[Current(c)] > 0
        /\ calls[c].pc \in {"commit", "reply"} => PlannedIds(calls[c].plan) \subseteq events

\* Whoever has read a committed row, or was answered, holds a durable result.
ResultsDurable ==
    /\ \A k \in Keys : ops[k].status = "committed" =>
         ops[k].result \in Plans /\ Durable(ops[k].result)
    /\ \A c \in Callers :
         /\ calls[c].pc = "ok" => calls[c].plan \in Plans /\ Durable(calls[c].plan)
         /\ calls[c].seen.status = "committed" =>
              calls[c].seen.result \in Plans /\ Durable(calls[c].seen.result)

\* The caller that archived an episode keeps the plan it had.
EpisodeWritten ==
    \A k \in episodes : \E c \in Callers :
        /\ KeyOf[c] = k
        /\ calls[c].plan \in Plans
        /\ \A id \in PlannedIds(calls[c].plan) :
             KeyOf[id[1]] = k /\ (id[1] \in UserEdits \/ memories[id] # "absent")

\* One ADD entry: nobody is about to add to the history of a record that has one.
\* Only prompt attempts are alone on their record.
HistoryOnce ==
    PromptAttempts =>
        /\ \A id \in Ids : id[1] \notin UserEdits =>
             history[id] <= 1 /\ (memories[id] = "absent" => history[id] = 0)
        /\ \A c \in Callers :
             calls[c].pc \in {"project", "addHistory"} /\ Current(c)[1] \notin UserEdits =>
                 history[Current(c)] = 0

RecordsInv ==
    /\ Bound
    /\ PlansOwned
    /\ AtRecord
    /\ RecordsWritten
    /\ ResultsDurable
    /\ EpisodeWritten
    /\ RecordsMatchRequest
    /\ HistoryOnce
-----------------------------------------------------------------------------
(* Every way in which a call, a row or a table changes.                    *)

OthersKept(c) == \A d \in Callers : d # c => calls'[d] = calls[d]

LEMMA OneCallMoves ==
    ASSUME TypeOK, NEW c \in Callers, Step(c)
    PROVE  OthersKept(c)
<1> USE DEF OthersKept
<1>1. CASE InsertOperation(c) \/ FindOperation(c) \/ ReadOperation(c)
  BY <1>1 DEF InsertOperation, FindOperation, ReadOperation, TypeOK
<1>2. CASE ReadOwnOperation(c) \/ ReclaimOperation(c) \/ UseStoredOperation(c)
           \/ RetryOperation(c)
  BY <1>2
     DEF ReadOwnOperation, ReclaimOperation, UseStoredOperation, RetryOperation,
         Attempt, Refuse, Goto, TypeOK
<1>3. CASE PlanOperation(c)
  BY <1>3 DEF PlanOperation, Goto, TypeOK
<1>4. CASE CheckRecord(c) \/ SaveRecord(c) \/ ProjectRecord(c) \/ ReadHistory(c)
           \/ AddHistory(c) \/ LinkRecord(c)
  BY <1>4 DEF CheckRecord, SaveRecord, ProjectRecord, ReadHistory, AddHistory,
              LinkRecord, NextRecord, Goto, TypeOK
<1>5. CASE ReadEpisode(c) \/ ArchiveEpisode(c) \/ AppendEvents(c) \/ CommitOperation(c)
           \/ Reply(c) \/ StepThrows(c) \/ Crash(c)
  BY <1>5 DEF ReadEpisode, ArchiveEpisode, AppendEvents, CommitOperation, Reply, StepThrows,
              Crash, Goto, TypeOK
<1>6. CASE FailOperation(c)
  <2>1. Goto(c, "error")
    BY <1>6, Zenon DEF FailOperation
  <2> QED
    BY <2>1 DEF Goto, TypeOK
<1> QED
  BY <1>1, <1>2, <1>3, <1>4, <1>5, <1>6 DEF Step

LEMMA CallSteps ==
    ASSUME TypeOK, [Next]_vars, NEW c \in Callers
    PROVE  calls'[c] = calls[c] \/ Step(c)
<1>1. ASSUME NEW d \in Callers, Step(d), d # c PROVE calls'[c] = calls[c]
  BY <1>1, OneCallMoves DEF OthersKept
<1>2. CASE UNCHANGED calls
  BY <1>2
<1>3. (\E id \in Ids : EditRecord(id) \/ PurgeRecord(id)) \/ Tick \/ AllReturned
      \/ UNCHANGED vars => UNCHANGED calls
  BY DEF EditRecord, PurgeRecord, Tick, AllReturned, vars
<1> QED
  BY <1>1, <1>2, <1>3 DEF Next

\* The calls that write the row of their key.
Writes(c) ==
    \/ InsertOperation(c) \/ ReclaimOperation(c) \/ RetryOperation(c)
    \/ PlanOperation(c) \/ CommitOperation(c) \/ FailOperation(c)

LEMMA RowSteps ==
    ASSUME TypeOK, [Next]_vars, NEW k \in Keys
    PROVE  ops'[k] = ops[k] \/ \E c \in Callers : KeyOf[c] = k /\ Writes(c)
<1>0. \A c \in Callers : KeyOf[c] \in Keys
  BY JournalAssumption
<1>1. ASSUME NEW c \in Callers, Writes(c) PROVE OnlyRow(KeyOf[c])
  <2>1. CASE InsertOperation(c) \/ ReclaimOperation(c) \/ RetryOperation(c)
             \/ PlanOperation(c)
    BY <1>0, <2>1
       DEF InsertOperation, ReclaimOperation, RetryOperation, PlanOperation, OnlyRow, TypeOK
  <2> QED
    BY <1>1, <2>1, CommitEffect, FailEffect DEF Writes
<1>2. ASSUME NEW c \in Callers, Step(c), ~Writes(c) PROVE UNCHANGED ops
  BY <1>2 DEF Step, Writes, FindOperation, ReadOwnOperation, ReadOperation,
              UseStoredOperation, CheckRecord, SaveRecord, ProjectRecord, ReadHistory,
              AddHistory, LinkRecord, ReadEpisode, ArchiveEpisode, AppendEvents, Reply,
              StepThrows, Crash
<1>3. (\E id \in Ids : EditRecord(id) \/ PurgeRecord(id)) \/ Tick \/ AllReturned
      \/ UNCHANGED vars => UNCHANGED ops
  BY DEF EditRecord, PurgeRecord, Tick, AllReturned, vars
<1> QED
  BY <1>1, <1>2, <1>3 DEF Next, OnlyRow

\* The tables of the store: each is written by one step of one call, or by users.
LEMMA StoreSteps ==
    ASSUME TypeOK, [Next]_vars
    PROVE  /\ \/ UNCHANGED memories
              \/ \E c \in Callers : SaveRecord(c)
              \/ \E id \in Ids : EditRecord(id) \/ PurgeRecord(id)
           /\ \/ UNCHANGED vectors
              \/ \E c \in Callers : ProjectRecord(c)
              \/ \E id \in Ids : EditRecord(id) \/ PurgeRecord(id)
           /\ \/ UNCHANGED history
              \/ \E c \in Callers : AddHistory(c)
              \/ \E id \in Ids : PurgeRecord(id)
           /\ \/ UNCHANGED links
              \/ \E c \in Callers : LinkRecord(c)
              \/ \E id \in Ids : PurgeRecord(id)
           /\ UNCHANGED events \/ \E c \in Callers : AppendEvents(c)
           /\ UNCHANGED episodes \/ \E c \in Callers : ArchiveEpisode(c)
<1> USE DEF records
<1>1. ASSUME NEW c \in Callers,
             Writes(c) \/ FindOperation(c) \/ ReadOwnOperation(c) \/ ReadOperation(c)
             \/ UseStoredOperation(c) \/ CheckRecord(c) \/ ReadHistory(c)
             \/ ReadEpisode(c) \/ Reply(c) \/ StepThrows(c) \/ Crash(c)
      PROVE  UNCHANGED <<memories, vectors, history, links, events, episodes>>
  <2>1. CASE FailOperation(c)
    BY <2>1, Zenon DEF FailOperation
  <2> QED
    BY <1>1, <2>1
       DEF Writes, InsertOperation, ReclaimOperation, RetryOperation, PlanOperation,
           CommitOperation, FindOperation, ReadOwnOperation, ReadOperation,
           UseStoredOperation, CheckRecord, ReadHistory, ReadEpisode, Reply, StepThrows,
           Crash
<1>2. /\ \A c : SaveRecord(c) => UNCHANGED <<vectors, history, links, events, episodes>>
      /\ \A c : ProjectRecord(c) => UNCHANGED <<memories, history, links, events, episodes>>
      /\ \A c : AddHistory(c) => UNCHANGED <<memories, vectors, links, events, episodes>>
      /\ \A c : LinkRecord(c) => UNCHANGED <<memories, vectors, history, events, episodes>>
      /\ \A c : ArchiveEpisode(c) => UNCHANGED <<memories, vectors, history, links, events>>
      /\ \A c : AppendEvents(c) => UNCHANGED <<memories, vectors, history, links, episodes>>
      /\ \A id : EditRecord(id) => UNCHANGED <<history, links, events, episodes>>
      /\ \A id : PurgeRecord(id) => UNCHANGED <<events, episodes>>
  BY DEF SaveRecord, ProjectRecord, AddHistory, LinkRecord, ArchiveEpisode, AppendEvents,
         EditRecord, PurgeRecord
<1>3. Tick \/ AllReturned \/ UNCHANGED vars
      => UNCHANGED <<memories, vectors, history, links, events, episodes>>
  BY DEF Tick, AllReturned, vars
<1>4. CASE \E c \in Callers : Step(c)
  BY <1>1, <1>2, <1>4 DEF Step, Writes
<1>5. CASE \E id \in Ids : EditRecord(id) \/ PurgeRecord(id)
  BY <1>2, <1>5
<1> QED
  BY <1>3, <1>4, <1>5 DEF Next

\* What no step takes from a record that users leave alone.
LEMMA RecordsKept ==
    ASSUME TypeOK, [Next]_vars, NEW id \in Ids
    PROVE  /\ id[1] \notin UserEdits =>
                /\ memories[id] = "planned" => memories'[id] = "planned"
                /\ memories[id] # "absent" => memories'[id] # "absent"
                /\ vectors[id] = "planned" => vectors'[id] = "planned"
                /\ history[id] > 0 => history'[id] > 0
                /\ links[id] => links'[id]
           /\ id \in events => id \in events'
<1>1. id[1] \notin UserEdits =>
        /\ memories[id] = "planned" => memories'[id] = "planned"
        /\ memories[id] # "absent" => memories'[id] # "absent"
  BY StoreSteps DEF SaveRecord, EditRecord, PurgeRecord, TypeOK
<1>2. id[1] \notin UserEdits => (vectors[id] = "planned" => vectors'[id] = "planned")
  BY StoreSteps DEF ProjectRecord, EditRecord, PurgeRecord, TypeOK
<1>3. id[1] \notin UserEdits => (history[id] > 0 => history'[id] > 0)
  BY StoreSteps DEF AddHistory, PurgeRecord, TypeOK
<1>4. id \in events => id \in events'
  BY StoreSteps DEF AppendEvents
<1>5. id[1] \notin UserEdits => (links[id] => links'[id])
  BY StoreSteps DEF LinkRecord, PurgeRecord, TypeOK
<1> QED
  BY <1>1, <1>2, <1>3, <1>4, <1>5

\* A step of an attempt to another step of it, or to its end, keeps its plan.
LEMMA StepKeepsPlan ==
    ASSUME TypeOK, NEW c \in Callers,
           \/ CheckRecord(c) \/ SaveRecord(c) \/ ProjectRecord(c) \/ ReadHistory(c)
           \/ AddHistory(c) \/ LinkRecord(c) \/ ReadEpisode(c) \/ ArchiveEpisode(c)
           \/ AppendEvents(c) \/ CommitOperation(c) \/ Reply(c) \/ StepThrows(c)
           \/ FailOperation(c) \/ Crash(c)
    PROVE  /\ calls'[c].plan = calls[c].plan
           /\ calls'[c].seen = calls[c].seen
           /\ calls'[c].pc \in Attempting \cup Final
           /\ calls'[c].pc = "ok" => calls[c].pc = "reply"
           /\ calls'[c].pc \in {"ok", "error"} \cup Attempting => calls[c].pc \in Attempting
<1>1. ASSUME NEW p, Goto(c, p)
      PROVE  calls'[c].pc = p /\ calls'[c].plan = calls[c].plan
             /\ calls'[c].seen = calls[c].seen
  BY <1>1, GotoEffect
<1>2. CASE \/ CheckRecord(c) \/ SaveRecord(c) \/ ProjectRecord(c) \/ ReadHistory(c)
           \/ AddHistory(c) \/ ReadEpisode(c) \/ ArchiveEpisode(c) \/ AppendEvents(c)
           \/ CommitOperation(c) \/ Reply(c) \/ StepThrows(c) \/ Crash(c)
  BY <1>1, <1>2
     DEF CheckRecord, SaveRecord, ProjectRecord, ReadHistory, AddHistory, ReadEpisode,
         ArchiveEpisode, AppendEvents, CommitOperation, Reply, StepThrows, Crash,
         Attempting, AttemptSteps, Final
<1>3. CASE LinkRecord(c)
  <2>1. calls'[c].pc \in {"check", "episode"} /\ calls'[c].plan = calls[c].plan
        /\ calls'[c].seen = calls[c].seen
    BY <1>3 DEF LinkRecord, NextRecord, PcAt, TypeOK, Locals
  <2> QED
    BY <1>3, <2>1 DEF LinkRecord, Attempting, AttemptSteps, Final
<1>4. CASE FailOperation(c)
  <2>1. calls[c].pc = "fail" /\ Goto(c, "error")
    BY <1>4, Zenon DEF FailOperation
  <2> QED
    BY <1>1, <2>1 DEF Attempting, Final
<1> QED
  BY <1>2, <1>3, <1>4

\* Where the steps before an attempt lead, and with what plan and row.
LEMMA InsertEffect ==
    ASSUME TypeOK, NEW c \in Callers, InsertOperation(c)
    PROVE  /\ calls[c].pc = "idle" /\ ops[KeyOf[c]] = NoRow
           /\ calls'[c].pc = "claimed"
           /\ calls'[c].plan = calls[c].plan
           /\ calls'[c].seen = calls[c].seen
           /\ ops'[KeyOf[c]].request = RequestOf[c]
           /\ ops'[KeyOf[c]].status = "pending"
           /\ ops'[KeyOf[c]].plan = Null
           /\ ops'[KeyOf[c]].result = Null
<1>1. KeyOf[c] \in Keys
  BY JournalAssumption
<1> QED
  BY <1>1 DEF InsertOperation, TypeOK, Locals, Rows, records

LEMMA FindEffect ==
    ASSUME TypeOK, NEW c \in Callers, FindOperation(c)
    PROVE  /\ calls[c].pc = "idle" /\ ops[KeyOf[c]] # NoRow
           /\ calls'[c].pc = "select"
           /\ calls'[c].plan = calls[c].plan
           /\ calls'[c].seen = calls[c].seen
           /\ UNCHANGED ops
BY DEF FindOperation, TypeOK, Locals

LEMMA ReadEffect ==
    ASSUME TypeOK, NEW c \in Callers, ReadOperation(c)
    PROVE  /\ calls[c].pc = "select"
           /\ calls'[c].pc = "reclaim"
           /\ calls'[c].plan = calls[c].plan
           /\ calls'[c].seen = ops[KeyOf[c]]
           /\ UNCHANGED ops
BY DEF ReadOperation, TypeOK, Locals

\* The owner of a new row begins with whatever plan the row has by then.
LEMMA ReadOwnEffect ==
    ASSUME TypeOK, NEW c \in Callers, ReadOwnOperation(c)
    PROVE  /\ calls[c].pc = "claimed"
           /\ Attempt(c, ops[KeyOf[c]].plan)
           /\ UNCHANGED ops
BY DEF ReadOwnOperation

LEMMA BeginEffect ==
    ASSUME TypeOK, NEW c \in Callers, NEW plan, Attempt(c, plan)
    PROVE  /\ calls'[c].pc \in {"extract", "check", "episode"}
           /\ (calls'[c].pc = "extract") <=> (plan = Null)
           /\ calls'[c].pc = "check" => 1 <= Len(plan)
           /\ calls'[c].pc = "episode" => ~(1 <= Len(plan))
           /\ calls'[c].at = 1
           /\ calls'[c].plan = plan
           /\ calls'[c].seen = NoRow
<1> DEFINE pc == IF plan = Null THEN "extract" ELSE PcAt(plan, FirstRecord)
<1>1. /\ pc \in {"extract", "check", "episode"}
      /\ (pc = "extract") <=> (plan = Null)
      /\ pc = "check" => 1 <= Len(plan)
      /\ pc = "episode" => ~(1 <= Len(plan))
  BY DEF PcAt, FirstRecord
<1>2. calls' = [calls EXCEPT ![c].pc = pc, ![c].plan = plan,
                             ![c].at = 1, ![c].seen = NoRow]
  BY DEF Attempt, FirstRecord
<1> HIDE DEF pc
<1>3. /\ calls'[c].pc = pc /\ calls'[c].at = 1
      /\ calls'[c].plan = plan /\ calls'[c].seen = NoRow
  BY <1>2 DEF TypeOK, Locals
<1> QED
  BY <1>1, <1>3

LEMMA TurnAwayEffect ==
    ASSUME TypeOK, NEW c \in Callers, Refuse(c)
    PROVE  /\ calls'[c].pc = "error"
           /\ calls'[c].plan = calls[c].plan
           /\ calls'[c].seen = NoRow
BY DEF Refuse, TypeOK, Locals

\* A reclaim takes over the row's plan, or turns another command away.
LEMMA ReclaimEffect ==
    ASSUME TypeOK, NEW c \in Callers, ReclaimOperation(c)
    PROVE  /\ calls[c].pc = "reclaim" /\ ops[KeyOf[c]].status = "pending"
           /\ \/ Attempt(c, ops[KeyOf[c]].plan) /\ ops[KeyOf[c]].request = RequestOf[c]
              \/ Refuse(c)
           /\ ops'[KeyOf[c]].request = ops[KeyOf[c]].request
           /\ ops'[KeyOf[c]].status = "pending"
           /\ ops'[KeyOf[c]].plan = ops[KeyOf[c]].plan
           /\ ops'[KeyOf[c]].result = ops[KeyOf[c]].result
<1>1. KeyOf[c] \in Keys
  BY JournalAssumption
<1> QED
  BY <1>1 DEF ReclaimOperation, Reclaimable, SameCommand, TypeOK, Rows

\* A retry takes over the plan of the row it read, or is too late.
LEMMA RetryEffect ==
    ASSUME TypeOK, NEW c \in Callers, RetryOperation(c)
    PROVE  /\ calls[c].pc = "retry"
           /\ \/ /\ Attempt(c, calls[c].seen.plan)
                 /\ ops[KeyOf[c]].status = "failed"
                 /\ ops'[KeyOf[c]].status = "pending"
              \/ Refuse(c) /\ UNCHANGED ops
           /\ ops'[KeyOf[c]].request = ops[KeyOf[c]].request
           /\ ops'[KeyOf[c]].plan = ops[KeyOf[c]].plan
           /\ ops'[KeyOf[c]].result = ops[KeyOf[c]].result
<1>1. KeyOf[c] \in Keys
  BY JournalAssumption
<1> QED
  BY <1>1 DEF RetryOperation, Retryable, TypeOK, Rows

LEMMA UseStoredEffect ==
    ASSUME TypeOK, NEW c \in Callers, UseStoredOperation(c)
    PROVE  /\ calls[c].pc = "reclaim" /\ UNCHANGED ops
           /\ \/ /\ calls[c].seen.request = RequestOf[c]
                 /\ calls[c].seen.status = "committed"
                 /\ calls'[c].pc = "ok"
                 /\ calls'[c].plan = calls[c].seen.result
                 /\ calls'[c].seen = NoRow
              \/ /\ calls[c].seen.request = RequestOf[c]
                 /\ calls'[c].pc = "retry"
                 /\ calls'[c].plan = calls[c].plan
                 /\ calls'[c].seen = calls[c].seen
              \/ Refuse(c)
<1>1. CASE Goto(c, "retry")
  BY <1>1, GotoEffect DEF UseStoredOperation, SameCommand, Goto, TypeOK, Locals
<1>2. CASE calls' = [calls EXCEPT ![c].pc = "ok", ![c].plan = calls[c].seen.result,
                                  ![c].seen = NoRow]
  BY <1>2 DEF UseStoredOperation, SameCommand, Goto, Refuse, TypeOK, Locals
<1> QED
  BY <1>1, <1>2 DEF UseStoredOperation

\* Planning draws fresh identifiers, unless the row is no longer pending.
LEMMA FreezeEffect ==
    ASSUME TypeOK, NEW c \in Callers, PlanOperation(c)
    PROVE  /\ calls[c].pc = "extract"
           /\ \/ \E n \in 0..MaxRecords :
                   LET plan == [i \in 1..n |-> <<c, i>>] IN
                   /\ ops[KeyOf[c]].status = "pending"
                   /\ ops'[KeyOf[c]].plan = plan
                   /\ calls'[c].plan = plan
                   /\ calls'[c].at = 1
                   /\ calls'[c].pc = PcAt(plan, 1)
              \/ /\ calls'[c].pc = "fail" /\ calls'[c].plan = calls[c].plan
                 /\ UNCHANGED ops
           /\ calls'[c].seen = calls[c].seen
           /\ ops'[KeyOf[c]].request = ops[KeyOf[c]].request
           /\ ops'[KeyOf[c]].status = ops[KeyOf[c]].status
           /\ ops'[KeyOf[c]].result = ops[KeyOf[c]].result
<1>1. KeyOf[c] \in Keys
  BY JournalAssumption
<1>2. CASE Goto(c, "fail") /\ UNCHANGED ops
  BY <1>2, GotoEffect DEF PlanOperation
<1>3. ASSUME NEW n \in 0..MaxRecords, NEW plan,
             plan = [i \in 1..n |-> <<c, i>>],
             ops' = [ops EXCEPT ![KeyOf[c]].plan = plan],
             calls' = [calls EXCEPT ![c].pc = PcAt(plan, FirstRecord),
                                    ![c].plan = plan, ![c].at = FirstRecord]
      PROVE  /\ ops'[KeyOf[c]].plan = plan
             /\ ops'[KeyOf[c]].request = ops[KeyOf[c]].request
             /\ ops'[KeyOf[c]].status = ops[KeyOf[c]].status
             /\ ops'[KeyOf[c]].result = ops[KeyOf[c]].result
             /\ calls'[c].plan = plan
             /\ calls'[c].at = 1
             /\ calls'[c].pc = PcAt(plan, 1)
             /\ calls'[c].seen = calls[c].seen
  <2>1. /\ ops'[KeyOf[c]].plan = plan
        /\ ops'[KeyOf[c]].request = ops[KeyOf[c]].request
        /\ ops'[KeyOf[c]].status = ops[KeyOf[c]].status
        /\ ops'[KeyOf[c]].result = ops[KeyOf[c]].result
    BY <1>1, <1>3 DEF TypeOK, Rows
  <2>2. /\ calls'[c].plan = plan /\ calls'[c].at = 1
        /\ calls'[c].pc = PcAt(plan, 1) /\ calls'[c].seen = calls[c].seen
    BY <1>3 DEF TypeOK, Locals, FirstRecord
  <2> QED
    BY <2>1, <2>2
<1>4. CASE /\ ops[KeyOf[c]].status = "pending"
           /\ \E n \in 0..MaxRecords :
                LET plan == [i \in 1..n |-> <<c, i>>] IN
                /\ ops' = [ops EXCEPT ![KeyOf[c]].plan = plan]
                /\ calls' = [calls EXCEPT ![c].pc = PcAt(plan, FirstRecord),
                                          ![c].plan = plan, ![c].at = FirstRecord]
  <2>1. PICK n \in 0..MaxRecords :
          LET plan == [i \in 1..n |-> <<c, i>>] IN
          /\ ops' = [ops EXCEPT ![KeyOf[c]].plan = plan]
          /\ calls' = [calls EXCEPT ![c].pc = PcAt(plan, FirstRecord),
                                    ![c].plan = plan, ![c].at = FirstRecord]
    BY <1>4
  <2> DEFINE plan == [i \in 1..n |-> <<c, i>>]
  <2>2. calls[c].pc = "extract"
    BY DEF PlanOperation
  <2>3. /\ ops'[KeyOf[c]].plan = plan
        /\ ops'[KeyOf[c]].request = ops[KeyOf[c]].request
        /\ ops'[KeyOf[c]].status = ops[KeyOf[c]].status
        /\ ops'[KeyOf[c]].result = ops[KeyOf[c]].result
        /\ calls'[c].plan = plan
        /\ calls'[c].at = 1
        /\ calls'[c].pc = PcAt(plan, 1)
        /\ calls'[c].seen = calls[c].seen
    BY <1>3, <2>1
  <2> QED
    BY <1>4, <2>2, <2>3
<1> QED
  BY <1>2, <1>4 DEF PlanOperation
\* The UPDATEs that name a row by its id alone leave its request and its plan.
LEMMA SettleEffect ==
    ASSUME TypeOK, NEW c \in Callers, CommitOperation(c) \/ FailOperation(c)
    PROVE  /\ calls[c].pc \in Attempting
           /\ ops'[KeyOf[c]].request = ops[KeyOf[c]].request
           /\ ops'[KeyOf[c]].plan = ops[KeyOf[c]].plan
           /\ ops'[KeyOf[c]].result \in {ops[KeyOf[c]].result, calls[c].plan}
           /\ ops'[KeyOf[c]].status = "committed" =>
                CommitOperation(c) /\ ops'[KeyOf[c]].result = calls[c].plan
<1>1. KeyOf[c] \in Keys
  BY JournalAssumption
<1>2. CASE CommitOperation(c)
  BY <1>1, <1>2 DEF CommitOperation, TypeOK, Rows, Attempting, AttemptSteps
<1>3. CASE FailOperation(c)
  <2>1. PICK raw, vector : ops' = [ops EXCEPT ![KeyOf[c]].status = "failed",
                                              ![KeyOf[c]].lease = 0,
                                              ![KeyOf[c]].raw = raw,
                                              ![KeyOf[c]].vector = vector]
    BY <1>3, Zenon DEF FailOperation
  <2>2. calls[c].pc = "fail"
    BY <1>3, Zenon DEF FailOperation
  <2> QED
    BY <1>1, <2>1, <2>2 DEF TypeOK, Rows, Attempting
<1> QED
  BY <1>2, <1>3

-----------------------------------------------------------------------------
(* Ownership: keys, requests and plans.                                    *)

\* A bound key keeps its request.
LEMMA RequestKept ==
    ASSUME TypeOK, Bound, [Next]_vars, NEW k \in Keys
    PROVE  /\ ops[k].request # Null => ops'[k].request = ops[k].request
           /\ ops'[k].request = Null => ops'[k] = NoRow
<1>1. CASE ops'[k] = ops[k]
  BY <1>1 DEF Bound
<1>2. ASSUME NEW c \in Callers, KeyOf[c] = k, InsertOperation(c)
      PROVE  ops[k].request = Null /\ ops'[k].request # Null
  <2>1. RequestOf[c] # Null
    BY JournalAssumption DEF Requests
  <2> QED
    BY <1>2, <2>1, InsertEffect DEF NoRow
<1>3. ASSUME NEW c \in Callers, KeyOf[c] = k, Writes(c), ~InsertOperation(c),
             ops'[k] # ops[k]
      PROVE  ops[k].request # Null /\ ops'[k].request = ops[k].request
  <2>1. NoRow.status = "none"
    BY DEF NoRow
  <2>2. RequestOf[c] # Null
    BY JournalAssumption DEF Requests
  <2>3. CASE ReclaimOperation(c)
    BY <1>3, <2>1, <2>3, ReclaimEffect DEF Bound
  <2>4. CASE RetryOperation(c)
    BY <1>3, <2>1, <2>4, RetryEffect DEF Bound
  <2>5. CASE PlanOperation(c)
    BY <1>3, <2>1, <2>5, FreezeEffect DEF Bound
  <2>6. CASE CommitOperation(c) \/ FailOperation(c)
    BY <1>3, <2>2, <2>6, SettleEffect DEF Bound
  <2> QED
    BY <1>3, <2>3, <2>4, <2>5, <2>6 DEF Writes
<1> QED
  BY <1>1, <1>2, <1>3, RowSteps

LEMMA BoundStep == TypeOK /\ Bound /\ [Next]_vars => Bound'
<1> SUFFICES ASSUME TypeOK, Bound, [Next]_vars, NEW c \in Callers
             PROVE  /\ calls'[c].pc \in Attempting \cup {"retry", "ok"} =>
                         ops'[KeyOf[c]].request = RequestOf[c]
                    /\ calls'[c].pc = "select" => ops'[KeyOf[c]].request # Null
                    /\ calls'[c].pc = "reclaim" =>
                         /\ ops'[KeyOf[c]].request # Null
                         /\ ops'[KeyOf[c]].request = calls'[c].seen.request
  BY RequestKept DEF Bound
<1>0. KeyOf[c] \in Keys /\ RequestOf[c] # Null
  BY JournalAssumption DEF Requests
<1>a. ops[KeyOf[c]].request # Null => ops'[KeyOf[c]].request = ops[KeyOf[c]].request
  BY <1>0, RequestKept
<1>b. ops[KeyOf[c]] # NoRow => ops[KeyOf[c]].request # Null
  BY <1>0 DEF Bound
<1>1. CASE calls'[c] = calls[c]
  BY <1>0, <1>1, <1>a DEF Bound
<1>2. CASE InsertOperation(c)
  BY <1>2, InsertEffect
<1>3. CASE FindOperation(c)
  BY <1>3, <1>a, <1>b, FindEffect DEF Attempting, AttemptSteps
<1>9. CASE ReadOperation(c)
  BY <1>9, <1>a, ReadEffect DEF Bound, Attempting, AttemptSteps
<1>10. CASE ReadOwnOperation(c)
  <2>1. ops[KeyOf[c]].request = RequestOf[c]
    BY <1>10, ReadOwnEffect DEF Bound, Attempting
  <2> QED
    BY <1>0, <1>10, <1>a, <2>1, ReadOwnEffect, BeginEffect
<1>4. CASE ReclaimOperation(c)
  <2>1. CASE Refuse(c)
    BY <2>1, TurnAwayEffect DEF Attempting, AttemptSteps
  <2>2. CASE Attempt(c, ops[KeyOf[c]].plan) /\ ops[KeyOf[c]].request = RequestOf[c]
    BY <1>0, <1>a, <2>2, BeginEffect
  <2> QED
    BY <1>4, <2>1, <2>2, ReclaimEffect
<1>5. CASE UseStoredOperation(c)
  <2>1. CASE Refuse(c)
    BY <2>1, TurnAwayEffect DEF Attempting, AttemptSteps
  <2>2. CASE calls'[c].pc \in {"ok", "retry"} /\ calls[c].seen.request = RequestOf[c]
    BY <1>5, <1>0, <1>a, <2>2, UseStoredEffect DEF Bound
  <2> QED
    BY <1>5, <2>1, <2>2, UseStoredEffect
<1>6. CASE RetryOperation(c)
  <2>1. CASE Refuse(c)
    BY <2>1, TurnAwayEffect DEF Attempting, AttemptSteps
  <2>2. CASE Attempt(c, calls[c].seen.plan)
    BY <1>0, <1>6, <1>a, <2>2, BeginEffect, RetryEffect DEF Bound
  <2> QED
    BY <1>6, <2>1, <2>2, RetryEffect
<1>7. CASE PlanOperation(c)
  <2>1. calls[c].pc \in Attempting /\ calls'[c].pc \in {"check", "episode", "fail"}
    BY <1>7, FreezeEffect DEF PcAt, Attempting, AttemptSteps
  <2> QED
    BY <1>0, <1>a, <2>1 DEF Bound
<1>8. CASE \/ CheckRecord(c) \/ SaveRecord(c) \/ ProjectRecord(c) \/ ReadHistory(c)
           \/ AddHistory(c) \/ LinkRecord(c) \/ ReadEpisode(c) \/ ArchiveEpisode(c)
           \/ AppendEvents(c) \/ CommitOperation(c) \/ Reply(c) \/ StepThrows(c)
           \/ FailOperation(c) \/ Crash(c)
  <2>1. /\ calls'[c].pc \in Attempting \cup Final
        /\ calls'[c].pc \in {"ok"} \cup Attempting => calls[c].pc \in Attempting
    BY <1>8, StepKeepsPlan
  <2>2. calls'[c].pc \notin {"retry", "select", "reclaim"}
    BY <2>1 DEF Attempting, AttemptSteps, Final
  <2> QED
    BY <1>0, <1>a, <2>1, <2>2 DEF Bound
<1> QED
  BY <1>1, <1>2, <1>3, <1>4, <1>5, <1>6, <1>7, <1>8, <1>9, <1>10, CallSteps DEF Step

\* A fresh plan is a sequence of as many distinct records as it says.
LEMMA FreshPlanIds ==
    ASSUME NEW c \in Callers, NEW n \in 0..MaxRecords
    PROVE  LET plan == [i \in 1..n |-> <<c, i>>] IN
           /\ plan \in Plans
           /\ Len(plan) = n
           /\ \A id \in PlannedIds(plan) : id[1] = c
<1> DEFINE plan == [i \in 1..n |-> <<c, i>>]
<1>1. plan \in Plans
  BY FreshPlan
<1>2. Len(plan) = n
  BY JournalAssumption
<1>3. \A id \in PlannedIds(plan) : id[1] = c
  BY <1>2 DEF PlannedIds
<1> QED
  BY <1>1, <1>2, <1>3
\* A plan somebody owned is owned still.
LEMMA OwnedKept ==
    ASSUME TypeOK, Bound, [Next]_vars, NEW k \in Keys, NEW plan,
           OwnedBy(k, ops[k].request, plan)
    PROVE  OwnedBy(k, ops'[k].request, plan)
<1> SUFFICES ASSUME plan \in Plans, NEW id \in PlannedIds(plan)
             PROVE  KeyOf[id[1]] = k /\ RequestOf[id[1]] = ops'[k].request
  BY DEF OwnedBy
<1>1. KeyOf[id[1]] = k /\ RequestOf[id[1]] = ops[k].request
  BY DEF OwnedBy
<1>2. id[1] \in Callers
  BY PlannedIdsType DEF Ids
<1>3. RequestOf[id[1]] # Null
  BY <1>2, JournalAssumption DEF Requests
<1> QED
  BY <1>1, <1>3, RequestKept

LEMMA NullOwned == \A k, request : OwnedBy(k, request, Null)
BY JournalAssumption DEF OwnedBy

\* The plan of a call is nothing, one it had or saw, its row's, or a fresh one.
LEMMA PlanSources ==
    ASSUME TypeOK, Bound, [Next]_vars, NEW c \in Callers
    PROVE  /\ \/ calls'[c].plan \in {calls[c].plan, ops[KeyOf[c]].plan,
                                     calls[c].seen.plan, calls[c].seen.result}
              \/ OwnedBy(KeyOf[c], ops'[KeyOf[c]].request, calls'[c].plan)
           /\ calls'[c].seen \in {calls[c].seen, NoRow, ops[KeyOf[c]]}
<1>1. CASE calls'[c] = calls[c]
  BY <1>1
<1>2. CASE InsertOperation(c) \/ FindOperation(c) \/ ReadOperation(c)
  BY <1>2, InsertEffect, FindEffect, ReadEffect
<1>3. CASE ReadOwnOperation(c) \/ ReclaimOperation(c) \/ RetryOperation(c)
           \/ UseStoredOperation(c)
  BY <1>3, ReadOwnEffect, ReclaimEffect, RetryEffect, UseStoredEffect, BeginEffect,
     TurnAwayEffect
<1>4. CASE PlanOperation(c)
  <2>1. CASE calls'[c].plan = calls[c].plan
    BY <1>4, <2>1, FreezeEffect
  <2>2. CASE calls'[c].plan # calls[c].plan
    <3>1. PICK n \in 0..MaxRecords : calls'[c].plan = [i \in 1..n |-> <<c, i>>]
      BY <1>4, <2>2, FreezeEffect
    <3>2. \A id \in PlannedIds(calls'[c].plan) : id[1] = c
      BY <3>1, FreshPlanIds
    <3>3. ops'[KeyOf[c]].request = RequestOf[c]
      BY <1>4, FreezeEffect DEF Bound, Attempting, AttemptSteps
    <3> QED
      BY <1>4, <3>2, <3>3, FreezeEffect DEF OwnedBy
  <2> QED
    BY <2>1, <2>2
<1>5. CASE \/ CheckRecord(c) \/ SaveRecord(c) \/ ProjectRecord(c) \/ ReadHistory(c)
           \/ AddHistory(c) \/ LinkRecord(c) \/ ReadEpisode(c) \/ ArchiveEpisode(c)
           \/ AppendEvents(c) \/ CommitOperation(c) \/ Reply(c) \/ StepThrows(c)
           \/ FailOperation(c) \/ Crash(c)
  BY <1>5, StepKeepsPlan
<1> QED
  BY <1>1, <1>2, <1>3, <1>4, <1>5, CallSteps DEF Step

\* So are the plan and the result of a row.
LEMMA RowSources ==
    ASSUME TypeOK, Bound, [Next]_vars, NEW k \in Keys
    PROVE  /\ \/ ops'[k].plan \in {ops[k].plan, Null}
              \/ OwnedBy(k, ops'[k].request, ops'[k].plan)
           /\ \/ ops'[k].result \in {ops[k].result, Null}
              \/ \E c \in Callers : KeyOf[c] = k /\ ops'[k].result = calls[c].plan
<1>1. CASE ops'[k] = ops[k]
  BY <1>1
<1>2. ASSUME NEW c \in Callers, KeyOf[c] = k, PlanOperation(c)
      PROVE  /\ \/ ops'[k].plan = ops[k].plan
                \/ OwnedBy(k, ops'[k].request, ops'[k].plan)
             /\ ops'[k].result = ops[k].result
  <2>1. CASE UNCHANGED ops
    BY <2>1
  <2>2. CASE ~UNCHANGED ops
    <3>1. PICK n \in 0..MaxRecords : ops'[k].plan = [i \in 1..n |-> <<c, i>>]
      BY <1>2, <2>2, FreezeEffect
    <3>2. \A id \in PlannedIds(ops'[k].plan) : id[1] = c
      BY <3>1, FreshPlanIds
    <3>3. ops'[k].request = RequestOf[c]
      BY <1>2, FreezeEffect DEF Bound, Attempting, AttemptSteps
    <3> QED
      BY <1>2, <3>2, <3>3, FreezeEffect DEF OwnedBy
  <2> QED
    BY <2>1, <2>2
<1>3. ASSUME NEW c \in Callers, KeyOf[c] = k,
             InsertOperation(c) \/ ReclaimOperation(c) \/ RetryOperation(c)
      PROVE  /\ ops'[k].plan \in {ops[k].plan, Null}
             /\ ops'[k].result \in {ops[k].result, Null}
  BY <1>3, InsertEffect, ReclaimEffect, RetryEffect
<1>4. ASSUME NEW c \in Callers, KeyOf[c] = k, CommitOperation(c) \/ FailOperation(c)
      PROVE  /\ ops'[k].plan = ops[k].plan
             /\ ops'[k].result \in {ops[k].result, calls[c].plan}
  BY <1>4, SettleEffect
<1> QED
  BY <1>1, <1>2, <1>3, <1>4, RowSteps DEF Writes

\* Nobody holds, or is told, a plan of another key or another command.
LEMMA OwnedStep == TypeOK /\ Bound /\ PlansOwned /\ [Next]_vars => PlansOwned'
<1> SUFFICES ASSUME TypeOK, Bound, PlansOwned, [Next]_vars PROVE PlansOwned'
  OBVIOUS
<1>0. \A c \in Callers : KeyOf[c] \in Keys
  BY JournalAssumption
<1>a. NoRow.plan = Null /\ NoRow.result = Null
  BY DEF NoRow
<1>1. ASSUME NEW k \in Keys
      PROVE  /\ OwnedBy(k, ops'[k].request, ops[k].plan)
             /\ OwnedBy(k, ops'[k].request, ops[k].result)
  BY OwnedKept DEF PlansOwned
<1>2. ASSUME NEW c \in Callers
      PROVE  /\ OwnedBy(KeyOf[c], ops'[KeyOf[c]].request, calls[c].plan)
             /\ OwnedBy(KeyOf[c], ops'[KeyOf[c]].request, calls[c].seen.plan)
             /\ OwnedBy(KeyOf[c], ops'[KeyOf[c]].request, calls[c].seen.result)
  BY <1>0, OwnedKept DEF PlansOwned
<1>3. ASSUME NEW k \in Keys
      PROVE  /\ OwnedBy(k, ops'[k].request, ops'[k].plan)
             /\ OwnedBy(k, ops'[k].request, ops'[k].result)
  BY <1>1, <1>2, RowSources, NullOwned
<1>4. ASSUME NEW c \in Callers
      PROVE  /\ OwnedBy(KeyOf[c], ops'[KeyOf[c]].request, calls'[c].plan)
             /\ OwnedBy(KeyOf[c], ops'[KeyOf[c]].request, calls'[c].seen.plan)
             /\ OwnedBy(KeyOf[c], ops'[KeyOf[c]].request, calls'[c].seen.result)
  BY <1>0, <1>a, <1>1, <1>2, PlanSources, NullOwned
<1> QED
  BY <1>3, <1>4 DEF PlansOwned
-----------------------------------------------------------------------------
(* The cursor of an attempt.                                               *)

\* The steps of an attempt that has its plan, its failure and its death.
Works(c) ==
    \/ CheckRecord(c) \/ SaveRecord(c) \/ ProjectRecord(c) \/ ReadHistory(c)
    \/ AddHistory(c) \/ LinkRecord(c) \/ ReadEpisode(c) \/ ArchiveEpisode(c)
    \/ AppendEvents(c) \/ CommitOperation(c) \/ Reply(c) \/ StepThrows(c)
    \/ FailOperation(c) \/ Crash(c)

LEMMA GotoAt ==
    ASSUME TypeOK, NEW c \in Callers, NEW p, Goto(c, p)
    PROVE  calls'[c].pc = p /\ calls'[c].plan = calls[c].plan /\ calls'[c].at = calls[c].at
BY DEF Goto, TypeOK, Locals

LEMMA AdvanceEffect ==
    ASSUME TypeOK, NEW c \in Callers, NextRecord(c)
    PROVE  /\ calls'[c].plan = calls[c].plan
           /\ calls'[c].at = calls[c].at + 1
           /\ calls'[c].pc = PcAt(calls[c].plan, calls[c].at + 1)
BY DEF NextRecord, TypeOK, Locals

\* Where the work of an attempt leads: to the next step on the record, to the next
\* record, past them all, or out.
LEMMA WorkEffect ==
    ASSUME TypeOK, NEW c \in Callers, Works(c)
    PROVE  /\ calls'[c].plan = calls[c].plan
           /\ \/ /\ calls'[c].at = calls[c].at
                 /\ \/ calls'[c].pc \in {"fail", "error", "crashed"}
                    \/ calls[c].pc \in Touching /\ calls'[c].pc \in Touching
                    \/ calls[c].pc \in Written /\ calls'[c].pc \in Written \cup {"ok"}
              \/ /\ calls'[c].at = calls[c].at + 1
                 /\ calls'[c].pc = PcAt(calls[c].plan, calls[c].at + 1)
                 /\ calls[c].pc \in Touching
<1> USE DEF Touching, Written
<1>1. CASE CheckRecord(c) \/ SaveRecord(c) \/ ProjectRecord(c) \/ ReadHistory(c)
           \/ AddHistory(c) \/ LinkRecord(c)
  BY <1>1, GotoAt, AdvanceEffect
     DEF CheckRecord, SaveRecord, ProjectRecord, ReadHistory, AddHistory, LinkRecord
<1>2. CASE ReadEpisode(c) \/ ArchiveEpisode(c) \/ AppendEvents(c) \/ CommitOperation(c)
           \/ Reply(c) \/ StepThrows(c) \/ Crash(c)
  BY <1>2, GotoAt
     DEF ReadEpisode, ArchiveEpisode, AppendEvents, CommitOperation, Reply, StepThrows, Crash
<1>3. CASE FailOperation(c)
  <2>1. Goto(c, "error")
    BY <1>3, Zenon DEF FailOperation
  <2> QED
    BY <2>1, GotoAt
<1> QED
  BY <1>1, <1>2, <1>3 DEF Works

LEMMA AtStep == TypeOK /\ AtRecord /\ [Next]_vars => AtRecord'
<1> SUFFICES ASSUME TypeOK, AtRecord, [Next]_vars, NEW c \in Callers
             PROVE  /\ calls'[c].pc \in Touching => calls'[c].at <= Len(calls'[c].plan)
                    /\ calls'[c].pc \in Planless => calls'[c].plan = Null
  BY DEF AtRecord
<1>0. /\ calls[c].pc \in Touching => calls[c].at <= Len(calls[c].plan)
      /\ calls[c].pc \in Planless => calls[c].plan = Null
  BY DEF AtRecord
<1> USE DEF Touching, Written, Planless
<1>1. CASE calls'[c] = calls[c]
  BY <1>0, <1>1
<1>2. CASE InsertOperation(c) \/ FindOperation(c) \/ ReadOperation(c)
  BY <1>0, <1>2, InsertEffect, FindEffect, ReadEffect
<1>3. CASE ReadOwnOperation(c) \/ ReclaimOperation(c) \/ UseStoredOperation(c)
           \/ RetryOperation(c)
  BY <1>0, <1>3, ReadOwnEffect, ReclaimEffect, UseStoredEffect, RetryEffect,
     BeginEffect, TurnAwayEffect
<1>4. CASE PlanOperation(c)
  <2>1. CASE calls'[c].pc = "fail"
    BY <2>1
  <2>2. ASSUME NEW plan, calls'[c].plan = plan, calls'[c].at = 1,
               calls'[c].pc = PcAt(plan, 1)
        PROVE  calls'[c].pc \notin Planless /\
               (calls'[c].pc \in Touching => calls'[c].at <= Len(calls'[c].plan))
    BY <2>2 DEF PcAt
  <2> QED
    BY <1>4, <2>1, <2>2, FreezeEffect
<1>5. CASE Works(c)
  BY <1>0, <1>5, WorkEffect DEF PcAt
<1> QED
  BY <1>1, <1>2, <1>3, <1>4, <1>5, CallSteps DEF Step, Works
-----------------------------------------------------------------------------
(* What an attempt has written.                                            *)

\* The identifiers an attempt works on are identifiers.
LEMMA AtIds ==
    ASSUME TypeOK, PlanHeld, NEW c \in Callers, calls[c].pc \in Touching \cup Written
    PROVE  /\ calls[c].plan \in Plans
           /\ Len(calls[c].plan) \in Nat
           /\ calls[c].at \in Nat \ {0}
           /\ \A i \in 1..Len(calls[c].plan) : calls[c].plan[i] \in Ids
           /\ AtRecord /\ calls[c].pc \in Touching =>
                calls[c].at \in 1..Len(calls[c].plan) /\ Current(c) \in Ids
<1>1. calls[c].plan \in Plans
  BY DEF PlanHeld, WithPlan, Attempting, AttemptSteps, Touching, Written
<1>2. PICK n \in 0..MaxRecords : calls[c].plan \in [1..n -> Ids]
  BY <1>1 DEF Plans
<1>3. Len(calls[c].plan) = n /\ n \in Nat
  BY <1>2, JournalAssumption
<1>4. calls[c].at \in Nat \ {0}
  BY DEF TypeOK, Locals
<1> QED
  BY <1>1, <1>2, <1>3, <1>4 DEF AtRecord, Current

LEMMA StoredKept ==
    ASSUME TypeOK, [Next]_vars, NEW id \in Ids, Stored(id)
    PROVE  Stored(id)'
BY RecordsKept DEF Stored

\* The step that completes a record links it.
LEMMA CompleteEffect ==
    ASSUME TypeOK, PlanHeld, AtRecord, RecordsWritten, [Next]_vars, NEW c \in Callers,
           LinkRecord(c), NEW id, id = Current(c)
    PROVE  Stored(id)'
<1>1. calls[c].pc = "link"
  BY DEF LinkRecord
<1>2. id \in Ids
  BY <1>1, AtIds DEF Touching
<1>3. id[1] \notin UserEdits =>
        memories[id] = "planned" /\ vectors[id] = "planned" /\ history[id] > 0
  BY <1>1 DEF RecordsWritten, Touching, Projected
<1>4. links'[id]
  BY <1>2 DEF LinkRecord, TypeOK
<1> QED
  BY <1>2, <1>3, <1>4, RecordsKept DEF Stored

\* Nothing behind the cursor is undone, and the cursor passes complete records.
LEMMA BehindStep ==
    ASSUME TypeOK, PlanHeld, AtRecord, RecordsWritten, [Next]_vars, NEW c \in Callers,
           calls'[c].pc \in Touching \cup Written,
           NEW i \in 1..Len(calls'[c].plan),
           i < calls'[c].at \/ calls'[c].pc \in Written,
           NEW id, id = calls'[c].plan[i]
    PROVE  Stored(id)'
<1> USE DEF Touching, Written
<1>1. ASSUME calls[c].pc \in Touching \cup Written, calls'[c].plan = calls[c].plan,
             i < calls[c].at \/ calls[c].pc \in Written
      PROVE  Stored(id)'
  <2>1. id \in Ids
    BY <1>1, AtIds
  <2>2. Stored(id)
    BY <1>1 DEF RecordsWritten
  <2> QED
    BY <2>1, <2>2, StoredKept
<1>2. CASE calls'[c] = calls[c]
  BY <1>1, <1>2
<1>3. CASE InsertOperation(c) \/ FindOperation(c) \/ ReadOperation(c)
  BY <1>3, InsertEffect, FindEffect, ReadEffect
<1>4. CASE ReadOwnOperation(c) \/ ReclaimOperation(c) \/ UseStoredOperation(c)
           \/ RetryOperation(c)
  <2>1. calls'[c].pc = "check" \/ ~(1 <= Len(calls'[c].plan))
    BY <1>4, ReadOwnEffect, ReclaimEffect, UseStoredEffect, RetryEffect,
     BeginEffect, TurnAwayEffect
  <2>2. calls'[c].pc \in {"check", "episode"} /\ calls'[c].at = 1
    BY <1>4, ReadOwnEffect, ReclaimEffect, UseStoredEffect, RetryEffect,
     BeginEffect, TurnAwayEffect
  <2> QED
    BY <2>1, <2>2
<1>5. CASE PlanOperation(c)
  <2>1. PICK n \in 0..MaxRecords :
          LET plan == [j \in 1..n |-> <<c, j>>] IN
          calls'[c].plan = plan /\ calls'[c].at = 1 /\ calls'[c].pc = PcAt(plan, 1)
    BY <1>5, FreezeEffect
  <2>2. Len(calls'[c].plan) = n /\ n \in Nat
    BY <2>1, FreshPlanIds, JournalAssumption
  <2>3. calls'[c].pc \in Written => ~(1 <= n)
    BY <2>1, <2>2 DEF PcAt
  <2> QED
    BY <2>1, <2>2, <2>3
<1>6. CASE Works(c)
  <2>1. CASE calls'[c].at = calls[c].at
    <3>1. calls[c].at # calls[c].at + 1
      BY DEF TypeOK, Locals
    <3> QED
      BY <1>1, <1>6, <2>1, <3>1, WorkEffect
  <2>2. CASE calls'[c].at # calls[c].at
    <3>1. /\ calls'[c].plan = calls[c].plan /\ calls'[c].at = calls[c].at + 1
          /\ calls[c].pc \in Touching
          /\ calls'[c].pc = PcAt(calls[c].plan, calls[c].at + 1)
      BY <1>6, <2>2, WorkEffect
    <3>2. LinkRecord(c)
      BY <1>6, <2>2, GotoAt
         DEF Works, CheckRecord, SaveRecord, ProjectRecord, ReadHistory, AddHistory,
             ReadEpisode, ArchiveEpisode, AppendEvents, CommitOperation, Reply, StepThrows,
             FailOperation, Crash
    <3>3. calls[c].at \in 1..Len(calls[c].plan) /\ Len(calls[c].plan) \in Nat
      BY <3>1, AtIds
    <3>4. i <= calls[c].at
      BY <3>1, <3>3 DEF PcAt
    <3>5. CASE i = calls[c].at
      <4>1. id = Current(c)
        BY <3>1, <3>5 DEF Current
      <4> QED
        BY <3>1, <3>2, <4>1, CompleteEffect
    <3>6. CASE i < calls[c].at
      BY <1>1, <3>1, <3>6
    <3> QED
      BY <3>3, <3>4, <3>5, <3>6
  <2> QED
    BY <2>1, <2>2
<1> QED
  BY <1>2, <1>3, <1>4, <1>5, <1>6, CallSteps DEF Step, Works
\* What an attempt found of, or wrote for, the record under its cursor is there.
LEMMA UnderStep ==
    ASSUME TypeOK, PlanHeld, AtRecord, RecordsWritten, [Next]_vars, NEW c \in Callers,
           NEW id, id = calls'[c].plan[calls'[c].at], id[1] \notin UserEdits
    PROVE  /\ calls'[c].pc \in Touching \ {"check", "save"} => memories'[id] = "planned"
           /\ calls'[c].pc \in Projected => vectors'[id] = "planned"
           /\ calls'[c].pc = "link" => history'[id] > 0
<1> USE DEF Touching, Written, Projected
<1>1. ASSUME calls[c].pc \in Touching \ {"check", "save"}, id = Current(c)
      PROVE  /\ memories'[id] = "planned"
             /\ calls[c].pc \in Projected => vectors'[id] = "planned"
             /\ calls[c].pc = "link" => history'[id] > 0
  <2>1. id \in Ids
    BY <1>1, AtIds
  <2>2. /\ memories[id] = "planned"
        /\ calls[c].pc \in Projected => vectors[id] = "planned"
        /\ calls[c].pc = "link" => history[id] > 0
    BY <1>1 DEF RecordsWritten
  <2> QED
    BY <2>1, <2>2, RecordsKept
<1>2. CASE calls'[c] = calls[c]
  BY <1>1, <1>2 DEF Current
<1>3. CASE InsertOperation(c) \/ FindOperation(c) \/ ReadOperation(c)
  BY <1>3, InsertEffect, FindEffect, ReadEffect
<1>4. CASE ReadOwnOperation(c) \/ ReclaimOperation(c) \/ UseStoredOperation(c)
           \/ RetryOperation(c)
  BY <1>4, ReadOwnEffect, ReclaimEffect, UseStoredEffect, RetryEffect,
     BeginEffect, TurnAwayEffect
<1>5. CASE PlanOperation(c)
  <2>1. calls'[c].pc \in {"check", "episode", "fail"}
    BY <1>5, FreezeEffect DEF PcAt
  <2> QED
    BY <2>1
<1>6. CASE SaveRecord(c) \/ ProjectRecord(c)
  <2>1. calls[c].pc \in Touching /\ calls'[c].plan = calls[c].plan
        /\ calls'[c].at = calls[c].at
    BY <1>6, GotoAt DEF SaveRecord, ProjectRecord
  <2>2. id = Current(c) /\ id \in Ids
    BY <2>1, AtIds DEF Current
  <2>3. CASE SaveRecord(c)
    BY <2>2, <2>3, GotoAt DEF SaveRecord, TypeOK
  <2>4. CASE ProjectRecord(c)
    <3>1. calls[c].pc \in {"project", "reproject"} /\ vectors'[id] = "planned"
      BY <2>2, <2>4 DEF ProjectRecord, TypeOK
    <3>2. calls'[c].pc \in {"addHistory", "readHistory"}
      BY <2>4, GotoAt DEF ProjectRecord
    <3> QED
      BY <1>1, <2>2, <3>1, <3>2
  <2> QED
    BY <1>6, <2>3, <2>4
<1>7. CASE CheckRecord(c)
  <2>1. calls[c].pc \in Touching /\ calls'[c].plan = calls[c].plan
        /\ calls'[c].at = calls[c].at
    BY <1>7, GotoAt DEF CheckRecord
  <2>2. id = Current(c) /\ id \in Ids
    BY <2>1, AtIds DEF Current
  <2>3. calls'[c].pc \in {"save", "fail"} \/
        (calls'[c].pc = "reproject" /\ memories[id] = "planned" /\ UNCHANGED memories)
    BY <1>7, <2>2, GotoAt DEF CheckRecord, records
  <2> QED
    BY <2>3
<1>8. CASE ReadHistory(c) \/ AddHistory(c)
  <2>1. /\ calls[c].pc \in {"readHistory", "addHistory"}
        /\ calls'[c].pc \in {"addHistory", "link"} /\ id = Current(c)
    BY <1>8, GotoAt DEF ReadHistory, AddHistory, Current
  <2>2. id \in Ids
    BY <2>1, AtIds
  <2>3. calls'[c].pc = "link" => history'[id] > 0
    <3>1. CASE AddHistory(c)
      BY <2>1, <2>2, <3>1 DEF AddHistory, TypeOK
    <3>2. CASE ReadHistory(c)
      BY <2>1, <2>2, <3>2, GotoAt DEF ReadHistory, records, TypeOK
    <3> QED
      BY <1>8, <3>1, <3>2
  <2> QED
    BY <1>1, <2>1, <2>3
<1>10. CASE LinkRecord(c)
  BY <1>10, AdvanceEffect DEF LinkRecord, PcAt
<1>9. CASE ReadEpisode(c) \/ ArchiveEpisode(c) \/ AppendEvents(c) \/ CommitOperation(c)
           \/ Reply(c) \/ StepThrows(c) \/ FailOperation(c) \/ Crash(c)
  <2>1. CASE FailOperation(c)
    <3>1. Goto(c, "error")
      BY <2>1, Zenon DEF FailOperation
    <3> QED
      BY <3>1, GotoAt
  <2> QED
    BY <1>9, <2>1, GotoAt
       DEF ReadEpisode, ArchiveEpisode, AppendEvents, CommitOperation, Reply,
           StepThrows, Crash
<1> QED
  BY <1>2, <1>3, <1>4, <1>5, <1>6, <1>7, <1>8, <1>9, <1>10, CallSteps DEF Step

\* Events stay, and an attempt past AppendEvents has appended all of its own.
LEMMA EventsStep ==
    ASSUME TypeOK, PlanHeld, RecordsWritten, [Next]_vars, NEW c \in Callers,
           calls'[c].pc \in {"commit", "reply"}
    PROVE  PlannedIds(calls'[c].plan) \subseteq events'
<1>0. events \subseteq events'
  BY StoreSteps DEF AppendEvents
<1>1. CASE calls'[c] = calls[c]
  BY <1>0, <1>1 DEF RecordsWritten
<1>2. CASE InsertOperation(c) \/ FindOperation(c) \/ ReadOperation(c)
  BY <1>2, InsertEffect, FindEffect, ReadEffect
<1>5. CASE ReadOwnOperation(c) \/ ReclaimOperation(c) \/ UseStoredOperation(c)
           \/ RetryOperation(c)
  BY <1>5, ReadOwnEffect, ReclaimEffect, UseStoredEffect, RetryEffect,
     BeginEffect, TurnAwayEffect
<1>3. CASE PlanOperation(c)
  <2>1. calls'[c].pc \in {"check", "episode", "fail"}
    BY <1>3, FreezeEffect DEF PcAt
  <2> QED
    BY <2>1
<1>4. CASE Works(c)
  <2>1. calls'[c].plan = calls[c].plan
    BY <1>4, WorkEffect
  <2>2. CASE AppendEvents(c)
    BY <2>1, <2>2, GotoAt DEF AppendEvents
  <2>3. CASE CommitOperation(c)
    BY <1>0, <2>1, <2>3 DEF CommitOperation, RecordsWritten
  <2>4. CASE FailOperation(c)
    <3>1. Goto(c, "error")
      BY <2>4, Zenon DEF FailOperation
    <3> QED
      BY <3>1, GotoAt
  <2>5. CASE CheckRecord(c) \/ SaveRecord(c) \/ ProjectRecord(c) \/ ReadHistory(c)
             \/ AddHistory(c) \/ LinkRecord(c) \/ ReadEpisode(c) \/ ArchiveEpisode(c)
             \/ Reply(c) \/ StepThrows(c) \/ Crash(c)
    BY <2>5, GotoAt, AdvanceEffect
       DEF CheckRecord, SaveRecord, ProjectRecord, ReadHistory, AddHistory, LinkRecord,
           ReadEpisode, ArchiveEpisode, Reply, StepThrows, Crash, PcAt
  <2> QED
    BY <1>4, <2>2, <2>3, <2>4, <2>5 DEF Works
<1> QED
  BY <1>1, <1>2, <1>3, <1>4, <1>5, CallSteps DEF Step, Works

LEMMA WrittenStep ==
    TypeOK /\ PlanHeld /\ AtRecord /\ RecordsWritten /\ [Next]_vars => RecordsWritten'
<1> SUFFICES ASSUME TypeOK, PlanHeld, AtRecord, RecordsWritten, [Next]_vars
             PROVE  RecordsWritten'
  OBVIOUS
<1>1. ASSUME NEW c \in Callers, calls'[c].pc \in Touching \cup Written,
             NEW i \in 1..Len(calls'[c].plan),
             i < calls'[c].at \/ calls'[c].pc \in Written
      PROVE  Stored(calls[c].plan[i])'
  BY <1>1, BehindStep
<1> QED
  BY <1>1, UnderStep, EventsStep DEF RecordsWritten, Current
-----------------------------------------------------------------------------
(* What is acknowledged.                                                   *)

LEMMA DurableKept ==
    ASSUME TypeOK, [Next]_vars, NEW plan \in Plans, Durable(plan)
    PROVE  Durable(plan)'
<1> SUFFICES ASSUME NEW id \in PlannedIds(plan)
             PROVE  /\ id \in events'
                    /\ id[1] \notin UserEdits =>
                         /\ memories'[id] = "planned"
                         /\ vectors'[id] = "planned"
                         /\ history'[id] > 0
                         /\ links'[id]
  BY DEF Durable
<1>1. id \in Ids
  BY PlannedIdsType
<1> QED
  BY <1>1, RecordsKept DEF Durable

\* An attempt that is about to commit, or has, has a durable plan.
LEMMA WrittenIsDurable ==
    ASSUME TypeOK, PlanHeld, RecordsWritten, NEW c \in Callers,
           calls[c].pc \in {"commit", "reply"}
    PROVE  calls[c].plan \in Plans /\ Durable(calls[c].plan)
<1>1. calls[c].plan \in Plans
  BY DEF PlanHeld, WithPlan, Attempting, AttemptSteps
<1>2. PlannedIds(calls[c].plan) \subseteq events
  BY DEF RecordsWritten
<1>3. \A id \in PlannedIds(calls[c].plan) : Stored(id)
  BY DEF RecordsWritten, PlannedIds, Written
<1> QED
  BY <1>1, <1>2, <1>3 DEF Durable, Stored

LEMMA DurableStep ==
    TypeOK /\ Bound /\ PlanHeld /\ RecordsWritten /\ ResultsDurable /\ [Next]_vars
    => ResultsDurable'
<1> SUFFICES ASSUME TypeOK, Bound, PlanHeld, RecordsWritten, ResultsDurable, [Next]_vars
             PROVE  ResultsDurable'
  OBVIOUS
<1>0. \A c \in Callers : KeyOf[c] \in Keys
  BY JournalAssumption
<1>a. ASSUME NEW plan \in Plans, Durable(plan)
      PROVE  /\ \A k \in Keys : ops'[k].result = plan => Durable(ops[k].result)'
             /\ \A c \in Callers : calls'[c].seen.result = plan => Durable(calls[c].seen.result)'
             /\ \A c \in Callers : calls'[c].plan = plan => Durable(calls[c].plan)'
  <2>1. Durable(plan)'
    BY <1>a, DurableKept
  <2> QED
    BY <2>1 DEF Durable
<1>1. ASSUME NEW k \in Keys, ops'[k].status = "committed"
      PROVE  ops'[k].result \in Plans /\ Durable(ops[k].result)'
  <2>1. CASE ops[k].status = "committed" /\ ops'[k].result = ops[k].result
    BY <2>1, <1>a DEF ResultsDurable
  <2>2. ASSUME NEW c \in Callers, KeyOf[c] = k, CommitOperation(c),
               ops'[k].result = calls[c].plan
        PROVE  ops'[k].result \in Plans /\ Durable(ops[k].result)'
    <3>1. calls[c].plan \in Plans /\ Durable(calls[c].plan)
      BY <2>2, WrittenIsDurable DEF CommitOperation
    <3> QED
      BY <2>2, <3>1, <1>a
  <2>3. ASSUME NEW c \in Callers, KeyOf[c] = k, Writes(c)
        PROVE  \/ ops[k].status = "committed" /\ ops'[k].result = ops[k].result
               \/ CommitOperation(c) /\ ops'[k].result = calls[c].plan
    BY <1>1, <2>3, InsertEffect, ReclaimEffect, RetryEffect, FreezeEffect, SettleEffect
       DEF Writes
  <2> QED
    BY <1>1, <2>1, <2>2, <2>3, RowSteps
<1>2. ASSUME NEW c \in Callers, calls'[c].seen.status = "committed"
      PROVE  calls'[c].seen.result \in Plans /\ Durable(calls[c].seen.result)'
  <2>1. calls'[c].seen \in {calls[c].seen, NoRow, ops[KeyOf[c]]}
    BY PlanSources
  <2>2. calls'[c].seen # NoRow
    BY <1>2 DEF NoRow
  <2> QED
    BY <1>0, <1>2, <2>1, <2>2, <1>a DEF ResultsDurable
<1>3. ASSUME NEW c \in Callers, calls'[c].pc = "ok"
      PROVE  calls'[c].plan \in Plans /\ Durable(calls[c].plan)'
  <2>1. CASE calls'[c] = calls[c]
    BY <1>3, <2>1, <1>a DEF ResultsDurable
  <2>2. CASE UseStoredOperation(c)
    <3>1. calls[c].seen.status = "committed" /\ calls'[c].plan = calls[c].seen.result
      BY <1>3, <2>2, UseStoredEffect, TurnAwayEffect
    <3> QED
      BY <3>1, <1>a DEF ResultsDurable
  <2>3. CASE InsertOperation(c) \/ FindOperation(c) \/ ReadOperation(c)
    BY <1>3, <2>3, InsertEffect, FindEffect, ReadEffect
  <2>6. CASE ReadOwnOperation(c) \/ ReclaimOperation(c) \/ RetryOperation(c)
    BY <1>3, <2>6, ReadOwnEffect, ReclaimEffect, RetryEffect, BeginEffect, TurnAwayEffect
  <2>4. CASE PlanOperation(c)
    <3>1. calls'[c].pc \in {"check", "episode", "fail"}
      BY <2>4, FreezeEffect DEF PcAt
    <3> QED
      BY <1>3, <3>1
  <2>5. CASE Works(c)
    <3>1. calls[c].pc = "reply" /\ calls'[c].plan = calls[c].plan
      BY <1>3, <2>5, StepKeepsPlan DEF Works
    <3> QED
      BY <3>1, <1>a, WrittenIsDurable
  <2> QED
    BY <2>1, <2>2, <2>3, <2>4, <2>5, <2>6, CallSteps DEF Step, Works
<1> QED
  BY <1>1, <1>2, <1>3 DEF ResultsDurable

-----------------------------------------------------------------------------
(* Archived episodes, and whose command a record is of.                    *)

\* A plan in hand is not given up.
LEMMA PlanKept ==
    ASSUME TypeOK, AtRecord, [Next]_vars, NEW c \in Callers, calls[c].plan \in Plans
    PROVE  calls'[c].plan = calls[c].plan
<1>1. calls[c].pc \notin Planless
  BY JournalAssumption DEF AtRecord
<1>2. CASE Works(c)
  BY <1>2, WorkEffect
<1> QED
  BY <1>1, <1>2, CallSteps, InsertEffect, FindEffect, ReadEffect, ReadOwnEffect,
     ReclaimEffect, UseStoredEffect, RetryEffect, FreezeEffect
     DEF Step, Works, Planless

LEMMA EpisodeStep ==
    /\ TypeOK /\ PlanHeld /\ PlansOwned /\ AtRecord /\ RecordsWritten
    /\ EpisodeWritten /\ [Next]_vars
    => EpisodeWritten'
<1> SUFFICES ASSUME TypeOK, PlanHeld, PlansOwned, AtRecord, RecordsWritten,
                    EpisodeWritten, [Next]_vars, NEW k \in episodes'
             PROVE  \E c \in Callers :
                      /\ KeyOf[c] = k
                      /\ calls'[c].plan \in Plans
                      /\ \A id \in PlannedIds(calls'[c].plan) :
                           KeyOf[id[1]] = k /\ (id[1] \in UserEdits \/ memories'[id] # "absent")
  BY DEF EpisodeWritten
<1>1. ASSUME NEW c \in Callers, KeyOf[c] = k, calls[c].plan \in Plans,
             \A id \in PlannedIds(calls[c].plan) :
                KeyOf[id[1]] = k /\ (id[1] \in UserEdits \/ memories[id] # "absent")
      PROVE  /\ calls'[c].plan \in Plans
             /\ \A id \in PlannedIds(calls'[c].plan) :
                  KeyOf[id[1]] = k /\ (id[1] \in UserEdits \/ memories'[id] # "absent")
  <2>1. calls'[c].plan = calls[c].plan
    BY <1>1, PlanKept
  <2>2. PlannedIds(calls[c].plan) \subseteq Ids
    BY <1>1, PlannedIdsType
  <2> QED
    BY <1>1, <2>1, <2>2, RecordsKept
<1>2. CASE k \in episodes
  <2>1. PICK c \in Callers :
          /\ KeyOf[c] = k
          /\ calls[c].plan \in Plans
          /\ \A id \in PlannedIds(calls[c].plan) :
               KeyOf[id[1]] = k /\ (id[1] \in UserEdits \/ memories[id] # "absent")
    BY <1>2 DEF EpisodeWritten
  <2> QED
    BY <1>1, <2>1
<1>3. CASE k \notin episodes
  <2>1. PICK c \in Callers : ArchiveEpisode(c) /\ KeyOf[c] = k
    BY <1>3, StoreSteps DEF ArchiveEpisode
  <2>2. calls[c].pc = "saveEpisode"
    BY <2>1 DEF ArchiveEpisode
  <2>3. calls[c].plan \in Plans
    BY <2>2, AtIds DEF Written
  <2>4. \A id \in PlannedIds(calls[c].plan) : Stored(id)
    BY <2>2 DEF RecordsWritten, PlannedIds, Written
  <2>5. \A id \in PlannedIds(calls[c].plan) : KeyOf[id[1]] = k
    BY <2>1, <2>3 DEF PlansOwned, OwnedBy
  <2> QED
    BY <1>1, <2>1, <2>3, <2>4, <2>5 DEF Stored
<1> QED
  BY <1>2, <1>3

\* The record under a cursor is one of the plan, so it has the plan's owner.
LEMMA CurrentIsPlanned ==
    ASSUME TypeOK, PlanHeld, AtRecord, NEW c \in Callers, calls[c].pc \in Touching
    PROVE  Current(c) \in PlannedIds(calls[c].plan) /\ Current(c) \in Ids
BY AtIds DEF PlannedIds, Current

LEMMA MatchStep ==
    /\ TypeOK /\ PlanHeld /\ Bound /\ PlansOwned /\ AtRecord
    /\ RecordsMatchRequest /\ [Next]_vars
    => RecordsMatchRequest'
<1> SUFFICES ASSUME TypeOK, PlanHeld, Bound, PlansOwned, AtRecord,
                    RecordsMatchRequest, [Next]_vars,
                    NEW id \in Ids, memories'[id] # "absent"
             PROVE  RequestOf[id[1]] = ops'[KeyOf[id[1]]].request
  BY DEF RecordsMatchRequest
<1>0. /\ id[1] \in Callers /\ KeyOf[id[1]] \in Keys
      /\ RequestOf[id[1]] # Null
  BY JournalAssumption DEF Ids, Requests
<1>1. ASSUME RequestOf[id[1]] = ops[KeyOf[id[1]]].request
      PROVE  RequestOf[id[1]] = ops'[KeyOf[id[1]]].request
  BY <1>0, <1>1, RequestKept
<1>2. CASE memories[id] # "absent"
  BY <1>1, <1>2 DEF RecordsMatchRequest
<1>3. CASE memories[id] = "absent"
  <2>1. PICK c \in Callers : SaveRecord(c) /\ Current(c) = id
    BY <1>3, StoreSteps DEF SaveRecord, EditRecord, PurgeRecord, TypeOK
  <2>2. calls[c].pc \in Touching
    BY <2>1 DEF SaveRecord, Touching
  <2>3. id \in PlannedIds(calls[c].plan) /\ calls[c].plan \in Plans
    BY <2>1, <2>2, CurrentIsPlanned, AtIds
  <2>4. KeyOf[id[1]] = KeyOf[c] /\ RequestOf[id[1]] = ops[KeyOf[c]].request
    BY <2>3 DEF PlansOwned, OwnedBy
  <2> QED
    BY <1>1, <2>4
<1> QED
  BY <1>2, <1>3
-----------------------------------------------------------------------------
(* One ADD entry, if attempts are prompt: the one that is about to add it   *)
(* is alone on its record.                                                  *)

LEMMA OneOnRecord ==
    ASSUME TypeOK, PlanHeld, PlansOwned, AtRecord, Alone,
           NEW c \in Callers, NEW d \in Callers,
           calls[c].pc \in Touching, calls[d].pc \in Touching, Current(c) = Current(d)
    PROVE  c = d
<1>1. KeyOf[Current(c)[1]] = KeyOf[c] /\ KeyOf[Current(d)[1]] = KeyOf[d]
  BY CurrentIsPlanned, AtIds DEF PlansOwned, OwnedBy
<1> QED
  BY <1>1 DEF Alone, Attempting, AttemptSteps, Touching

\* The history of a record that users leave alone changes by an ADD entry alone.
LEMMA HistoryMoves ==
    ASSUME TypeOK, PlanHeld, AtRecord, [Next]_vars, NEW id \in Ids, id[1] \notin UserEdits
    PROVE  \/ history'[id] = history[id]
           \/ /\ history'[id] = history[id] + 1
              /\ \E c \in Callers : AddHistory(c) /\ Current(c) = id
<1>1. ASSUME NEW c \in Callers, AddHistory(c), Current(c) = id
      PROVE  history'[id] = history[id] + 1
  BY <1>1 DEF AddHistory, TypeOK
<1>2. ASSUME NEW c \in Callers, AddHistory(c), Current(c) # id
      PROVE  history'[id] = history[id]
  BY <1>2 DEF AddHistory, TypeOK
<1>3. ASSUME NEW x \in Ids, PurgeRecord(x)
      PROVE  history'[id] = history[id]
  BY <1>3 DEF PurgeRecord, TypeOK
<1> QED
  BY <1>1, <1>2, <1>3, StoreSteps

LEMMA HistoryStep ==
    /\ TypeOK /\ PlanHeld /\ PlansOwned /\ AtRecord /\ RecordsWritten
    /\ (PromptAttempts => Alone) /\ HistoryOnce /\ [Next]_vars
    => HistoryOnce'
<1> SUFFICES ASSUME TypeOK, PlanHeld, PlansOwned, AtRecord, RecordsWritten, Alone,
                    PromptAttempts, HistoryOnce, [Next]_vars
             PROVE  /\ \A id \in Ids : id[1] \notin UserEdits =>
                         /\ history'[id] <= 1
                         /\ memories'[id] = "absent" => history'[id] = 0
                    /\ \A c \in Callers :
                         /\ calls'[c].pc \in {"project", "addHistory"}
                         /\ calls'[c].plan[calls'[c].at][1] \notin UserEdits
                         => history'[calls'[c].plan[calls'[c].at]] = 0
  BY DEF HistoryOnce, Current
<1>a. \A id \in Ids : id[1] \notin UserEdits =>
        history[id] <= 1 /\ (memories[id] = "absent" => history[id] = 0)
  BY DEF HistoryOnce
<1>b. \A c \in Callers :
        calls[c].pc \in {"project", "addHistory"} /\ Current(c)[1] \notin UserEdits =>
            history[Current(c)] = 0
  BY DEF HistoryOnce
<1>1. ASSUME NEW id \in Ids, id[1] \notin UserEdits
      PROVE  history'[id] <= 1 /\ (memories'[id] = "absent" => history'[id] = 0)
  <2>1. memories'[id] = "absent" => memories[id] = "absent"
    BY <1>1, RecordsKept
  <2>2. CASE history'[id] = history[id]
    BY <1>1, <1>a, <2>1, <2>2
  <2>3. CASE history'[id] # history[id]
    <3>1. PICK c \in Callers : AddHistory(c) /\ Current(c) = id
      BY <1>1, <2>3, HistoryMoves
    <3>2. history'[id] = history[id] + 1
      BY <1>1, <2>3, HistoryMoves
    <3>3. history[id] = 0 /\ memories[id] = "planned"
      BY <1>1, <1>b, <3>1 DEF AddHistory, RecordsWritten, Touching
    <3> QED
      BY <2>1, <3>2, <3>3
  <2> QED
    BY <2>2, <2>3
<1>2. ASSUME NEW c \in Callers, NEW id, id = calls'[c].plan[calls'[c].at],
             calls'[c].pc \in {"project", "addHistory"}, id[1] \notin UserEdits
      PROVE  history'[id] = 0
  <2>1. CASE calls'[c] = calls[c]
    <3>1. id = Current(c) /\ calls[c].pc \in {"project", "addHistory"}
      BY <1>2, <2>1 DEF Current
    <3>0. id \in Ids
      BY <3>1, CurrentIsPlanned DEF Touching
    <3>2. CASE history'[id] = history[id]
      BY <1>2, <1>b, <3>1, <3>2
    <3>3. ASSUME NEW d \in Callers, AddHistory(d), Current(d) = id
          PROVE  FALSE
      <4>1. d = c
        BY <3>1, <3>3, OneOnRecord DEF AddHistory, Touching
      <4>2. calls[c].pc = "addHistory" /\ calls'[c].pc = "link"
        BY <3>3, <4>1, GotoAt DEF AddHistory
      <4> QED
        BY <2>1, <4>2
    <3> QED
      BY <1>2, <3>0, <3>2, <3>3, HistoryMoves
  <2>2. CASE SaveRecord(c) \/ ProjectRecord(c)
    <3>1. id = Current(c) /\ UNCHANGED history
      BY <1>2, <2>2, GotoAt DEF Current, SaveRecord, ProjectRecord
    <3>0. id \in Ids
      BY <2>2, <3>1, CurrentIsPlanned DEF SaveRecord, ProjectRecord, Touching
    <3>2. CASE SaveRecord(c)
      BY <1>2, <3>0, <1>a, <3>1, <3>2, GotoAt DEF SaveRecord
    <3>3. CASE ProjectRecord(c)
      BY <1>2, <1>b, <3>1, <3>3, GotoAt DEF ProjectRecord
    <3> QED
      BY <2>2, <3>2, <3>3
  <2>3. CASE ReadHistory(c) \/ AddHistory(c)
    <3>1. ~Goto(c, "link")
      BY <1>2, GotoAt
    <3>2. ReadHistory(c) /\ history[Current(c)] = 0 /\ Goto(c, "addHistory")
      BY <2>3, <3>1 DEF ReadHistory, AddHistory
    <3> QED
      BY <1>2, <3>2, GotoAt DEF ReadHistory, Current, records
  <2>4. CASE InsertOperation(c) \/ FindOperation(c) \/ ReadOperation(c)
    BY <1>2, <2>4, InsertEffect, FindEffect, ReadEffect
  <2>8. CASE ReadOwnOperation(c) \/ ReclaimOperation(c) \/ UseStoredOperation(c)
             \/ RetryOperation(c)
    BY <1>2, <2>8, ReadOwnEffect, ReclaimEffect, UseStoredEffect, RetryEffect,
       BeginEffect, TurnAwayEffect
  <2>9. CASE LinkRecord(c)
    BY <1>2, <2>9, AdvanceEffect DEF LinkRecord, PcAt
  <2>5. CASE PlanOperation(c)
    <3>1. calls'[c].pc \in {"check", "episode", "fail"}
      BY <2>5, FreezeEffect DEF PcAt
    <3> QED
      BY <1>2, <3>1
  <2>6. CASE CheckRecord(c) \/ ReadEpisode(c) \/ ArchiveEpisode(c) \/ AppendEvents(c)
             \/ CommitOperation(c) \/ Reply(c) \/ StepThrows(c) \/ Crash(c)
    BY <1>2, <2>6, GotoAt
       DEF CheckRecord, ReadEpisode, ArchiveEpisode, AppendEvents, CommitOperation, Reply,
           StepThrows, Crash
  <2>7. CASE FailOperation(c)
    <3>1. Goto(c, "error")
      BY <2>7, Zenon DEF FailOperation
    <3> QED
      BY <1>2, <3>1, GotoAt
  <2> QED
    BY <2>1, <2>2, <2>3, <2>4, <2>5, <2>6, <2>7, <2>8, <2>9, CallSteps DEF Step
<1> QED
  BY <1>1, <1>2

-----------------------------------------------------------------------------

LEMMA RecordsInit == Init => RecordsInv
<1> SUFFICES ASSUME Init PROVE RecordsInv
  OBVIOUS
<1>0. /\ \A k \in Keys : ops[k] = NoRow
      /\ \A c \in Callers : calls[c].pc = "idle" /\ calls[c].plan = Null
                            /\ calls[c].seen = NoRow
      /\ \A id \in Ids : memories[id] = "absent" /\ history[id] = 0
      /\ \A c \in Callers : KeyOf[c] \in Keys
      /\ NoRow.plan = Null /\ NoRow.result = Null /\ NoRow.status = "none"
  BY JournalAssumption DEF Init, NoRow
<1>1. Bound
  BY <1>0 DEF Bound, Attempting, AttemptSteps
<1>2. PlansOwned
  BY <1>0, NullOwned DEF PlansOwned
<1>3. AtRecord /\ RecordsWritten /\ HistoryOnce
  BY <1>0 DEF AtRecord, RecordsWritten, HistoryOnce, Touching, Written, Projected
<1>4. ResultsDurable /\ RecordsMatchRequest
  BY <1>0 DEF ResultsDurable, RecordsMatchRequest
<1>5. EpisodeWritten
  BY DEF EpisodeWritten, Init
<1> QED
  BY <1>1, <1>2, <1>3, <1>4, <1>5 DEF RecordsInv

\* The inductive invariant of the records: no assumption on leases, replies or
\* users, but for HistoryOnce, which is vacuous for attempts that overrun.
THEOREM RecordsInvariant == Spec => []RecordsInv
<1>1. ASSUME TypeOK, JournalInv, RecordsInv, [Next]_vars PROVE RecordsInv'
  <2>1. PlanHeld /\ (PromptAttempts => Alone)
    BY <1>1 DEF JournalInv
  <2>2. Bound' /\ PlansOwned' /\ AtRecord'
    BY <1>1, BoundStep, OwnedStep, AtStep DEF RecordsInv
  <2>3. RecordsWritten' /\ ResultsDurable'
    BY <1>1, <2>1, WrittenStep, DurableStep DEF RecordsInv
  <2>4. EpisodeWritten' /\ RecordsMatchRequest'
    BY <1>1, <2>1, EpisodeStep, MatchStep DEF RecordsInv
  <2>5. HistoryOnce'
    BY <1>1, <2>1, HistoryStep DEF RecordsInv
  <2> QED
    BY <2>2, <2>3, <2>4, <2>5 DEF RecordsInv
<1> QED
  BY <1>1, RecordsInit, JournalInvariant, PTL DEF Spec
\* What survives overruns, lost replies, crashes, edits and purges: an answered
\* caller and a committed row speak of records that are complete and have their
\* journal event, an archived episode has its records, and no record was written
\* for another command than the one its key belongs to.
THEOREM RecordsSurviveOverruns == Spec => []SafeAfterOverruns
<1>1. RecordsInv => AcknowledgedIsDurable
  BY DEF RecordsInv, ResultsDurable, AcknowledgedIsDurable
<1>2. RecordsInv => EpisodeLast
  <2> SUFFICES ASSUME RecordsInv, NEW k \in episodes
               PROVE  \E plan \in Plans :
                        /\ \A id \in PlannedIds(plan) :
                             /\ KeyOf[id[1]] = k
                             /\ id[1] \in UserEdits \/ memories[id] # "absent"
                        /\ \/ plan = ops[k].plan
                           \/ \E c \in Callers : KeyOf[c] = k /\ calls[c].plan = plan
    BY DEF EpisodeLast
  <2> QED
    BY DEF RecordsInv, EpisodeWritten
<1>3. RecordsInv => RecordsMatchRequest
  BY DEF RecordsInv
<1> QED
  BY <1>1, <1>2, <1>3, RecordsInvariant, PTL DEF SafeAfterOverruns

\* Exactly-once effects of an interrupted add: what is acknowledged is durable and
\* no record has two ADD entries, if no call outlives its lease and users leave
\* the records alone.  (A purge between two attempts resets what the second reads.)
THEOREM ResumesExactly ==
    PromptAttempts /\ UserEdits = {} => (Spec => []ResumedExactly)
<1> SUFFICES ASSUME PromptAttempts, UserEdits = {} PROVE Spec => []ResumedExactly
  OBVIOUS
<1>1. RecordsInv => ResumedExactly
  BY DEF RecordsInv, ResultsDurable, HistoryOnce, AcknowledgedIsDurable, ResumedExactly
<1> QED
  BY <1>1, RecordsInvariant, PTL

\* A step of the engine never writes its planned content over a user's edit: an
\* attempt that finds other content under its identifier fails instead.
LEMMA EditStep ==
    ASSUME TypeOK, [Next]_vars, NEW id \in Ids, memories[id] = "edited"
    PROVE  memories'[id] # "planned"
BY StoreSteps DEF SaveRecord, EditRecord, PurgeRecord, TypeOK

THEOREM EditsSurviveRetries == Spec => EditSurvivesRetry
<1>1. TypeOK /\ [Next]_vars
      => [\A id \in Ids : memories[id] = "edited" => memories'[id] # "planned"]_vars
  BY EditStep
<1> QED
  BY <1>1, TypeCorrect, PTL DEF Spec, EditSurvivesRetry
===============================================================================
