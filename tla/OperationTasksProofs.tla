-------------------------- MODULE OperationTasksProofs --------------------------
(***************************************************************************)
(* Proofs about OperationTasks, for any tasks, any cron runs and queue     *)
(* consumers, any lease, batch limit and bound on attempts, crashes and    *)
(* operator retries.                                                       *)
(***************************************************************************)
EXTENDS OperationTasks, TLAPS

Rows == [status : {"pending", "processing", "retry", "success", "dead"},
         attempts : 0..MaxAttempts, next : 0..(Chunks - 1),
         lease : 0..LeaseTicks, due : BOOLEAN, exhausted : BOOLEAN]

Locals == [pc : {"idle", "batch", "running", "finishing"},
           selected : SUBSET Tasks, task : Tasks \cup {NoTask},
           attempts : 0..MaxAttempts, next : 0..(Chunks - 1),
           outcome : {"none", "success", "continue", "error"},
           age : 0..LeaseTicks]

Open == {"pending", "retry", "processing"}

-----------------------------------------------------------------------------
(* The inductive invariant.                                                *)

\* A worker that holds a task took it up where the chunks before had taken
\* effect, and an outcome it is about to record is true of its chunk.
ChunkClaims ==
    \A w \in Workers, t \in Tasks : Working(w, t) =>
        /\ \A n \in 0..(Chunks - 1) : n < workers[w].next => n \in applied[t]
        /\ workers[w].pc = "finishing" /\ workers[w].outcome \in {"continue", "success"} =>
             /\ workers[w].next \in applied[t]
             /\ (workers[w].outcome = "continue") <=> (workers[w].next + 1 < Chunks)

\* A selection that the claim would still accept is of a task that is not done.
FreshIsOpen ==
    \A w \in Workers, t \in Tasks : t \in fresh[w] => tasks[t].status \in Open

\* What the lease of a prompt worker is worth: while it runs, the row of its
\* task is the one it wrote, the lease of that row is the rest of its own time,
\* and no selection of the task passes the claim.
LeaseHolds ==
    prompt =>
        /\ dlq = {}
        /\ \A w \in Workers : workers[w].pc # "idle" => workers[w].age < LeaseTicks
        /\ \A w \in Workers, t \in Tasks : Working(w, t) =>
             /\ tasks[t].status = "processing"
             /\ tasks[t].lease = LeaseTicks - workers[w].age
             /\ tasks[t].attempts = workers[w].attempts
             /\ \A v \in Workers : t \notin fresh[v]

TasksInv ==
    /\ TypeOK
    /\ ChunkClaims
    /\ ProgressIsReal
    /\ FreshIsOpen
    /\ LeaseHolds
    /\ OneWorker
    /\ NoEarlyDeath
-----------------------------------------------------------------------------
(* What the operators of the module do.                                    *)

\* No worker but w, and no row but that of t, changes.
OnlyWorker(w) == \A v \in Workers : v # w => workers'[v] = workers[v]
OnlyRow(t) == \A u \in Tasks : u # t => tasks'[u] = tasks[u]

LEMMA IdleType == Idle \in Locals
BY TasksAssumption DEF Idle, Locals

LEMMA PendingType == Pending \in Rows
BY TasksAssumption DEF Pending, Rows

LEMMA SucceededType == Succeeded \in Rows
BY TasksAssumption DEF Succeeded, Rows

\* The tables have the types of TypeOK, named.
LEMMA Types ==
    ASSUME TypeOK
    PROVE  /\ tasks \in [Tasks -> Rows]
           /\ workers \in [Workers -> Locals]
           /\ fresh \in [Workers -> SUBSET Tasks]
           /\ applied \in [Tasks -> SUBSET (0..(Chunks - 1))]
BY DEF TypeOK, Rows, Locals

LEMMA WriteRowEffect ==
    ASSUME TypeOK, NEW t \in Tasks, NEW row, WriteRow(t, row)
    PROVE  /\ tasks'[t] = row
           /\ OnlyRow(t)
           /\ \A w \in Workers : fresh'[w] = fresh[w] \ {t}
           /\ row \in Rows => tasks' \in [Tasks -> Rows]
           /\ fresh' \in [Workers -> SUBSET Tasks]
BY Types DEF WriteRow, OnlyRow

LEMMA SelectEffect ==
    ASSUME TypeOK, NEW w \in Workers, NEW S \in SUBSET Tasks, Select(w, S)
    PROVE  /\ workers' \in [Workers -> Locals]
           /\ workers'[w].pc = "batch"
           /\ workers'[w].age = 0
           /\ OnlyWorker(w)
           /\ fresh' \in [Workers -> SUBSET Tasks]
           /\ \A v \in Workers : fresh'[v] = IF v = w THEN S ELSE fresh[v]
<1> DEFINE l0 == [Idle EXCEPT !.pc = "batch"]
           l == [l0 EXCEPT !.selected = S]
<1>0. l0 \in Locals /\ l0.pc = "batch" /\ l0.age = 0
  BY TasksAssumption DEF Idle, Locals
<1> HIDE DEF l0
<1>1. l \in Locals /\ l.pc = "batch" /\ l.age = 0
  BY <1>0 DEF Locals
<1>2. workers' = [workers EXCEPT ![w] = l]
  BY DEF Select, l0
<1> HIDE DEF l
<1> QED
  BY <1>1, <1>2, Types DEF Select, OnlyWorker

LEMMA ProceedEffect ==
    ASSUME TypeOK, NEW w \in Workers, NEW S \in SUBSET Tasks
    PROVE  /\ Proceed(w, S) \in Locals
           /\ Proceed(w, S).pc \in {"idle", "batch"}
           /\ Proceed(w, S).pc # "idle" => Proceed(w, S).age = workers[w].age
<1>1. workers[w].age \in 0..LeaseTicks
  BY Types DEF Locals
<1> DEFINE l1 == [Idle EXCEPT !.pc = "batch"]
           l2 == [l1 EXCEPT !.selected = S]
           l3 == [l2 EXCEPT !.age = workers[w].age]
<1>2. l1 \in Locals /\ l1.pc = "batch"
  BY TasksAssumption DEF Idle, Locals
<1> HIDE DEF l1
<1>3. l2 \in Locals /\ l2.pc = "batch"
  BY <1>2 DEF Locals
<1> HIDE DEF l2
<1>4. l3 \in Locals /\ l3.pc = "batch" /\ l3.age = workers[w].age
  BY <1>1, <1>3 DEF Locals
<1>5. Proceed(w, S) = IF S = {} THEN Idle ELSE l3
  BY DEF Proceed, l1, l2
<1>6. Idle.pc = "idle"
  BY DEF Idle
<1> HIDE DEF l3
<1> QED
  BY <1>4, <1>5, <1>6, IdleType

LEMMA FinishEffect ==
    ASSUME TypeOK, NEW w \in Workers, NEW outcome, NEW row,
           Finish(w, outcome, row)
    PROVE  /\ Working(w, workers[w].task)
           /\ workers[w].task \in Tasks
           /\ workers[w].outcome = outcome
           /\ WriteRow(workers[w].task, row)
           /\ workers' \in [Workers -> Locals]
           /\ workers'[w].pc \in {"idle", "batch"}
           /\ workers'[w].pc # "idle" => workers'[w].age = workers[w].age
           /\ OnlyWorker(w)
           /\ UNCHANGED <<prompt, dlq, applied, crashes, redrives>>
<1>1. workers[w].task \in Tasks /\ workers[w].selected \in SUBSET Tasks
  BY Types DEF Finish, TypeOK, Locals
<1>2. workers' = [workers EXCEPT ![w] = Proceed(w, workers[w].selected)]
  BY DEF Finish
<1> QED
  BY <1>1, <1>2, ProceedEffect, Types DEF Finish, Working, OnlyWorker

\* The row and the locals a claim leaves.
LEMMA ClaimEffect ==
    ASSUME TypeOK, NEW w \in Workers, NEW t \in Tasks, Claim(w, t)
    PROVE  /\ WriteRow(t, tasks'[t])
           /\ tasks'[t] \in Rows
           /\ tasks'[t].status = "processing"
           /\ tasks'[t].next = tasks[t].next
           /\ tasks'[t].lease = LeaseTicks - workers[w].age
           /\ tasks'[t].attempts = workers'[w].attempts
           /\ workers' \in [Workers -> Locals]
           /\ workers'[w].pc = "running"
           /\ workers'[w].task = t
           /\ workers'[w].next = tasks[t].next
           /\ workers'[w].age = workers[w].age
           /\ OnlyWorker(w)
           /\ workers[w].pc = "batch"
           /\ t \in fresh[w]
           /\ UNCHANGED <<applied, environment>>
<1> DEFINE n == Increment(tasks[t].attempts)
           r1 == [tasks[t] EXCEPT !.status = "processing"]
           r2 == [r1 EXCEPT !.attempts = n]
           r3 == [r2 EXCEPT !.lease = LeaseTicks - workers[w].age]
           l1 == [workers[w] EXCEPT !.pc = "running"]
           l2 == [l1 EXCEPT !.task = t]
           l3 == [l2 EXCEPT !.selected = workers[w].selected \ {t}]
           l4 == [l3 EXCEPT !.attempts = n]
           l5 == [l4 EXCEPT !.next = tasks[t].next]
<1>1. tasks[t] \in Rows /\ workers[w] \in Locals
  BY Types
<1>2. n \in 0..MaxAttempts
  BY <1>1, TasksAssumption DEF Increment, Rows
<1>3. LeaseTicks - workers[w].age \in 0..LeaseTicks
  BY <1>1, TasksAssumption DEF Locals
<1> HIDE DEF n
<1>4. r3 \in Rows /\ r3.status = "processing" /\ r3.next = tasks[t].next
      /\ r3.lease = LeaseTicks - workers[w].age /\ r3.attempts = n
  BY <1>1, <1>2, <1>3 DEF Rows
<1>5. l3 \in Locals /\ l3.pc = "running" /\ l3.task = t /\ l3.age = workers[w].age
  BY <1>1 DEF Locals
<1>6. tasks[t].next \in 0..(Chunks - 1)
  BY <1>1 DEF Rows
<1> HIDE DEF l3
<1>7. l5 \in Locals /\ l5.pc = "running" /\ l5.task = t /\ l5.age = workers[w].age
      /\ l5.attempts = n /\ l5.next = tasks[t].next
  BY <1>2, <1>5, <1>6 DEF Locals
<1>8. workers' = [workers EXCEPT ![w] = l5]
  BY Types DEF Claim, n, l3
<1>9. WriteRow(t, r3)
  BY DEF Claim, n
<1> HIDE DEF r3, l5
<1>10. tasks'[t] = r3
  BY <1>9, WriteRowEffect
<1>11. workers' \in [Workers -> Locals] /\ workers'[w] = l5 /\ OnlyWorker(w)
  BY <1>7, <1>8, Types DEF OnlyWorker
<1> QED
  BY <1>4, <1>7, <1>9, <1>10, <1>11 DEF Claim
\* A worker whose selection has gone stale skips the task.
LEMMA SkipEffect ==
    ASSUME TypeOK, NEW w \in Workers, NEW t \in Tasks, SkipClaim(w, t)
    PROVE  /\ workers' \in [Workers -> Locals]
           /\ workers[w].pc = "batch"
           /\ workers'[w].pc \in {"idle", "batch"}
           /\ workers'[w].pc # "idle" => workers'[w].age = workers[w].age
           /\ OnlyWorker(w)
           /\ queue' \subseteq Tasks
           /\ UNCHANGED <<prompt, tasks, fresh, applied, dlq, crashes, redrives>>
<1>1. workers[w].selected \ {t} \in SUBSET Tasks
  BY Types DEF Locals
<1>2. workers' = [workers EXCEPT ![w] = Proceed(w, workers[w].selected \ {t})]
  BY DEF SkipClaim
<1>3. queue' \subseteq Tasks
  BY DEF SkipClaim, TypeOK
<1> QED
  BY <1>1, <1>2, <1>3, ProceedEffect, Types DEF SkipClaim, OnlyWorker

\* What a run of the handler leaves: its outcome tells whether the chunk took
\* effect, and whether it was the last.
LEMMA RunEffect ==
    ASSUME TypeOK, NEW w \in Workers, RunHandler(w)
    PROVE  /\ workers' \in [Workers -> Locals]
           /\ workers[w].pc = "running"
           /\ workers'[w].pc = "finishing"
           /\ workers'[w].task = workers[w].task
           /\ workers'[w].next = workers[w].next
           /\ workers'[w].age = workers[w].age
           /\ workers'[w].attempts = workers[w].attempts
           /\ OnlyWorker(w)
           /\ applied' \in [Tasks -> SUBSET (0..(Chunks - 1))]
           /\ \A t \in Tasks : applied[t] \subseteq applied'[t]
           /\ workers'[w].outcome # "error" =>
                /\ workers[w].next \in applied'[workers[w].task]
                /\ (workers'[w].outcome = "continue") <=> (workers[w].next + 1 < Chunks)
                /\ workers'[w].outcome \in {"continue", "success"}
           /\ UNCHANGED <<tasks, fresh, environment>>
<1> DEFINE t == workers[w].task
           n == workers[w].next
           after == IF n + 1 < Chunks THEN "continue" ELSE "success"
           l1 == [workers[w] EXCEPT !.pc = "finishing"]
           l2(outcome) == [l1 EXCEPT !.outcome = outcome]
<1>1. workers[w] \in Locals /\ workers[w].pc = "running"
  BY Types DEF RunHandler
<1>2. t \in Tasks /\ n \in 0..(Chunks - 1)
  BY <1>1, Types DEF TypeOK, Locals
<1>3. l1 \in Locals /\ l1.pc = "finishing" /\ l1.task = t /\ l1.next = n
      /\ l1.age = workers[w].age /\ l1.attempts = workers[w].attempts
  BY <1>1 DEF Locals
<1> HIDE DEF l1
<1>4. \A outcome \in {"continue", "success", "error"} :
        /\ l2(outcome) \in Locals
        /\ l2(outcome).pc = "finishing"
        /\ l2(outcome).task = t
        /\ l2(outcome).next = n
        /\ l2(outcome).age = workers[w].age
        /\ l2(outcome).attempts = workers[w].attempts
        /\ l2(outcome).outcome = outcome
  BY <1>3 DEF Locals
<1>5. \E outcome \in {"continue", "success", "error"} :
        /\ workers' = [workers EXCEPT ![w] = l2(outcome)]
        /\ outcome = "error" \/ outcome = after
        /\ outcome # "error" => applied' = [applied EXCEPT ![t] = @ \cup {n}]
        /\ \E done \in {{}, {n}} : applied' = [applied EXCEPT ![t] = @ \cup done]
  <2>1. CASE applied' = [applied EXCEPT ![t] = @ \cup {n}]
             /\ workers' = [workers EXCEPT ![w].pc = "finishing", ![w].outcome = after]
    <3>1. workers' = [workers EXCEPT ![w] = l2(after)]
      BY <2>1, Types DEF l1
    <3>2. after \in {"continue", "success", "error"}
      OBVIOUS
    <3> HIDE DEF after
    <3> QED
      BY <2>1, <3>1, <3>2
  <2>2. CASE (\E done \in {{}, {n}} : applied' = [applied EXCEPT ![t] = @ \cup done])
             /\ workers' = [workers EXCEPT ![w].pc = "finishing", ![w].outcome = "error"]
    <3>1. workers' = [workers EXCEPT ![w] = l2("error")]
      BY <2>2, Types DEF l1
    <3> QED
      BY <2>2, <3>1
  <2> QED
    BY <2>1, <2>2 DEF RunHandler
<1>6. PICK outcome \in {"continue", "success", "error"} :
        /\ workers' = [workers EXCEPT ![w] = l2(outcome)]
        /\ outcome = "error" \/ outcome = after
        /\ outcome # "error" => applied' = [applied EXCEPT ![t] = @ \cup {n}]
        /\ \E done \in {{}, {n}} : applied' = [applied EXCEPT ![t] = @ \cup done]
  BY <1>5
<1>7. /\ applied' \in [Tasks -> SUBSET (0..(Chunks - 1))]
      /\ \A u \in Tasks : applied[u] \subseteq applied'[u]
      /\ outcome # "error" => n \in applied'[t]
  BY <1>2, <1>6, Types
<1>8. workers' \in [Workers -> Locals] /\ workers'[w] = l2(outcome) /\ OnlyWorker(w)
  BY <1>4, <1>6, Types DEF OnlyWorker
<1>9. outcome # "error" => /\ (outcome = "continue") <=> (n + 1 < Chunks)
                           /\ outcome \in {"continue", "success"}
  BY <1>6
<1> HIDE DEF l2
<1> QED
  BY <1>1, <1>4, <1>7, <1>8, <1>9 DEF RunHandler
LEMMA CrashEffect ==
    ASSUME TypeOK, NEW w \in Workers, Crash(w)
    PROVE  /\ workers' \in [Workers -> Locals]
           /\ workers'[w].pc = "idle"
           /\ OnlyWorker(w)
           /\ fresh' \in [Workers -> SUBSET Tasks]
           /\ \A v \in Workers : fresh'[v] \subseteq fresh[v]
           /\ UNCHANGED <<prompt, tasks, queue, dlq, applied, redrives>>
<1>1. Idle.pc = "idle"
  BY DEF Idle
<1> QED
  BY <1>1, IdleType, Types DEF Crash, OnlyWorker

\* A tick takes one from every lease that has any left, and gives one to the
\* age of every worker that is not idle.
LEMMA TickEffect ==
    ASSUME TypeOK, Tick
    PROVE  /\ tasks' \in [Tasks -> Rows]
           /\ workers' \in [Workers -> Locals]
           /\ \A t \in Tasks :
                /\ tasks'[t].status = tasks[t].status
                /\ tasks'[t].attempts = tasks[t].attempts
                /\ tasks'[t].next = tasks[t].next
                /\ tasks'[t].exhausted = tasks[t].exhausted
                /\ tasks'[t].lease = IF tasks[t].lease > 0 THEN tasks[t].lease - 1 ELSE 0
           /\ \A w \in Workers :
                /\ workers'[w].pc = workers[w].pc
                /\ workers'[w].task = workers[w].task
                /\ workers'[w].attempts = workers[w].attempts
                /\ workers'[w].next = workers[w].next
                /\ workers'[w].outcome = workers[w].outcome
                /\ workers[w].pc # "idle" =>
                     workers'[w].age = IF workers[w].age < LeaseTicks
                                       THEN workers[w].age + 1 ELSE workers[w].age
           /\ UNCHANGED <<fresh, applied, environment>>
<1> DEFINE row(t) == [tasks[t] EXCEPT !.lease = IF @ > 0 THEN @ - 1 ELSE 0]
           older(w) == [workers[w] EXCEPT !.age = IF @ < LeaseTicks THEN @ + 1 ELSE @]
<1>1. ASSUME NEW t \in Tasks
      PROVE  /\ row(t) \in Rows
             /\ row(t).status = tasks[t].status
             /\ row(t).attempts = tasks[t].attempts
             /\ row(t).next = tasks[t].next
             /\ row(t).exhausted = tasks[t].exhausted
             /\ row(t).lease = IF tasks[t].lease > 0 THEN tasks[t].lease - 1 ELSE 0
  <2>1. tasks[t] \in Rows
    BY Types
  <2> QED
    BY <2>1, TasksAssumption DEF Rows
<1>2. ASSUME NEW w \in Workers
      PROVE  /\ older(w) \in Locals
             /\ older(w).pc = workers[w].pc
             /\ older(w).task = workers[w].task
             /\ older(w).attempts = workers[w].attempts
             /\ older(w).next = workers[w].next
             /\ older(w).outcome = workers[w].outcome
             /\ older(w).age = IF workers[w].age < LeaseTicks
                               THEN workers[w].age + 1 ELSE workers[w].age
  <2>1. workers[w] \in Locals
    BY Types
  <2> QED
    BY <2>1, TasksAssumption DEF Locals
<1>3. /\ tasks' = [t \in Tasks |-> row(t)]
      /\ workers' = [w \in Workers |-> IF workers[w].pc = "idle" THEN workers[w]
                                       ELSE older(w)]
  BY DEF Tick
<1> HIDE DEF row, older
<1>4. tasks' \in [Tasks -> Rows] /\ \A t \in Tasks : tasks'[t] = row(t)
  BY <1>1, <1>3
<1>5. \A w \in Workers : /\ workers[w].pc = "idle" => workers'[w] = workers[w]
                         /\ workers[w].pc # "idle" => workers'[w] = older(w)
  BY <1>3
<1>6. workers' \in [Workers -> Locals]
  BY <1>2, <1>3, Types
<1> QED
  BY <1>1, <1>2, <1>4, <1>5, <1>6 DEF Tick

\* The rows the outcomes of an execution are recorded in.
LEMMA ContinuationRow ==
    ASSUME NEW n \in 0..(Chunks - 1)
    PROVE  LET row == [Pending EXCEPT !.next = n] IN
           /\ row \in Rows
           /\ row.status = "pending"
           /\ row.next = n
<1>1. Pending.status = "pending"
  BY DEF Pending
<1> QED
  BY <1>1, PendingType DEF Rows

\* Settling a row: a status, no lease, and what its due and exhausted become.
Settled(r, s, d) ==
    [r EXCEPT !.status = s, !.lease = 0, !.due = FALSE, !.exhausted = d]

LEMMA SettledRow ==
    ASSUME NEW r \in Rows,
           NEW s \in {"pending", "processing", "retry", "success", "dead"},
           NEW d \in BOOLEAN
    PROVE  /\ Settled(r, s, d) \in Rows
           /\ Settled(r, s, d).status = s
           /\ Settled(r, s, d).attempts = r.attempts
           /\ Settled(r, s, d).next = r.next
           /\ Settled(r, s, d).exhausted = d
<1> DEFINE r1 == [r EXCEPT !.status = s]
           r2 == [r1 EXCEPT !.lease = 0]
           r3 == [r2 EXCEPT !.due = FALSE]
           r4 == [r3 EXCEPT !.exhausted = d]
<1>0. 0 \in 0..LeaseTicks
  BY TasksAssumption
<1>a. r1 \in Rows /\ r1.status = s /\ r1.attempts = r.attempts /\ r1.next = r.next
  BY DEF Rows
<1> HIDE DEF r1
<1>1. r2 \in Rows /\ r2.status = s /\ r2.attempts = r.attempts /\ r2.next = r.next
  BY <1>0, <1>a DEF Rows
<1> HIDE DEF r2
<1>2. r4 \in Rows /\ r4.status = s /\ r4.attempts = r.attempts /\ r4.next = r.next
      /\ r4.exhausted = d
  BY <1>1 DEF Rows
<1>3. Settled(r, s, d) = r4
  BY DEF Settled, r1, r2
<1> HIDE DEF r4
<1> QED
  BY <1>2, <1>3
\* What a worker records of an execution: the progress of its own chunk, a
\* success, or an error that is fatal when its attempts are spent.
LEMMA ContinuationEffect ==
    ASSUME TypeOK, ChunkClaims, NEW w \in Workers, FinishContinuation(w)
    PROVE  LET t == workers[w].task IN
           /\ tasks'[t] \in Rows
           /\ tasks'[t].status = "pending"
           /\ tasks'[t].next = workers[w].next + 1
           /\ workers[w].next \in applied[t]
           /\ queue' \subseteq Tasks
<1> DEFINE t == workers[w].task
           row == [Pending EXCEPT !.next = ProgressAfter(w)]
<1>1. Finish(w, "continue", row)
  BY DEF FinishContinuation
<1>2. Working(w, t) /\ t \in Tasks /\ workers[w].outcome = "continue"
      /\ workers[w].pc = "finishing" /\ WriteRow(t, row)
  BY <1>1, FinishEffect DEF Finish
<1>3. workers[w].next \in applied[t] /\ workers[w].next + 1 < Chunks
  BY <1>2 DEF ChunkClaims
<1>4. ProgressAfter(w) = workers[w].next + 1 /\ ProgressAfter(w) \in 0..(Chunks - 1)
  BY <1>3, Types, TasksAssumption DEF ProgressAfter, Locals
<1>5. row \in Rows /\ row.status = "pending" /\ row.next = workers[w].next + 1
  BY <1>4, ContinuationRow
<1> HIDE DEF row
<1>6. tasks'[t] = row
  BY <1>2, WriteRowEffect
<1>7. queue' \subseteq Tasks
  BY <1>2 DEF FinishContinuation, TypeOK
<1> QED
  BY <1>3, <1>5, <1>6, <1>7

LEMMA SuccessEffect ==
    ASSUME TypeOK, NEW w \in Workers, FinishSuccess(w)
    PROVE  LET t == workers[w].task IN
           /\ tasks'[t] \in Rows
           /\ tasks'[t].status = "success"
           /\ tasks'[t].next = tasks[t].next
           /\ queue' \subseteq Tasks
<1> DEFINE t == workers[w].task
           row == Settled(tasks[t], "success", FALSE)
<1>1. Finish(w, "success", row)
  BY DEF FinishSuccess, Settled
<1>2. t \in Tasks /\ WriteRow(t, row)
  BY <1>1, FinishEffect
<1>3. row \in Rows /\ row.status = "success" /\ row.next = tasks[t].next
  BY <1>2, Types, SettledRow
<1> HIDE DEF row
<1>4. tasks'[t] = row
  BY <1>2, WriteRowEffect
<1>5. queue' \subseteq Tasks
  BY DEF FinishSuccess, Acknowledge, TypeOK
<1> QED
  BY <1>3, <1>4, <1>5

LEMMA FailureEffect ==
    ASSUME TypeOK, NEW w \in Workers, FinishFailure(w)
    PROVE  LET t == workers[w].task IN
           /\ tasks'[t] \in Rows
           /\ tasks'[t].status \in {"retry", "dead"}
           /\ tasks'[t].status = "dead" => workers[w].attempts >= MaxAttempts
           /\ tasks'[t].attempts = tasks[t].attempts
           /\ tasks'[t].next = tasks[t].next
           /\ queue' \subseteq Tasks
<1> DEFINE t == workers[w].task
           s == IF Spent(w) THEN "dead" ELSE "retry"
           row == Settled(tasks[t], s, FALSE)
<1>1. Finish(w, "error", row)
  BY DEF FinishFailure, Settled
<1>2. t \in Tasks /\ WriteRow(t, row)
  BY <1>1, FinishEffect
<1>3. s \in {"retry", "dead"} /\ (s = "dead" => workers[w].attempts >= MaxAttempts)
  BY DEF Spent
<1>a. tasks[t] \in Rows /\ s \in {"pending", "processing", "retry", "success", "dead"}
  BY <1>2, <1>3, Types
<1> HIDE DEF s
<1>4. row \in Rows /\ row.status = s /\ row.next = tasks[t].next
      /\ row.attempts = tasks[t].attempts
  BY <1>a, SettledRow
<1> HIDE DEF row
<1>5. tasks'[t] = row
  BY <1>2, WriteRowEffect
<1>6. queue' \subseteq Tasks
  BY DEF FinishFailure, Acknowledge, TypeOK
<1> QED
  BY <1>3, <1>4, <1>5, <1>6

\* A dead letter kills a task that is not done, and nothing else.
LEMMA ExhaustedEffect ==
    ASSUME TypeOK, NEW t \in Tasks, MarkDeliveryExhausted(t)
    PROVE  /\ tasks' \in [Tasks -> Rows]
           /\ OnlyRow(t)
           /\ tasks'[t].next = tasks[t].next
           /\ \/ tasks'[t] = tasks[t]
              \/ tasks'[t].status = "dead" /\ tasks'[t].exhausted = TRUE
           /\ \A w \in Workers : fresh'[w] \subseteq fresh[w]
           /\ tasks'[t].status \notin Open =>
                tasks'[t] = tasks[t] \/ \A w \in Workers : t \notin fresh'[w]
           /\ fresh' \in [Workers -> SUBSET Tasks]
<1> DEFINE row == Settled(tasks[t], "dead", TRUE)
<1>1. row = [tasks[t] EXCEPT !.status = "dead", !.exhausted = TRUE,
                             !.lease = 0, !.due = FALSE]
  BY Types DEF Rows, Settled
<1>a. tasks[t] \in Rows
  BY Types
<1>2. row \in Rows /\ row.status = "dead" /\ row.next = tasks[t].next
      /\ row.exhausted = TRUE
  BY <1>a, SettledRow
<1> HIDE DEF row
<1>3. CASE WriteRow(t, row)
  BY <1>2, <1>3, WriteRowEffect, Types
<1>4. CASE UNCHANGED <<tasks, fresh>>
  BY <1>4, Types DEF OnlyRow
<1> QED
  BY <1>1, <1>3, <1>4 DEF MarkDeliveryExhausted
-----------------------------------------------------------------------------
(* The steps preserve the invariant, one conjunct after the other.         *)

LEMMA SelectDueEffect ==
    ASSUME TypeOK, NEW w \in Workers, SelectDue(w)
    PROVE  /\ workers[w].pc = "idle"
           /\ \E S \in SUBSET Tasks : (\A t \in S : Due(t)) /\ Select(w, S)
           /\ UNCHANGED <<tasks, applied, environment>>
BY DEF SelectDue

LEMMA ReceiveEffect ==
    ASSUME TypeOK, NEW w \in Workers, NEW t \in Tasks, Receive(w, t)
    PROVE  /\ workers[w].pc = "idle"
           /\ \/ UNCHANGED <<workers, fresh>>
              \/ \E S \in SUBSET Tasks : (\A u \in S : Due(u)) /\ Select(w, S)
           /\ queue' \subseteq Tasks
           /\ UNCHANGED <<prompt, tasks, dlq, applied, crashes, redrives>>
<1>1. CASE Due(t) /\ Select(w, {t}) /\ UNCHANGED queue
  <2>1. {t} \in SUBSET Tasks /\ \A u \in {t} : Due(u)
    BY <1>1
  <2> QED
    BY <1>1, <2>1 DEF Receive, TypeOK
<1>2. CASE queue' = queue \ {t} /\ UNCHANGED <<workers, fresh>>
  BY <1>2 DEF Receive, TypeOK
<1> QED
  BY <1>1, <1>2 DEF Receive

\* Type correctness: a continuation never records progress past the last chunk.
LEMMA TypeStep == TypeOK /\ ChunkClaims /\ [Next]_vars => TypeOK'
<1> SUFFICES ASSUME TypeOK, ChunkClaims, [Next]_vars PROVE TypeOK'
  OBVIOUS
<1> USE DEF environment
<1>a. \A w \in Workers : workers[w].pc \in {"running", "finishing"} => workers[w].task \in Tasks
  BY DEF TypeOK
<1>1. ASSUME NEW w \in Workers, NEW t \in Tasks, Claim(w, t) PROVE TypeOK'
  <2>1. tasks' \in [Tasks -> Rows] /\ fresh' \in [Workers -> SUBSET Tasks]
    BY <1>1, ClaimEffect, WriteRowEffect
  <2>2. \A v \in Workers :
          workers'[v].pc \in {"running", "finishing"} => workers'[v].task \in Tasks
    BY <1>a, <1>1, ClaimEffect DEF OnlyWorker
  <2> QED
    BY <1>1, <2>1, <2>2, ClaimEffect DEF TypeOK, Rows, Locals
<1>2. ASSUME NEW w \in Workers, NEW t \in Tasks, SkipClaim(w, t) PROVE TypeOK'
  <2>1. \A v \in Workers :
          workers'[v].pc \in {"running", "finishing"} => workers'[v].task \in Tasks
    BY <1>a, <1>2, SkipEffect DEF OnlyWorker
  <2> QED
    BY <1>2, <2>1, SkipEffect DEF TypeOK, Rows, Locals
<1>3. ASSUME NEW w \in Workers, RunHandler(w) PROVE TypeOK'
  <2>1. \A v \in Workers :
          workers'[v].pc \in {"running", "finishing"} => workers'[v].task \in Tasks
    BY <1>a, <1>3, RunEffect DEF OnlyWorker
  <2> QED
    BY <1>3, <2>1, RunEffect DEF TypeOK, Rows, Locals
<1>4. ASSUME NEW w \in Workers, NEW outcome, NEW row, Finish(w, outcome, row),
             tasks'[workers[w].task] \in Rows, queue' \subseteq Tasks
      PROVE  TypeOK'
  <2>1. row \in Rows
    BY <1>4, FinishEffect, WriteRowEffect
  <2>2. tasks' \in [Tasks -> Rows] /\ fresh' \in [Workers -> SUBSET Tasks]
    BY <1>4, <2>1, FinishEffect, WriteRowEffect
  <2>3. \A v \in Workers :
          workers'[v].pc \in {"running", "finishing"} => workers'[v].task \in Tasks
    BY <1>a, <1>4, FinishEffect DEF OnlyWorker
  <2> QED
    BY <1>4, <2>2, <2>3, FinishEffect DEF TypeOK, Rows, Locals
<1>5. ASSUME NEW w \in Workers,
             FinishContinuation(w) \/ FinishSuccess(w) \/ FinishFailure(w)
      PROVE  TypeOK'
  <2>1. tasks'[workers[w].task] \in Rows /\ queue' \subseteq Tasks
    BY <1>5, ContinuationEffect, SuccessEffect, FailureEffect
  <2> QED
    BY <1>4, <1>5, <2>1 DEF FinishContinuation, FinishSuccess, FinishFailure
<1>6. ASSUME NEW w \in Workers, Crash(w) PROVE TypeOK'
  <2>1. \A v \in Workers :
          workers'[v].pc \in {"running", "finishing"} => workers'[v].task \in Tasks
    BY <1>a, <1>6, CrashEffect DEF OnlyWorker
  <2>2. crashes' \in 0..MaxCrashes
    BY <1>6, TasksAssumption DEF Crash, TypeOK
  <2> QED
    BY <1>6, <2>1, <2>2, CrashEffect DEF TypeOK, Rows, Locals
<1>7. ASSUME NEW w \in Workers, NEW S \in SUBSET Tasks, Select(w, S),
             queue' \subseteq Tasks,
             UNCHANGED <<prompt, tasks, dlq, applied, crashes, redrives>>
      PROVE  TypeOK'
  <2>1. \A v \in Workers :
          workers'[v].pc \in {"running", "finishing"} => workers'[v].task \in Tasks
    BY <1>a, <1>7, SelectEffect DEF OnlyWorker
  <2> QED
    BY <1>7, <2>1, SelectEffect DEF TypeOK, Rows, Locals
<1>8. ASSUME NEW w \in Workers, SelectDue(w) PROVE TypeOK'
  BY <1>7, <1>8, SelectDueEffect DEF TypeOK
<1>9. ASSUME NEW w \in Workers, NEW t \in Tasks, Receive(w, t) PROVE TypeOK'
  <2>1. CASE UNCHANGED <<workers, fresh>>
    BY <1>9, <2>1, ReceiveEffect DEF TypeOK
  <2>2. CASE \E S \in SUBSET Tasks : (\A u \in S : Due(u)) /\ Select(w, S)
    BY <1>7, <1>9, <2>2, ReceiveEffect
  <2> QED
    BY <1>9, <2>1, <2>2, ReceiveEffect
<1>10. ASSUME NEW t \in Tasks, DeadLetter(t) PROVE TypeOK'
  BY <1>10 DEF DeadLetter, TypeOK
<1>11. ASSUME NEW t \in Tasks, MarkDeliveryExhausted(t) PROVE TypeOK'
  BY <1>11, ExhaustedEffect DEF MarkDeliveryExhausted, TypeOK, Rows
<1>12. ASSUME NEW t \in Tasks, RetryOperationTask(t) PROVE TypeOK'
  <2>1. tasks' \in [Tasks -> Rows] /\ fresh' \in [Workers -> SUBSET Tasks]
    BY <1>12, PendingType, WriteRowEffect DEF RetryOperationTask
  <2>2. redrives' \in 0..MaxRedrives
    BY <1>12, TasksAssumption DEF RetryOperationTask, TypeOK
  <2> QED
    BY <1>12, <2>1, <2>2 DEF RetryOperationTask, TypeOK, Rows
<1>13. ASSUME NEW t \in Tasks, BackoffElapses(t) PROVE TypeOK'
  <2>1. [tasks[t] EXCEPT !.due = TRUE] \in Rows
    BY Types DEF Rows
  <2>2. tasks' \in [Tasks -> Rows]
    BY <1>13, <2>1, Types DEF BackoffElapses
  <2> QED
    BY <1>13, <2>2 DEF BackoffElapses, TypeOK, Rows
<1>14. CASE Tick
  <2>1. \A v \in Workers :
          workers'[v].pc \in {"running", "finishing"} => workers'[v].task \in Tasks
    BY <1>a, <1>14, TickEffect
  <2> QED
    BY <1>14, <2>1, TickEffect DEF TypeOK, Rows, Locals
<1>15. CASE AllSettled \/ UNCHANGED vars
  BY <1>15 DEF AllSettled, vars, TypeOK
<1> QED
  BY <1>1, <1>2, <1>3, <1>5, <1>6, <1>8, <1>9, <1>10, <1>11, <1>12, <1>13,
     <1>14, <1>15 DEF Next, Work, Workers
\* Effects are never taken back.
LEMMA AppliedGrows ==
    ASSUME TypeOK, [Next]_vars
    PROVE  \A t \in Tasks : applied[t] \subseteq applied'[t]
<1>1. \A w \in Workers, t \in Tasks :
        Claim(w, t) \/ SkipClaim(w, t) => UNCHANGED applied
  BY DEF Claim, SkipClaim
<1>2. \A w \in Workers :
        FinishContinuation(w) \/ FinishSuccess(w) \/ FinishFailure(w) => UNCHANGED applied
  BY DEF FinishContinuation, FinishSuccess, FinishFailure, Finish
<1>3. \A w \in Workers : Crash(w) => UNCHANGED applied
  BY DEF Crash
<1>4. (\E w \in CronWorkers : SelectDue(w))
        \/ (\E w \in QueueWorkers, t \in Tasks : Receive(w, t)) => UNCHANGED applied
  BY DEF SelectDue, Receive
<1>5. \A t \in Tasks : DeadLetter(t) \/ MarkDeliveryExhausted(t)
                       \/ RetryOperationTask(t) \/ BackoffElapses(t) => UNCHANGED applied
  BY DEF DeadLetter, MarkDeliveryExhausted, RetryOperationTask, BackoffElapses
<1>6. Tick \/ AllSettled \/ UNCHANGED vars => UNCHANGED applied
  BY DEF Tick, AllSettled, vars
<1>7. UNCHANGED applied \/ \E w \in Workers : RunHandler(w)
  BY <1>1, <1>2, <1>3, <1>4, <1>5, <1>6 DEF Next, Work
<1> QED
  BY <1>7, RunEffect


-----------------------------------------------------------------------------
(* Every way in which a row, a worker or a selection changes.              *)

SameRow(t) ==
    /\ tasks'[t].status = tasks[t].status
    /\ tasks'[t].attempts = tasks[t].attempts
    /\ tasks'[t].next = tasks[t].next
    /\ tasks'[t].exhausted = tasks[t].exhausted

Finishes(w) == FinishContinuation(w) \/ FinishSuccess(w) \/ FinishFailure(w)

\* A dead letter ends a task that is open; an operator restarts one that failed.
DeadLettered(t) ==
    /\ dlq # {}
    /\ tasks[t].status \in Open
    /\ tasks'[t].status = "dead"
    /\ tasks'[t].exhausted = TRUE
    /\ tasks'[t].next = tasks[t].next

Redriven(t) ==
    /\ tasks[t].status \in {"retry", "dead"}
    /\ tasks'[t] = Pending
    /\ redrives' > redrives

LEMMA FinishesEffect ==
    ASSUME TypeOK, NEW w \in Workers, Finishes(w)
    PROVE  /\ Working(w, workers[w].task)
           /\ workers[w].task \in Tasks
           /\ WriteRow(workers[w].task, tasks'[workers[w].task])
           /\ workers' \in [Workers -> Locals]
           /\ workers'[w].pc \in {"idle", "batch"}
           /\ workers'[w].pc # "idle" => workers'[w].age = workers[w].age
           /\ OnlyWorker(w)
           /\ UNCHANGED <<prompt, dlq, applied, crashes, redrives>>
<1>1. PICK outcome, row : Finish(w, outcome, row)
  BY DEF Finishes, FinishContinuation, FinishSuccess, FinishFailure
<1>2. workers[w].task \in Tasks /\ WriteRow(workers[w].task, row)
  BY <1>1, FinishEffect
<1>3. tasks'[workers[w].task] = row
  BY <1>2, WriteRowEffect
<1> QED
  BY <1>1, <1>2, <1>3, FinishEffect

LEMMA RowSteps ==
    ASSUME TypeOK, [Next]_vars, NEW t \in Tasks
    PROVE  \/ SameRow(t) /\ (Tick \/ tasks'[t].lease = tasks[t].lease)
           \/ \E w \in Workers : Claim(w, t)
           \/ \E w \in Workers : workers[w].task = t /\ Finishes(w)
           \/ DeadLettered(t)
           \/ Redriven(t)
<1> DEFINE Kept == SameRow(t) /\ (Tick \/ tasks'[t].lease = tasks[t].lease)
<1>1. CASE UNCHANGED tasks
  BY <1>1 DEF SameRow
<1>2. ASSUME NEW u \in Tasks, OnlyRow(u), u # t PROVE Kept
  BY <1>2 DEF OnlyRow, SameRow
<1>3. ASSUME NEW w \in Workers, NEW u \in Tasks, Claim(w, u)
      PROVE  Kept \/ Claim(w, t)
  BY <1>2, <1>3, ClaimEffect, WriteRowEffect
<1>4. ASSUME NEW w \in Workers, Finishes(w)
      PROVE  Kept \/ workers[w].task = t
  BY <1>2, <1>4, FinishesEffect, WriteRowEffect
<1>5. ASSUME NEW u \in Tasks, MarkDeliveryExhausted(u)
      PROVE  Kept \/ DeadLettered(t)
  <2>1. CASE u # t
    BY <1>2, <1>5, <2>1, ExhaustedEffect
  <2>2. CASE u = t /\ tasks'[t] = tasks[t]
    BY <2>2 DEF SameRow
  <2>3. CASE u = t /\ tasks'[t] # tasks[t]
    <3>1. tasks[t].status \in Open
      BY <1>5, <2>3 DEF MarkDeliveryExhausted, Open
    <3> QED
      BY <1>5, <2>3, <3>1, ExhaustedEffect DEF DeadLettered, MarkDeliveryExhausted
  <2> QED
    BY <2>1, <2>2, <2>3
<1>6. ASSUME NEW u \in Tasks, RetryOperationTask(u)
      PROVE  Kept \/ Redriven(t)
  <2>1. CASE u # t
    BY <1>2, <1>6, <2>1, WriteRowEffect DEF RetryOperationTask
  <2>2. CASE u = t
    <3>1. redrives' > redrives
      BY <1>6, TasksAssumption DEF RetryOperationTask, TypeOK
    <3> QED
      BY <1>6, <2>2, <3>1, WriteRowEffect DEF RetryOperationTask, Redriven
  <2> QED
    BY <2>1, <2>2
<1>7. ASSUME NEW u \in Tasks, BackoffElapses(u) PROVE Kept
  <2>1. tasks[t] \in Rows
    BY Types
  <2>2. tasks'[t] = tasks[t] \/ tasks'[t] = [tasks[t] EXCEPT !.due = TRUE]
    BY <1>7, Types DEF BackoffElapses
  <2> QED
    BY <2>1, <2>2 DEF SameRow, Rows
<1>8. CASE Tick
  BY <1>8, TickEffect DEF SameRow
<1>9. ASSUME NEW w \in Workers,
             (\E u \in Tasks : SkipClaim(w, u)) \/ RunHandler(w) \/ Crash(w)
      PROVE  UNCHANGED tasks
  BY <1>9 DEF SkipClaim, RunHandler, Crash
<1>10. (\E w \in CronWorkers : SelectDue(w))
       \/ (\E w \in QueueWorkers, u \in Tasks : Receive(w, u))
       \/ (\E u \in Tasks : DeadLetter(u)) \/ AllSettled \/ UNCHANGED vars
       => UNCHANGED tasks
  BY DEF SelectDue, Receive, DeadLetter, AllSettled, vars
<1>11. CASE \E w \in Workers : Work(w) \/ Crash(w)
  BY <1>1, <1>3, <1>4, <1>9, <1>11 DEF Work, Finishes
<1>12. CASE \E u \in Tasks : MarkDeliveryExhausted(u) \/ RetryOperationTask(u)
                             \/ BackoffElapses(u)
  BY <1>5, <1>6, <1>7, <1>12
<1> QED
  BY <1>1, <1>8, <1>10, <1>11, <1>12 DEF Next

\* A worker stays, claims, runs its handler, or turns to the rest of its batch.
LEMMA WorkerSteps ==
    ASSUME TypeOK, [Next]_vars, NEW w \in Workers
    PROVE  \/ workers'[w] = workers[w]
           \/ Tick
           \/ \E t \in Tasks : Claim(w, t)
           \/ RunHandler(w)
           \/ /\ workers'[w].pc \in {"idle", "batch"}
              /\ workers'[w].pc # "idle" => workers'[w].age \in {0, workers[w].age}
              /\ workers'[w].pc # "idle" /\ workers[w].pc = "idle" => workers'[w].age = 0
<1> DEFINE Turns(v) ==
             /\ workers'[v].pc \in {"idle", "batch"}
             /\ workers'[v].pc # "idle" => workers'[v].age \in {0, workers[v].age}
             /\ workers'[v].pc # "idle" /\ workers[v].pc = "idle" => workers'[v].age = 0
<1>1. CASE UNCHANGED workers
  BY <1>1
<1>2. ASSUME NEW v \in Workers, OnlyWorker(v), v # w PROVE workers'[w] = workers[w]
  BY <1>2 DEF OnlyWorker
<1>3. ASSUME NEW v \in Workers, NEW t \in Tasks, Claim(v, t)
      PROVE  workers'[w] = workers[w] \/ Claim(w, t)
  BY <1>2, <1>3, ClaimEffect
<1>4. ASSUME NEW v \in Workers, RunHandler(v)
      PROVE  workers'[w] = workers[w] \/ RunHandler(w)
  BY <1>2, <1>4, RunEffect
<1>5. ASSUME NEW v \in Workers, OnlyWorker(v), Turns(v)
      PROVE  workers'[w] = workers[w] \/ Turns(w)
  BY <1>2, <1>5
<1>6. ASSUME NEW v \in Workers, NEW t \in Tasks, SkipClaim(v, t)
      PROVE  OnlyWorker(v) /\ Turns(v)
  BY <1>6, SkipEffect
<1>7. ASSUME NEW v \in Workers, Finishes(v)
      PROVE  OnlyWorker(v) /\ Turns(v)
  BY <1>7, FinishesEffect DEF Working
<1>8. ASSUME NEW v \in Workers, Crash(v)
      PROVE  OnlyWorker(v) /\ Turns(v)
  BY <1>8, CrashEffect
<1>9. ASSUME NEW v \in Workers, NEW S \in SUBSET Tasks, Select(v, S)
      PROVE  OnlyWorker(v) /\ Turns(v)
  BY <1>9, SelectEffect
<1>10. CASE \E v \in CronWorkers : SelectDue(v)
  BY <1>5, <1>9, <1>10, SelectDueEffect DEF Workers
<1>11. CASE \E v \in QueueWorkers, t \in Tasks : Receive(v, t)
  BY <1>1, <1>5, <1>9, <1>11, ReceiveEffect DEF Workers
<1>12. CASE \E v \in Workers : Work(v) \/ Crash(v)
  BY <1>3, <1>4, <1>5, <1>6, <1>7, <1>8, <1>12 DEF Work, Finishes
<1>13. (\E t \in Tasks : DeadLetter(t) \/ MarkDeliveryExhausted(t)
                         \/ RetryOperationTask(t) \/ BackoffElapses(t))
       \/ AllSettled \/ UNCHANGED vars
       => UNCHANGED workers
  BY DEF DeadLetter, MarkDeliveryExhausted, RetryOperationTask, BackoffElapses,
         AllSettled, vars
<1> QED
  BY <1>1, <1>10, <1>11, <1>12, <1>13 DEF Next

\* A selection that is fresh after a step was so before, or is being made now;
\* the row it names is not written.
LEMMA FreshSteps ==
    ASSUME TypeOK, [Next]_vars, NEW w \in Workers, NEW t \in Tasks, t \in fresh'[w]
    PROVE  /\ SameRow(t)
           /\ t \in fresh[w] \/ (Due(t) /\ UNCHANGED tasks)
<1>1. CASE UNCHANGED <<tasks, fresh>>
  BY <1>1 DEF SameRow
<1>2. ASSUME NEW u \in Tasks, NEW row, WriteRow(u, row)
      PROVE  SameRow(t) /\ t \in fresh[w]
  BY <1>2, WriteRowEffect DEF OnlyRow, SameRow
<1>3. ASSUME NEW v \in Workers,
             \/ \E u \in Tasks : Claim(v, u)
             \/ Finishes(v)
      PROVE  SameRow(t) /\ t \in fresh[w]
  BY <1>2, <1>3, ClaimEffect, FinishesEffect
<1>4. ASSUME NEW v \in Workers, Crash(v)
      PROVE  SameRow(t) /\ t \in fresh[w]
  BY <1>4, CrashEffect DEF SameRow
<1>5. ASSUME NEW v \in Workers,
             (\E u \in Tasks : SkipClaim(v, u)) \/ RunHandler(v)
      PROVE  UNCHANGED <<tasks, fresh>>
  BY <1>5 DEF SkipClaim, RunHandler
<1>6. ASSUME NEW v \in Workers, NEW S \in SUBSET Tasks, \A u \in S : Due(u),
             Select(v, S), UNCHANGED tasks
      PROVE  SameRow(t) /\ (t \in fresh[w] \/ (Due(t) /\ UNCHANGED tasks))
  BY <1>6, SelectEffect DEF SameRow
<1>7. CASE \E v \in CronWorkers : SelectDue(v)
  BY <1>6, <1>7, SelectDueEffect DEF Workers
<1>8. CASE \E v \in QueueWorkers, u \in Tasks : Receive(v, u)
  BY <1>1, <1>6, <1>8, ReceiveEffect DEF Workers
<1>9. ASSUME NEW u \in Tasks, MarkDeliveryExhausted(u) \/ RetryOperationTask(u)
      PROVE  SameRow(t) /\ t \in fresh[w]
  BY <1>1, <1>2, <1>9 DEF MarkDeliveryExhausted, RetryOperationTask
<1>10. ASSUME NEW u \in Tasks, BackoffElapses(u)
       PROVE  SameRow(t) /\ t \in fresh[w]
  <2>1. tasks[t] \in Rows
    BY Types
  <2>2. tasks'[t] = tasks[t] \/ tasks'[t] = [tasks[t] EXCEPT !.due = TRUE]
    BY <1>10, Types DEF BackoffElapses
  <2>3. SameRow(t)
    BY <2>1, <2>2 DEF SameRow, Rows
  <2> QED
    BY <1>10, <2>3 DEF BackoffElapses
<1>11. CASE Tick
  BY <1>11, TickEffect DEF SameRow
<1>12. (\E u \in Tasks : DeadLetter(u)) \/ AllSettled \/ UNCHANGED vars
       => UNCHANGED <<tasks, fresh>>
  BY DEF DeadLetter, AllSettled, vars
<1>13. CASE \E v \in Workers : Work(v) \/ Crash(v)
  BY <1>1, <1>3, <1>4, <1>5, <1>13 DEF Work, Finishes
<1> QED
  BY <1>1, <1>7, <1>8, <1>9, <1>10, <1>11, <1>12, <1>13 DEF Next

-----------------------------------------------------------------------------
(* The steps preserve the rest of the invariant.                           *)

\* A worker is where its row says the task is, and nobody takes an effect back.
LEMMA ChunkStep ==
    TypeOK /\ ChunkClaims /\ ProgressIsReal /\ [Next]_vars => ChunkClaims'
<1> SUFFICES ASSUME TypeOK, ChunkClaims, ProgressIsReal, [Next]_vars,
                    NEW w \in Workers, NEW t \in Tasks, Working(w, t)'
             PROVE  /\ \A n \in 0..(Chunks - 1) : n < workers'[w].next => n \in applied'[t]
                    /\ workers'[w].pc = "finishing"
                       /\ workers'[w].outcome \in {"continue", "success"} =>
                         /\ workers'[w].next \in applied'[t]
                         /\ (workers'[w].outcome = "continue") <=>
                              (workers'[w].next + 1 < Chunks)
  BY DEF ChunkClaims
<1> USE DEF Working
<1>a. applied[t] \subseteq applied'[t]
  BY AppliedGrows
<1>1. CASE /\ workers'[w].pc = workers[w].pc
           /\ workers'[w].task = workers[w].task
           /\ workers'[w].next = workers[w].next
           /\ workers'[w].outcome = workers[w].outcome
  BY <1>1, <1>a DEF ChunkClaims
<1>2. CASE workers'[w] = workers[w]
  BY <1>1, <1>2
<1>3. CASE Tick
  BY <1>1, <1>3, TickEffect
<1>4. CASE \E u \in Tasks : Claim(w, u)
  BY <1>4, <1>a, ClaimEffect DEF ProgressIsReal
<1>5. CASE RunHandler(w)
  BY <1>5, <1>a, RunEffect DEF ChunkClaims
<1> QED
  BY <1>2, <1>3, <1>4, <1>5, WorkerSteps

\* A success is recorded where every chunk took effect, and progress only by
\* the worker whose chunk it was.
LEMMA ProgressStep ==
    TypeOK /\ ChunkClaims /\ ProgressIsReal /\ [Next]_vars => ProgressIsReal'
<1> SUFFICES ASSUME TypeOK, ChunkClaims, ProgressIsReal, [Next]_vars, NEW t \in Tasks
             PROVE  /\ tasks'[t].status = "success" => applied'[t] = 0..(Chunks - 1)
                    /\ \A n \in 0..(Chunks - 1) : n < tasks'[t].next => n \in applied'[t]
  BY DEF ProgressIsReal
<1>a. applied[t] \subseteq applied'[t] /\ applied'[t] \subseteq 0..(Chunks - 1)
  <2>1. TypeOK'
    BY TypeStep
  <2> QED
    BY <2>1, AppliedGrows DEF TypeOK
<1>b. applied[t] = 0..(Chunks - 1) => applied'[t] = 0..(Chunks - 1)
  BY <1>a
<1>1. CASE SameRow(t)
  BY <1>1, <1>a, <1>b DEF SameRow, ProgressIsReal
<1>2. CASE \E w \in Workers : Claim(w, t)
  BY <1>2, <1>a, ClaimEffect DEF ProgressIsReal
<1>3. ASSUME NEW w \in Workers, workers[w].task = t, FinishContinuation(w)
      PROVE  /\ tasks'[t].status # "success"
             /\ \A n \in 0..(Chunks - 1) : n < tasks'[t].next => n \in applied'[t]
  <2>1. Working(w, t)
    BY <1>3, FinishEffect DEF FinishContinuation
  <2>2. workers[w].next \in 0..(Chunks - 1)
    BY Types DEF Locals
  <2>3. \A n \in 0..(Chunks - 1) : n < workers[w].next => n \in applied[t]
    BY <2>1 DEF ChunkClaims
  <2>4. /\ tasks'[t].status = "pending"
        /\ tasks'[t].next = workers[w].next + 1
        /\ workers[w].next \in applied[t]
    BY <1>3, ContinuationEffect
  <2>5. ASSUME NEW n \in 0..(Chunks - 1), n < workers[w].next + 1 PROVE n \in applied[t]
    <3>1. n < workers[w].next \/ n = workers[w].next
      BY <2>2, <2>5
    <3> QED
      BY <2>3, <2>4, <3>1
  <2> QED
    BY <1>a, <2>4, <2>5
<1>4. ASSUME NEW w \in Workers, workers[w].task = t, FinishSuccess(w)
      PROVE  /\ applied'[t] = 0..(Chunks - 1)
             /\ \A n \in 0..(Chunks - 1) : n < tasks'[t].next => n \in applied'[t]
  <2>1. Working(w, t) /\ workers[w].pc = "finishing" /\ workers[w].outcome = "success"
    BY <1>4, FinishEffect DEF FinishSuccess, Finish
  <2>2. workers[w].next \in 0..(Chunks - 1)
    BY Types DEF Locals
  <2>3. /\ \A n \in 0..(Chunks - 1) : n < workers[w].next => n \in applied[t]
        /\ workers[w].next \in applied[t]
        /\ ~(workers[w].next + 1 < Chunks)
    BY <2>1 DEF ChunkClaims
  <2>4. ASSUME NEW n \in 0..(Chunks - 1) PROVE n \in applied[t]
    <3>1. n < workers[w].next \/ n = workers[w].next
      BY <2>2, <2>3, TasksAssumption
    <3> QED
      BY <2>3, <3>1
  <2> QED
    BY <1>a, <2>4
<1>5. ASSUME NEW w \in Workers, workers[w].task = t, FinishFailure(w)
      PROVE  tasks'[t].status # "success" /\ tasks'[t].next = tasks[t].next
  BY <1>5, FailureEffect
<1>6. CASE \E w \in Workers : workers[w].task = t /\ Finishes(w)
  BY <1>3, <1>4, <1>5, <1>6, <1>a DEF Finishes, ProgressIsReal
<1>7. CASE DeadLettered(t)
  BY <1>7, <1>a DEF DeadLettered, ProgressIsReal
<1>8. CASE Redriven(t)
  <2>1. tasks'[t].status = "pending" /\ tasks'[t].next = 0
    BY <1>8 DEF Redriven, Pending
  <2> QED
    BY <2>1
<1> QED
  BY <1>1, <1>2, <1>6, <1>7, <1>8, RowSteps
\* A selection whose task ends is no longer fresh.
LEMMA FreshStep == TypeOK /\ FreshIsOpen /\ [Next]_vars => FreshIsOpen'
<1> SUFFICES ASSUME TypeOK, FreshIsOpen, [Next]_vars,
                    NEW w \in Workers, NEW t \in Tasks, t \in fresh'[w]
             PROVE  tasks'[t].status \in Open
  BY DEF FreshIsOpen
<1>1. SameRow(t)
  BY FreshSteps
<1>2. tasks[t].status \in Open
  BY FreshSteps DEF FreshIsOpen, Due, Open
<1> QED
  BY <1>1, <1>2 DEF SameRow

\* Whether workers are prompt is fixed, and then no wakeup is ever given up.
LEMMA PromptStep ==
    ASSUME [Next]_vars
    PROVE  prompt' = prompt /\ (prompt /\ dlq = {} => dlq' = {})
<1>1. \A w \in Workers : Finishes(w) => UNCHANGED <<prompt, dlq>>
  BY DEF Finishes, FinishContinuation, FinishSuccess, FinishFailure, Finish
<1>2. \A w \in Workers, t \in Tasks :
        Claim(w, t) \/ SkipClaim(w, t) \/ RunHandler(w) \/ Crash(w)
        => UNCHANGED <<prompt, dlq>>
  BY DEF Claim, SkipClaim, RunHandler, Crash, environment
<1>3. \A w : RunHandler(w) \/ Crash(w) \/ SelectDue(w) => UNCHANGED <<prompt, dlq>>
  BY DEF RunHandler, Crash, SelectDue, environment
<1>4. \A w, t : Receive(w, t) => UNCHANGED <<prompt, dlq>>
  BY DEF Receive
<1>5. \A t : DeadLetter(t) => ~prompt /\ prompt' = prompt
  BY DEF DeadLetter
<1>6. \A t : MarkDeliveryExhausted(t) => dlq # {} /\ prompt' = prompt
  BY DEF MarkDeliveryExhausted
<1>7. \A t : RetryOperationTask(t) \/ BackoffElapses(t) => UNCHANGED <<prompt, dlq>>
  BY DEF RetryOperationTask, BackoffElapses, environment
<1>8. Tick \/ AllSettled \/ UNCHANGED vars => UNCHANGED <<prompt, dlq>>
  BY DEF Tick, AllSettled, vars, environment
<1> QED
  BY <1>1, <1>2, <1>3, <1>4, <1>5, <1>6, <1>7, <1>8 DEF Next, Work, Finishes

\* The lease protects a prompt worker.  Nobody can have selected its task since
\* it claimed it, for the row was in processing with time left on its lease;
\* whoever had selected it before lost the comparison of updated_at.
LEMMA LeaseStep == TypeOK /\ LeaseHolds /\ OneWorker /\ [Next]_vars => LeaseHolds'
<1> SUFFICES ASSUME TypeOK, LeaseHolds, OneWorker, [Next]_vars, prompt
             PROVE  /\ dlq' = {}
                    /\ \A w \in Workers : workers'[w].pc # "idle" =>
                         workers'[w].age < LeaseTicks
                    /\ \A w \in Workers, t \in Tasks : Working(w, t)' =>
                         /\ tasks'[t].status = "processing"
                         /\ tasks'[t].lease = LeaseTicks - workers'[w].age
                         /\ tasks'[t].attempts = workers'[w].attempts
                         /\ \A v \in Workers : t \notin fresh'[v]
  BY PromptStep DEF LeaseHolds
<1>a. /\ dlq = {}
      /\ \A w \in Workers : workers[w].pc # "idle" => workers[w].age < LeaseTicks
      /\ \A w \in Workers, t \in Tasks : Working(w, t) =>
           /\ tasks[t].status = "processing"
           /\ tasks[t].lease = LeaseTicks - workers[w].age
           /\ tasks[t].attempts = workers[w].attempts
           /\ \A v \in Workers : t \notin fresh[v]
  BY DEF LeaseHolds
<1>b. LeaseTicks \in Nat \ {0} /\ \A w \in Workers : workers[w].age \in 0..LeaseTicks
  BY Types, TasksAssumption DEF Locals
<1>c. dlq' = {}
  BY <1>a, PromptStep
<1>d. ASSUME NEW w \in Workers, workers'[w].pc # "idle"
      PROVE  workers'[w].age < LeaseTicks
  <2>1. CASE Tick
    <3>1. workers[w].pc # "idle" /\ workers[w].age + 1 < LeaseTicks
      BY <1>d, <2>1, TickEffect DEF Tick
    <3> QED
      BY <1>b, <2>1, <3>1, TickEffect
  <2>2. CASE \E t \in Tasks : Claim(w, t)
    BY <1>a, <2>2, ClaimEffect
  <2>3. CASE RunHandler(w)
    BY <1>a, <2>3, RunEffect
  <2>4. CASE workers'[w].age \in {0, workers[w].age}
             /\ (workers[w].pc = "idle" => workers'[w].age = 0)
    BY <1>a, <1>b, <2>4
  <2> QED
    BY <1>a, <1>d, <2>1, <2>2, <2>3, <2>4, WorkerSteps
<1>e. ASSUME NEW w \in Workers, NEW t \in Tasks, Working(w, t)',
             Working(w, t) \/ Claim(w, t),
             NEW v \in Workers, t \in fresh'[v]
      PROVE  FALSE
  <2>1. CASE Claim(w, t)
    BY <1>e, <2>1, ClaimEffect, WriteRowEffect
  <2>2. CASE Working(w, t)
    <3>1. tasks[t].status = "processing" /\ tasks[t].lease > 0 /\ t \notin fresh[v]
      BY <1>a, <1>b, <2>2 DEF Working
    <3>2. Due(t)
      BY <1>e, <3>1, FreshSteps
    <3> QED
      BY <3>1, <3>2 DEF Due
  <2> QED
    BY <1>e, <2>1, <2>2
<1>f. ASSUME NEW w \in Workers, NEW t \in Tasks, Working(w, t)', Working(w, t),
             workers'[w].age = workers[w].age,
             workers'[w].attempts = workers[w].attempts, ~Tick
      PROVE  /\ tasks'[t].status = "processing"
             /\ tasks'[t].lease = LeaseTicks - workers'[w].age
             /\ tasks'[t].attempts = workers'[w].attempts
  <2>1. CASE SameRow(t) /\ tasks'[t].lease = tasks[t].lease
    BY <1>a, <1>f, <2>1 DEF SameRow
  <2>2. ASSUME NEW v \in Workers, Claim(v, t) PROVE FALSE
    BY <1>a, <1>f, <2>2, ClaimEffect
  <2>3. ASSUME NEW v \in Workers, workers[v].task = t, Finishes(v) PROVE FALSE
    <3>1. Working(v, t) /\ workers'[v].pc \in {"idle", "batch"}
      BY <2>3, FinishesEffect
    <3>2. v = w
      BY <1>f, <3>1 DEF OneWorker
    <3> QED
      BY <1>f, <3>1, <3>2 DEF Working
  <2>4. ~DeadLettered(t) /\ ~Redriven(t)
    BY <1>a, <1>f DEF DeadLettered, Redriven
  <2> QED
    BY <1>f, <2>1, <2>2, <2>3, <2>4, RowSteps
<1>g. ASSUME NEW w \in Workers, NEW t \in Tasks, Working(w, t)'
      PROVE  /\ Working(w, t) \/ Claim(w, t)
             /\ tasks'[t].status = "processing"
             /\ tasks'[t].lease = LeaseTicks - workers'[w].age
             /\ tasks'[t].attempts = workers'[w].attempts
  <2>1. CASE Tick
    <3>1. Working(w, t)
      BY <1>g, <2>1, TickEffect DEF Working
    <3> QED
      BY <1>a, <1>b, <2>1, <3>1, TickEffect DEF Working
  <2>2. CASE \E u \in Tasks : Claim(w, u)
    BY <1>g, <2>2, ClaimEffect DEF Working
  <2>3. CASE RunHandler(w) /\ ~Tick
    <3>1. Working(w, t)
      BY <1>g, <2>3, RunEffect DEF Working
    <3> QED
      BY <1>f, <1>g, <2>3, <3>1, RunEffect
  <2>4. CASE workers'[w] = workers[w] /\ ~Tick
    <3>1. Working(w, t)
      BY <1>g, <2>4 DEF Working
    <3> QED
      BY <1>f, <1>g, <2>4, <3>1
  <2> QED
    BY <1>g, <2>1, <2>2, <2>3, <2>4, WorkerSteps DEF Working
<1> QED
  BY <1>c, <1>d, <1>e, <1>g

\* Of two workers on one task, the later one would have claimed a row that was
\* written since it selected it, or that was not due.
LEMMA OneWorkerStep == TypeOK /\ LeaseHolds /\ OneWorker /\ [Next]_vars => OneWorker'
<1> SUFFICES ASSUME TypeOK, LeaseHolds, OneWorker, [Next]_vars, prompt,
                    NEW t \in Tasks, NEW v \in Workers, NEW w \in Workers,
                    Working(v, t)', Working(w, t)'
             PROVE  v = w
  BY PromptStep DEF OneWorker
<1>1. ASSUME NEW u \in Workers, Working(u, t)'
      PROVE  Working(u, t) \/ Claim(u, t)
  <2>1. CASE Tick
    BY <1>1, <2>1, TickEffect DEF Working
  <2>2. CASE \E s \in Tasks : Claim(u, s)
    BY <1>1, <2>2, ClaimEffect DEF Working
  <2>3. CASE RunHandler(u)
    BY <1>1, <2>3, RunEffect DEF Working
  <2>4. CASE workers'[u] = workers[u]
    BY <1>1, <2>4 DEF Working
  <2> QED
    BY <1>1, <2>1, <2>2, <2>3, <2>4, WorkerSteps DEF Working
<1>2. ASSUME NEW u \in Workers, NEW x \in Workers, Claim(u, t), Working(x, t)
      PROVE  FALSE
  BY <1>2, ClaimEffect DEF LeaseHolds
<1>3. ASSUME Claim(v, t), Claim(w, t)
      PROVE  v = w
  BY <1>3, ClaimEffect DEF OnlyWorker
<1> QED
  BY <1>1, <1>2, <1>3 DEF OneWorker
\* A prompt worker counts the attempts its row counts.
LEMMA DeathStep == TypeOK /\ LeaseHolds /\ NoEarlyDeath /\ [Next]_vars => NoEarlyDeath'
<1> SUFFICES ASSUME TypeOK, LeaseHolds, NoEarlyDeath, [Next]_vars, prompt,
                    NEW t \in Tasks, tasks'[t].status = "dead", ~tasks'[t].exhausted
             PROVE  tasks'[t].attempts = MaxAttempts
  BY PromptStep DEF NoEarlyDeath
<1>1. CASE SameRow(t)
  BY <1>1 DEF SameRow, NoEarlyDeath
<1>2. CASE \E w \in Workers : Claim(w, t)
  BY <1>2, ClaimEffect
<1>3. ASSUME NEW w \in Workers, workers[w].task = t, Finishes(w)
      PROVE  tasks'[t].attempts = MaxAttempts
  <2>1. CASE FinishContinuation(w) \/ FinishSuccess(w)
    <3>1. CASE FinishSuccess(w)
      BY <1>3, <3>1, SuccessEffect
    <3>2. CASE FinishContinuation(w)
      <4> DEFINE row == [Pending EXCEPT !.next = ProgressAfter(w)]
      <4>1. row.status = "pending"
        BY DEF Pending
      <4>2. Finish(w, "continue", row)
        BY <3>2 DEF FinishContinuation
      <4> HIDE DEF row
      <4>3. WriteRow(t, row)
        BY <1>3, <4>2, FinishEffect
      <4>4. tasks'[t] = row
        BY <4>3, WriteRowEffect
      <4> QED
        BY <4>1, <4>4
    <3> QED
      BY <2>1, <3>1, <3>2
  <2>2. CASE FinishFailure(w)
    <3>1. workers[w].attempts >= MaxAttempts /\ tasks'[t].attempts = tasks[t].attempts
      BY <1>3, <2>2, FailureEffect
    <3>2. tasks[t].attempts = workers[w].attempts
      BY <1>3, FinishesEffect DEF LeaseHolds
    <3>3. workers[w].attempts \in 0..MaxAttempts
      BY Types DEF Locals
    <3> QED
      BY <3>1, <3>2, <3>3, TasksAssumption
  <2> QED
    BY <1>3, <2>1, <2>2 DEF Finishes
<1>4. ~DeadLettered(t) /\ ~Redriven(t)
  BY DEF DeadLettered, Redriven, Pending
<1> QED
  BY <1>1, <1>2, <1>3, <1>4, RowSteps

LEMMA TasksInvInit == Init => TasksInv
<1> SUFFICES ASSUME Init PROVE TasksInv
  OBVIOUS
<1>1. \A w \in Workers : workers[w] = Idle
  BY DEF Init
<1>2. Idle.pc = "idle"
  BY DEF Idle
<1>3. \A t \in Tasks : tasks[t] = Pending \/ tasks[t] = Succeeded
  BY DEF Init
<1>4. /\ Pending.status = "pending" /\ Pending.next = 0
      /\ Succeeded.status = "success"
  BY DEF Pending, Succeeded
<1>5. TypeOK
  <2>1. tasks \in [Tasks -> Rows]
    BY PendingType, SucceededType DEF Init
  <2>2. workers \in [Workers -> Locals]
    BY IdleType DEF Init
  <2>3. /\ crashes \in 0..MaxCrashes /\ redrives \in 0..MaxRedrives
        /\ prompt \in BOOLEAN
    BY TasksAssumption DEF Init
  <2>4. applied \in [Tasks -> SUBSET (0..(Chunks - 1))]
    BY DEF Init
  <2> QED
    BY <1>1, <1>2, <2>1, <2>2, <2>3, <2>4 DEF Init, TypeOK, Rows, Locals
<1>6. \A t \in Tasks : tasks[t] = Succeeded => applied[t] = 0..(Chunks - 1)
  BY <1>4 DEF Init
<1>7. ProgressIsReal
  <2> SUFFICES ASSUME NEW t \in Tasks
               PROVE  /\ tasks[t].status = "success" => applied[t] = 0..(Chunks - 1)
                      /\ \A n \in 0..(Chunks - 1) : n < tasks[t].next => n \in applied[t]
    BY DEF ProgressIsReal
  <2>1. CASE tasks[t] = Pending
    BY <1>4, <2>1
  <2>2. CASE tasks[t] = Succeeded
    BY <1>6, <2>2
  <2> QED
    BY <1>3, <2>1, <2>2
<1>8. ChunkClaims /\ OneWorker /\ FreshIsOpen /\ LeaseHolds
  BY <1>1, <1>2 DEF ChunkClaims, OneWorker, FreshIsOpen, LeaseHolds, Working, Init
<1>9. NoEarlyDeath
  BY <1>3, <1>4 DEF NoEarlyDeath
<1> QED
  BY <1>5, <1>7, <1>8, <1>9 DEF TasksInv

LEMMA TasksInvStep == TasksInv /\ [Next]_vars => TasksInv'
BY TypeStep, ChunkStep, ProgressStep, FreshStep, LeaseStep, OneWorkerStep, DeathStep
   DEF TasksInv

\* What was recorded last stays recorded: a row that is done is in no fresh
\* selection, and no worker that runs is at work on it.
LEMMA OutcomeStep ==
    ASSUME TasksInv, [Next]_vars, prompt, NEW t \in Tasks
    PROVE  /\ tasks[t].status = "success" => tasks'[t].status = "success"
           /\ tasks[t].status = "dead" =>
                tasks'[t].status = "dead" \/ redrives' > redrives
<1> USE DEF TasksInv
<1>1. CASE SameRow(t)
  BY <1>1 DEF SameRow
<1>2. CASE \E w \in Workers : Claim(w, t)
  BY <1>2, ClaimEffect DEF FreshIsOpen, Open
<1>3. CASE \E w \in Workers : workers[w].task = t /\ Finishes(w)
  BY <1>3, FinishesEffect DEF LeaseHolds
<1>4. CASE DeadLettered(t)
  BY <1>4 DEF DeadLettered, Open
<1>5. CASE Redriven(t)
  BY <1>5 DEF Redriven
<1> QED
  BY <1>1, <1>2, <1>3, <1>4, <1>5, RowSteps

-----------------------------------------------------------------------------

\* The invariant holds of the queue, with any number of workers.
THEOREM QueueIsSafe == Spec => []TasksInv
BY TasksInvInit, TasksInvStep, PTL DEF Spec

\* Type correctness of the task rows and of the workers' local variables.
THEOREM TypeCorrect == Spec => []TypeOK
BY QueueIsSafe, PTL DEF TasksInv

\* Recorded progress and success are progress that was made, whether or not
\* workers are prompt.
THEOREM ProgressWasMade == Spec => []ProgressIsReal
BY QueueIsSafe, PTL DEF TasksInv

\* The claim and the lease keep two prompt workers from one task.
THEOREM OneWorkerAtATime == Spec => []OneWorker
BY QueueIsSafe, PTL DEF TasksInv

\* A task dies of its own attempts, never of those of a superseded execution.
THEOREM DeathIsEarned == Spec => []NoEarlyDeath
BY QueueIsSafe, PTL DEF TasksInv

\* What a client that polls is told last stays true until an operator retries.
THEOREM OutcomesAreFinal == Spec => OutcomeIsFinal
<1>1. TasksInv /\ [Next]_vars =>
        [prompt => \A t \in Tasks :
           /\ tasks[t].status = "success" => tasks'[t].status = "success"
           /\ tasks[t].status = "dead" =>
                tasks'[t].status = "dead" \/ redrives' > redrives]_vars
  BY OutcomeStep
<1> QED
  BY <1>1, QueueIsSafe, PTL DEF Spec, OutcomeIsFinal
=============================================================================
