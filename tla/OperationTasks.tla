--------------------------- MODULE OperationTasks ---------------------------
(***************************************************************************)
(* The durable task queue of the web application (apps/web/lib/server/     *)
(* operation-tasks.ts): rows of operation_tasks claimed under a lease by   *)
(* the minute cron (processOperationTasks) and by the consumers of a       *)
(* Cloudflare Queue whose messages are only wakeups (operation-queue.ts).  *)
(*                                                                         *)
(* A claim compares the status and updated_at it selected; every other     *)
(* write of a worker names the task by its id alone.  "fresh" stands for   *)
(* the comparison of updated_at: the selected tasks whose row nobody wrote *)
(* since.  Time is relative: a row has the ticks its lease still has, a    *)
(* worker the ticks since it read the clock (a cron run reads it once for  *)
(* all the tasks of its batch).  A handler is a sequence of Chunks, one    *)
(* per execution (memory-batch-tasks.ts); other kinds have one.            *)
(* Two writes of one row never fall into one millisecond.  The attempts    *)
(* counter stops at MaxAttempts, which Spent cannot tell from going on.    *)
(* Statuses of uploads are in DocumentUploads.                             *)
(***************************************************************************)
EXTENDS Integers, FiniteSets

CONSTANTS
    Tasks,
    CronWorkers,    \* overlapping runs of the cron
    QueueWorkers,   \* concurrent consumers of the queue
    Chunks,         \* executions a task needs, with continuations
    MaxAttempts,    \* max_attempts of a task
    LeaseTicks,     \* LEASE_MS, in ticks
    BatchLimit,     \* the LIMIT of a cron run
    PromptWorkers,  \* BOOLEAN, {TRUE}: a worker is done before the leases it
                    \* took end, and the queue never gives up a message
    MaxCrashes,     \* bound: workers that die
    MaxRedrives,    \* bound: retries an operator asks for
    NoTask

Workers == CronWorkers \cup QueueWorkers

ASSUME TasksAssumption ==
    /\ {Chunks, MaxAttempts, LeaseTicks, BatchLimit} \subseteq Nat \ {0}
    /\ {MaxCrashes, MaxRedrives} \subseteq Nat
    /\ PromptWorkers \subseteq BOOLEAN
    /\ CronWorkers \cap QueueWorkers = {}
    /\ NoTask \notin Tasks

VARIABLES
    prompt,     \* are workers and deliveries prompt in this behaviour?
    tasks,      \* the operation_tasks rows
    workers,    \* the workers and their local variables
    fresh,      \* per worker: selected tasks whose updated_at is unchanged
    queue,      \* tasks with an undelivered or unacknowledged wakeup
    dlq,        \* tasks with a message in the dead-letter queue
    applied,    \* the chunks of each task whose effects took place
    crashes, redrives

vars == <<prompt, tasks, workers, fresh, queue, dlq, applied, crashes, redrives>>
environment == <<prompt, queue, dlq, crashes, redrives>>

Idle == [pc |-> "idle", selected |-> {}, task |-> NoTask, attempts |-> 0,
         next |-> 0, outcome |-> "none", age |-> 0]

TypeOK ==
    /\ prompt \in BOOLEAN
    /\ tasks \in [Tasks ->
         [status : {"pending", "processing", "retry", "success", "dead"},
          attempts : 0..MaxAttempts, next : 0..(Chunks - 1),
          lease : 0..LeaseTicks, due : BOOLEAN, exhausted : BOOLEAN]]
    /\ workers \in [Workers ->
         [pc : {"idle", "batch", "running", "finishing"},
          selected : SUBSET Tasks, task : Tasks \cup {NoTask},
          attempts : 0..MaxAttempts, next : 0..(Chunks - 1),
          outcome : {"none", "success", "continue", "error"},
          age : 0..LeaseTicks]]
    /\ \A w \in Workers :
         workers[w].pc \in {"running", "finishing"} => workers[w].task \in Tasks
    /\ fresh \in [Workers -> SUBSET Tasks]
    /\ queue \subseteq Tasks
    /\ dlq \subseteq Tasks
    /\ applied \in [Tasks -> SUBSET (0..(Chunks - 1))]
    /\ crashes \in 0..MaxCrashes
    /\ redrives \in 0..MaxRedrives

Pending == [status |-> "pending", attempts |-> 0, next |-> 0,
            lease |-> 0, due |-> TRUE, exhausted |-> FALSE]

\* A task that succeeded earlier.
Succeeded == [status |-> "success", attempts |-> 1, next |-> Chunks - 1,
              lease |-> 0, due |-> FALSE, exhausted |-> FALSE]

\* enqueueOperationTask inserted the rows; the send of a wakeup may have failed.
\* The table may hold tasks that are done.
Init ==
    /\ prompt \in PromptWorkers
    /\ tasks \in [Tasks -> {Pending, Succeeded}]
    /\ workers = [w \in Workers |-> Idle]
    /\ fresh = [w \in Workers |-> {}]
    /\ queue \in SUBSET Tasks
    /\ dlq = {}
    /\ applied = [t \in Tasks |-> IF tasks[t] = Pending THEN {} ELSE 0..(Chunks - 1)]
    /\ crashes = 0
    /\ redrives = 0

\* Every write of a row changes its updated_at: no selection of it is fresh.
WriteRow(t, row) ==
    /\ tasks' = [tasks EXCEPT ![t] = row]
    /\ fresh' = [w \in Workers |-> fresh[w] \ {t}]

-----------------------------------------------------------------------------
(* Selecting and claiming.                                                 *)

\* Fault: a task in processing is taken from whoever runs it.
DueAnyTime(t) ==
    \/ tasks[t].status \in {"pending", "retry"} /\ tasks[t].due
    \/ tasks[t].status = "processing"

\* Fault: leases never end.
DueOnceIdle(t) == tasks[t].status \in {"pending", "retry"} /\ tasks[t].due

Due(t) ==
    \/ tasks[t].status \in {"pending", "retry"} /\ tasks[t].due
    \/ tasks[t].status = "processing" /\ tasks[t].lease = 0

Select(w, S) ==
    /\ workers' = [workers EXCEPT ![w] = [Idle EXCEPT !.pc = "batch", !.selected = S]]
    /\ fresh' = [fresh EXCEPT ![w] = S]

\* The cron selects at most BatchLimit due tasks, in no order.
SelectDue(w) ==
    /\ workers[w].pc = "idle"
    /\ \E S \in SUBSET {t \in Tasks : Due(t)} :
         /\ S # {}
         /\ \/ Cardinality(S) = BatchLimit
            \/ Cardinality(S) < BatchLimit /\ S = {t \in Tasks : Due(t)}
         /\ Select(w, S)
    /\ UNCHANGED <<tasks, applied, environment>>

\* A wakeup: processOperationTaskById reads the task, and the message of one
\* that is not due is acknowledged without a claim.
Receive(w, t) ==
    /\ workers[w].pc = "idle"
    /\ t \in queue
    /\ \/ Due(t) /\ Select(w, {t}) /\ UNCHANGED queue
       \/ ~Due(t) /\ queue' = queue \ {t} /\ UNCHANGED <<workers, fresh>>
    /\ UNCHANGED <<prompt, tasks, dlq, applied, crashes, redrives>>

Increment(attempts) == IF attempts < MaxAttempts THEN attempts + 1 ELSE attempts

\* What a worker does next when it is through with one task of its batch.
Proceed(w, selected) ==
    IF selected = {} THEN Idle
    ELSE [Idle EXCEPT !.pc = "batch", !.selected = selected, !.age = workers[w].age]

\* The compare-and-set of processSelectedOperationTask.  The lease counts from
\* the time the worker selected its batch.
Claim(w, t) ==
    LET attempts == Increment(tasks[t].attempts) IN
    /\ workers[w].pc = "batch"
    /\ t \in workers[w].selected
    /\ t \in fresh[w]
    /\ WriteRow(t, [tasks[t] EXCEPT !.status = "processing",
                                    !.attempts = attempts,
                                    !.lease = LeaseTicks - workers[w].age])
    /\ workers' = [workers EXCEPT
                     ![w].pc = "running", ![w].task = t,
                     ![w].selected = @ \ {t},
                     ![w].attempts = attempts, ![w].next = tasks[t].next]
    /\ UNCHANGED <<applied, environment>>

\* Somebody wrote the row since it was selected: the task is skipped.
SkipClaim(w, t) ==
    /\ workers[w].pc = "batch"
    /\ t \in workers[w].selected
    /\ t \notin fresh[w]
    /\ workers' = [workers EXCEPT ![w] = Proceed(w, workers[w].selected \ {t})]
    /\ \/ UNCHANGED queue
       \/ w \in QueueWorkers /\ queue' = queue \ {t}
    /\ UNCHANGED <<prompt, tasks, fresh, applied, dlq, crashes, redrives>>

-----------------------------------------------------------------------------
(* Running the handler and recording what came of it.                      *)

\* The handler runs the chunk its row was claimed at, or throws, before or
\* after the effects took place.
RunHandler(w) ==
    LET t == workers[w].task
        n == workers[w].next
    IN
    /\ workers[w].pc = "running"
    /\ \/ /\ applied' = [applied EXCEPT ![t] = @ \cup {n}]
          /\ workers' = [workers EXCEPT
                ![w].pc = "finishing",
                ![w].outcome = IF n + 1 < Chunks THEN "continue" ELSE "success"]
       \/ /\ \E done \in {{}, {n}} : applied' = [applied EXCEPT ![t] = @ \cup done]
          /\ workers' = [workers EXCEPT ![w].pc = "finishing", ![w].outcome = "error"]
    /\ UNCHANGED <<tasks, fresh, environment>>

\* A worker records an outcome in the row, named by its id alone, and turns to
\* the rest of its batch.
Finish(w, outcome, row) ==
    /\ workers[w].pc = "finishing"
    /\ workers[w].outcome = outcome
    /\ WriteRow(workers[w].task, row)
    /\ workers' = [workers EXCEPT ![w] = Proceed(w, workers[w].selected)]
    /\ UNCHANGED <<prompt, dlq, applied, crashes, redrives>>

\* At-least-once delivery: an acknowledgement may be lost.
Acknowledge(w) ==
    \/ UNCHANGED queue
    \/ w \in QueueWorkers /\ queue' = queue \ {workers[w].task}

\* Fault: progress is counted from the row.
ProgressOfRow(w) == tasks[workers[w].task].next + 1

\* Fault: a chunk is skipped.
ProgressSkipping(w) == workers[w].next + 2

ProgressAfter(w) == workers[w].next + 1

\* A continuation is due at once, with its attempts reset, and a consumer
\* sends a new wakeup (or, if that fails, gets its message again).
FinishContinuation(w) ==
    LET t == workers[w].task IN
    /\ Finish(w, "continue",
              [Pending EXCEPT !.next = ProgressAfter(w)])
    /\ queue' = IF w \in QueueWorkers THEN queue \cup {t} ELSE queue

FinishSuccess(w) ==
    LET t == workers[w].task IN
    /\ Finish(w, "success",
              [tasks[t] EXCEPT !.status = "success", !.lease = 0,
                               !.due = FALSE, !.exhausted = FALSE])
    /\ Acknowledge(w)

\* Fault: one attempt short.
SpentOneEarly(w) == workers[w].attempts + 1 >= MaxAttempts

\* The error counts against the attempts the worker saw when it claimed.
Spent(w) == workers[w].attempts >= MaxAttempts

FinishFailure(w) ==
    LET t == workers[w].task IN
    /\ Finish(w, "error",
              [tasks[t] EXCEPT !.status = IF Spent(w) THEN "dead" ELSE "retry",
                               !.lease = 0, !.due = FALSE, !.exhausted = FALSE])
    /\ Acknowledge(w)

-----------------------------------------------------------------------------
(* Deaths, dead letters, operators, time.                                  *)

\* A worker dies, or the insert of a lifecycle event throws out of its run.
Crash(w) ==
    /\ workers[w].pc # "idle"
    /\ crashes < MaxCrashes
    /\ crashes' = crashes + 1
    /\ workers' = [workers EXCEPT ![w] = Idle]
    /\ fresh' = [fresh EXCEPT ![w] = {}]
    /\ UNCHANGED <<prompt, tasks, queue, dlq, applied, redrives>>

\* The platform gives up delivering a wakeup.
DeadLetter(t) ==
    /\ ~prompt
    /\ t \in queue
    /\ queue' = queue \ {t}
    /\ dlq' = dlq \cup {t}
    /\ UNCHANGED <<prompt, tasks, workers, fresh, applied, crashes, redrives>>

\* The consumer of the dead-letter queue; delivery is at least once.
MarkDeliveryExhausted(t) ==
    /\ t \in dlq
    /\ IF tasks[t].status \in {"pending", "processing", "retry"}
       THEN WriteRow(t, [tasks[t] EXCEPT !.status = "dead", !.exhausted = TRUE,
                                         !.lease = 0, !.due = FALSE])
       ELSE UNCHANGED <<tasks, fresh>>
    /\ dlq' \in {dlq, dlq \ {t}}
    /\ UNCHANGED <<prompt, workers, queue, applied, crashes, redrives>>

\* retryOperationTask: attempts and recorded progress start over.
RetryOperationTask(t) ==
    /\ redrives < MaxRedrives
    /\ redrives' = redrives + 1
    /\ tasks[t].status \in {"retry", "dead"}
    /\ WriteRow(t, Pending)
    /\ queue' \in {queue, queue \cup {t}}
    /\ UNCHANGED <<prompt, workers, dlq, applied, crashes>>

\* The backoff of a task in retry is over.
BackoffElapses(t) ==
    /\ tasks[t].status = "retry"
    /\ ~tasks[t].due
    /\ tasks' = [tasks EXCEPT ![t].due = TRUE]
    /\ UNCHANGED <<workers, fresh, applied, environment>>

Tick ==
    /\ \/ \E t \in Tasks : tasks[t].lease > 0
       \/ \E w \in Workers : workers[w].pc # "idle" /\ workers[w].age < LeaseTicks
    /\ prompt =>
         \A w \in Workers : workers[w].pc # "idle" => workers[w].age + 1 < LeaseTicks
    /\ tasks' = [t \in Tasks |->
                   [tasks[t] EXCEPT !.lease = IF @ > 0 THEN @ - 1 ELSE 0]]
    /\ workers' = [w \in Workers |->
                     IF workers[w].pc = "idle" THEN workers[w]
                     ELSE [workers[w] EXCEPT !.age = IF @ < LeaseTicks THEN @ + 1 ELSE @]]
    /\ UNCHANGED <<fresh, applied, environment>>

Work(w) ==
    \/ \E t \in Tasks : Claim(w, t) \/ SkipClaim(w, t)
    \/ RunHandler(w)
    \/ FinishContinuation(w) \/ FinishSuccess(w) \/ FinishFailure(w)

\* Nothing is left to do: every task is settled and nobody is at work.
AllSettled ==
    /\ \A t \in Tasks : tasks[t].status \in {"success", "dead"}
    /\ \A w \in Workers : workers[w].pc = "idle"
    /\ UNCHANGED vars

Next ==
    \/ \E w \in Workers : Work(w) \/ Crash(w)
    \/ \E w \in CronWorkers : SelectDue(w)
    \/ \E w \in QueueWorkers, t \in Tasks : Receive(w, t)
    \/ \E t \in Tasks :
         \/ DeadLetter(t) \/ MarkDeliveryExhausted(t)
         \/ RetryOperationTask(t) \/ BackoffElapses(t)
    \/ Tick
    \/ AllSettled

Spec == Init /\ [][Next]_vars

\* Clocks advance, the cron fires, and a worker that does not die goes on to
\* the end of its batch.  Nothing is assumed of the queue, whose messages may
\* all be lost, of its consumers before they take a task, or of operators.
Fairness ==
    /\ WF_vars(Tick)
    /\ \A t \in Tasks : WF_vars(BackoffElapses(t))
    /\ \A w \in Workers : WF_vars(Work(w))
    /\ \A w \in CronWorkers : WF_vars(SelectDue(w))

FairSpec == Spec /\ Fairness

-----------------------------------------------------------------------------
(* What the queue promises.                                                *)

Working(w, t) == workers[w].pc \in {"running", "finishing"} /\ workers[w].task = t

\* Two workers never run the handler of one task at a time: the claim and the
\* lease exclude each other, also between a cron batch and a wakeup.  Holds
\* for prompt workers and deliveries.
OneWorker ==
    prompt => \A t \in Tasks, v, w \in Workers : Working(v, t) /\ Working(w, t) => v = w

\* A task reported as successful has done all its chunks, and recorded
\* progress is progress made, whichever workers died, overran or repeated it.
ProgressIsReal ==
    \A t \in Tasks :
        /\ tasks[t].status = "success" => applied[t] = 0..(Chunks - 1)
        /\ \A n \in 0..(Chunks - 1) : n < tasks[t].next => n \in applied[t]

\* A task is given up by its worker only when its own count of attempts is
\* spent: never on the count of an execution that was superseded meanwhile.
\* Holds for prompt workers.
NoEarlyDeath ==
    prompt => \A t \in Tasks : tasks[t].status = "dead" /\ ~tasks[t].exhausted =>
        tasks[t].attempts = MaxAttempts

\* apps/docs/content/docs/api-reference/operations.mdx: "Terminal success
\* states are `success` and `committed`. Terminal failure states are `dead` and
\* `failed`."  What a client that polls was told last stays true, until an
\* operator's retry takes the task out of dead.  Holds for prompt workers: one
\* that outlived its lease writes its failure over its successor's success.
OutcomeIsFinal ==
    [][prompt => \A t \in Tasks :
         /\ tasks[t].status = "success" => tasks'[t].status = "success"
         /\ tasks[t].status = "dead" =>
              tasks'[t].status = "dead" \/ redrives' > redrives]_vars

\* Every accepted task comes to an end, with no wakeup ever delivered: the
\* cron finds it, crashed workers lose their leases, retries are bounded.
EventuallySettled ==
    \A t \in Tasks : <>[](tasks[t].status \in {"success", "dead"})
=============================================================================
