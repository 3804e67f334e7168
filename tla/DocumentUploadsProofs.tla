------------------------ MODULE DocumentUploadsProofs ------------------------
(***************************************************************************)
(* Proofs about DocumentUploads, for any bytes, calls, workers and any     *)
(* number of attempts, of calls that do not overlap and workers that are   *)
(* not overtaken.                                                          *)
(***************************************************************************)
EXTENDS DocumentUploads, TLAPS

Busy(w) == workers[w].pc # "idle"

\* The upload was completed: workers may find the task, or have.
Released == task.status \in {"pending", "processing", "retry", "success", "dead"}

OneCall == \A c, d \in Calls : calls[c].pc \in Running /\ calls[d].pc \in Running => c = d

\* A task is there if it has an id.
TaskIsNamed == task.status = "none" <=> task.id = Null

\* One worker has the task, which is processing.
SoloWorker ==
    \A w \in Workers : Busy(w) =>
        /\ workers[w].task = task.id /\ task.status = "processing"
        /\ \A v \in Workers : Busy(v) => v = w

\* A task that was released is the task of an asset that has its bytes and is
\* not being uploaded or removed.
ReleasedIsLinked ==
    /\ Released =>
         /\ asset.task = task.id /\ asset.checksum \in Bytes
         /\ asset.status \in {"queued", "processing", "ready", "failed"}
    /\ asset.status \in {"uploaded", "queued"} => asset.checksum \in Bytes

\* What was made of the bytes is of the bytes the asset has.
MadeOfBytes ==
    /\ artifact # Null => /\ artifact = asset.checksum
                          /\ asset.status \notin {"none", "awaiting_upload", "uploaded"}
    /\ asset.status = "none" => raw = Null

\* What a call has done, or relies on.
CallHolds(c) ==
    /\ calls[c].pc = "idle" => calls[c].kind = "none"
    /\ calls[c].pc = "link" => calls[c].task = task.id /\ task.status # "none"
    /\ calls[c].pc \in {"store", "record"} =>
         /\ asset.status \in {"awaiting_upload", "uploaded"} /\ calls[c].bytes \in Bytes
    /\ calls[c].pc = "payload" /\ calls[c].asset.status = "uploaded" =>
         asset.status = "uploaded"
    /\ calls[c].pc \in {"head", "queue"} => asset.status = "uploaded"
    /\ calls[c].pc = "release" => asset.status = "queued" /\ ~Released
    /\ calls[c].pc \in {"payload", "head", "queue", "release", "fence"} =>
         calls[c].asset.task = asset.task
    /\ calls[c].pc \in Deleting \cup {"cancel"} => ~Released
    /\ calls[c].pc \in Deleting => asset.status # "ready"
    /\ calls[c].pc \in {"dropStored", "dropArtifacts", "dropAsset"} => raw = Null
    /\ calls[c].pc = "dropAsset" => artifact = Null
    /\ calls[c].pc = "requeue" => Released

CallsHold == \A c \in Calls : CallHolds(c)

\* What a worker has done.
WorkHolds(w) ==
    /\ workers[w].pc \in {"mark", "source", "artifact", "store", "insert", "ingest",
                           "ingested", "link"} => workers[w].checksum = asset.checksum
    /\ workers[w].pc \in {"artifact", "store", "insert", "ingest", "ingested", "link"} =>
         raw = workers[w].checksum
    /\ workers[w].pc \in {"insert", "ingest", "ingested", "link"} =>
         workers[w].checksum \in stored
    /\ workers[w].pc \in {"ingest", "ingested", "link"} => artifact = workers[w].checksum
    /\ workers[w].pc \in {"ingested", "link"} => workers[w].checksum \in ingested

WorkersHold == \A w \in Workers : WorkHolds(w)

NotRedriven == \A c \in Calls : calls[c].kind # "retry"

SuccessHolds ==
    NotRedriven =>
        /\ task.status = "success" => asset.status = "ready"
        /\ \A w \in Workers : workers[w].pc \in {"reread", "success"} => asset.status = "ready"

UploadInv ==
    /\ TypeOK /\ OneCall /\ TaskIsNamed /\ SoloWorker /\ ReleasedIsLinked /\ MadeOfBytes
    /\ CallsHold /\ WorkersHold /\ ReadyMatchesSource /\ SuccessHolds
-----------------------------------------------------------------------------
(* Calls and workers, one field at a time.                                 *)

CallLocals == [pc : {"idle", "ok", "refused", "died"} \cup Running,
               kind : Kinds \cup {"none"}, bytes : Bytes \cup {Null},
               asset : Assets, task : Calls \cup {Null}, listed : Bytes \cup {Null}]

WorkLocals == [pc : {"idle", "success", "error"} \cup Handling,
               task : Calls \cup {Null}, attempts : 0..MaxAttempts,
               checksum : Bytes \cup {Null}]

\* The calls and the workers, by their types.
LEMMA TypeParts ==
    ASSUME TypeOK
    PROVE  calls \in [Calls -> CallLocals] /\ workers \in [Workers -> WorkLocals]
BY DEF TypeOK, CallLocals, WorkLocals

\* Only this call moves, or only this worker.
OnlyCall(c) ==
    /\ \A d \in Calls : d # c => calls'[d] = calls[d]
    /\ calls' \in [Calls -> CallLocals]

OnlyWorker(w) ==
    /\ \A v \in Workers : v # w => workers'[v] = workers[v]
    /\ workers' \in [Workers -> WorkLocals]

\* A call keeps what it read.
KeepsLocals(c) ==
    /\ calls'[c].kind = calls[c].kind /\ calls'[c].bytes = calls[c].bytes
    /\ calls'[c].asset = calls[c].asset

\* A call moves on to a step.
LEMMA GotoEffect ==
    ASSUME TypeOK, NEW c \in Calls, NEW pc \in Running, Goto(c, pc)
    PROVE  /\ OnlyCall(c) /\ KeepsLocals(c)
           /\ calls'[c].pc = pc /\ calls'[c].task = calls[c].task
           /\ calls'[c].listed = calls[c].listed
<1>1. calls \in [Calls -> CallLocals]
  BY TypeParts
<1>2. calls[c] \in CallLocals
  BY <1>1
<1> DEFINE new == [calls[c] EXCEPT !.pc = pc]
<1>3. /\ new \in CallLocals /\ new.pc = pc /\ new.task = calls[c].task
      /\ new.kind = calls[c].kind /\ new.bytes = calls[c].bytes
      /\ new.asset = calls[c].asset /\ new.listed = calls[c].listed
  BY <1>2 DEF CallLocals
<1>4. calls' = [calls EXCEPT ![c] = new]
  BY DEF Goto
<1> HIDE DEF new
<1> QED
  BY <1>1, <1>3, <1>4 DEF OnlyCall, KeepsLocals

\* A call ends.
LEMMA ReturnEffect ==
    ASSUME TypeOK, NEW c \in Calls, NEW pc \in {"ok", "refused", "died"}, Return(c, pc)
    PROVE  OnlyCall(c) /\ calls'[c].pc = pc /\ calls'[c].kind = calls[c].kind
<1>1. calls \in [Calls -> CallLocals]
  BY TypeParts
<1>2. calls[c] \in CallLocals
  BY <1>1
<1> DEFINE new == [NewCall EXCEPT !.pc = pc, !.kind = calls[c].kind]
<1>3. new \in CallLocals /\ new.pc = pc /\ new.kind = calls[c].kind
  BY <1>2 DEF CallLocals, NewCall, NoAsset, Assets
<1>4. calls' = [calls EXCEPT ![c] = new]
  BY DEF Return
<1> HIDE DEF new
<1> QED
  BY <1>1, <1>3, <1>4 DEF OnlyCall

\* A call begins, when no other is running.
LEMMA BeginEffect ==
    ASSUME TypeOK, NEW c \in Calls, NEW call \in CallLocals, Begin(c, call)
    PROVE  /\ OnlyCall(c) /\ calls'[c] = call /\ calls[c].pc = "idle"
           /\ SerialCalls => \A d \in Calls : calls[d].pc \notin Running
<1>1. calls \in [Calls -> CallLocals]
  BY TypeParts
<1>2. calls' = [calls EXCEPT ![c] = call]
  BY DEF Begin
<1> QED
  BY <1>1, <1>2 DEF Begin, MayStart, OnlyCall

\* A call is refused.
LEMMA RefuseEffect ==
    ASSUME TypeOK, NEW c \in Calls, Refuse(c)
    PROVE  /\ OnlyCall(c) /\ calls'[c].pc = "refused" /\ calls[c].pc = "idle"
           /\ SerialCalls => \A d \in Calls : calls[d].pc \notin Running
<1> DEFINE call == [NewCall EXCEPT !.pc = "refused"]
<1>1. call \in CallLocals /\ call.pc = "refused"
  BY DEF CallLocals, NewCall, NoAsset, Assets
<1>2. Begin(c, call)
  BY DEF Refuse
<1> HIDE DEF call
<1> QED
  BY <1>1, <1>2, BeginEffect

\* What a call reads when it begins.
LEMMA NewCallType ==
    ASSUME TypeOK, NEW kind \in Kinds, NEW pc \in Running
    PROVE  LET call == NewCallAt(kind, pc) IN
           /\ call \in CallLocals /\ call.kind = kind /\ call.pc = pc /\ call.asset = asset
           /\ \A b \in Bytes : LET put == [call EXCEPT !.bytes = b] IN
                /\ put \in CallLocals /\ put.kind = kind /\ put.pc = pc
                /\ put.asset = asset /\ put.bytes = b
           /\ \A t \in Calls \cup {Null} : LET redrive == [call EXCEPT !.task = t] IN
                /\ redrive \in CallLocals /\ redrive.kind = kind /\ redrive.pc = pc
                /\ redrive.asset = asset /\ redrive.task = t
<1>1. asset \in Assets
  BY DEF TypeOK
<1> QED
  BY <1>1 DEF NewCallAt, CallLocals, NewCall, NoAsset

\* A worker moves on to a step.
LEMMA StepEffect ==
    ASSUME TypeOK, NEW w \in Workers, NEW pc \in {"success", "error"} \cup Handling, Step(w, pc)
    PROVE  /\ OnlyWorker(w) /\ workers'[w].pc = pc /\ workers'[w].task = workers[w].task
           /\ workers'[w].attempts = workers[w].attempts
           /\ workers'[w].checksum = workers[w].checksum
<1>1. workers \in [Workers -> WorkLocals]
  BY TypeParts
<1>2. workers[w] \in WorkLocals
  BY <1>1
<1> DEFINE new == [workers[w] EXCEPT !.pc = pc]
<1>3. /\ new \in WorkLocals /\ new.pc = pc /\ new.task = workers[w].task
      /\ new.attempts = workers[w].attempts /\ new.checksum = workers[w].checksum
  BY <1>2 DEF WorkLocals
<1>4. workers' = [workers EXCEPT ![w] = new]
  BY DEF Step
<1> HIDE DEF new
<1> QED
  BY <1>1, <1>3, <1>4 DEF OnlyWorker

\* A worker takes a checksum to a step.
LEMMA TakesEffect ==
    ASSUME TypeOK, NEW w \in Workers, NEW pc \in Handling, NEW b \in Bytes \cup {Null},
           workers' = [workers EXCEPT ![w].pc = pc, ![w].checksum = b]
    PROVE  /\ OnlyWorker(w) /\ workers'[w].pc = pc /\ workers'[w].task = workers[w].task
           /\ workers'[w].attempts = workers[w].attempts /\ workers'[w].checksum = b
<1>1. workers \in [Workers -> WorkLocals]
  BY TypeParts
<1>2. workers[w] \in WorkLocals
  BY <1>1
<1> DEFINE new == [workers[w] EXCEPT !.pc = pc, !.checksum = b]
<1>3. /\ new \in WorkLocals /\ new.pc = pc /\ new.task = workers[w].task
      /\ new.attempts = workers[w].attempts /\ new.checksum = b
  BY <1>2 DEF WorkLocals
<1>4. workers' = [workers EXCEPT ![w] = new]
  BY <1>1, <1>2 DEF WorkLocals
<1> HIDE DEF new
<1> QED
  BY <1>1, <1>3, <1>4 DEF OnlyWorker

\* A worker is idle again.
LEMMA IdleEffect ==
    ASSUME TypeOK, NEW w \in Workers, workers' = [workers EXCEPT ![w] = Idle]
    PROVE  OnlyWorker(w) /\ workers'[w].pc = "idle"
<1>1. workers \in [Workers -> WorkLocals]
  BY TypeParts
<1>2. Idle \in WorkLocals /\ Idle.pc = "idle"
  BY UploadAssumption DEF Idle, WorkLocals
<1> QED
  BY <1>1, <1>2 DEF OnlyWorker

\* A call names the task it enqueued.
LEMMA EnqueueMoves ==
    ASSUME TypeOK, NEW c \in Calls, EnqueueTask(c)
    PROVE  /\ OnlyCall(c) /\ KeepsLocals(c)
           /\ calls'[c].pc = "link" /\ calls'[c].task = task'.id
           /\ \/ task.status = "none" /\ task'.status = "awaiting_upload" /\ task'.id = c
              \/ task.status # "none" /\ task' = task
<1>1. calls \in [Calls -> CallLocals]
  BY TypeParts
<1>2. calls[c] \in CallLocals
  BY <1>1
<1>3. /\ \/ task.status = "none" /\ task'.status = "awaiting_upload" /\ task'.id = c
         \/ task.status # "none" /\ task' = task
      /\ task'.id \in Calls \cup {Null}
  BY DEF EnqueueTask, TypeOK
<1> DEFINE new == [calls[c] EXCEPT !.pc = "link", !.task = task'.id]
<1>4. /\ new \in CallLocals /\ new.pc = "link" /\ new.task = task'.id
      /\ new.kind = calls[c].kind /\ new.bytes = calls[c].bytes
      /\ new.asset = calls[c].asset
  BY <1>2, <1>3 DEF CallLocals, Running
<1>5. calls' = [calls EXCEPT ![c] = new]
  BY <1>1, <1>2 DEF EnqueueTask, CallLocals
<1> HIDE DEF new
<1> QED
  BY <1>1, <1>3, <1>4, <1>5 DEF OnlyCall, KeepsLocals

\* The order in which an upload is removed, step by step.
LEMMA DropEffect ==
    ASSUME TypeOK, NEW c \in Calls, NEW pc \in Deleting \ {"dropObjects"}, Drop(c, pc)
    PROVE  /\ OnlyCall(c) /\ calls[c].pc = pc /\ calls'[c].kind = calls[c].kind
           /\ workers' = workers /\ ingested' = ingested
           /\ calls'[c].pc = IF pc = "dropTask" THEN "listArtifacts"
                             ELSE IF pc = "listArtifacts" THEN "dropObjects"
                             ELSE IF pc \in {"dropRaw", "dropStored"} THEN "dropArtifacts"
                             ELSE IF pc = "dropArtifacts" THEN "dropAsset" ELSE "ok"
           /\ pc # "dropAsset" => calls'[c].asset = calls[c].asset
<1>1. calls \in [Calls -> CallLocals] /\ artifact \in Bytes \cup {Null}
  BY TypeParts DEF TypeOK
<1>2. calls[c] \in CallLocals /\ calls[c].pc = pc /\ workers' = workers /\ ingested' = ingested
  BY <1>1 DEF Drop
<1> DEFINE next == IF pc = "dropTask" THEN "listArtifacts"
                   ELSE IF pc = "listArtifacts" THEN "dropObjects"
                   ELSE IF pc \in {"dropRaw", "dropStored"} THEN "dropArtifacts"
                   ELSE IF pc = "dropArtifacts" THEN "dropAsset" ELSE "ok"
<1>3. NextDrop(pc) = next /\ (next = "ok" <=> pc = "dropAsset")
  BY DEF NextDrop, Deleting
<1>4. CASE pc = "dropAsset"
  <2>1. Return(c, "ok")
    BY <1>3, <1>4 DEF Drop
  <2> QED
    BY <2>1, <1>2, <1>3, <1>4, ReturnEffect
<1>5. CASE pc # "dropAsset"
  <2> DEFINE listed == IF pc = "listArtifacts" THEN artifact ELSE calls[c].listed
             new == [calls[c] EXCEPT !.pc = next, !.listed = listed]
  <2>1. next \in Running
    BY <1>5 DEF Deleting, Running
  <2>2. calls' = [calls EXCEPT ![c].pc = next,
                               ![c].listed = IF pc = "listArtifacts" THEN artifact ELSE @]
    BY <1>3, <1>5 DEF Drop
  <2> HIDE DEF next
  <2>3. /\ new \in CallLocals /\ new.pc = next /\ new.kind = calls[c].kind
        /\ new.asset = calls[c].asset
    BY <1>1, <1>2, <2>1 DEF CallLocals
  <2>4. calls' = [calls EXCEPT ![c] = new]
    BY <1>1, <1>2, <2>2 DEF CallLocals
  <2> HIDE DEF new
  <2>5. OnlyCall(c) /\ calls'[c] = new
    BY <1>1, <2>3, <2>4 DEF OnlyCall
  <2> QED
    BY <1>2, <1>5, <2>3, <2>5 DEF next
<1> QED
  BY <1>4, <1>5

\* A worker takes the task.
LEMMA ClaimMoves ==
    ASSUME TypeOK, NEW w \in Workers, ClaimTask(w)
    PROVE  /\ OnlyWorker(w) /\ workers[w].pc = "idle" /\ workers'[w].pc = "check"
           /\ workers'[w].task = task.id
           /\ task'.status = "processing" /\ task'.id = task.id
           /\ task' \in [status : {"none", "awaiting_upload", "pending", "processing",
                                   "retry", "success", "dead", "cancelled"},
                         id : Calls \cup {Null}, attempts : 0..MaxAttempts]
<1>1. workers \in [Workers -> WorkLocals] /\ workers[w].pc = "idle"
  BY TypeParts DEF ClaimTask
<1> DEFINE attempts == IF task.attempts < MaxAttempts THEN task.attempts + 1
                       ELSE task.attempts
           new == [Idle EXCEPT !.pc = "check", !.task = task.id, !.attempts = attempts]
<1>2. attempts \in 0..MaxAttempts /\ task.id \in Calls \cup {Null}
  BY UploadAssumption DEF TypeOK
<1>3. /\ task' = [task EXCEPT !.status = "processing", !.attempts = attempts]
      /\ workers' = [workers EXCEPT ![w] = new]
  BY DEF ClaimTask
<1> HIDE DEF attempts
<1>4. new \in WorkLocals /\ new.pc = "check" /\ new.task = task.id
  BY <1>2 DEF WorkLocals, Idle, Handling
<1>5. /\ task'.status = "processing" /\ task'.id = task.id
      /\ task' \in [status : {"none", "awaiting_upload", "pending", "processing",
                              "retry", "success", "dead", "cancelled"},
                    id : Calls \cup {Null}, attempts : 0..MaxAttempts]
  BY <1>2, <1>3 DEF TypeOK
<1> HIDE DEF new
<1> QED
  BY <1>1, <1>3, <1>4, <1>5 DEF OnlyWorker

-----------------------------------------------------------------------------
(* Calls do not overlap, and one worker has the task.                      *)

\* No other call is running when a call takes a step.
LEMMA CallAlone ==
    ASSUME SerialCalls, TypeOK, OneCall, NEW c \in Calls, Call(c)
    PROVE  /\ OnlyCall(c) /\ workers' = workers
           /\ \A d \in Calls : d # c => calls[d].pc \notin Running
<1>1. CASE InsertAsset(c)
  BY <1>1, BeginEffect, RefuseEffect, NewCallType
     DEF InsertAsset, OneCall, Running, Kinds, Deleting
<1>2. CASE EnqueueTask(c)
  BY <1>2, EnqueueMoves DEF EnqueueTask, OneCall, Running, At
<1>3. CASE LinkTask(c)
  BY <1>3, ReturnEffect DEF LinkTask, OneCall, Running, At
<1>4. CASE BeginPut(c)
  BY <1>4, BeginEffect, RefuseEffect, NewCallType
     DEF BeginPut, OneCall, Running, Kinds, TypeOK
<1>5. CASE StoreBytes(c)
  BY <1>5, GotoEffect, ReturnEffect DEF StoreBytes, OneCall, Running, At
<1>6. CASE RecordUpload(c)
  BY <1>6, ReturnEffect DEF RecordUpload, OneCall, Running, At
<1>7. CASE BeginComplete(c)
  BY <1>7, BeginEffect, RefuseEffect, NewCallType
     DEF BeginComplete, NextComplete, OneCall, Running, Kinds, Deleting, TypeOK, Assets
<1>8. CASE MergePayload(c)
  <2>1. calls[c].asset \in Assets
    BY TypeParts DEF CallLocals
  <2> QED
    BY <1>8, <2>1, GotoEffect, ReturnEffect
       DEF MergePayload, NextComplete, Assets, OneCall, Running, At
<1>9. CASE HeadObject(c)
  BY <1>9, GotoEffect, ReturnEffect DEF HeadObject, OneCall, Running, At
<1>10. CASE QueueAsset(c)
  BY <1>10, GotoEffect DEF QueueAsset, OneCall, Running, At
<1>11. CASE ReleaseTask(c)
  BY <1>11, GotoEffect DEF ReleaseTask, OneCall, Running, At
<1>12. CASE AnswerComplete(c)
  BY <1>12, ReturnEffect DEF AnswerComplete, OneCall, Running, At
<1>13. CASE BeginCancel(c)
  BY <1>13, BeginEffect, RefuseEffect, NewCallType
     DEF BeginCancel, OneCall, Running, Kinds, Deleting
<1>14. CASE FenceTask(c)
  BY <1>14, GotoEffect, ReturnEffect DEF FenceTask, OneCall, Running, At
<1>15. CASE CancelAsset(c)
  BY <1>15, GotoEffect DEF CancelAsset, OneCall, Running, At, Deleting
<1>16. CASE BeginExpire(c)
  BY <1>16, BeginEffect, RefuseEffect, NewCallType
     DEF BeginExpire, OneCall, Running, Kinds, Deleting
<1>17. CASE DropTask(c)
  BY <1>17, DropEffect DEF DropTask, OneCall, Running, Deleting
<1>18. CASE ListArtifacts(c)
  BY <1>18, DropEffect DEF ListArtifacts, OneCall, Running, Deleting
<1>19. CASE DropRaw(c)
  BY <1>19, GotoEffect, DropEffect DEF DropRaw, DropObject, OneCall, Running, Deleting
<1>20. CASE DropStored(c)
  BY <1>20, GotoEffect, DropEffect DEF DropStored, DropObject, OneCall, Running, Deleting
<1>21. CASE DropArtifacts(c)
  BY <1>21, DropEffect DEF DropArtifacts, OneCall, Running, Deleting
<1>22. CASE DropAsset(c)
  BY <1>22, DropEffect DEF DropAsset, OneCall, Running, Deleting
<1>23. CASE RetryTask(c)
  BY <1>23, BeginEffect, RefuseEffect, NewCallType
     DEF RetryTask, OneCall, Running, Kinds, TypeOK
<1>24. CASE RequeueAsset(c)
  BY <1>24, ReturnEffect DEF RequeueAsset, OneCall, Running, At
<1>25. CASE CallDies(c)
  BY <1>25, ReturnEffect DEF CallDies, OneCall
<1> QED
  BY <1>1, <1>2, <1>3, <1>4, <1>5, <1>6, <1>7, <1>8, <1>9, <1>10, <1>11, <1>12, <1>13, <1>14,
     <1>15, <1>16, <1>17, <1>18, <1>19, <1>20, <1>21, <1>22, <1>23, <1>24, <1>25
     DEF Call

\* The task is the worker's, and no other's.
LEMMA WorkAlone ==
    ASSUME PromptWorkers, TypeOK, SoloWorker, NEW w \in Workers, Work(w)
    PROVE  /\ OnlyWorker(w) /\ calls' = calls
           /\ \A v \in Workers : v # w => ~Busy(v)
           /\ Busy(w) => workers[w].task = task.id /\ task.status = "processing"
<1> Busy(w) => /\ workers[w].task = task.id /\ task.status = "processing"
               /\ \A v \in Workers : v # w => ~Busy(v)
  BY DEF SoloWorker
<1>1. CASE ClaimTask(w)
  BY <1>1, ClaimMoves DEF ClaimTask, Abandoned, SoloWorker, Busy
<1>2. CASE CheckAsset(w)
  <2>1. asset.checksum \in Bytes \cup {Null}
    BY DEF TypeOK, Assets
  <2> QED
    BY <2>1, <1>2, StepEffect, TakesEffect DEF CheckAsset, Busy, Handling, TypeOK
<1>3. CASE MarkProcessing(w)
  BY <1>3, StepEffect DEF MarkProcessing, Busy, Handling
<1>4. CASE ReadSource(w)
  BY <1>4, StepEffect DEF ReadSource, Busy, Handling
<1>5. CASE FindArtifact(w)
  BY <1>5, StepEffect, TakesEffect DEF FindArtifact, Busy, Handling, TypeOK
<1>6. CASE StoreArtifact(w)
  BY <1>6, StepEffect DEF StoreArtifact, Busy, Handling
<1>7. CASE InsertArtifact(w)
  BY <1>7, StepEffect DEF InsertArtifact, Busy, Handling
<1>8. CASE IngestDocument(w)
  BY <1>8, StepEffect DEF IngestDocument, Busy, Handling
<1>9. CASE RecordIngested(w)
  BY <1>9, StepEffect DEF RecordIngested, Busy, Handling
<1>10. CASE LinkDocument(w)
  BY <1>10, StepEffect DEF LinkDocument, Busy, Handling
<1>11. CASE RereadAsset(w)
  BY <1>11, StepEffect DEF RereadAsset, Busy, Handling
<1>12. CASE HandlerThrows(w)
  BY <1>12, StepEffect DEF HandlerThrows, Busy, Handling
<1>13. CASE MarkFailed(w)
  BY <1>13, StepEffect DEF MarkFailed, Busy, Handling
<1>14. CASE FinishTask(w)
  BY <1>14, IdleEffect DEF FinishTask, Busy
<1>15. CASE WorkerDies(w)
  BY <1>15, IdleEffect DEF WorkerDies, Busy
<1> QED
  BY <1>1, <1>2, <1>3, <1>4, <1>5, <1>6, <1>7, <1>8, <1>9, <1>10, <1>11, <1>12, <1>13, <1>14, <1>15
     DEF Work
-----------------------------------------------------------------------------
(* What each action does, one field at a time.                             *)

Tasks == [status : {"none", "awaiting_upload", "pending", "processing", "retry",
                    "success", "dead", "cancelled"},
          id : Calls \cup {Null}, attempts : 0..MaxAttempts]

\* The asset has another status, or the task has.
AssetIs(status) ==
    /\ asset' \in Assets /\ asset'.status = status
    /\ asset'.checksum = asset.checksum /\ asset'.task = asset.task
    /\ asset'.document = asset.document

TaskIs(status) == task' \in Tasks /\ task'.id = task.id /\ task'.status = status

\* A call begins, is refused, moves on, removes something, or ends.
Begins(c, kind, pc) ==
    /\ calls[c].pc = "idle" /\ calls'[c].pc = pc
    /\ calls'[c].kind = kind /\ calls'[c].asset = asset

Refuses(c) == calls[c].pc = "idle" /\ calls'[c].pc = "refused"

Moves(c, from, to) == calls[c].pc = from /\ calls'[c].pc = to /\ KeepsLocals(c)

Drops(c, from, to) ==
    /\ calls[c].pc = from /\ calls'[c].pc = to
    /\ calls'[c].kind = calls[c].kind

Ends(c, from) ==
    /\ calls[c].pc = from /\ calls'[c].pc \in {"ok", "refused"}
    /\ calls'[c].kind = calls[c].kind

\* A worker moves on, with the checksum it has.
Works(w, from, to) ==
    /\ workers[w].pc = from /\ workers'[w].pc = to
    /\ workers'[w].task = workers[w].task
    /\ workers'[w].checksum = workers[w].checksum

LEMMA InsertAssetEffect ==
    ASSUME TypeOK, NEW c \in Calls, InsertAsset(c)
    PROVE  /\ Begins(c, "create", "enqueue")
           /\ IF asset.status = "none"
              THEN /\ asset' \in Assets /\ asset'.status = "awaiting_upload"
                   /\ asset'.checksum = Null /\ asset'.task = Null
              ELSE asset' = asset
           /\ UNCHANGED <<task, raw, artifact, stored, ingested>>
<1>1. asset \in Assets /\ task \in Tasks
  BY DEF TypeOK, Tasks
<1> QED
  BY <1>1, UploadAssumption, BeginEffect, RefuseEffect, NewCallType
     DEF InsertAsset, objects, Begins, Kinds, Running, NoAsset, Assets

LEMMA EnqueueTaskEffect ==
    ASSUME TypeOK, NEW c \in Calls, EnqueueTask(c)
    PROVE  /\ calls[c].pc = "enqueue" /\ calls'[c].pc = "link" /\ calls'[c].kind = calls[c].kind
           /\ calls'[c].task = task'.id
           /\ \/ task.status = "none" /\ task' \in Tasks
                 /\ task'.status = "awaiting_upload" /\ task'.id = c
              \/ task.status # "none" /\ task' = task
           /\ UNCHANGED <<asset, raw, artifact, stored, ingested>>
<1>1. task \in Tasks
  BY DEF TypeOK, Tasks
<1>2. task.status = "none" => task' = [status |-> "awaiting_upload", id |-> c, attempts |-> 0]
  BY DEF EnqueueTask
<1>3. task.status = "none" => task' \in Tasks
  BY <1>2, UploadAssumption DEF Tasks
<1> QED
  BY <1>1, <1>3, EnqueueMoves DEF EnqueueTask, objects, At, KeepsLocals

LEMMA LinkTaskEffect ==
    ASSUME TypeOK, NEW c \in Calls, LinkTask(c)
    PROVE  /\ Ends(c, "link")
           /\ IF asset.status = "none" THEN asset' = asset
              ELSE /\ asset' \in Assets /\ asset'.status = asset.status
                   /\ asset'.checksum = asset.checksum /\ asset'.document = asset.document
                   /\ asset'.task = calls[c].task
           /\ UNCHANGED <<task, raw, artifact, stored, ingested>>
<1>1. asset \in Assets /\ task \in Tasks /\ calls[c].task \in Calls \cup {Null}
      /\ calls[c].bytes \in Bytes \cup {Null}
  BY TypeParts DEF TypeOK, Tasks, CallLocals
<1> QED
  BY <1>1, ReturnEffect DEF LinkTask, objects, At, Ends, UpdateAsset, Assets

LEMMA BeginPutEffect ==
    ASSUME TypeOK, NEW c \in Calls, BeginPut(c)
    PROVE  /\ \/ /\ Begins(c, "put", "store") /\ calls'[c].bytes \in Bytes
                 /\ asset.status \in {"awaiting_upload", "uploaded"}
              \/ Refuses(c)
           /\ UNCHANGED <<asset, task, raw, artifact, stored, ingested>>
<1>1. PICK b \in Bytes : IF Replaceable(asset, b)
                         THEN Begin(c, [NewCallAt("put", "store") EXCEPT !.bytes = b])
                         ELSE Refuse(c)
  BY DEF BeginPut
<1>2. CASE Replaceable(asset, b)
  <2> DEFINE call == [NewCallAt("put", "store") EXCEPT !.bytes = b]
  <2>1. /\ call \in CallLocals /\ call.kind = "put" /\ call.pc = "store"
        /\ call.asset = asset /\ call.bytes = b
    BY NewCallType DEF Kinds, Running
  <2>2. Begin(c, call)
    BY <1>1, <1>2
  <2> HIDE DEF call
  <2>3. Begins(c, "put", "store") /\ calls'[c].bytes = b
    BY <2>1, <2>2, BeginEffect DEF Begins
  <2> QED
    BY <2>3, <1>2 DEF BeginPut, Replaceable, objects
<1>3. CASE ~Replaceable(asset, b)
  BY <1>1, <1>3, RefuseEffect DEF BeginPut, Refuses, objects
<1> QED
  BY <1>2, <1>3

LEMMA StoreBytesEffect ==
    ASSUME TypeOK, NEW c \in Calls, StoreBytes(c)
    PROVE  /\ \/ raw' = raw
              \/ raw = Null /\ raw' = calls[c].bytes
           /\ Moves(c, "store", "record") \/ Ends(c, "store")
           /\ UNCHANGED <<asset, task, artifact, stored, ingested>>
<1>1. asset \in Assets /\ task \in Tasks
  BY DEF TypeOK, Tasks
<1> QED
  BY <1>1, UploadAssumption, GotoEffect, ReturnEffect
     DEF StoreBytes, At, Moves, Ends, Running

LEMMA RecordUploadEffect ==
    ASSUME TypeOK, NEW c \in Calls, RecordUpload(c)
    PROVE  /\ Ends(c, "record")
           /\ IF asset.status = "none" THEN asset' = asset
              ELSE /\ asset' \in Assets /\ asset'.status = "uploaded"
                   /\ asset'.checksum = calls[c].bytes /\ asset'.task = asset.task
           /\ UNCHANGED <<task, raw, artifact, stored, ingested>>
<1>1. asset \in Assets /\ task \in Tasks /\ calls[c].task \in Calls \cup {Null}
      /\ calls[c].bytes \in Bytes \cup {Null}
  BY TypeParts DEF TypeOK, Tasks, CallLocals
<1> QED
  BY <1>1, ReturnEffect DEF RecordUpload, objects, At, Ends, UpdateAsset, Assets

LEMMA BeginCompleteEffect ==
    ASSUME TypeOK, NEW c \in Calls, BeginComplete(c)
    PROVE  /\ \/ Begins(c, "complete", "payload")
              \/ Begins(c, "complete", "answer")
              \/ Begins(c, "complete", "head") /\ asset.status = "uploaded"
              \/ Refuses(c)
           /\ UNCHANGED <<asset, task, raw, artifact, stored, ingested>>
<1>1. asset \in Assets /\ task \in Tasks
  BY DEF TypeOK, Tasks
<1> QED
  BY <1>1, UploadAssumption, BeginEffect, RefuseEffect, NewCallType
     DEF BeginComplete, NextComplete, Assets, objects, Begins, Refuses, Kinds, Running

LEMMA MergePayloadEffect ==
    ASSUME TypeOK, NEW c \in Calls, MergePayload(c)
    PROVE  /\ \/ Moves(c, "payload", "answer")
              \/ Moves(c, "payload", "head") /\ calls[c].asset.status = "uploaded"
              \/ Ends(c, "payload")
           /\ UNCHANGED <<asset, task, raw, artifact, stored, ingested>>
<1>1. calls[c].asset \in Assets
  BY TypeParts DEF CallLocals
<1> QED
  BY <1>1, GotoEffect, ReturnEffect
     DEF MergePayload, NextComplete, Assets, objects, At, Moves, Ends, Running

LEMMA HeadObjectEffect ==
    ASSUME TypeOK, NEW c \in Calls, HeadObject(c)
    PROVE  /\ Moves(c, "head", "queue") \/ Ends(c, "head")
           /\ UNCHANGED <<asset, task, raw, artifact, stored, ingested>>
<1>1. asset \in Assets /\ task \in Tasks
  BY DEF TypeOK, Tasks
<1> QED
  BY <1>1, UploadAssumption, GotoEffect, ReturnEffect
     DEF HeadObject, objects, At, Moves, Ends, Running

LEMMA QueueAssetEffect ==
    ASSUME TypeOK, NEW c \in Calls, QueueAsset(c)
    PROVE  /\ Moves(c, "queue", "release")
           /\ IF asset.status = "uploaded" THEN AssetIs("queued") ELSE asset' = asset
           /\ UNCHANGED <<task, raw, artifact, stored, ingested>>
<1>1. asset \in Assets /\ task \in Tasks
  BY DEF TypeOK, Tasks
<1> QED
  BY <1>1, UploadAssumption, GotoEffect
     DEF QueueAsset, objects, At, Moves, AssetIs, Assets, Running

LEMMA ReleaseTaskEffect ==
    ASSUME TypeOK, NEW c \in Calls, ReleaseTask(c)
    PROVE  /\ Moves(c, "release", "answer")
           /\ \/ task' = task
              \/ /\ task.status = "awaiting_upload" /\ task.id = calls[c].asset.task
                 /\ TaskIs("pending")
           /\ UNCHANGED <<asset, raw, artifact, stored, ingested>>
<1>1. asset \in Assets /\ task \in Tasks
  BY DEF TypeOK, Tasks
<1> QED
  BY <1>1, UploadAssumption, GotoEffect
     DEF ReleaseTask, objects, At, Moves, TaskIs, Tasks, UpdateTask, Running

LEMMA AnswerCompleteEffect ==
    ASSUME TypeOK, NEW c \in Calls, AnswerComplete(c)
    PROVE  /\ Ends(c, "answer")
           /\ UNCHANGED <<asset, task, raw, artifact, stored, ingested>>
<1>1. asset \in Assets /\ task \in Tasks
  BY DEF TypeOK, Tasks
<1> QED
  BY <1>1, UploadAssumption, ReturnEffect DEF AnswerComplete, objects, At, Ends

LEMMA BeginCancelEffect ==
    ASSUME TypeOK, NEW c \in Calls, BeginCancel(c)
    PROVE  /\ \/ /\ Begins(c, "cancel", IF asset.task = Null THEN "listArtifacts" ELSE "fence")
                 /\ asset.status \notin {"none", "ready"}
              \/ Refuses(c)
           /\ UNCHANGED <<asset, task, raw, artifact, stored, ingested>>
<1>1. asset \in Assets /\ task \in Tasks
  BY DEF TypeOK, Tasks
<1> QED
  BY <1>1, UploadAssumption, BeginEffect, RefuseEffect, NewCallType
     DEF BeginCancel, objects, Begins, Refuses, Kinds, Running, Deleting

LEMMA FenceTaskEffect ==
    ASSUME TypeOK, NEW c \in Calls, FenceTask(c)
    PROVE  /\ \/ /\ Moves(c, "fence", "cancel")
                 /\ IF task.id = calls[c].asset.task
                    THEN /\ TaskIs("cancelled")
                         /\ Fenceable(task) \/ task.status = "cancelled"
                    ELSE task' = task
              \/ Ends(c, "fence") /\ task' = task
           /\ UNCHANGED <<asset, raw, artifact, stored, ingested>>
<1>1. asset \in Assets /\ task \in Tasks
  BY DEF TypeOK, Tasks
<1> QED
  BY <1>1, UploadAssumption, GotoEffect, ReturnEffect
     DEF FenceTask, objects, At, Moves, Ends, TaskIs, Tasks, Running

LEMMA CancelAssetEffect ==
    ASSUME TypeOK, NEW c \in Calls, CancelAsset(c)
    PROVE  /\ Moves(c, "cancel", "dropTask")
           /\ IF asset.status = "none" THEN asset' = asset ELSE AssetIs("cancelled")
           /\ UNCHANGED <<task, raw, artifact, stored, ingested>>
<1>1. asset \in Assets /\ task \in Tasks
  BY DEF TypeOK, Tasks
<1> QED
  BY <1>1, UploadAssumption, GotoEffect
     DEF CancelAsset, objects, At, Moves, AssetIs, Assets, UpdateAsset, Running, Deleting

LEMMA BeginExpireEffect ==
    ASSUME TypeOK, NEW c \in Calls, BeginExpire(c)
    PROVE  /\ Begins(c, "expire", IF asset.task = Null THEN "listArtifacts" ELSE "dropTask")
           /\ asset.status \in {"awaiting_upload", "uploaded"}
           /\ UNCHANGED <<asset, task, raw, artifact, stored, ingested>>
<1>1. asset \in Assets /\ task \in Tasks
  BY DEF TypeOK, Tasks
<1> QED
  BY <1>1, UploadAssumption, BeginEffect, RefuseEffect, NewCallType
     DEF BeginExpire, objects, Begins, Kinds, Running, Deleting

LEMMA DropTaskEffect ==
    ASSUME TypeOK, NEW c \in Calls, DropTask(c)
    PROVE  /\ Drops(c, "dropTask", "listArtifacts")
           /\ task' = task \/ task' = NoTask
           /\ UNCHANGED <<asset, raw, artifact, stored, ingested>>
<1>1. asset \in Assets /\ task \in Tasks
  BY DEF TypeOK, Tasks
<1> QED
  BY <1>1, UploadAssumption, DropEffect DEF DropTask, objects, Drops, UpdateTask, Deleting

LEMMA ListArtifactsEffect ==
    ASSUME TypeOK, NEW c \in Calls, ListArtifacts(c)
    PROVE  /\ Drops(c, "listArtifacts", "dropObjects")
           /\ UNCHANGED <<asset, task, raw, artifact, stored, ingested>>
<1>1. asset \in Assets /\ task \in Tasks
  BY DEF TypeOK, Tasks
<1> QED
  BY <1>1, UploadAssumption, DropEffect DEF ListArtifacts, objects, Drops, Deleting

LEMMA DropRawEffect ==
    ASSUME TypeOK, NEW c \in Calls, DropRaw(c)
    PROVE  /\ \/ Drops(c, "dropObjects", "dropStored")
              \/ Drops(c, "dropRaw", "dropArtifacts")
           /\ raw' = Null
           /\ UNCHANGED <<asset, task, artifact, stored, ingested>>
<1>1. DropObject(c, "dropRaw", "dropStored")
  BY DEF DropRaw
<1>2. Drops(c, "dropObjects", "dropStored") \/ Drops(c, "dropRaw", "dropArtifacts")
  BY <1>1, GotoEffect, DropEffect DEF DropObject, Drops, KeepsLocals, Deleting, Running
<1>3. ingested' = ingested
  BY <1>1, DropEffect DEF DropObject, Deleting
<1> QED
  BY <1>2, <1>3 DEF DropRaw

LEMMA DropStoredEffect ==
    ASSUME TypeOK, NEW c \in Calls, DropStored(c)
    PROVE  /\ \/ Drops(c, "dropObjects", "dropRaw")
              \/ Drops(c, "dropStored", "dropArtifacts")
           /\ stored' \subseteq stored
           /\ UNCHANGED <<asset, task, raw, artifact, ingested>>
<1>1. DropObject(c, "dropStored", "dropRaw")
  BY DEF DropStored
<1>2. Drops(c, "dropObjects", "dropRaw") \/ Drops(c, "dropStored", "dropArtifacts")
  BY <1>1, GotoEffect, DropEffect DEF DropObject, Drops, KeepsLocals, Deleting, Running
<1>3. ingested' = ingested
  BY <1>1, DropEffect DEF DropObject, Deleting
<1> QED
  BY <1>2, <1>3 DEF DropStored

LEMMA DropArtifactsEffect ==
    ASSUME TypeOK, NEW c \in Calls, DropArtifacts(c)
    PROVE  /\ Drops(c, "dropArtifacts", "dropAsset")
           /\ artifact' = Null
           /\ UNCHANGED <<asset, task, raw, stored, ingested>>
<1>1. asset \in Assets /\ task \in Tasks
  BY DEF TypeOK, Tasks
<1> QED
  BY <1>1, UploadAssumption, DropEffect DEF DropArtifacts, Drops, Deleting

LEMMA DropAssetEffect ==
    ASSUME TypeOK, NEW c \in Calls, DropAsset(c)
    PROVE  /\ Drops(c, "dropAsset", "ok")
           /\ asset' = NoAsset
           /\ UNCHANGED <<task, raw, artifact, stored, ingested>>
<1>1. asset \in Assets /\ task \in Tasks
  BY DEF TypeOK, Tasks
<1> QED
  BY <1>1, UploadAssumption, DropEffect DEF DropAsset, objects, Drops, Deleting

LEMMA RetryTaskEffect ==
    ASSUME TypeOK, NEW c \in Calls, RetryTask(c)
    PROVE  /\ \/ /\ Begins(c, "retry", "requeue") /\ calls'[c].task = task.id
                 /\ Redrivable(task) /\ TaskIs("pending")
              \/ Refuses(c) /\ task' = task
           /\ UNCHANGED <<asset, raw, artifact, stored, ingested>>
<1>1. task \in Tasks
  BY DEF TypeOK, Tasks
<1>2. CASE Redrivable(task)
  <2> DEFINE call == [NewCallAt("retry", "requeue") EXCEPT !.task = task.id]
  <2>1. /\ call \in CallLocals /\ call.kind = "retry" /\ call.pc = "requeue"
        /\ call.asset = asset /\ call.task = task.id
    BY <1>1, NewCallType DEF Kinds, Running, Tasks
  <2>2. Begin(c, call)
    BY <1>2 DEF RetryTask
  <2> HIDE DEF call
  <2>3. Begins(c, "retry", "requeue") /\ calls'[c].task = task.id
    BY <2>1, <2>2, BeginEffect DEF Begins
  <2>4. 0 \in 0..MaxAttempts /\ task' = [task EXCEPT !.status = "pending", !.attempts = 0]
    BY <1>2, UploadAssumption DEF RetryTask
  <2>5. TaskIs("pending")
    BY <1>1, <2>4 DEF TaskIs, Tasks
  <2> QED
    BY <2>3, <2>5, <1>2 DEF RetryTask, objects
<1>3. CASE ~Redrivable(task)
  BY <1>3, RefuseEffect DEF RetryTask, Refuses, objects
<1> QED
  BY <1>2, <1>3

LEMMA RequeueAssetEffect ==
    ASSUME TypeOK, NEW c \in Calls, RequeueAsset(c)
    PROVE  /\ Ends(c, "requeue") /\ calls[c].kind = "retry"
           /\ \/ asset' = asset
              \/ asset.task = calls[c].task /\ AssetIs("queued")
           /\ UNCHANGED <<task, raw, artifact, stored, ingested>>
<1>1. asset \in Assets /\ task \in Tasks
  BY DEF TypeOK, Tasks
<1> QED
  BY <1>1, UploadAssumption, ReturnEffect
     DEF RequeueAsset, objects, At, Ends, AssetIs, Assets

LEMMA CallDiesEffect ==
    ASSUME TypeOK, NEW c \in Calls, CallDies(c)
    PROVE  /\ calls'[c].pc = "died" /\ calls'[c].kind = calls[c].kind
           /\ UNCHANGED <<asset, task, raw, artifact, stored, ingested>>
<1>1. asset \in Assets /\ task \in Tasks
  BY DEF TypeOK, Tasks
<1> QED
  BY <1>1, UploadAssumption, ReturnEffect DEF CallDies, objects

LEMMA ClaimTaskEffect ==
    ASSUME TypeOK, NEW w \in Workers, ClaimTask(w)
    PROVE  /\ workers[w].pc = "idle" /\ workers'[w].pc = "check" /\ workers'[w].task = task.id
           /\ TaskIs("processing") /\ task.status \in {"pending", "retry", "processing"}
           /\ UNCHANGED <<asset, raw, artifact, stored, ingested>>
<1>1. asset \in Assets /\ task \in Tasks
  BY DEF TypeOK, Tasks
<1> QED
  BY <1>1, UploadAssumption, ClaimMoves DEF ClaimTask, objects, TaskIs, Tasks

LEMMA CheckAssetEffect ==
    ASSUME TypeOK, NEW w \in Workers, CheckAsset(w)
    PROVE  /\ workers[w].pc = "check"
           /\ \/ workers'[w].pc = "success" /\ asset.status = "ready"
              \/ workers'[w].pc = "mark" /\ workers'[w].checksum = asset.checksum
              \/ workers'[w].pc = "error"
           /\ workers'[w].task = workers[w].task
           /\ UNCHANGED <<asset, task, raw, artifact, stored, ingested>>
<1>1. asset.checksum \in Bytes \cup {Null}
  BY DEF TypeOK, Assets
<1>2. \/ asset.status = "ready" /\ Step(w, "success")
      \/ workers' = [workers EXCEPT ![w].pc = "mark", ![w].checksum = asset.checksum]
      \/ Step(w, "error")
  BY DEF CheckAsset, Ready
<1>3. workers[w].pc = "check" /\ UNCHANGED <<asset, task, raw, artifact, stored, ingested>>
  BY DEF CheckAsset, objects
<1>4. CASE asset.status = "ready" /\ Step(w, "success")
  BY <1>3, <1>4, StepEffect
<1>5. CASE workers' = [workers EXCEPT ![w].pc = "mark", ![w].checksum = asset.checksum]
  BY <1>1, <1>3, <1>5, TakesEffect DEF Handling
<1>6. CASE Step(w, "error")
  BY <1>3, <1>6, StepEffect
<1> QED
  BY <1>2, <1>4, <1>5, <1>6

LEMMA MarkProcessingEffect ==
    ASSUME TypeOK, NEW w \in Workers, MarkProcessing(w)
    PROVE  /\ Works(w, "mark", "source")
           /\ IF asset.status = "none" THEN asset' = asset ELSE AssetIs("processing")
           /\ UNCHANGED <<task, raw, artifact, stored, ingested>>
<1>1. asset \in Assets /\ task \in Tasks
  BY DEF TypeOK, Tasks
<1> QED
  BY <1>1, UploadAssumption, StepEffect
     DEF MarkProcessing, objects, Works, Handling, UpdateAsset, AssetIs, Assets

LEMMA ReadSourceEffect ==
    ASSUME TypeOK, NEW w \in Workers, ReadSource(w)
    PROVE  /\ \/ Works(w, "source", "artifact") /\ raw = workers[w].checksum
              \/ Works(w, "source", "failing")
           /\ UNCHANGED <<asset, task, raw, artifact, stored, ingested>>
<1>1. asset \in Assets /\ task \in Tasks
  BY DEF TypeOK, Tasks
<1> QED
  BY <1>1, UploadAssumption, StepEffect DEF ReadSource, objects, Works, Handling

LEMMA FindArtifactEffect ==
    ASSUME TypeOK, NEW w \in Workers, FindArtifact(w)
    PROVE  /\ \/ /\ workers[w].pc = "artifact" /\ workers'[w].pc = "ingest"
                 /\ workers'[w].task = workers[w].task
                 /\ artifact \in stored /\ workers'[w].checksum = artifact
              \/ Works(w, "artifact", "store")
           /\ UNCHANGED <<asset, task, raw, artifact, stored, ingested>>
<1>1. asset \in Assets /\ task \in Tasks
  BY DEF TypeOK, Tasks
<1> QED
  BY <1>1, UploadAssumption, StepEffect, TakesEffect
     DEF FindArtifact, objects, Works, Handling, TypeOK

LEMMA StoreArtifactEffect ==
    ASSUME TypeOK, NEW w \in Workers, StoreArtifact(w)
    PROVE  /\ Works(w, "store", "insert")
           /\ stored' = stored \cup {workers[w].checksum}
           /\ UNCHANGED <<asset, task, raw, artifact, ingested>>
<1>1. asset \in Assets /\ task \in Tasks
  BY DEF TypeOK, Tasks
<1> QED
  BY <1>1, UploadAssumption, StepEffect DEF StoreArtifact, Works, Handling

LEMMA InsertArtifactEffect ==
    ASSUME TypeOK, NEW w \in Workers, InsertArtifact(w)
    PROVE  /\ \/ artifact' = artifact
              \/ artifact = Null /\ artifact' = workers[w].checksum
           /\ \/ Works(w, "insert", "ingest") /\ artifact' = workers[w].checksum
              \/ Works(w, "insert", "failing")
           /\ UNCHANGED <<asset, task, raw, stored, ingested>>
<1>1. asset \in Assets /\ task \in Tasks
  BY DEF TypeOK, Tasks
<1> QED
  BY <1>1, UploadAssumption, StepEffect DEF InsertArtifact, Works, Handling

LEMMA IngestDocumentEffect ==
    ASSUME TypeOK, NEW w \in Workers, IngestDocument(w)
    PROVE  /\ Works(w, "ingest", "ingested")
           /\ ingested' = ingested \cup {workers[w].checksum}
           /\ UNCHANGED <<asset, task, raw, artifact, stored>>
<1>1. asset \in Assets /\ task \in Tasks
  BY DEF TypeOK, Tasks
<1> QED
  BY <1>1, UploadAssumption, StepEffect DEF IngestDocument, objects, Works, Handling

LEMMA RecordIngestedEffect ==
    ASSUME TypeOK, NEW w \in Workers, RecordIngested(w)
    PROVE  /\ Works(w, "ingested", "link")
           /\ UNCHANGED <<asset, task, raw, artifact, stored, ingested>>
<1>1. asset \in Assets /\ task \in Tasks
  BY DEF TypeOK, Tasks
<1> QED
  BY <1>1, UploadAssumption, StepEffect DEF RecordIngested, objects, Works, Handling

LEMMA LinkDocumentEffect ==
    ASSUME TypeOK, NEW w \in Workers, LinkDocument(w)
    PROVE  /\ Works(w, "link", "reread")
           /\ IF asset.status = "none" THEN asset' = asset
              ELSE /\ asset' \in Assets /\ asset'.status = "ready"
                   /\ asset'.checksum = asset.checksum /\ asset'.task = asset.task
                   /\ asset'.document = workers[w].checksum
           /\ UNCHANGED <<task, raw, artifact, stored, ingested>>
<1>1. asset \in Assets /\ workers[w].checksum \in Bytes \cup {Null}
  BY TypeParts DEF TypeOK, WorkLocals
<1> QED
  BY <1>1, StepEffect DEF LinkDocument, objects, Works, Handling, UpdateAsset, Assets

LEMMA RereadAssetEffect ==
    ASSUME TypeOK, NEW w \in Workers, RereadAsset(w)
    PROVE  /\ \/ Works(w, "reread", "success") /\ asset.status # "none"
              \/ Works(w, "reread", "failing")
           /\ UNCHANGED <<asset, task, raw, artifact, stored, ingested>>
<1>1. asset \in Assets /\ task \in Tasks
  BY DEF TypeOK, Tasks
<1> QED
  BY <1>1, UploadAssumption, StepEffect DEF RereadAsset, objects, Works, Handling

LEMMA HandlerThrowsEffect ==
    ASSUME TypeOK, NEW w \in Workers, HandlerThrows(w)
    PROVE  /\ workers[w].pc \in Handling /\ workers'[w].task = workers[w].task
           /\ workers'[w].pc \in {"error", "failing"}
           /\ UNCHANGED <<asset, task, raw, artifact, stored, ingested>>
<1>1. asset \in Assets /\ task \in Tasks
  BY DEF TypeOK, Tasks
<1> QED
  BY <1>1, UploadAssumption, StepEffect DEF HandlerThrows, objects, Handling

LEMMA MarkFailedEffect ==
    ASSUME TypeOK, NEW w \in Workers, MarkFailed(w)
    PROVE  /\ Works(w, "failing", "error")
           /\ IF asset.status = "none" THEN asset' = asset ELSE AssetIs("failed")
           /\ UNCHANGED <<task, raw, artifact, stored, ingested>>
<1>1. asset \in Assets /\ task \in Tasks
  BY DEF TypeOK, Tasks
<1> QED
  BY <1>1, UploadAssumption, StepEffect
     DEF MarkFailed, objects, Works, Handling, UpdateAsset, AssetIs, Assets

LEMMA FinishTaskEffect ==
    ASSUME TypeOK, NEW w \in Workers, FinishTask(w)
    PROVE  /\ workers[w].pc \in {"success", "error"} /\ workers'[w].pc = "idle"
           /\ \/ task' = task /\ ~(task.status # "none" /\ task.id = workers[w].task)
              \/ TaskIs("success") /\ workers[w].pc = "success" /\ task.status # "none"
              \/ TaskIs("dead") /\ task.status # "none"
              \/ TaskIs("retry") /\ task.status # "none"
           /\ UNCHANGED <<asset, raw, artifact, stored, ingested>>
<1>1. asset \in Assets /\ task \in Tasks
  BY DEF TypeOK, Tasks
<1> QED
  BY <1>1, UploadAssumption, IdleEffect DEF FinishTask, objects, TaskIs, Tasks, UpdateTask

LEMMA WorkerDiesEffect ==
    ASSUME TypeOK, NEW w \in Workers, WorkerDies(w)
    PROVE  /\ workers[w].pc # "idle" /\ workers'[w].pc = "idle"
           /\ UNCHANGED <<asset, task, raw, artifact, stored, ingested>>
<1>1. asset \in Assets /\ task \in Tasks
  BY DEF TypeOK, Tasks
<1> QED
  BY <1>1, UploadAssumption, IdleEffect DEF WorkerDies, objects
-----------------------------------------------------------------------------
(* Types.                                                                  *)

\* The types of the rows and the objects.
RowTypes ==
    /\ asset \in Assets /\ task \in Tasks
    /\ raw \in Bytes \cup {Null} /\ artifact \in Bytes \cup {Null}
    /\ stored \subseteq Bytes /\ ingested \subseteq Bytes
    /\ asset.status \in {"queued", "ready"} => asset.checksum \in Bytes

\* A call leaves the rows well typed.
LEMMA CallRowTypes ==
    ASSUME SerialCalls, UploadInv, NEW c \in Calls, Call(c)
    PROVE  RowTypes'
<1>a. /\ OnlyCall(c) /\ workers' = workers /\ CallHolds(c)
      /\ \A d \in Calls : d # c => calls[d].pc \notin Running
      /\ RowTypes /\ Null \notin Bytes \cup Calls
  BY CallAlone, UploadAssumption DEF UploadInv, CallsHold, TypeOK, RowTypes, Tasks
<1>b. calls[c].bytes \in Bytes \cup {Null}
  BY TypeParts DEF UploadInv, CallLocals
<1>1. CASE InsertAsset(c)
  BY <1>a, <1>b, <1>1, InsertAssetEffect
     DEF UploadInv, Running, Deleting, RowTypes, Begins, ReleasedIsLinked, Released
<1>2. CASE EnqueueTask(c)
  BY <1>a, <1>b, <1>2, EnqueueTaskEffect
     DEF UploadInv, Running, Deleting, RowTypes, ReleasedIsLinked, Released
<1>3. CASE LinkTask(c)
  BY <1>a, <1>b, <1>3, LinkTaskEffect
     DEF UploadInv, Running, Deleting, RowTypes, Ends, ReleasedIsLinked, Released
<1>4. CASE BeginPut(c)
  BY <1>a, <1>b, <1>4, BeginPutEffect
     DEF UploadInv, Running, Deleting, RowTypes, Begins, Refuses, ReleasedIsLinked, Released
<1>5. CASE StoreBytes(c)
  BY <1>a, <1>b, <1>5, StoreBytesEffect
     DEF UploadInv, Running, Deleting, RowTypes, Moves, Ends, KeepsLocals, ReleasedIsLinked,
         Released
<1>6. CASE RecordUpload(c)
  BY <1>a, <1>b, <1>6, RecordUploadEffect
     DEF UploadInv, Running, Deleting, RowTypes, Ends, ReleasedIsLinked, Released
<1>7. CASE BeginComplete(c)
  BY <1>a, <1>b, <1>7, BeginCompleteEffect
     DEF UploadInv, Running, Deleting, RowTypes, Begins, Refuses, ReleasedIsLinked, Released
<1>8. CASE MergePayload(c)
  BY <1>a, <1>b, <1>8, MergePayloadEffect
     DEF UploadInv, Running, Deleting, RowTypes, Moves, Ends, KeepsLocals, ReleasedIsLinked,
         Released
<1>9. CASE HeadObject(c)
  BY <1>a, <1>b, <1>9, HeadObjectEffect
     DEF UploadInv, Running, Deleting, RowTypes, Moves, Ends, KeepsLocals, ReleasedIsLinked,
         Released
<1>10. CASE QueueAsset(c)
  BY <1>a, <1>b, <1>10, QueueAssetEffect
     DEF UploadInv, Running, Deleting, RowTypes, Moves, KeepsLocals, AssetIs,
         ReleasedIsLinked, Released
<1>11. CASE ReleaseTask(c)
  BY <1>a, <1>11, ReleaseTaskEffect DEF UploadInv, RowTypes, TaskIs
<1>12. CASE AnswerComplete(c)
  BY <1>a, <1>b, <1>12, AnswerCompleteEffect
     DEF UploadInv, Running, Deleting, RowTypes, Ends, ReleasedIsLinked, Released
<1>13. CASE BeginCancel(c)
  BY <1>a, <1>b, <1>13, BeginCancelEffect
     DEF UploadInv, Running, Deleting, RowTypes, Begins, Refuses, ReleasedIsLinked, Released
<1>14. CASE FenceTask(c)
  BY <1>a, <1>b, <1>14, FenceTaskEffect
     DEF UploadInv, Fenceable, Running, Deleting, RowTypes, Moves, Ends, KeepsLocals,
         TaskIs, ReleasedIsLinked, Released
<1>15. CASE CancelAsset(c)
  BY <1>a, <1>b, <1>15, CancelAssetEffect
     DEF UploadInv, Running, Deleting, RowTypes, Moves, KeepsLocals, AssetIs,
         ReleasedIsLinked, Released
<1>16. CASE BeginExpire(c)
  BY <1>a, <1>b, <1>16, BeginExpireEffect
     DEF UploadInv, Running, Deleting, RowTypes, Begins, ReleasedIsLinked, Released
<1>17. CASE DropTask(c)
  <2>1. NoTask \in Tasks
    BY UploadAssumption DEF NoTask, Tasks
  <2> QED
    BY <1>a, <2>1, <1>17, DropTaskEffect DEF UploadInv, RowTypes
<1>18. CASE ListArtifacts(c)
  BY <1>a, <1>b, <1>18, ListArtifactsEffect
     DEF UploadInv, Running, Deleting, RowTypes, Drops, ReleasedIsLinked, Released
<1>19. CASE DropRaw(c)
  BY <1>a, <1>b, <1>19, DropRawEffect
     DEF UploadInv, Running, Deleting, RowTypes, Drops, ReleasedIsLinked, Released
<1>20. CASE DropStored(c)
  BY <1>a, <1>b, <1>20, DropStoredEffect
     DEF UploadInv, Running, Deleting, RowTypes, Drops, ReleasedIsLinked, Released
<1>21. CASE DropArtifacts(c)
  BY <1>a, <1>b, <1>21, DropArtifactsEffect
     DEF UploadInv, Running, Deleting, RowTypes, Drops, ReleasedIsLinked, Released
<1>22. CASE DropAsset(c)
  BY <1>a, <1>b, <1>22, DropAssetEffect
     DEF UploadInv, NoAsset, Running, Deleting, RowTypes, Drops, Assets, NoAsset,
         ReleasedIsLinked, Released
<1>23. CASE RetryTask(c)
  BY <1>a, <1>b, <1>23, RetryTaskEffect
     DEF UploadInv, Redrivable, Running, Deleting, RowTypes, Begins, Refuses, TaskIs,
         ReleasedIsLinked, Released
<1>24. CASE RequeueAsset(c)
  BY <1>a, <1>b, <1>24, RequeueAssetEffect
     DEF UploadInv, Running, Deleting, CallHolds, RowTypes, Ends, AssetIs, ReleasedIsLinked,
         Released
<1>25. CASE CallDies(c)
  BY <1>a, <1>b, <1>25, CallDiesEffect
     DEF UploadInv, Running, Deleting, RowTypes, ReleasedIsLinked, Released
<1> QED
  BY <1>1, <1>2, <1>3, <1>4, <1>5, <1>6, <1>7, <1>8, <1>9, <1>10, <1>11, <1>12, <1>13, <1>14,
     <1>15, <1>16, <1>17, <1>18, <1>19, <1>20, <1>21, <1>22, <1>23, <1>24, <1>25
     DEF Call

\* A worker leaves the rows well typed.
LEMMA WorkRowTypes ==
    ASSUME PromptWorkers, UploadInv, NEW w \in Workers, Work(w)
    PROVE  RowTypes'
<1>a. /\ OnlyWorker(w) /\ calls' = calls /\ WorkHolds(w)
      /\ \A v \in Workers : v # w => ~Busy(v)
      /\ Busy(w) => workers[w].task = task.id /\ task.status = "processing"
      /\ RowTypes /\ Null \notin Bytes \cup Calls
  BY WorkAlone, UploadAssumption DEF UploadInv, WorkersHold, TypeOK, RowTypes, Tasks
<1>b. workers[w].checksum \in Bytes \cup {Null}
  BY TypeParts DEF UploadInv, WorkLocals
<1>1. CASE ClaimTask(w)
  BY <1>a, <1>b, <1>1, ClaimTaskEffect
     DEF UploadInv, Busy, WorkHolds, RowTypes, TaskIs, ReleasedIsLinked, Released
<1>2. CASE CheckAsset(w)
  BY <1>a, <1>b, <1>2, CheckAssetEffect
     DEF UploadInv, Busy, WorkHolds, RowTypes, ReleasedIsLinked, Released
<1>3. CASE MarkProcessing(w)
  BY <1>a, <1>b, <1>3, MarkProcessingEffect
     DEF UploadInv, Busy, WorkHolds, RowTypes, Works, AssetIs, ReleasedIsLinked, Released
<1>4. CASE ReadSource(w)
  BY <1>a, <1>b, <1>4, ReadSourceEffect
     DEF UploadInv, Busy, WorkHolds, RowTypes, Works, ReleasedIsLinked, Released
<1>5. CASE FindArtifact(w)
  BY <1>a, <1>b, <1>5, FindArtifactEffect
     DEF UploadInv, Busy, WorkHolds, RowTypes, Works, ReleasedIsLinked, Released
<1>6. CASE StoreArtifact(w)
  BY <1>a, <1>b, <1>6, StoreArtifactEffect
     DEF UploadInv, Busy, WorkHolds, RowTypes, Works, ReleasedIsLinked, Released
<1>7. CASE InsertArtifact(w)
  BY <1>a, <1>b, <1>7, InsertArtifactEffect
     DEF UploadInv, Busy, WorkHolds, RowTypes, Works, ReleasedIsLinked, Released
<1>8. CASE IngestDocument(w)
  BY <1>a, <1>b, <1>8, IngestDocumentEffect
     DEF UploadInv, Busy, WorkHolds, RowTypes, Works, ReleasedIsLinked, Released
<1>9. CASE RecordIngested(w)
  BY <1>a, <1>b, <1>9, RecordIngestedEffect
     DEF UploadInv, Busy, WorkHolds, RowTypes, Works, ReleasedIsLinked, Released
<1>10. CASE LinkDocument(w)
  BY <1>a, <1>b, <1>10, LinkDocumentEffect
     DEF UploadInv, Busy, WorkHolds, RowTypes, Works, ReleasedIsLinked, Released
<1>11. CASE RereadAsset(w)
  BY <1>a, <1>b, <1>11, RereadAssetEffect
     DEF UploadInv, Busy, WorkHolds, RowTypes, Works, ReleasedIsLinked, Released
<1>12. CASE HandlerThrows(w)
  BY <1>a, <1>b, <1>12, HandlerThrowsEffect
     DEF UploadInv, Handling, Busy, WorkHolds, RowTypes, ReleasedIsLinked, Released
<1>13. CASE MarkFailed(w)
  BY <1>a, <1>b, <1>13, MarkFailedEffect
     DEF UploadInv, Busy, WorkHolds, RowTypes, Works, AssetIs, ReleasedIsLinked, Released
<1>14. CASE FinishTask(w)
  BY <1>a, <1>b, <1>14, FinishTaskEffect
     DEF UploadInv, Busy, WorkHolds, RowTypes, TaskIs, ReleasedIsLinked, Released
<1>15. CASE WorkerDies(w)
  BY <1>a, <1>b, <1>15, WorkerDiesEffect
     DEF UploadInv, Busy, WorkHolds, RowTypes, ReleasedIsLinked, Released
<1> QED
  BY <1>1, <1>2, <1>3, <1>4, <1>5, <1>6, <1>7, <1>8, <1>9, <1>10, <1>11, <1>12, <1>13, <1>14, <1>15
     DEF Work
-----------------------------------------------------------------------------
(* Each part of the invariant, through each step.                          *)

\* A call that begins finds no other on its way.
LEMMA CallOne ==
    ASSUME SerialCalls, TypeOK, OneCall, NEW c \in Calls, Call(c)
    PROVE  OneCall'
BY CallAlone DEF OneCall, OnlyCall

\* The task keeps its id, or has one from now on.
LEMMA CallNames ==
    ASSUME SerialCalls, UploadInv, NEW c \in Calls, Call(c)
    PROVE  TaskIsNamed'
<1>a. /\ OnlyCall(c) /\ workers' = workers /\ CallHolds(c)
      /\ \A d \in Calls : d # c => calls[d].pc \notin Running
      /\ RowTypes /\ Null \notin Bytes \cup Calls
  BY CallAlone, UploadAssumption DEF UploadInv, CallsHold, TypeOK, RowTypes, Tasks
<1>1. CASE InsertAsset(c)
  BY <1>a, <1>1, InsertAssetEffect DEF UploadInv, Running, Deleting, Begins, TaskIsNamed
<1>2. CASE EnqueueTask(c)
  BY <1>a, <1>2, EnqueueTaskEffect DEF UploadInv, Running, Deleting, TaskIsNamed
<1>3. CASE LinkTask(c)
  BY <1>a, <1>3, LinkTaskEffect DEF UploadInv, Running, Deleting, Ends, TaskIsNamed
<1>4. CASE BeginPut(c)
  BY <1>a, <1>4, BeginPutEffect
     DEF UploadInv, Running, Deleting, Begins, Refuses, TaskIsNamed
<1>5. CASE StoreBytes(c)
  BY <1>a, <1>5, StoreBytesEffect
     DEF UploadInv, Running, Deleting, Moves, Ends, KeepsLocals, TaskIsNamed
<1>6. CASE RecordUpload(c)
  BY <1>a, <1>6, RecordUploadEffect DEF UploadInv, Running, Deleting, Ends, TaskIsNamed
<1>7. CASE BeginComplete(c)
  BY <1>a, <1>7, BeginCompleteEffect
     DEF UploadInv, Running, Deleting, Begins, Refuses, TaskIsNamed
<1>8. CASE MergePayload(c)
  BY <1>a, <1>8, MergePayloadEffect
     DEF UploadInv, Running, Deleting, Moves, Ends, KeepsLocals, TaskIsNamed
<1>9. CASE HeadObject(c)
  BY <1>a, <1>9, HeadObjectEffect
     DEF UploadInv, Running, Deleting, Moves, Ends, KeepsLocals, TaskIsNamed
<1>10. CASE QueueAsset(c)
  BY <1>a, <1>10, QueueAssetEffect
     DEF UploadInv, Running, Deleting, Moves, KeepsLocals, AssetIs, TaskIsNamed
<1>11. CASE ReleaseTask(c)
  BY <1>a, <1>11, ReleaseTaskEffect
     DEF UploadInv, Running, Deleting, Moves, KeepsLocals, TaskIs, TaskIsNamed
<1>12. CASE AnswerComplete(c)
  BY <1>a, <1>12, AnswerCompleteEffect DEF UploadInv, Running, Deleting, Ends, TaskIsNamed
<1>13. CASE BeginCancel(c)
  BY <1>a, <1>13, BeginCancelEffect
     DEF UploadInv, Running, Deleting, Begins, Refuses, TaskIsNamed
<1>14. CASE FenceTask(c)
  BY <1>a, <1>14, FenceTaskEffect
     DEF UploadInv, Fenceable, Running, Deleting, Moves, Ends, KeepsLocals, TaskIs,
         TaskIsNamed
<1>15. CASE CancelAsset(c)
  BY <1>a, <1>15, CancelAssetEffect
     DEF UploadInv, Running, Deleting, Moves, KeepsLocals, AssetIs, TaskIsNamed
<1>16. CASE BeginExpire(c)
  BY <1>a, <1>16, BeginExpireEffect DEF UploadInv, Running, Deleting, Begins, TaskIsNamed
<1>17. CASE DropTask(c)
  BY <1>a, <1>17, DropTaskEffect
     DEF UploadInv, NoTask, Running, Deleting, Drops, TaskIsNamed, NoTask
<1>18. CASE ListArtifacts(c)
  BY <1>a, <1>18, ListArtifactsEffect DEF UploadInv, Running, Deleting, Drops, TaskIsNamed
<1>19. CASE DropRaw(c)
  BY <1>a, <1>19, DropRawEffect DEF UploadInv, Running, Deleting, Drops, TaskIsNamed
<1>20. CASE DropStored(c)
  BY <1>a, <1>20, DropStoredEffect DEF UploadInv, Running, Deleting, Drops, TaskIsNamed
<1>21. CASE DropArtifacts(c)
  BY <1>a, <1>21, DropArtifactsEffect DEF UploadInv, Running, Deleting, Drops, TaskIsNamed
<1>22. CASE DropAsset(c)
  BY <1>a, <1>22, DropAssetEffect
     DEF UploadInv, NoAsset, Running, Deleting, Drops, TaskIsNamed
<1>23. CASE RetryTask(c)
  BY <1>a, <1>23, RetryTaskEffect
     DEF UploadInv, Redrivable, Running, Deleting, Begins, Refuses, TaskIs, TaskIsNamed
<1>24. CASE RequeueAsset(c)
  BY <1>a, <1>24, RequeueAssetEffect
     DEF UploadInv, Running, Deleting, Ends, AssetIs, TaskIsNamed
<1>25. CASE CallDies(c)
  BY <1>a, <1>25, CallDiesEffect DEF UploadInv, Running, Deleting, TaskIsNamed
<1> QED
  BY <1>1, <1>2, <1>3, <1>4, <1>5, <1>6, <1>7, <1>8, <1>9, <1>10, <1>11, <1>12, <1>13, <1>14,
     <1>15, <1>16, <1>17, <1>18, <1>19, <1>20, <1>21, <1>22, <1>23, <1>24, <1>25
     DEF Call

\* Workers keep the id.
LEMMA WorkNames ==
    ASSUME PromptWorkers, UploadInv, NEW w \in Workers, Work(w)
    PROVE  TaskIsNamed'
<1>a. /\ OnlyWorker(w) /\ calls' = calls /\ WorkHolds(w)
      /\ \A v \in Workers : v # w => ~Busy(v)
      /\ Busy(w) => workers[w].task = task.id /\ task.status = "processing"
      /\ RowTypes /\ Null \notin Bytes \cup Calls
  BY WorkAlone, UploadAssumption DEF UploadInv, WorkersHold, TypeOK, RowTypes, Tasks
<1>1. CASE ClaimTask(w)
  BY <1>a, <1>1, ClaimTaskEffect DEF UploadInv, Busy, WorkHolds, TaskIs, TaskIsNamed
<1>2. CASE CheckAsset(w)
  BY <1>a, <1>2, CheckAssetEffect DEF UploadInv, Busy, WorkHolds, TaskIsNamed
<1>3. CASE MarkProcessing(w)
  BY <1>a, <1>3, MarkProcessingEffect
     DEF UploadInv, Busy, WorkHolds, Works, AssetIs, TaskIsNamed
<1>4. CASE ReadSource(w)
  BY <1>a, <1>4, ReadSourceEffect DEF UploadInv, Busy, WorkHolds, Works, TaskIsNamed
<1>5. CASE FindArtifact(w)
  BY <1>a, <1>5, FindArtifactEffect DEF UploadInv, Busy, WorkHolds, Works, TaskIsNamed
<1>6. CASE StoreArtifact(w)
  BY <1>a, <1>6, StoreArtifactEffect DEF UploadInv, Busy, WorkHolds, Works, TaskIsNamed
<1>7. CASE InsertArtifact(w)
  BY <1>a, <1>7, InsertArtifactEffect DEF UploadInv, Busy, WorkHolds, Works, TaskIsNamed
<1>8. CASE IngestDocument(w)
  BY <1>a, <1>8, IngestDocumentEffect DEF UploadInv, Busy, WorkHolds, Works, TaskIsNamed
<1>9. CASE RecordIngested(w)
  BY <1>a, <1>9, RecordIngestedEffect DEF UploadInv, Busy, WorkHolds, Works, TaskIsNamed
<1>10. CASE LinkDocument(w)
  BY <1>a, <1>10, LinkDocumentEffect DEF UploadInv, Busy, WorkHolds, Works, TaskIsNamed
<1>11. CASE RereadAsset(w)
  BY <1>a, <1>11, RereadAssetEffect DEF UploadInv, Busy, WorkHolds, Works, TaskIsNamed
<1>12. CASE HandlerThrows(w)
  BY <1>a, <1>12, HandlerThrowsEffect DEF UploadInv, Handling, Busy, WorkHolds, TaskIsNamed
<1>13. CASE MarkFailed(w)
  BY <1>a, <1>13, MarkFailedEffect
     DEF UploadInv, Busy, WorkHolds, Works, AssetIs, TaskIsNamed
<1>14. CASE FinishTask(w)
  BY <1>a, <1>14, FinishTaskEffect DEF UploadInv, Busy, WorkHolds, TaskIs, TaskIsNamed
<1>15. CASE WorkerDies(w)
  BY <1>a, <1>15, WorkerDiesEffect DEF UploadInv, Busy, WorkHolds, TaskIsNamed
<1> QED
  BY <1>1, <1>2, <1>3, <1>4, <1>5, <1>6, <1>7, <1>8, <1>9, <1>10, <1>11, <1>12, <1>13, <1>14, <1>15
     DEF Work

\* No call takes the task from a worker.
LEMMA CallSolo ==
    ASSUME SerialCalls, UploadInv, NEW c \in Calls, Call(c)
    PROVE  SoloWorker'
<1>a. /\ OnlyCall(c) /\ workers' = workers /\ CallHolds(c)
      /\ \A d \in Calls : d # c => calls[d].pc \notin Running
      /\ RowTypes /\ Null \notin Bytes \cup Calls
  BY CallAlone, UploadAssumption DEF UploadInv, CallsHold, TypeOK, RowTypes, Tasks
<1>1. CASE InsertAsset(c)
  BY <1>a, <1>1, InsertAssetEffect
     DEF UploadInv, Running, Deleting, Begins, SoloWorker, Busy, Released
<1>2. CASE EnqueueTask(c)
  BY <1>a, <1>2, EnqueueTaskEffect
     DEF UploadInv, Running, Deleting, SoloWorker, Busy, Released
<1>3. CASE LinkTask(c)
  BY <1>a, <1>3, LinkTaskEffect
     DEF UploadInv, Running, Deleting, Ends, SoloWorker, Busy, Released
<1>4. CASE BeginPut(c)
  BY <1>a, <1>4, BeginPutEffect
     DEF UploadInv, Running, Deleting, Begins, Refuses, SoloWorker, Busy, Released
<1>5. CASE StoreBytes(c)
  BY <1>a, <1>5, StoreBytesEffect
     DEF UploadInv, Running, Deleting, Moves, Ends, KeepsLocals, SoloWorker, Busy, Released
<1>6. CASE RecordUpload(c)
  BY <1>a, <1>6, RecordUploadEffect
     DEF UploadInv, Running, Deleting, Ends, SoloWorker, Busy, Released
<1>7. CASE BeginComplete(c)
  BY <1>a, <1>7, BeginCompleteEffect
     DEF UploadInv, Running, Deleting, Begins, Refuses, SoloWorker, Busy, Released
<1>8. CASE MergePayload(c)
  BY <1>a, <1>8, MergePayloadEffect
     DEF UploadInv, Running, Deleting, Moves, Ends, KeepsLocals, SoloWorker, Busy, Released
<1>9. CASE HeadObject(c)
  BY <1>a, <1>9, HeadObjectEffect
     DEF UploadInv, Running, Deleting, Moves, Ends, KeepsLocals, SoloWorker, Busy, Released
<1>10. CASE QueueAsset(c)
  BY <1>a, <1>10, QueueAssetEffect
     DEF UploadInv, Running, Deleting, Moves, KeepsLocals, AssetIs, SoloWorker, Busy,
         Released
<1>11. CASE ReleaseTask(c)
  BY <1>a, <1>11, ReleaseTaskEffect
     DEF UploadInv, Running, Deleting, Moves, KeepsLocals, TaskIs, SoloWorker, Busy,
         Released
<1>12. CASE AnswerComplete(c)
  BY <1>a, <1>12, AnswerCompleteEffect
     DEF UploadInv, Running, Deleting, Ends, SoloWorker, Busy, Released
<1>13. CASE BeginCancel(c)
  BY <1>a, <1>13, BeginCancelEffect
     DEF UploadInv, Running, Deleting, Begins, Refuses, SoloWorker, Busy, Released
<1>14. CASE FenceTask(c)
  BY <1>a, <1>14, FenceTaskEffect
     DEF UploadInv, Fenceable, Running, Deleting, Moves, Ends, KeepsLocals, TaskIs,
         SoloWorker, Busy, Released
<1>15. CASE CancelAsset(c)
  BY <1>a, <1>15, CancelAssetEffect
     DEF UploadInv, Running, Deleting, Moves, KeepsLocals, AssetIs, SoloWorker, Busy,
         Released
<1>16. CASE BeginExpire(c)
  BY <1>a, <1>16, BeginExpireEffect
     DEF UploadInv, Running, Deleting, Begins, SoloWorker, Busy, Released
<1>17. CASE DropTask(c)
  BY <1>a, <1>17, DropTaskEffect
     DEF UploadInv, NoTask, Running, Deleting, CallHolds, Drops, SoloWorker, Busy, Released,
         NoTask
<1>18. CASE ListArtifacts(c)
  BY <1>a, <1>18, ListArtifactsEffect
     DEF UploadInv, Running, Deleting, Drops, SoloWorker, Busy, Released
<1>19. CASE DropRaw(c)
  BY <1>a, <1>19, DropRawEffect
     DEF UploadInv, Running, Deleting, Drops, SoloWorker, Busy, Released
<1>20. CASE DropStored(c)
  BY <1>a, <1>20, DropStoredEffect
     DEF UploadInv, Running, Deleting, Drops, SoloWorker, Busy, Released
<1>21. CASE DropArtifacts(c)
  BY <1>a, <1>21, DropArtifactsEffect
     DEF UploadInv, Running, Deleting, Drops, SoloWorker, Busy, Released
<1>22. CASE DropAsset(c)
  BY <1>a, <1>22, DropAssetEffect
     DEF UploadInv, NoAsset, Running, Deleting, Drops, SoloWorker, Busy, Released
<1>23. CASE RetryTask(c)
  BY <1>a, <1>23, RetryTaskEffect
     DEF UploadInv, Redrivable, Running, Deleting, Begins, Refuses, TaskIs, SoloWorker,
         Busy, Released
<1>24. CASE RequeueAsset(c)
  BY <1>a, <1>24, RequeueAssetEffect
     DEF UploadInv, Running, Deleting, Ends, AssetIs, SoloWorker, Busy, Released
<1>25. CASE CallDies(c)
  BY <1>a, <1>25, CallDiesEffect
     DEF UploadInv, Running, Deleting, SoloWorker, Busy, Released
<1> QED
  BY <1>1, <1>2, <1>3, <1>4, <1>5, <1>6, <1>7, <1>8, <1>9, <1>10, <1>11, <1>12, <1>13, <1>14,
     <1>15, <1>16, <1>17, <1>18, <1>19, <1>20, <1>21, <1>22, <1>23, <1>24, <1>25
     DEF Call

\* A worker claims the task when nobody has it, and lets it go at the end.
LEMMA WorkSolo ==
    ASSUME PromptWorkers, UploadInv, NEW w \in Workers, Work(w)
    PROVE  SoloWorker'
<1>a. /\ OnlyWorker(w) /\ calls' = calls /\ WorkHolds(w)
      /\ \A v \in Workers : v # w => ~Busy(v)
      /\ Busy(w) => workers[w].task = task.id /\ task.status = "processing"
      /\ RowTypes /\ Null \notin Bytes \cup Calls
  BY WorkAlone, UploadAssumption DEF UploadInv, WorkersHold, TypeOK, RowTypes, Tasks
<1>1. CASE ClaimTask(w)
  BY <1>a, <1>1, ClaimTaskEffect
     DEF UploadInv, Busy, WorkHolds, TaskIs, SoloWorker, OnlyWorker
<1>2. CASE CheckAsset(w)
  BY <1>a, <1>2, CheckAssetEffect DEF UploadInv, Busy, WorkHolds, SoloWorker, OnlyWorker
<1>3. CASE MarkProcessing(w)
  BY <1>a, <1>3, MarkProcessingEffect
     DEF UploadInv, Busy, WorkHolds, Works, AssetIs, SoloWorker, OnlyWorker
<1>4. CASE ReadSource(w)
  BY <1>a, <1>4, ReadSourceEffect
     DEF UploadInv, Busy, WorkHolds, Works, SoloWorker, OnlyWorker
<1>5. CASE FindArtifact(w)
  BY <1>a, <1>5, FindArtifactEffect
     DEF UploadInv, Busy, WorkHolds, Works, SoloWorker, OnlyWorker
<1>6. CASE StoreArtifact(w)
  BY <1>a, <1>6, StoreArtifactEffect
     DEF UploadInv, Busy, WorkHolds, Works, SoloWorker, OnlyWorker
<1>7. CASE InsertArtifact(w)
  BY <1>a, <1>7, InsertArtifactEffect
     DEF UploadInv, Busy, WorkHolds, Works, SoloWorker, OnlyWorker
<1>8. CASE IngestDocument(w)
  BY <1>a, <1>8, IngestDocumentEffect
     DEF UploadInv, Busy, WorkHolds, Works, SoloWorker, OnlyWorker
<1>9. CASE RecordIngested(w)
  BY <1>a, <1>9, RecordIngestedEffect
     DEF UploadInv, Busy, WorkHolds, Works, SoloWorker, OnlyWorker
<1>10. CASE LinkDocument(w)
  BY <1>a, <1>10, LinkDocumentEffect
     DEF UploadInv, Busy, WorkHolds, Works, SoloWorker, OnlyWorker
<1>11. CASE RereadAsset(w)
  BY <1>a, <1>11, RereadAssetEffect
     DEF UploadInv, Busy, WorkHolds, Works, SoloWorker, OnlyWorker
<1>12. CASE HandlerThrows(w)
  BY <1>a, <1>12, HandlerThrowsEffect
     DEF UploadInv, Handling, Busy, WorkHolds, SoloWorker, OnlyWorker
<1>13. CASE MarkFailed(w)
  BY <1>a, <1>13, MarkFailedEffect
     DEF UploadInv, Busy, WorkHolds, Works, AssetIs, SoloWorker, OnlyWorker
<1>14. CASE FinishTask(w)
  BY <1>a, <1>14, FinishTaskEffect
     DEF UploadInv, Busy, WorkHolds, TaskIs, SoloWorker, OnlyWorker
<1>15. CASE WorkerDies(w)
  BY <1>a, <1>15, WorkerDiesEffect DEF UploadInv, Busy, WorkHolds, SoloWorker, OnlyWorker
<1> QED
  BY <1>1, <1>2, <1>3, <1>4, <1>5, <1>6, <1>7, <1>8, <1>9, <1>10, <1>11, <1>12, <1>13, <1>14, <1>15
     DEF Work

\* The task that is released is that of the asset, and what is released stays.
LEMMA CallLinks ==
    ASSUME SerialCalls, UploadInv, NEW c \in Calls, Call(c)
    PROVE  ReleasedIsLinked'
<1>a. /\ OnlyCall(c) /\ workers' = workers /\ CallHolds(c)
      /\ \A d \in Calls : d # c => calls[d].pc \notin Running
      /\ RowTypes /\ Null \notin Bytes \cup Calls
  BY CallAlone, UploadAssumption DEF UploadInv, CallsHold, TypeOK, RowTypes, Tasks
<1>1. CASE InsertAsset(c)
  BY <1>a, <1>1, InsertAssetEffect
     DEF UploadInv, Running, Deleting, Begins, ReleasedIsLinked, Released, TaskIsNamed
<1>2. CASE EnqueueTask(c)
  BY <1>a, <1>2, EnqueueTaskEffect
     DEF UploadInv, Running, Deleting, ReleasedIsLinked, Released, TaskIsNamed
<1>3. CASE LinkTask(c)
  BY <1>a, <1>3, LinkTaskEffect
     DEF UploadInv, Running, Deleting, CallHolds, Ends, ReleasedIsLinked, Released,
         TaskIsNamed
<1>4. CASE BeginPut(c)
  BY <1>a, <1>4, BeginPutEffect
     DEF UploadInv, Running, Deleting, Begins, Refuses, ReleasedIsLinked, Released,
         TaskIsNamed
<1>5. CASE StoreBytes(c)
  BY <1>a, <1>5, StoreBytesEffect
     DEF UploadInv, Running, Deleting, Moves, Ends, KeepsLocals, ReleasedIsLinked, Released,
         TaskIsNamed
<1>6. CASE RecordUpload(c)
  BY <1>a, <1>6, RecordUploadEffect
     DEF UploadInv, Running, Deleting, CallHolds, Ends, ReleasedIsLinked, Released,
         TaskIsNamed
<1>7. CASE BeginComplete(c)
  BY <1>a, <1>7, BeginCompleteEffect
     DEF UploadInv, Running, Deleting, Begins, Refuses, ReleasedIsLinked, Released,
         TaskIsNamed
<1>8. CASE MergePayload(c)
  BY <1>a, <1>8, MergePayloadEffect
     DEF UploadInv, Running, Deleting, Moves, Ends, KeepsLocals, ReleasedIsLinked, Released,
         TaskIsNamed
<1>9. CASE HeadObject(c)
  BY <1>a, <1>9, HeadObjectEffect
     DEF UploadInv, Running, Deleting, Moves, Ends, KeepsLocals, ReleasedIsLinked, Released,
         TaskIsNamed
<1>10. CASE QueueAsset(c)
  BY <1>a, <1>10, QueueAssetEffect
     DEF UploadInv, Running, Deleting, Moves, KeepsLocals, AssetIs, ReleasedIsLinked,
         Released, TaskIsNamed
<1>11. CASE ReleaseTask(c)
  BY <1>a, <1>11, ReleaseTaskEffect
     DEF UploadInv, Running, Deleting, CallHolds, Moves, KeepsLocals, TaskIs,
         ReleasedIsLinked, Released, TaskIsNamed
<1>12. CASE AnswerComplete(c)
  BY <1>a, <1>12, AnswerCompleteEffect
     DEF UploadInv, Running, Deleting, Ends, ReleasedIsLinked, Released, TaskIsNamed
<1>13. CASE BeginCancel(c)
  BY <1>a, <1>13, BeginCancelEffect
     DEF UploadInv, Running, Deleting, Begins, Refuses, ReleasedIsLinked, Released,
         TaskIsNamed
<1>14. CASE FenceTask(c)
  BY <1>a, <1>14, FenceTaskEffect
     DEF UploadInv, Fenceable, Running, Deleting, Moves, Ends, KeepsLocals, TaskIs,
         ReleasedIsLinked, Released, TaskIsNamed
<1>15. CASE CancelAsset(c)
  BY <1>a, <1>15, CancelAssetEffect
     DEF UploadInv, Running, Deleting, CallHolds, Moves, KeepsLocals, AssetIs,
         ReleasedIsLinked, Released, TaskIsNamed
<1>16. CASE BeginExpire(c)
  BY <1>a, <1>16, BeginExpireEffect
     DEF UploadInv, Running, Deleting, Begins, ReleasedIsLinked, Released, TaskIsNamed
<1>17. CASE DropTask(c)
  BY <1>a, <1>17, DropTaskEffect
     DEF UploadInv, NoTask, Running, Deleting, Drops, ReleasedIsLinked, Released,
         TaskIsNamed, NoTask
<1>18. CASE ListArtifacts(c)
  BY <1>a, <1>18, ListArtifactsEffect
     DEF UploadInv, Running, Deleting, Drops, ReleasedIsLinked, Released, TaskIsNamed
<1>19. CASE DropRaw(c)
  BY <1>a, <1>19, DropRawEffect
     DEF UploadInv, Running, Deleting, Drops, ReleasedIsLinked, Released, TaskIsNamed
<1>20. CASE DropStored(c)
  BY <1>a, <1>20, DropStoredEffect
     DEF UploadInv, Running, Deleting, Drops, ReleasedIsLinked, Released, TaskIsNamed
<1>21. CASE DropArtifacts(c)
  BY <1>a, <1>21, DropArtifactsEffect
     DEF UploadInv, Running, Deleting, Drops, ReleasedIsLinked, Released, TaskIsNamed
<1>22. CASE DropAsset(c)
  BY <1>a, <1>22, DropAssetEffect
     DEF UploadInv, NoAsset, Running, Deleting, CallHolds, Drops, ReleasedIsLinked,
         Released, TaskIsNamed, NoAsset
<1>23. CASE RetryTask(c)
  BY <1>a, <1>23, RetryTaskEffect
     DEF UploadInv, Redrivable, Running, Deleting, Begins, Refuses, TaskIs,
         ReleasedIsLinked, Released, TaskIsNamed
<1>24. CASE RequeueAsset(c)
  BY <1>a, <1>24, RequeueAssetEffect
     DEF UploadInv, Running, Deleting, CallHolds, Ends, AssetIs, ReleasedIsLinked, Released,
         TaskIsNamed
<1>25. CASE CallDies(c)
  BY <1>a, <1>25, CallDiesEffect
     DEF UploadInv, Running, Deleting, ReleasedIsLinked, Released, TaskIsNamed
<1> QED
  BY <1>1, <1>2, <1>3, <1>4, <1>5, <1>6, <1>7, <1>8, <1>9, <1>10, <1>11, <1>12, <1>13, <1>14,
     <1>15, <1>16, <1>17, <1>18, <1>19, <1>20, <1>21, <1>22, <1>23, <1>24, <1>25
     DEF Call

\* Workers leave the link.
LEMMA WorkLinks ==
    ASSUME PromptWorkers, UploadInv, NEW w \in Workers, Work(w)
    PROVE  ReleasedIsLinked'
<1>a. /\ OnlyWorker(w) /\ calls' = calls /\ WorkHolds(w)
      /\ \A v \in Workers : v # w => ~Busy(v)
      /\ Busy(w) => workers[w].task = task.id /\ task.status = "processing"
      /\ RowTypes /\ Null \notin Bytes \cup Calls
  BY WorkAlone, UploadAssumption DEF UploadInv, WorkersHold, TypeOK, RowTypes, Tasks
<1>1. CASE ClaimTask(w)
  BY <1>a, <1>1, ClaimTaskEffect
     DEF UploadInv, Busy, WorkHolds, TaskIs, ReleasedIsLinked, Released
<1>2. CASE CheckAsset(w)
  BY <1>a, <1>2, CheckAssetEffect DEF UploadInv, Busy, WorkHolds, ReleasedIsLinked, Released
<1>3. CASE MarkProcessing(w)
  BY <1>a, <1>3, MarkProcessingEffect
     DEF UploadInv, Busy, WorkHolds, Works, AssetIs, ReleasedIsLinked, Released
<1>4. CASE ReadSource(w)
  BY <1>a, <1>4, ReadSourceEffect
     DEF UploadInv, Busy, WorkHolds, Works, ReleasedIsLinked, Released
<1>5. CASE FindArtifact(w)
  BY <1>a, <1>5, FindArtifactEffect
     DEF UploadInv, Busy, WorkHolds, Works, ReleasedIsLinked, Released
<1>6. CASE StoreArtifact(w)
  BY <1>a, <1>6, StoreArtifactEffect
     DEF UploadInv, Busy, WorkHolds, Works, ReleasedIsLinked, Released
<1>7. CASE InsertArtifact(w)
  BY <1>a, <1>7, InsertArtifactEffect
     DEF UploadInv, Busy, WorkHolds, Works, ReleasedIsLinked, Released
<1>8. CASE IngestDocument(w)
  BY <1>a, <1>8, IngestDocumentEffect
     DEF UploadInv, Busy, WorkHolds, Works, ReleasedIsLinked, Released
<1>9. CASE RecordIngested(w)
  BY <1>a, <1>9, RecordIngestedEffect
     DEF UploadInv, Busy, WorkHolds, Works, ReleasedIsLinked, Released
<1>10. CASE LinkDocument(w)
  BY <1>a, <1>10, LinkDocumentEffect
     DEF UploadInv, Busy, WorkHolds, Works, ReleasedIsLinked, Released
<1>11. CASE RereadAsset(w)
  BY <1>a, <1>11, RereadAssetEffect
     DEF UploadInv, Busy, WorkHolds, Works, ReleasedIsLinked, Released
<1>12. CASE HandlerThrows(w)
  BY <1>a, <1>12, HandlerThrowsEffect
     DEF UploadInv, Handling, Busy, WorkHolds, ReleasedIsLinked, Released
<1>13. CASE MarkFailed(w)
  BY <1>a, <1>13, MarkFailedEffect
     DEF UploadInv, Busy, WorkHolds, Works, AssetIs, ReleasedIsLinked, Released
<1>14. CASE FinishTask(w)
  BY <1>a, <1>14, FinishTaskEffect
     DEF UploadInv, Busy, WorkHolds, TaskIs, ReleasedIsLinked, Released
<1>15. CASE WorkerDies(w)
  BY <1>a, <1>15, WorkerDiesEffect
     DEF UploadInv, Busy, WorkHolds, ReleasedIsLinked, Released
<1> QED
  BY <1>1, <1>2, <1>3, <1>4, <1>5, <1>6, <1>7, <1>8, <1>9, <1>10, <1>11, <1>12, <1>13, <1>14, <1>15
     DEF Work

\* Bytes are recorded before anything is made of them, and removed with it.
LEMMA CallMade ==
    ASSUME SerialCalls, UploadInv, NEW c \in Calls, Call(c)
    PROVE  MadeOfBytes'
<1>a. /\ OnlyCall(c) /\ workers' = workers /\ CallHolds(c)
      /\ \A d \in Calls : d # c => calls[d].pc \notin Running
      /\ RowTypes /\ Null \notin Bytes \cup Calls
  BY CallAlone, UploadAssumption DEF UploadInv, CallsHold, TypeOK, RowTypes, Tasks
<1>1. CASE InsertAsset(c)
  BY <1>a, <1>1, InsertAssetEffect
     DEF UploadInv, Running, Deleting, Begins, MadeOfBytes, ReleasedIsLinked, Released
<1>2. CASE EnqueueTask(c)
  BY <1>a, <1>2, EnqueueTaskEffect
     DEF UploadInv, Running, Deleting, MadeOfBytes, ReleasedIsLinked, Released
<1>3. CASE LinkTask(c)
  BY <1>a, <1>3, LinkTaskEffect
     DEF UploadInv, Running, Deleting, Ends, MadeOfBytes, ReleasedIsLinked, Released
<1>4. CASE BeginPut(c)
  BY <1>a, <1>4, BeginPutEffect
     DEF UploadInv, Running, Deleting, Begins, Refuses, MadeOfBytes, ReleasedIsLinked,
         Released
<1>5. CASE StoreBytes(c)
  BY <1>a, <1>5, StoreBytesEffect
     DEF UploadInv, Running, Deleting, CallHolds, Moves, Ends, KeepsLocals, MadeOfBytes,
         ReleasedIsLinked, Released
<1>6. CASE RecordUpload(c)
  BY <1>a, <1>6, RecordUploadEffect
     DEF UploadInv, Running, Deleting, CallHolds, Ends, MadeOfBytes, ReleasedIsLinked,
         Released
<1>7. CASE BeginComplete(c)
  BY <1>a, <1>7, BeginCompleteEffect
     DEF UploadInv, Running, Deleting, Begins, Refuses, MadeOfBytes, ReleasedIsLinked,
         Released
<1>8. CASE MergePayload(c)
  BY <1>a, <1>8, MergePayloadEffect
     DEF UploadInv, Running, Deleting, Moves, Ends, KeepsLocals, MadeOfBytes,
         ReleasedIsLinked, Released
<1>9. CASE HeadObject(c)
  BY <1>a, <1>9, HeadObjectEffect
     DEF UploadInv, Running, Deleting, Moves, Ends, KeepsLocals, MadeOfBytes,
         ReleasedIsLinked, Released
<1>10. CASE QueueAsset(c)
  BY <1>a, <1>10, QueueAssetEffect
     DEF UploadInv, Running, Deleting, Moves, KeepsLocals, AssetIs, MadeOfBytes,
         ReleasedIsLinked, Released
<1>11. CASE ReleaseTask(c)
  BY <1>a, <1>11, ReleaseTaskEffect
     DEF UploadInv, Running, Deleting, Moves, KeepsLocals, TaskIs, MadeOfBytes,
         ReleasedIsLinked, Released
<1>12. CASE AnswerComplete(c)
  BY <1>a, <1>12, AnswerCompleteEffect
     DEF UploadInv, Running, Deleting, Ends, MadeOfBytes, ReleasedIsLinked, Released
<1>13. CASE BeginCancel(c)
  BY <1>a, <1>13, BeginCancelEffect
     DEF UploadInv, Running, Deleting, Begins, Refuses, MadeOfBytes, ReleasedIsLinked,
         Released
<1>14. CASE FenceTask(c)
  BY <1>a, <1>14, FenceTaskEffect
     DEF UploadInv, Fenceable, Running, Deleting, Moves, Ends, KeepsLocals, TaskIs,
         MadeOfBytes, ReleasedIsLinked, Released
<1>15. CASE CancelAsset(c)
  BY <1>a, <1>15, CancelAssetEffect
     DEF UploadInv, Running, Deleting, Moves, KeepsLocals, AssetIs, MadeOfBytes,
         ReleasedIsLinked, Released
<1>16. CASE BeginExpire(c)
  BY <1>a, <1>16, BeginExpireEffect
     DEF UploadInv, Running, Deleting, Begins, MadeOfBytes, ReleasedIsLinked, Released
<1>17. CASE DropTask(c)
  BY <1>a, <1>17, DropTaskEffect
     DEF UploadInv, NoTask, Running, Deleting, Drops, MadeOfBytes, ReleasedIsLinked,
         Released
<1>18. CASE ListArtifacts(c)
  BY <1>a, <1>18, ListArtifactsEffect
     DEF UploadInv, Running, Deleting, Drops, MadeOfBytes, ReleasedIsLinked, Released
<1>19. CASE DropRaw(c)
  BY <1>a, <1>19, DropRawEffect
     DEF UploadInv, Running, Deleting, Drops, MadeOfBytes, ReleasedIsLinked, Released
<1>20. CASE DropStored(c)
  BY <1>a, <1>20, DropStoredEffect
     DEF UploadInv, Running, Deleting, Drops, MadeOfBytes, ReleasedIsLinked, Released
<1>21. CASE DropArtifacts(c)
  BY <1>a, <1>21, DropArtifactsEffect
     DEF UploadInv, Running, Deleting, Drops, MadeOfBytes, ReleasedIsLinked, Released
<1>22. CASE DropAsset(c)
  BY <1>a, <1>22, DropAssetEffect
     DEF UploadInv, NoAsset, Running, Deleting, CallHolds, Drops, MadeOfBytes,
         ReleasedIsLinked, Released, NoAsset
<1>23. CASE RetryTask(c)
  BY <1>a, <1>23, RetryTaskEffect
     DEF UploadInv, Redrivable, Running, Deleting, Begins, Refuses, TaskIs, MadeOfBytes,
         ReleasedIsLinked, Released
<1>24. CASE RequeueAsset(c)
  BY <1>a, <1>24, RequeueAssetEffect
     DEF UploadInv, Running, Deleting, Ends, AssetIs, MadeOfBytes, ReleasedIsLinked,
         Released
<1>25. CASE CallDies(c)
  BY <1>a, <1>25, CallDiesEffect
     DEF UploadInv, Running, Deleting, MadeOfBytes, ReleasedIsLinked, Released
<1> QED
  BY <1>1, <1>2, <1>3, <1>4, <1>5, <1>6, <1>7, <1>8, <1>9, <1>10, <1>11, <1>12, <1>13, <1>14,
     <1>15, <1>16, <1>17, <1>18, <1>19, <1>20, <1>21, <1>22, <1>23, <1>24, <1>25
     DEF Call

\* An artifact is made of the bytes of the asset.
LEMMA WorkMade ==
    ASSUME PromptWorkers, UploadInv, NEW w \in Workers, Work(w)
    PROVE  MadeOfBytes'
<1>a. /\ OnlyWorker(w) /\ calls' = calls /\ WorkHolds(w)
      /\ \A v \in Workers : v # w => ~Busy(v)
      /\ Busy(w) => workers[w].task = task.id /\ task.status = "processing"
      /\ RowTypes /\ Null \notin Bytes \cup Calls
  BY WorkAlone, UploadAssumption DEF UploadInv, WorkersHold, TypeOK, RowTypes, Tasks
<1>1. CASE ClaimTask(w)
  BY <1>a, <1>1, ClaimTaskEffect
     DEF UploadInv, Busy, WorkHolds, TaskIs, MadeOfBytes, ReleasedIsLinked, Released
<1>2. CASE CheckAsset(w)
  BY <1>a, <1>2, CheckAssetEffect
     DEF UploadInv, Busy, WorkHolds, MadeOfBytes, ReleasedIsLinked, Released
<1>3. CASE MarkProcessing(w)
  BY <1>a, <1>3, MarkProcessingEffect
     DEF UploadInv, Busy, WorkHolds, Works, AssetIs, MadeOfBytes, ReleasedIsLinked, Released
<1>4. CASE ReadSource(w)
  BY <1>a, <1>4, ReadSourceEffect
     DEF UploadInv, Busy, WorkHolds, Works, MadeOfBytes, ReleasedIsLinked, Released
<1>5. CASE FindArtifact(w)
  BY <1>a, <1>5, FindArtifactEffect
     DEF UploadInv, Busy, WorkHolds, Works, MadeOfBytes, ReleasedIsLinked, Released
<1>6. CASE StoreArtifact(w)
  BY <1>a, <1>6, StoreArtifactEffect
     DEF UploadInv, Busy, WorkHolds, Works, MadeOfBytes, ReleasedIsLinked, Released
<1>7. CASE InsertArtifact(w)
  BY <1>a, <1>7, InsertArtifactEffect
     DEF UploadInv, Busy, WorkHolds, Works, MadeOfBytes, ReleasedIsLinked, Released
<1>8. CASE IngestDocument(w)
  BY <1>a, <1>8, IngestDocumentEffect
     DEF UploadInv, Busy, WorkHolds, Works, MadeOfBytes, ReleasedIsLinked, Released
<1>9. CASE RecordIngested(w)
  BY <1>a, <1>9, RecordIngestedEffect
     DEF UploadInv, Busy, WorkHolds, Works, MadeOfBytes, ReleasedIsLinked, Released
<1>10. CASE LinkDocument(w)
  BY <1>a, <1>10, LinkDocumentEffect
     DEF UploadInv, Busy, WorkHolds, Works, MadeOfBytes, ReleasedIsLinked, Released
<1>11. CASE RereadAsset(w)
  BY <1>a, <1>11, RereadAssetEffect
     DEF UploadInv, Busy, WorkHolds, Works, MadeOfBytes, ReleasedIsLinked, Released
<1>12. CASE HandlerThrows(w)
  BY <1>a, <1>12, HandlerThrowsEffect
     DEF UploadInv, Handling, Busy, WorkHolds, MadeOfBytes, ReleasedIsLinked, Released
<1>13. CASE MarkFailed(w)
  BY <1>a, <1>13, MarkFailedEffect
     DEF UploadInv, Busy, WorkHolds, Works, AssetIs, MadeOfBytes, ReleasedIsLinked, Released
<1>14. CASE FinishTask(w)
  BY <1>a, <1>14, FinishTaskEffect
     DEF UploadInv, Busy, WorkHolds, TaskIs, MadeOfBytes, ReleasedIsLinked, Released
<1>15. CASE WorkerDies(w)
  BY <1>a, <1>15, WorkerDiesEffect
     DEF UploadInv, Busy, WorkHolds, MadeOfBytes, ReleasedIsLinked, Released
<1> QED
  BY <1>1, <1>2, <1>3, <1>4, <1>5, <1>6, <1>7, <1>8, <1>9, <1>10, <1>11, <1>12, <1>13, <1>14, <1>15
     DEF Work
\* What a call relies on, nobody else takes away.
LEMMA CallCalls ==
    ASSUME SerialCalls, UploadInv, NEW c \in Calls, Call(c)
    PROVE  CallHolds(c)'
<1>a. /\ OnlyCall(c) /\ workers' = workers /\ CallHolds(c)
      /\ \A d \in Calls : d # c => calls[d].pc \notin Running
      /\ RowTypes /\ Null \notin Bytes \cup Calls
  BY CallAlone, UploadAssumption DEF UploadInv, CallsHold, TypeOK, RowTypes, Tasks
<1>1. CASE InsertAsset(c)
  BY <1>a, <1>1, InsertAssetEffect
     DEF UploadInv, Running, Deleting, CallHolds, Begins, MadeOfBytes, ReleasedIsLinked,
         Released, TaskIsNamed, OneCall
<1>2. CASE EnqueueTask(c)
  BY <1>a, <1>2, EnqueueTaskEffect
     DEF UploadInv, Running, Deleting, CallHolds, MadeOfBytes, ReleasedIsLinked, Released,
         TaskIsNamed, OneCall
<1>3. CASE LinkTask(c)
  BY <1>a, <1>3, LinkTaskEffect
     DEF UploadInv, Running, Deleting, CallHolds, Ends, MadeOfBytes, ReleasedIsLinked,
         Released, TaskIsNamed, OneCall
<1>4. CASE BeginPut(c)
  BY <1>a, <1>4, BeginPutEffect
     DEF UploadInv, Running, Deleting, CallHolds, Begins, Refuses, MadeOfBytes,
         ReleasedIsLinked, Released, TaskIsNamed, OneCall
<1>5. CASE StoreBytes(c)
  BY <1>a, <1>5, StoreBytesEffect
     DEF UploadInv, Running, Deleting, CallHolds, Moves, Ends, KeepsLocals, MadeOfBytes,
         ReleasedIsLinked, Released, TaskIsNamed, OneCall
<1>6. CASE RecordUpload(c)
  BY <1>a, <1>6, RecordUploadEffect
     DEF UploadInv, Running, Deleting, CallHolds, Ends, MadeOfBytes, ReleasedIsLinked,
         Released, TaskIsNamed, OneCall
<1>7. CASE BeginComplete(c)
  BY <1>a, <1>7, BeginCompleteEffect
     DEF UploadInv, Running, Deleting, CallHolds, Begins, Refuses, MadeOfBytes,
         ReleasedIsLinked, Released, TaskIsNamed, OneCall
<1>8. CASE MergePayload(c)
  BY <1>a, <1>8, MergePayloadEffect
     DEF UploadInv, Running, Deleting, CallHolds, Moves, Ends, KeepsLocals, MadeOfBytes,
         ReleasedIsLinked, Released, TaskIsNamed, OneCall
<1>9. CASE HeadObject(c)
  BY <1>a, <1>9, HeadObjectEffect
     DEF UploadInv, Running, Deleting, CallHolds, Moves, Ends, KeepsLocals, MadeOfBytes,
         ReleasedIsLinked, Released, TaskIsNamed, OneCall
<1>10. CASE QueueAsset(c)
  BY <1>a, <1>10, QueueAssetEffect
     DEF UploadInv, Running, Deleting, CallHolds, Moves, KeepsLocals, AssetIs, MadeOfBytes,
         ReleasedIsLinked, Released, TaskIsNamed, OneCall
<1>11. CASE ReleaseTask(c)
  BY <1>a, <1>11, ReleaseTaskEffect
     DEF UploadInv, Running, Deleting, CallHolds, Moves, KeepsLocals, TaskIs, MadeOfBytes,
         ReleasedIsLinked, Released, TaskIsNamed, OneCall
<1>12. CASE AnswerComplete(c)
  BY <1>a, <1>12, AnswerCompleteEffect
     DEF UploadInv, Running, Deleting, CallHolds, Ends, MadeOfBytes, ReleasedIsLinked,
         Released, TaskIsNamed, OneCall
<1>13. CASE BeginCancel(c)
  BY <1>a, <1>13, BeginCancelEffect
     DEF UploadInv, Running, Deleting, CallHolds, Begins, Refuses, MadeOfBytes,
         ReleasedIsLinked, Released, TaskIsNamed, OneCall
<1>14. CASE FenceTask(c)
  BY <1>a, <1>14, FenceTaskEffect
     DEF UploadInv, Fenceable, Running, Deleting, CallHolds, Moves, Ends, KeepsLocals,
         TaskIs, MadeOfBytes, ReleasedIsLinked, Released, TaskIsNamed, OneCall
<1>15. CASE CancelAsset(c)
  BY <1>a, <1>15, CancelAssetEffect
     DEF UploadInv, Running, Deleting, CallHolds, Moves, KeepsLocals, AssetIs, MadeOfBytes,
         ReleasedIsLinked, Released, TaskIsNamed, OneCall
<1>16. CASE BeginExpire(c)
  BY <1>a, <1>16, BeginExpireEffect
     DEF UploadInv, Running, Deleting, CallHolds, Begins, MadeOfBytes, ReleasedIsLinked,
         Released, TaskIsNamed, OneCall
<1>17. CASE DropTask(c)
  BY <1>a, <1>17, DropTaskEffect
     DEF UploadInv, NoTask, Running, Deleting, CallHolds, Drops, MadeOfBytes,
         ReleasedIsLinked, Released, TaskIsNamed, NoTask, OneCall
<1>18. CASE ListArtifacts(c)
  BY <1>a, <1>18, ListArtifactsEffect
     DEF UploadInv, Running, Deleting, CallHolds, Drops, MadeOfBytes, ReleasedIsLinked,
         Released, TaskIsNamed, OneCall
<1>19. CASE DropRaw(c)
  BY <1>a, <1>19, DropRawEffect
     DEF UploadInv, Running, Deleting, CallHolds, Drops, MadeOfBytes, ReleasedIsLinked,
         Released, TaskIsNamed, OneCall
<1>20. CASE DropStored(c)
  BY <1>a, <1>20, DropStoredEffect
     DEF UploadInv, Running, Deleting, CallHolds, Drops, MadeOfBytes, ReleasedIsLinked,
         Released, TaskIsNamed, OneCall
<1>21. CASE DropArtifacts(c)
  BY <1>a, <1>21, DropArtifactsEffect
     DEF UploadInv, Running, Deleting, CallHolds, Drops, MadeOfBytes, ReleasedIsLinked,
         Released, TaskIsNamed, OneCall
<1>22. CASE DropAsset(c)
  BY <1>a, <1>22, DropAssetEffect
     DEF UploadInv, NoAsset, Running, Deleting, CallHolds, Drops, MadeOfBytes,
         ReleasedIsLinked, Released, TaskIsNamed, NoAsset, OneCall
<1>23. CASE RetryTask(c)
  BY <1>a, <1>23, RetryTaskEffect
     DEF UploadInv, Redrivable, Running, Deleting, CallHolds, Begins, Refuses, TaskIs,
         MadeOfBytes, ReleasedIsLinked, Released, TaskIsNamed, OneCall
<1>24. CASE RequeueAsset(c)
  BY <1>a, <1>24, RequeueAssetEffect
     DEF UploadInv, Running, Deleting, CallHolds, Ends, AssetIs, MadeOfBytes,
         ReleasedIsLinked, Released, TaskIsNamed, OneCall
<1>25. CASE CallDies(c)
  BY <1>a, <1>25, CallDiesEffect
     DEF UploadInv, Running, Deleting, CallHolds, MadeOfBytes, ReleasedIsLinked, Released,
         TaskIsNamed, OneCall
<1> QED
  BY <1>1, <1>2, <1>3, <1>4, <1>5, <1>6, <1>7, <1>8, <1>9, <1>10, <1>11, <1>12, <1>13, <1>14,
     <1>15, <1>16, <1>17, <1>18, <1>19, <1>20, <1>21, <1>22, <1>23, <1>24, <1>25
     DEF Call

\* Every step of a call keeps what calls hold.
LEMMA CallCallsHold ==
    ASSUME SerialCalls, UploadInv, NEW c \in Calls, Call(c)
    PROVE  CallsHold'
<1>1. \A d \in Calls : d # c => calls'[d] = calls[d] /\ calls[d].pc \notin Running /\ CallHolds(d)
  BY CallAlone DEF UploadInv, CallsHold, OnlyCall
<1>2. \A d \in Calls : d # c => CallHolds(d)'
  BY <1>1 DEF CallHolds, Running, Deleting
<1> QED
  BY <1>2, CallCalls DEF CallsHold

\* Workers leave what calls rely on.
LEMMA WorkCalls ==
    ASSUME PromptWorkers, UploadInv, NEW w \in Workers, Work(w)
    PROVE  \A c \in Calls : CallHolds(c)'
<1>a. /\ OnlyWorker(w) /\ calls' = calls /\ WorkHolds(w)
      /\ \A v \in Workers : v # w => ~Busy(v)
      /\ Busy(w) => workers[w].task = task.id /\ task.status = "processing"
      /\ RowTypes /\ Null \notin Bytes \cup Calls
  BY WorkAlone, UploadAssumption DEF UploadInv, WorkersHold, TypeOK, RowTypes, Tasks
<1>1. CASE ClaimTask(w)
  BY <1>a, <1>1, ClaimTaskEffect
     DEF UploadInv, Busy, WorkHolds, TaskIs, CallHolds, CallsHold, Deleting,
         ReleasedIsLinked, Released, TaskIsNamed
<1>2. CASE CheckAsset(w)
  BY <1>a, <1>2, CheckAssetEffect
     DEF UploadInv, Busy, WorkHolds, CallHolds, CallsHold, Deleting, ReleasedIsLinked,
         Released, TaskIsNamed
<1>3. CASE MarkProcessing(w)
  BY <1>a, <1>3, MarkProcessingEffect
     DEF UploadInv, Busy, WorkHolds, Works, AssetIs, CallHolds, CallsHold, Deleting,
         ReleasedIsLinked, Released, TaskIsNamed
<1>4. CASE ReadSource(w)
  BY <1>a, <1>4, ReadSourceEffect
     DEF UploadInv, Busy, WorkHolds, Works, CallHolds, CallsHold, Deleting,
         ReleasedIsLinked, Released, TaskIsNamed
<1>5. CASE FindArtifact(w)
  BY <1>a, <1>5, FindArtifactEffect
     DEF UploadInv, Busy, WorkHolds, Works, CallHolds, CallsHold, Deleting,
         ReleasedIsLinked, Released, TaskIsNamed
<1>6. CASE StoreArtifact(w)
  BY <1>a, <1>6, StoreArtifactEffect
     DEF UploadInv, Busy, WorkHolds, Works, CallHolds, CallsHold, Deleting,
         ReleasedIsLinked, Released, TaskIsNamed
<1>7. CASE InsertArtifact(w)
  BY <1>a, <1>7, InsertArtifactEffect
     DEF UploadInv, Busy, WorkHolds, Works, CallHolds, CallsHold, Deleting,
         ReleasedIsLinked, Released, TaskIsNamed
<1>8. CASE IngestDocument(w)
  BY <1>a, <1>8, IngestDocumentEffect
     DEF UploadInv, Busy, WorkHolds, Works, CallHolds, CallsHold, Deleting,
         ReleasedIsLinked, Released, TaskIsNamed
<1>9. CASE RecordIngested(w)
  BY <1>a, <1>9, RecordIngestedEffect
     DEF UploadInv, Busy, WorkHolds, Works, CallHolds, CallsHold, Deleting,
         ReleasedIsLinked, Released, TaskIsNamed
<1>10. CASE LinkDocument(w)
  BY <1>a, <1>10, LinkDocumentEffect
     DEF UploadInv, Busy, WorkHolds, Works, CallHolds, CallsHold, Deleting,
         ReleasedIsLinked, Released, TaskIsNamed
<1>11. CASE RereadAsset(w)
  BY <1>a, <1>11, RereadAssetEffect
     DEF UploadInv, Busy, WorkHolds, Works, CallHolds, CallsHold, Deleting,
         ReleasedIsLinked, Released, TaskIsNamed
<1>12. CASE HandlerThrows(w)
  BY <1>a, <1>12, HandlerThrowsEffect
     DEF UploadInv, Handling, Busy, WorkHolds, CallHolds, CallsHold, Deleting,
         ReleasedIsLinked, Released, TaskIsNamed
<1>13. CASE MarkFailed(w)
  BY <1>a, <1>13, MarkFailedEffect
     DEF UploadInv, Busy, WorkHolds, Works, AssetIs, CallHolds, CallsHold, Deleting,
         ReleasedIsLinked, Released, TaskIsNamed
<1>14. CASE FinishTask(w)
  BY <1>a, <1>14, FinishTaskEffect
     DEF UploadInv, Busy, WorkHolds, TaskIs, CallHolds, CallsHold, Deleting,
         ReleasedIsLinked, Released, TaskIsNamed
<1>15. CASE WorkerDies(w)
  BY <1>a, <1>15, WorkerDiesEffect
     DEF UploadInv, Busy, WorkHolds, CallHolds, CallsHold, Deleting, ReleasedIsLinked,
         Released, TaskIsNamed
<1> QED
  BY <1>1, <1>2, <1>3, <1>4, <1>5, <1>6, <1>7, <1>8, <1>9, <1>10, <1>11, <1>12, <1>13, <1>14, <1>15
     DEF Work

\* No call takes away what a worker relies on.
LEMMA CallWorkers ==
    ASSUME SerialCalls, UploadInv, NEW c \in Calls, Call(c)
    PROVE  WorkersHold'
<1>a. /\ OnlyCall(c) /\ workers' = workers /\ CallHolds(c)
      /\ \A d \in Calls : d # c => calls[d].pc \notin Running
      /\ RowTypes /\ Null \notin Bytes \cup Calls
  BY CallAlone, UploadAssumption DEF UploadInv, CallsHold, TypeOK, RowTypes, Tasks
<1>1. CASE InsertAsset(c)
  BY <1>a, <1>1, InsertAssetEffect
     DEF UploadInv, Running, Deleting, Begins, WorkersHold, WorkHolds, SoloWorker, Busy,
         ReleasedIsLinked, Released
<1>2. CASE EnqueueTask(c)
  BY <1>a, <1>2, EnqueueTaskEffect
     DEF UploadInv, Running, Deleting, WorkersHold, WorkHolds, SoloWorker, Busy,
         ReleasedIsLinked, Released
<1>3. CASE LinkTask(c)
  BY <1>a, <1>3, LinkTaskEffect
     DEF UploadInv, Running, Deleting, Ends, WorkersHold, WorkHolds, SoloWorker, Busy,
         ReleasedIsLinked, Released
<1>4. CASE BeginPut(c)
  BY <1>a, <1>4, BeginPutEffect
     DEF UploadInv, Running, Deleting, Begins, Refuses, WorkersHold, WorkHolds, SoloWorker,
         Busy, ReleasedIsLinked, Released
<1>5. CASE StoreBytes(c)
  BY <1>a, <1>5, StoreBytesEffect
     DEF UploadInv, Running, Deleting, Moves, Ends, KeepsLocals, WorkersHold, WorkHolds,
         SoloWorker, Busy, ReleasedIsLinked, Released
<1>6. CASE RecordUpload(c)
  BY <1>a, <1>6, RecordUploadEffect
     DEF UploadInv, Running, Deleting, CallHolds, Ends, WorkersHold, WorkHolds, SoloWorker,
         Busy, ReleasedIsLinked, Released
<1>7. CASE BeginComplete(c)
  BY <1>a, <1>7, BeginCompleteEffect
     DEF UploadInv, Running, Deleting, Begins, Refuses, WorkersHold, WorkHolds, SoloWorker,
         Busy, ReleasedIsLinked, Released
<1>8. CASE MergePayload(c)
  BY <1>a, <1>8, MergePayloadEffect
     DEF UploadInv, Running, Deleting, Moves, Ends, KeepsLocals, WorkersHold, WorkHolds,
         SoloWorker, Busy, ReleasedIsLinked, Released
<1>9. CASE HeadObject(c)
  BY <1>a, <1>9, HeadObjectEffect
     DEF UploadInv, Running, Deleting, Moves, Ends, KeepsLocals, WorkersHold, WorkHolds,
         SoloWorker, Busy, ReleasedIsLinked, Released
<1>10. CASE QueueAsset(c)
  BY <1>a, <1>10, QueueAssetEffect
     DEF UploadInv, Running, Deleting, Moves, KeepsLocals, AssetIs, WorkersHold, WorkHolds,
         SoloWorker, Busy, ReleasedIsLinked, Released
<1>11. CASE ReleaseTask(c)
  BY <1>a, <1>11, ReleaseTaskEffect
     DEF UploadInv, Running, Deleting, Moves, KeepsLocals, TaskIs, WorkersHold, WorkHolds,
         SoloWorker, Busy, ReleasedIsLinked, Released
<1>12. CASE AnswerComplete(c)
  BY <1>a, <1>12, AnswerCompleteEffect
     DEF UploadInv, Running, Deleting, Ends, WorkersHold, WorkHolds, SoloWorker, Busy,
         ReleasedIsLinked, Released
<1>13. CASE BeginCancel(c)
  BY <1>a, <1>13, BeginCancelEffect
     DEF UploadInv, Running, Deleting, Begins, Refuses, WorkersHold, WorkHolds, SoloWorker,
         Busy, ReleasedIsLinked, Released
<1>14. CASE FenceTask(c)
  BY <1>a, <1>14, FenceTaskEffect
     DEF UploadInv, Fenceable, Running, Deleting, Moves, Ends, KeepsLocals, TaskIs,
         WorkersHold, WorkHolds, SoloWorker, Busy, ReleasedIsLinked, Released
<1>15. CASE CancelAsset(c)
  BY <1>a, <1>15, CancelAssetEffect
     DEF UploadInv, Running, Deleting, Moves, KeepsLocals, AssetIs, WorkersHold, WorkHolds,
         SoloWorker, Busy, ReleasedIsLinked, Released
<1>16. CASE BeginExpire(c)
  BY <1>a, <1>16, BeginExpireEffect
     DEF UploadInv, Running, Deleting, Begins, WorkersHold, WorkHolds, SoloWorker, Busy,
         ReleasedIsLinked, Released
<1>17. CASE DropTask(c)
  BY <1>a, <1>17, DropTaskEffect
     DEF UploadInv, NoTask, Running, Deleting, Drops, WorkersHold, WorkHolds, SoloWorker,
         Busy, ReleasedIsLinked, Released
<1>18. CASE ListArtifacts(c)
  BY <1>a, <1>18, ListArtifactsEffect
     DEF UploadInv, Running, Deleting, Drops, WorkersHold, WorkHolds, SoloWorker, Busy,
         ReleasedIsLinked, Released
<1>19. CASE DropRaw(c)
  BY <1>a, <1>19, DropRawEffect
     DEF UploadInv, Running, Deleting, CallHolds, Drops, WorkersHold, WorkHolds, SoloWorker,
         Busy, ReleasedIsLinked, Released
<1>20. CASE DropStored(c)
  BY <1>a, <1>20, DropStoredEffect
     DEF UploadInv, Running, Deleting, CallHolds, Drops, WorkersHold, WorkHolds, SoloWorker,
         Busy, ReleasedIsLinked, Released
<1>21. CASE DropArtifacts(c)
  BY <1>a, <1>21, DropArtifactsEffect
     DEF UploadInv, Running, Deleting, CallHolds, Drops, WorkersHold, WorkHolds, SoloWorker,
         Busy, ReleasedIsLinked, Released
<1>22. CASE DropAsset(c)
  BY <1>a, <1>22, DropAssetEffect
     DEF UploadInv, NoAsset, Running, Deleting, CallHolds, Drops, WorkersHold, WorkHolds,
         SoloWorker, Busy, ReleasedIsLinked, Released, NoAsset
<1>23. CASE RetryTask(c)
  BY <1>a, <1>23, RetryTaskEffect
     DEF UploadInv, Redrivable, Running, Deleting, Begins, Refuses, TaskIs, WorkersHold,
         WorkHolds, SoloWorker, Busy, ReleasedIsLinked, Released
<1>24. CASE RequeueAsset(c)
  BY <1>a, <1>24, RequeueAssetEffect
     DEF UploadInv, Running, Deleting, Ends, AssetIs, WorkersHold, WorkHolds, SoloWorker,
         Busy, ReleasedIsLinked, Released
<1>25. CASE CallDies(c)
  BY <1>a, <1>25, CallDiesEffect
     DEF UploadInv, Running, Deleting, WorkersHold, WorkHolds, SoloWorker, Busy,
         ReleasedIsLinked, Released
<1> QED
  BY <1>1, <1>2, <1>3, <1>4, <1>5, <1>6, <1>7, <1>8, <1>9, <1>10, <1>11, <1>12, <1>13, <1>14,
     <1>15, <1>16, <1>17, <1>18, <1>19, <1>20, <1>21, <1>22, <1>23, <1>24, <1>25
     DEF Call

\* What a worker has done stays done.
LEMMA WorkWorks ==
    ASSUME PromptWorkers, UploadInv, NEW w \in Workers, Work(w)
    PROVE  WorkHolds(w)'
<1>a. /\ OnlyWorker(w) /\ calls' = calls /\ WorkHolds(w)
      /\ \A v \in Workers : v # w => ~Busy(v)
      /\ Busy(w) => workers[w].task = task.id /\ task.status = "processing"
      /\ RowTypes /\ Null \notin Bytes \cup Calls
  BY WorkAlone, UploadAssumption DEF UploadInv, WorkersHold, TypeOK, RowTypes, Tasks
<1>1. CASE ClaimTask(w)
  BY <1>a, <1>1, ClaimTaskEffect
     DEF UploadInv, Busy, WorkHolds, TaskIs, MadeOfBytes, ReleasedIsLinked, Released
<1>2. CASE CheckAsset(w)
  BY <1>a, <1>2, CheckAssetEffect
     DEF UploadInv, Busy, WorkHolds, MadeOfBytes, ReleasedIsLinked, Released
<1>3. CASE MarkProcessing(w)
  BY <1>a, <1>3, MarkProcessingEffect
     DEF UploadInv, Busy, WorkHolds, Works, AssetIs, MadeOfBytes, ReleasedIsLinked, Released
<1>4. CASE ReadSource(w)
  BY <1>a, <1>4, ReadSourceEffect
     DEF UploadInv, Busy, WorkHolds, Works, MadeOfBytes, ReleasedIsLinked, Released
<1>5. CASE FindArtifact(w)
  BY <1>a, <1>5, FindArtifactEffect
     DEF UploadInv, Busy, WorkHolds, RowTypes, Works, MadeOfBytes, ReleasedIsLinked,
         Released
<1>6. CASE StoreArtifact(w)
  BY <1>a, <1>6, StoreArtifactEffect
     DEF UploadInv, Busy, WorkHolds, Works, MadeOfBytes, ReleasedIsLinked, Released
<1>7. CASE InsertArtifact(w)
  BY <1>a, <1>7, InsertArtifactEffect
     DEF UploadInv, Busy, WorkHolds, Works, MadeOfBytes, ReleasedIsLinked, Released
<1>8. CASE IngestDocument(w)
  BY <1>a, <1>8, IngestDocumentEffect
     DEF UploadInv, Busy, WorkHolds, Works, MadeOfBytes, ReleasedIsLinked, Released
<1>9. CASE RecordIngested(w)
  BY <1>a, <1>9, RecordIngestedEffect
     DEF UploadInv, Busy, WorkHolds, Works, MadeOfBytes, ReleasedIsLinked, Released
<1>10. CASE LinkDocument(w)
  BY <1>a, <1>10, LinkDocumentEffect
     DEF UploadInv, Busy, WorkHolds, Works, MadeOfBytes, ReleasedIsLinked, Released
<1>11. CASE RereadAsset(w)
  BY <1>a, <1>11, RereadAssetEffect
     DEF UploadInv, Busy, WorkHolds, Works, MadeOfBytes, ReleasedIsLinked, Released
<1>12. CASE HandlerThrows(w)
  BY <1>a, <1>12, HandlerThrowsEffect
     DEF UploadInv, Handling, Busy, WorkHolds, MadeOfBytes, ReleasedIsLinked, Released
<1>13. CASE MarkFailed(w)
  BY <1>a, <1>13, MarkFailedEffect
     DEF UploadInv, Busy, WorkHolds, Works, AssetIs, MadeOfBytes, ReleasedIsLinked, Released
<1>14. CASE FinishTask(w)
  BY <1>a, <1>14, FinishTaskEffect
     DEF UploadInv, Busy, WorkHolds, TaskIs, MadeOfBytes, ReleasedIsLinked, Released
<1>15. CASE WorkerDies(w)
  BY <1>a, <1>15, WorkerDiesEffect
     DEF UploadInv, Busy, WorkHolds, MadeOfBytes, ReleasedIsLinked, Released
<1> QED
  BY <1>1, <1>2, <1>3, <1>4, <1>5, <1>6, <1>7, <1>8, <1>9, <1>10, <1>11, <1>12, <1>13, <1>14, <1>15
     DEF Work

\* Every step of a worker keeps what workers hold.
LEMMA WorkWorkersHold ==
    ASSUME PromptWorkers, UploadInv, NEW w \in Workers, Work(w)
    PROVE  WorkersHold'
<1>1. \A v \in Workers : v # w => workers'[v] = workers[v] /\ ~Busy(v)
  BY WorkAlone DEF UploadInv, OnlyWorker
<1>2. \A v \in Workers : v # w => WorkHolds(v)'
  BY <1>1 DEF WorkHolds, Busy
<1> QED
  BY <1>2, WorkWorks DEF WorkersHold

\* No call touches what a ready asset shows.
LEMMA CallReady ==
    ASSUME SerialCalls, UploadInv, NEW c \in Calls, Call(c)
    PROVE  ReadyMatchesSource'
<1>a. /\ OnlyCall(c) /\ workers' = workers /\ CallHolds(c)
      /\ \A d \in Calls : d # c => calls[d].pc \notin Running
      /\ RowTypes /\ Null \notin Bytes \cup Calls
  BY CallAlone, UploadAssumption DEF UploadInv, CallsHold, TypeOK, RowTypes, Tasks
<1>1. CASE InsertAsset(c)
  BY <1>a, <1>1, InsertAssetEffect
     DEF UploadInv, Running, Deleting, Begins, ReadyMatchesSource, ReleasedIsLinked,
         Released
<1>2. CASE EnqueueTask(c)
  BY <1>a, <1>2, EnqueueTaskEffect
     DEF UploadInv, Running, Deleting, ReadyMatchesSource, ReleasedIsLinked, Released
<1>3. CASE LinkTask(c)
  BY <1>a, <1>3, LinkTaskEffect
     DEF UploadInv, Running, Deleting, Ends, ReadyMatchesSource, ReleasedIsLinked, Released
<1>4. CASE BeginPut(c)
  BY <1>a, <1>4, BeginPutEffect
     DEF UploadInv, Running, Deleting, Begins, Refuses, ReadyMatchesSource,
         ReleasedIsLinked, Released
<1>5. CASE StoreBytes(c)
  BY <1>a, <1>5, StoreBytesEffect
     DEF UploadInv, Running, Deleting, RowTypes, Moves, Ends, KeepsLocals,
         ReadyMatchesSource, ReleasedIsLinked, Released
<1>6. CASE RecordUpload(c)
  BY <1>a, <1>6, RecordUploadEffect
     DEF UploadInv, Running, Deleting, Ends, ReadyMatchesSource, ReleasedIsLinked, Released
<1>7. CASE BeginComplete(c)
  BY <1>a, <1>7, BeginCompleteEffect
     DEF UploadInv, Running, Deleting, Begins, Refuses, ReadyMatchesSource,
         ReleasedIsLinked, Released
<1>8. CASE MergePayload(c)
  BY <1>a, <1>8, MergePayloadEffect
     DEF UploadInv, Running, Deleting, Moves, Ends, KeepsLocals, ReadyMatchesSource,
         ReleasedIsLinked, Released
<1>9. CASE HeadObject(c)
  BY <1>a, <1>9, HeadObjectEffect
     DEF UploadInv, Running, Deleting, Moves, Ends, KeepsLocals, ReadyMatchesSource,
         ReleasedIsLinked, Released
<1>10. CASE QueueAsset(c)
  BY <1>a, <1>10, QueueAssetEffect
     DEF UploadInv, Running, Deleting, Moves, KeepsLocals, AssetIs, ReadyMatchesSource,
         ReleasedIsLinked, Released
<1>11. CASE ReleaseTask(c)
  BY <1>a, <1>11, ReleaseTaskEffect
     DEF UploadInv, Running, Deleting, Moves, KeepsLocals, TaskIs, ReadyMatchesSource,
         ReleasedIsLinked, Released
<1>12. CASE AnswerComplete(c)
  BY <1>a, <1>12, AnswerCompleteEffect
     DEF UploadInv, Running, Deleting, Ends, ReadyMatchesSource, ReleasedIsLinked, Released
<1>13. CASE BeginCancel(c)
  BY <1>a, <1>13, BeginCancelEffect
     DEF UploadInv, Running, Deleting, Begins, Refuses, ReadyMatchesSource,
         ReleasedIsLinked, Released
<1>14. CASE FenceTask(c)
  BY <1>a, <1>14, FenceTaskEffect
     DEF UploadInv, Fenceable, Running, Deleting, Moves, Ends, KeepsLocals, TaskIs,
         ReadyMatchesSource, ReleasedIsLinked, Released
<1>15. CASE CancelAsset(c)
  BY <1>a, <1>15, CancelAssetEffect
     DEF UploadInv, Running, Deleting, Moves, KeepsLocals, AssetIs, ReadyMatchesSource,
         ReleasedIsLinked, Released
<1>16. CASE BeginExpire(c)
  BY <1>a, <1>16, BeginExpireEffect
     DEF UploadInv, Running, Deleting, Begins, ReadyMatchesSource, ReleasedIsLinked,
         Released
<1>17. CASE DropTask(c)
  BY <1>a, <1>17, DropTaskEffect
     DEF UploadInv, NoTask, Running, Deleting, Drops, ReadyMatchesSource, ReleasedIsLinked,
         Released
<1>18. CASE ListArtifacts(c)
  BY <1>a, <1>18, ListArtifactsEffect
     DEF UploadInv, Running, Deleting, Drops, ReadyMatchesSource, ReleasedIsLinked, Released
<1>19. CASE DropRaw(c)
  BY <1>a, <1>19, DropRawEffect
     DEF UploadInv, Running, Deleting, CallHolds, Drops, ReadyMatchesSource,
         ReleasedIsLinked, Released
<1>20. CASE DropStored(c)
  BY <1>a, <1>20, DropStoredEffect
     DEF UploadInv, Running, Deleting, CallHolds, Drops, ReadyMatchesSource,
         ReleasedIsLinked, Released
<1>21. CASE DropArtifacts(c)
  BY <1>a, <1>21, DropArtifactsEffect
     DEF UploadInv, Running, Deleting, CallHolds, Drops, ReadyMatchesSource,
         ReleasedIsLinked, Released
<1>22. CASE DropAsset(c)
  BY <1>a, <1>22, DropAssetEffect
     DEF UploadInv, NoAsset, Running, Deleting, Drops, ReadyMatchesSource, ReleasedIsLinked,
         Released, NoAsset
<1>23. CASE RetryTask(c)
  BY <1>a, <1>23, RetryTaskEffect
     DEF UploadInv, Redrivable, Running, Deleting, Begins, Refuses, TaskIs,
         ReadyMatchesSource, ReleasedIsLinked, Released
<1>24. CASE RequeueAsset(c)
  BY <1>a, <1>24, RequeueAssetEffect
     DEF UploadInv, Running, Deleting, Ends, AssetIs, ReadyMatchesSource, ReleasedIsLinked,
         Released
<1>25. CASE CallDies(c)
  BY <1>a, <1>25, CallDiesEffect
     DEF UploadInv, Running, Deleting, ReadyMatchesSource, ReleasedIsLinked, Released
<1> QED
  BY <1>1, <1>2, <1>3, <1>4, <1>5, <1>6, <1>7, <1>8, <1>9, <1>10, <1>11, <1>12, <1>13, <1>14,
     <1>15, <1>16, <1>17, <1>18, <1>19, <1>20, <1>21, <1>22, <1>23, <1>24, <1>25
     DEF Call

\* A worker links what it made of the bytes of the asset.
LEMMA WorkReady ==
    ASSUME PromptWorkers, UploadInv, NEW w \in Workers, Work(w)
    PROVE  ReadyMatchesSource'
<1>a. /\ OnlyWorker(w) /\ calls' = calls /\ WorkHolds(w)
      /\ \A v \in Workers : v # w => ~Busy(v)
      /\ Busy(w) => workers[w].task = task.id /\ task.status = "processing"
      /\ RowTypes /\ Null \notin Bytes \cup Calls
  BY WorkAlone, UploadAssumption DEF UploadInv, WorkersHold, TypeOK, RowTypes, Tasks
<1>1. CASE ClaimTask(w)
  BY <1>a, <1>1, ClaimTaskEffect
     DEF UploadInv, Busy, WorkHolds, TaskIs, ReadyMatchesSource, ReleasedIsLinked, Released
<1>2. CASE CheckAsset(w)
  BY <1>a, <1>2, CheckAssetEffect
     DEF UploadInv, Busy, WorkHolds, ReadyMatchesSource, ReleasedIsLinked, Released
<1>3. CASE MarkProcessing(w)
  BY <1>a, <1>3, MarkProcessingEffect
     DEF UploadInv, Busy, WorkHolds, Works, AssetIs, ReadyMatchesSource, ReleasedIsLinked,
         Released
<1>4. CASE ReadSource(w)
  BY <1>a, <1>4, ReadSourceEffect
     DEF UploadInv, Busy, WorkHolds, Works, ReadyMatchesSource, ReleasedIsLinked, Released
<1>5. CASE FindArtifact(w)
  BY <1>a, <1>5, FindArtifactEffect
     DEF UploadInv, Busy, WorkHolds, Works, ReadyMatchesSource, ReleasedIsLinked, Released
<1>6. CASE StoreArtifact(w)
  BY <1>a, <1>6, StoreArtifactEffect
     DEF UploadInv, Busy, WorkHolds, Works, ReadyMatchesSource, ReleasedIsLinked, Released
<1>7. CASE InsertArtifact(w)
  BY <1>a, <1>7, InsertArtifactEffect
     DEF UploadInv, Busy, WorkHolds, Works, ReadyMatchesSource, ReleasedIsLinked, Released
<1>8. CASE IngestDocument(w)
  BY <1>a, <1>8, IngestDocumentEffect
     DEF UploadInv, Busy, WorkHolds, Works, ReadyMatchesSource, ReleasedIsLinked, Released
<1>9. CASE RecordIngested(w)
  BY <1>a, <1>9, RecordIngestedEffect
     DEF UploadInv, Busy, WorkHolds, Works, ReadyMatchesSource, ReleasedIsLinked, Released
<1>10. CASE LinkDocument(w)
  BY <1>a, <1>10, LinkDocumentEffect
     DEF UploadInv, Busy, WorkHolds, Works, ReadyMatchesSource, ReleasedIsLinked, Released
<1>11. CASE RereadAsset(w)
  BY <1>a, <1>11, RereadAssetEffect
     DEF UploadInv, Busy, WorkHolds, Works, ReadyMatchesSource, ReleasedIsLinked, Released
<1>12. CASE HandlerThrows(w)
  BY <1>a, <1>12, HandlerThrowsEffect
     DEF UploadInv, Handling, Busy, WorkHolds, ReadyMatchesSource, ReleasedIsLinked,
         Released
<1>13. CASE MarkFailed(w)
  BY <1>a, <1>13, MarkFailedEffect
     DEF UploadInv, Busy, WorkHolds, Works, AssetIs, ReadyMatchesSource, ReleasedIsLinked,
         Released
<1>14. CASE FinishTask(w)
  BY <1>a, <1>14, FinishTaskEffect
     DEF UploadInv, Busy, WorkHolds, TaskIs, ReadyMatchesSource, ReleasedIsLinked, Released
<1>15. CASE WorkerDies(w)
  BY <1>a, <1>15, WorkerDiesEffect
     DEF UploadInv, Busy, WorkHolds, ReadyMatchesSource, ReleasedIsLinked, Released
<1> QED
  BY <1>1, <1>2, <1>3, <1>4, <1>5, <1>6, <1>7, <1>8, <1>9, <1>10, <1>11, <1>12, <1>13, <1>14, <1>15
     DEF Work

\* A call that began has its kind for good.
LEMMA CallKinds ==
    ASSUME SerialCalls, UploadInv, NEW c \in Calls, Call(c)
    PROVE  calls[c].pc = "idle" \/ calls'[c].kind = calls[c].kind
<1>1. CASE InsertAsset(c)
  BY <1>1, InsertAssetEffect DEF UploadInv, Begins
<1>2. CASE EnqueueTask(c)
  BY <1>2, EnqueueTaskEffect DEF UploadInv
<1>3. CASE LinkTask(c)
  BY <1>3, LinkTaskEffect DEF UploadInv, Ends
<1>4. CASE BeginPut(c)
  BY <1>4, BeginPutEffect DEF UploadInv, Begins, Refuses
<1>5. CASE StoreBytes(c)
  BY <1>5, StoreBytesEffect DEF UploadInv, Moves, Ends, KeepsLocals
<1>6. CASE RecordUpload(c)
  BY <1>6, RecordUploadEffect DEF UploadInv, Ends
<1>7. CASE BeginComplete(c)
  BY <1>7, BeginCompleteEffect DEF UploadInv, Begins, Refuses
<1>8. CASE MergePayload(c)
  BY <1>8, MergePayloadEffect DEF UploadInv, Moves, Ends, KeepsLocals
<1>9. CASE HeadObject(c)
  BY <1>9, HeadObjectEffect DEF UploadInv, Moves, Ends, KeepsLocals
<1>10. CASE QueueAsset(c)
  BY <1>10, QueueAssetEffect DEF UploadInv, Moves, KeepsLocals
<1>11. CASE ReleaseTask(c)
  BY <1>11, ReleaseTaskEffect DEF UploadInv, Moves, KeepsLocals
<1>12. CASE AnswerComplete(c)
  BY <1>12, AnswerCompleteEffect DEF UploadInv, Ends
<1>13. CASE BeginCancel(c)
  BY <1>13, BeginCancelEffect DEF UploadInv, Begins, Refuses
<1>14. CASE FenceTask(c)
  BY <1>14, FenceTaskEffect DEF UploadInv, Moves, Ends, KeepsLocals
<1>15. CASE CancelAsset(c)
  BY <1>15, CancelAssetEffect DEF UploadInv, Moves, KeepsLocals
<1>16. CASE BeginExpire(c)
  BY <1>16, BeginExpireEffect DEF UploadInv, Begins
<1>17. CASE DropTask(c)
  BY <1>17, DropTaskEffect DEF UploadInv, Drops
<1>18. CASE ListArtifacts(c)
  BY <1>18, ListArtifactsEffect DEF UploadInv, Drops
<1>19. CASE DropRaw(c)
  BY <1>19, DropRawEffect DEF UploadInv, Drops
<1>20. CASE DropStored(c)
  BY <1>20, DropStoredEffect DEF UploadInv, Drops
<1>21. CASE DropArtifacts(c)
  BY <1>21, DropArtifactsEffect DEF UploadInv, Drops
<1>22. CASE DropAsset(c)
  BY <1>22, DropAssetEffect DEF UploadInv, Drops
<1>23. CASE RetryTask(c)
  BY <1>23, RetryTaskEffect DEF UploadInv, Begins, Refuses
<1>24. CASE RequeueAsset(c)
  BY <1>24, RequeueAssetEffect DEF UploadInv, Ends
<1>25. CASE CallDies(c)
  BY <1>25, CallDiesEffect DEF UploadInv
<1> QED
  BY <1>1, <1>2, <1>3, <1>4, <1>5, <1>6, <1>7, <1>8, <1>9, <1>10, <1>11, <1>12, <1>13, <1>14,
     <1>15, <1>16, <1>17, <1>18, <1>19, <1>20, <1>21, <1>22, <1>23, <1>24, <1>25
     DEF Call

\* No call but a redrive changes the status of an asset that is ready.
LEMMA CallSuccess ==
    ASSUME SerialCalls, UploadInv, NEW c \in Calls, Call(c)
    PROVE  SuccessHolds'
<1>a. /\ OnlyCall(c) /\ workers' = workers /\ CallHolds(c)
      /\ \A d \in Calls : d # c => calls[d].pc \notin Running
      /\ RowTypes /\ Null \notin Bytes \cup Calls
  BY CallAlone, UploadAssumption DEF UploadInv, CallsHold, TypeOK, RowTypes, Tasks
<1>b. NotRedriven' => NotRedriven
  <2>1. \A d \in Calls : d # c => calls'[d].kind = calls[d].kind
    BY <1>a DEF OnlyCall
  <2>2. calls[c].kind = "retry" => calls'[c].kind = "retry"
    BY <1>a, CallKinds DEF CallHolds
  <2> QED
    BY <2>1, <2>2 DEF NotRedriven
<1>1. CASE InsertAsset(c)
  BY <1>a, <1>b, <1>1, InsertAssetEffect
     DEF UploadInv, Running, Deleting, Begins, SuccessHolds, NotRedriven, ReleasedIsLinked,
         Released, SoloWorker, Busy
<1>2. CASE EnqueueTask(c)
  BY <1>a, <1>b, <1>2, EnqueueTaskEffect
     DEF UploadInv, Running, Deleting, SuccessHolds, NotRedriven, ReleasedIsLinked,
         Released, SoloWorker, Busy
<1>3. CASE LinkTask(c)
  BY <1>a, <1>b, <1>3, LinkTaskEffect
     DEF UploadInv, Running, Deleting, Ends, SuccessHolds, NotRedriven, ReleasedIsLinked,
         Released, SoloWorker, Busy
<1>4. CASE BeginPut(c)
  BY <1>a, <1>b, <1>4, BeginPutEffect
     DEF UploadInv, Running, Deleting, Begins, Refuses, SuccessHolds, NotRedriven,
         ReleasedIsLinked, Released, SoloWorker, Busy
<1>5. CASE StoreBytes(c)
  BY <1>a, <1>b, <1>5, StoreBytesEffect
     DEF UploadInv, Running, Deleting, Moves, Ends, KeepsLocals, SuccessHolds, NotRedriven,
         ReleasedIsLinked, Released, SoloWorker, Busy
<1>6. CASE RecordUpload(c)
  BY <1>a, <1>b, <1>6, RecordUploadEffect
     DEF UploadInv, Running, Deleting, CallHolds, Ends, SuccessHolds, NotRedriven,
         ReleasedIsLinked, Released, SoloWorker, Busy
<1>7. CASE BeginComplete(c)
  BY <1>a, <1>b, <1>7, BeginCompleteEffect
     DEF UploadInv, Running, Deleting, Begins, Refuses, SuccessHolds, NotRedriven,
         ReleasedIsLinked, Released, SoloWorker, Busy
<1>8. CASE MergePayload(c)
  BY <1>a, <1>b, <1>8, MergePayloadEffect
     DEF UploadInv, Running, Deleting, Moves, Ends, KeepsLocals, SuccessHolds, NotRedriven,
         ReleasedIsLinked, Released, SoloWorker, Busy
<1>9. CASE HeadObject(c)
  BY <1>a, <1>b, <1>9, HeadObjectEffect
     DEF UploadInv, Running, Deleting, Moves, Ends, KeepsLocals, SuccessHolds, NotRedriven,
         ReleasedIsLinked, Released, SoloWorker, Busy
<1>10. CASE QueueAsset(c)
  BY <1>a, <1>b, <1>10, QueueAssetEffect
     DEF UploadInv, Running, Deleting, Moves, KeepsLocals, AssetIs, SuccessHolds,
         NotRedriven, ReleasedIsLinked, Released, SoloWorker, Busy
<1>11. CASE ReleaseTask(c)
  BY <1>a, <1>b, <1>11, ReleaseTaskEffect
     DEF UploadInv, Running, Deleting, Moves, KeepsLocals, TaskIs, SuccessHolds,
         NotRedriven, ReleasedIsLinked, Released, SoloWorker, Busy
<1>12. CASE AnswerComplete(c)
  BY <1>a, <1>b, <1>12, AnswerCompleteEffect
     DEF UploadInv, Running, Deleting, Ends, SuccessHolds, NotRedriven, ReleasedIsLinked,
         Released, SoloWorker, Busy
<1>13. CASE BeginCancel(c)
  BY <1>a, <1>b, <1>13, BeginCancelEffect
     DEF UploadInv, Running, Deleting, Begins, Refuses, SuccessHolds, NotRedriven,
         ReleasedIsLinked, Released, SoloWorker, Busy
<1>14. CASE FenceTask(c)
  BY <1>a, <1>b, <1>14, FenceTaskEffect
     DEF UploadInv, Fenceable, Running, Deleting, Moves, Ends, KeepsLocals, TaskIs,
         SuccessHolds, NotRedriven, ReleasedIsLinked, Released, SoloWorker, Busy
<1>15. CASE CancelAsset(c)
  BY <1>a, <1>b, <1>15, CancelAssetEffect
     DEF UploadInv, Running, Deleting, CallHolds, Moves, KeepsLocals, AssetIs, SuccessHolds,
         NotRedriven, ReleasedIsLinked, Released, SoloWorker, Busy
<1>16. CASE BeginExpire(c)
  BY <1>a, <1>b, <1>16, BeginExpireEffect
     DEF UploadInv, Running, Deleting, Begins, SuccessHolds, NotRedriven, ReleasedIsLinked,
         Released, SoloWorker, Busy
<1>17. CASE DropTask(c)
  BY <1>a, <1>b, <1>17, DropTaskEffect
     DEF UploadInv, NoTask, Running, Deleting, Drops, SuccessHolds, NotRedriven,
         ReleasedIsLinked, Released, SoloWorker, Busy, NoTask
<1>18. CASE ListArtifacts(c)
  BY <1>a, <1>b, <1>18, ListArtifactsEffect
     DEF UploadInv, Running, Deleting, Drops, SuccessHolds, NotRedriven, ReleasedIsLinked,
         Released, SoloWorker, Busy
<1>19. CASE DropRaw(c)
  BY <1>a, <1>b, <1>19, DropRawEffect
     DEF UploadInv, Running, Deleting, Drops, SuccessHolds, NotRedriven, ReleasedIsLinked,
         Released, SoloWorker, Busy
<1>20. CASE DropStored(c)
  BY <1>a, <1>b, <1>20, DropStoredEffect
     DEF UploadInv, Running, Deleting, Drops, SuccessHolds, NotRedriven, ReleasedIsLinked,
         Released, SoloWorker, Busy
<1>21. CASE DropArtifacts(c)
  BY <1>a, <1>b, <1>21, DropArtifactsEffect
     DEF UploadInv, Running, Deleting, Drops, SuccessHolds, NotRedriven, ReleasedIsLinked,
         Released, SoloWorker, Busy
<1>22. CASE DropAsset(c)
  BY <1>a, <1>b, <1>22, DropAssetEffect
     DEF UploadInv, NoAsset, Running, Deleting, CallHolds, Drops, SuccessHolds, NotRedriven,
         ReleasedIsLinked, Released, SoloWorker, Busy, NoAsset
<1>23. CASE RetryTask(c)
  BY <1>a, <1>b, <1>23, RetryTaskEffect
     DEF UploadInv, Redrivable, Running, Deleting, Begins, Refuses, TaskIs, SuccessHolds,
         NotRedriven, ReleasedIsLinked, Released, SoloWorker, Busy
<1>24. CASE RequeueAsset(c)
  BY <1>a, <1>b, <1>24, RequeueAssetEffect
     DEF UploadInv, Running, Deleting, Ends, AssetIs, SuccessHolds, NotRedriven,
         ReleasedIsLinked, Released, SoloWorker, Busy
<1>25. CASE CallDies(c)
  BY <1>a, <1>b, <1>25, CallDiesEffect
     DEF UploadInv, Running, Deleting, SuccessHolds, NotRedriven, ReleasedIsLinked,
         Released, SoloWorker, Busy
<1> QED
  BY <1>1, <1>2, <1>3, <1>4, <1>5, <1>6, <1>7, <1>8, <1>9, <1>10, <1>11, <1>12, <1>13, <1>14,
     <1>15, <1>16, <1>17, <1>18, <1>19, <1>20, <1>21, <1>22, <1>23, <1>24, <1>25
     DEF Call

\* A worker succeeds when the asset is ready.
LEMMA WorkSuccess ==
    ASSUME PromptWorkers, UploadInv, NEW w \in Workers, Work(w)
    PROVE  SuccessHolds'
<1>a. /\ OnlyWorker(w) /\ calls' = calls /\ WorkHolds(w)
      /\ \A v \in Workers : v # w => ~Busy(v)
      /\ Busy(w) => workers[w].task = task.id /\ task.status = "processing"
      /\ RowTypes /\ Null \notin Bytes \cup Calls
  BY WorkAlone, UploadAssumption DEF UploadInv, WorkersHold, TypeOK, RowTypes, Tasks
<1>1. CASE ClaimTask(w)
  BY <1>a, <1>1, ClaimTaskEffect
     DEF UploadInv, Busy, WorkHolds, TaskIs, SuccessHolds, NotRedriven, OnlyWorker,
         Released, ReleasedIsLinked
<1>2. CASE CheckAsset(w)
  BY <1>a, <1>2, CheckAssetEffect
     DEF UploadInv, Busy, WorkHolds, SuccessHolds, NotRedriven, OnlyWorker, Released,
         ReleasedIsLinked
<1>3. CASE MarkProcessing(w)
  BY <1>a, <1>3, MarkProcessingEffect
     DEF UploadInv, Busy, WorkHolds, Works, AssetIs, SuccessHolds, NotRedriven, OnlyWorker,
         Released, ReleasedIsLinked
<1>4. CASE ReadSource(w)
  BY <1>a, <1>4, ReadSourceEffect
     DEF UploadInv, Busy, WorkHolds, Works, SuccessHolds, NotRedriven, OnlyWorker, Released,
         ReleasedIsLinked
<1>5. CASE FindArtifact(w)
  BY <1>a, <1>5, FindArtifactEffect
     DEF UploadInv, Busy, WorkHolds, Works, SuccessHolds, NotRedriven, OnlyWorker, Released,
         ReleasedIsLinked
<1>6. CASE StoreArtifact(w)
  BY <1>a, <1>6, StoreArtifactEffect
     DEF UploadInv, Busy, WorkHolds, Works, SuccessHolds, NotRedriven, OnlyWorker, Released,
         ReleasedIsLinked
<1>7. CASE InsertArtifact(w)
  BY <1>a, <1>7, InsertArtifactEffect
     DEF UploadInv, Busy, WorkHolds, Works, SuccessHolds, NotRedriven, OnlyWorker, Released,
         ReleasedIsLinked
<1>8. CASE IngestDocument(w)
  BY <1>a, <1>8, IngestDocumentEffect
     DEF UploadInv, Busy, WorkHolds, Works, SuccessHolds, NotRedriven, OnlyWorker, Released,
         ReleasedIsLinked
<1>9. CASE RecordIngested(w)
  BY <1>a, <1>9, RecordIngestedEffect
     DEF UploadInv, Busy, WorkHolds, Works, SuccessHolds, NotRedriven, OnlyWorker, Released,
         ReleasedIsLinked
<1>10. CASE LinkDocument(w)
  BY <1>a, <1>10, LinkDocumentEffect
     DEF UploadInv, Busy, WorkHolds, Works, SuccessHolds, NotRedriven, OnlyWorker, Released,
         ReleasedIsLinked
<1>11. CASE RereadAsset(w)
  BY <1>a, <1>11, RereadAssetEffect
     DEF UploadInv, Busy, WorkHolds, Works, SuccessHolds, NotRedriven, OnlyWorker, Released,
         ReleasedIsLinked
<1>12. CASE HandlerThrows(w)
  BY <1>a, <1>12, HandlerThrowsEffect
     DEF UploadInv, Handling, Busy, WorkHolds, SuccessHolds, NotRedriven, OnlyWorker,
         Released, ReleasedIsLinked
<1>13. CASE MarkFailed(w)
  BY <1>a, <1>13, MarkFailedEffect
     DEF UploadInv, Busy, WorkHolds, Works, AssetIs, SuccessHolds, NotRedriven, OnlyWorker,
         Released, ReleasedIsLinked
<1>14. CASE FinishTask(w)
  BY <1>a, <1>14, FinishTaskEffect
     DEF UploadInv, Busy, WorkHolds, TaskIs, SuccessHolds, NotRedriven, OnlyWorker,
         Released, ReleasedIsLinked
<1>15. CASE WorkerDies(w)
  BY <1>a, <1>15, WorkerDiesEffect
     DEF UploadInv, Busy, WorkHolds, SuccessHolds, NotRedriven, OnlyWorker, Released,
         ReleasedIsLinked
<1> QED
  BY <1>1, <1>2, <1>3, <1>4, <1>5, <1>6, <1>7, <1>8, <1>9, <1>10, <1>11, <1>12, <1>13, <1>14, <1>15
     DEF Work
-----------------------------------------------------------------------------
(* The theorems.                                                           *)

\* No call has begun, no task was made: the invariant holds to begin with.
LEMMA UploadInit ==
    ASSUME Init
    PROVE  UploadInv
<1>1. \A c \in Calls : calls[c] = NewCall
  BY DEF Init
<1>2. \A w \in Workers : workers[w].pc = "idle"
  BY DEF Init, Idle
<1>3. TypeOK
  BY UploadAssumption DEF Init, TypeOK, NoAsset, NoTask, NewCall, Idle, Assets
<1>4. OneCall /\ CallsHold
  BY <1>1 DEF OneCall, CallsHold, CallHolds, NewCall, Running, Deleting
<1>5. SoloWorker /\ WorkersHold
  BY <1>2 DEF SoloWorker, Busy, WorkersHold, WorkHolds
<1>6. TaskIsNamed /\ ReleasedIsLinked /\ MadeOfBytes /\ ReadyMatchesSource
  BY DEF Init, NoAsset, NoTask, TaskIsNamed, ReleasedIsLinked, Released, MadeOfBytes,
         ReadyMatchesSource
<1>7. SuccessHolds
  BY <1>2 DEF Init, NoTask, SuccessHolds
<1> QED
  BY <1>3, <1>4, <1>5, <1>6, <1>7 DEF UploadInv

\* Every step of a call, of a worker, or none, keeps the invariant.
LEMMA UploadStep ==
    ASSUME SerialCalls, PromptWorkers, UploadInv, [Next]_vars
    PROVE  UploadInv'
<1>1. ASSUME NEW c \in Calls, Call(c)
      PROVE  UploadInv'
  <2>1. TypeOK'
    <3>1. OnlyCall(c) /\ workers' = workers
      BY <1>1, CallAlone DEF UploadInv
    <3>2. RowTypes' /\ calls' \in [Calls -> CallLocals] /\ workers' \in [Workers -> WorkLocals]
      BY <1>1, <3>1, CallRowTypes, TypeParts DEF UploadInv, OnlyCall
    <3> QED
      BY <3>2 DEF RowTypes, TypeOK, CallLocals, WorkLocals, Tasks
  <2>2. OneCall' /\ TaskIsNamed' /\ SoloWorker' /\ ReleasedIsLinked' /\ MadeOfBytes'
    BY <1>1, CallOne, CallNames, CallSolo, CallLinks, CallMade DEF UploadInv
  <2>3. CallsHold' /\ WorkersHold' /\ ReadyMatchesSource' /\ SuccessHolds'
    BY <1>1, CallCallsHold, CallWorkers, CallReady, CallSuccess
  <2> QED
    BY <2>1, <2>2, <2>3 DEF UploadInv
<1>2. ASSUME NEW w \in Workers, Work(w)
      PROVE  UploadInv'
  <2>1. OnlyWorker(w) /\ calls' = calls
    BY <1>2, WorkAlone DEF UploadInv
  <2>2. TypeOK'
    <3>1. RowTypes' /\ calls' \in [Calls -> CallLocals] /\ workers' \in [Workers -> WorkLocals]
      BY <1>2, <2>1, WorkRowTypes, TypeParts DEF UploadInv, OnlyWorker
    <3> QED
      BY <3>1 DEF RowTypes, TypeOK, CallLocals, WorkLocals, Tasks
  <2>3. OneCall' /\ CallsHold'
    BY <1>2, <2>1, WorkCalls DEF UploadInv, OneCall, CallsHold
  <2>4. TaskIsNamed' /\ SoloWorker' /\ ReleasedIsLinked' /\ MadeOfBytes'
    BY <1>2, WorkNames, WorkSolo, WorkLinks, WorkMade
  <2>5. WorkersHold' /\ ReadyMatchesSource' /\ SuccessHolds'
    BY <1>2, WorkWorkersHold, WorkReady, WorkSuccess
  <2> QED
    BY <2>2, <2>3, <2>4, <2>5 DEF UploadInv
<1>3. CASE UNCHANGED vars
  BY <1>3
     DEF vars, UploadInv, TypeOK, OneCall, TaskIsNamed, SoloWorker, Busy, ReleasedIsLinked,
         Released, MadeOfBytes, CallsHold, CallHolds, WorkersHold, WorkHolds,
         ReadyMatchesSource, SuccessHolds, NotRedriven
<1> QED
  BY <1>1, <1>2, <1>3 DEF Next, AllDone

\* While calls do not overlap and no lease runs out, the rows, the objects and
\* what calls and workers have in hand fit together as UploadInv says.
THEOREM UploadInvariant ==
    ASSUME SerialCalls, PromptWorkers
    PROVE  Spec => []UploadInv
<1>1. Init => UploadInv
  BY UploadInit
<1>2. UploadInv /\ [Next]_vars => UploadInv'
  BY UploadStep
<1> QED
  BY <1>1, <1>2, PTL DEF Spec

\* Rows, objects, calls and workers keep their types, and an asset that waits to
\* be extracted or is ready has a checksum.
THEOREM TypeCorrect ==
    ASSUME SerialCalls, PromptWorkers
    PROVE  Spec => []TypeOK
<1>1. UploadInv => TypeOK
  BY DEF UploadInv
<1> QED
  BY <1>1, UploadInvariant, PTL

\* The document, the artifact and the raw object of a ready source are of the
\* bytes whose checksum it shows.
THEOREM ReadyIsFaithful ==
    ASSUME SerialCalls, PromptWorkers
    PROVE  Spec => []ReadyMatchesSource
<1>1. UploadInv => ReadyMatchesSource
  BY DEF UploadInv
<1> QED
  BY <1>1, UploadInvariant, PTL

\* No worker extracts an upload that is being removed, and one that was removed
\* has left neither bytes nor artifact.
THEOREM RemovalsAreClean ==
    ASSUME SerialCalls, PromptWorkers
    PROVE  Spec => []RemovalIsClean
<1>1. UploadInv => RemovedIsGone
  BY DEF UploadInv, MadeOfBytes, RemovedIsGone
<1>2. ASSUME UploadInv, NEW c \in Calls, NEW w \in Workers, calls[c].pc \in Deleting
      PROVE  workers[w].pc = "idle"
  <2>1. ~Released
    BY <1>2 DEF UploadInv, CallsHold, CallHolds
  <2> QED
    BY <2>1, <1>2 DEF UploadInv, SoloWorker, Busy, Released
<1>3. UploadInv => RemovalIsClean
  BY <1>1, <1>2 DEF RemovalIsClean
<1> QED
  BY <1>3, UploadInvariant, PTL

\* A task that succeeded and was never redriven has a source that is ready.
THEOREM SuccessesAreReady ==
    ASSUME SerialCalls, PromptWorkers
    PROVE  Spec => []SuccessIsReady
<1>1. UploadInv => SuccessIsReady
  BY DEF UploadInv, SuccessHolds, NotRedriven, ReleasedIsLinked, Released, SuccessIsReady
<1> QED
  BY <1>1, UploadInvariant, PTL
=============================================================================
