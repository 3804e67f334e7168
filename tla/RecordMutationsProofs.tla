------------------------ MODULE RecordMutationsProofs ------------------------
(***************************************************************************)
(* Proofs about RecordMutations, for any keys and calls: what holds of     *)
(* calls however they overlap, and what holds of calls that do not.        *)
(***************************************************************************)
EXTENDS RecordMutations, TLAPS

\* The calls that perform the operation of their key, or are about to record
\* that they failed to.
Acting == Performing \cup Failing

\* A call fails or dies, or looks what its failure left; it changes nothing but
\* its own locals.
Breaks(c) == StepThrows(c) \/ InspectRow(c) \/ InspectVector(c) \/ Crash(c)

\* The claim lets one call perform an operation, and nobody a committed one.
OneActs ==
    /\ \A c \in Calls : calls[c].pc \in Acting => ops[KeyOf[c]].status = "pending"
    /\ \A c, d \in Calls :
         KeyOf[c] = KeyOf[d] /\ calls[c].pc \in Acting /\ calls[d].pc \in Acting => c = d

\* Which commands come to a step.
StepsOfKinds ==
    \A c \in Calls :
        /\ calls[c].pc = "plan" => Kind(c) = "deleteAll"
        /\ calls[c].pc = "write" => Kind(c) # "feedback"
        /\ calls[c].pc = "vector" => Kind(c) \in {"update", "delete", "purge", "deleteAll"}
        /\ calls[c].pc = "history" => Kind(c) \notin {"purge", "deleteAll"}

\* The row of a deleteAll's operation is its frozen list, and a list that was
\* worked off named a record that is gone.
ListIsFrozen ==
    /\ \A k \in Keys : kinds[k] = "deleteAll" /\ Present(ops[k].before) => ops[k].planned
    /\ \A c \in Calls : Kind(c) = "deleteAll" =>
         /\ calls[c].pc = "claim" => calls[c].before = NoRow
         /\ calls[c].pc = "plan" => ~ops[KeyOf[c]].planned
         /\ calls[c].pc = "write" =>
              ops[KeyOf[c]].planned /\ calls[c].current = ops[KeyOf[c]].before
         /\ calls[c].pc \in {"vector", "event", "commit"} =>
              /\ Present(ops[KeyOf[c]].before) => calls[c].done
              /\ calls[c].done => ~Present(row)

PurgeIsDone ==
    /\ \A c \in Calls : Kind(c) = "purge" /\ calls[c].pc \in {"vector", "event", "commit"}
         => ~Present(row)
    /\ \A k \in Keys :
         kinds[k] \in {"purge", "deleteAll"} /\ ops[k].status = "committed" /\ ops[k].done
         => ~Present(row)

\* The journal entries of an operation precede its commit.
IsRecorded(k) ==
    \/ kinds[k] \in {"purge", "deleteAll"}
    \/ kinds[k] = "delete" /\ ~Present(ops[k].before)
    \/ k \in history
    \/ ~Present(row)

EntriesFirst ==
    /\ \A c \in Calls :
         /\ calls[c].pc = "commit" => KeyOf[c] \in events
         /\ calls[c].pc \in {"event", "commit"} => IsRecorded(KeyOf[c])
    /\ \A k \in Keys : ops[k].status = "committed" => k \in events /\ IsRecorded(k)

-----------------------------------------------------------------------------
(* Calls that do not overlap.                                              *)

\* One call runs at a time, so what it read is what is there.
Single ==
    /\ \A c, d \in Calls : calls[c].pc \in Running /\ calls[d].pc \in Running => c = d
    /\ \A c \in Calls : calls[c].pc = "write" /\ Kind(c) # "deleteAll" =>
         /\ calls[c].current = row
         /\ Kind(c) # "purge" => Live(row)

\* An update that passed the application's check has the version it asserts.
VersionHeld ==
    \A k \in Keys : asserted[k] # Absent =>
        /\ IsUpdate(k)
        /\ \A c \in Calls :
             KeyOf[c] = k /\ calls[c].pc \in {"begin", "claim", "read", "write"} =>
                 row.version = asserted[k]

\* Whose content a row has, and what the update that wrote it did since.
ContentIsUpdated ==
    /\ row.content \in Keys => kinds[row.content] = "update"
    /\ \A c \in Calls : Kind(c) = "update" =>
         /\ calls[c].pc \in {"vector", "history", "event", "commit"} =>
              Live(row) /\ row.content = KeyOf[c]
         /\ calls[c].pc \in {"history", "event", "commit"} => vector = KeyOf[c]

\* A deletion leaves no live record, and says whether it cleared the index.
DeletionIsDone ==
    \A c \in Calls :
        /\ Kind(c) = "delete" /\ calls[c].pc \in {"vector", "history", "event", "commit"} =>
             ~Live(row)
        /\ \/ Kind(c) \in {"delete", "purge"}
           \/ Kind(c) = "deleteAll" /\ calls[c].done
           => (calls[c].pc \in {"history", "event", "commit"} /\ calls[c].vectorReady
               => vector = Absent)

\* A failure that is recorded with a vector that is ready saw it so, and since
\* then nobody else has come.
InspectionIsTrue ==
    \A c \in Calls :
        /\ calls[c].pc = "inspect" /\ Kind(c) = "update" =>
             calls[c].current.content = KeyOf[c]
        /\ calls[c].pc = "record" /\ calls[c].vectorReady =>
             /\ Kind(c) = "update" => vector = KeyOf[c]
             /\ Kind(c) \in {"delete", "purge"} => vector = Absent
        /\ Kind(c) = "deleteAll" /\ calls[c].pc \in Failing =>
             calls[c].pc = "fail" /\ ~calls[c].vectorReady

\* A tombstone is the work of a delete that found the record.
TombstoneIsOwned ==
    \A k \in Keys : kinds[k] = "delete" =>
        /\ ops[k].status # "none" /\ ~Present(ops[k].before) => ~Live(row)
        /\ \A c \in Calls :
             KeyOf[c] = k /\ calls[c].pc = "claim" /\ ~Present(calls[c].before) => ~Live(row)
        /\ row.forgotten /\ row.version = k =>
             ops[k].status # "none" /\ Present(ops[k].before)
        /\ ops[k].status = "committed" /\ Present(ops[k].before) => ops[k].done

\* The deletions that the index may owe its entry to.
Removes(k) ==
    \/ kinds[k] \in {"delete", "purge"}
    \/ kinds[k] = "deleteAll" /\ Present(ops[k].before)

DriftIsOwned ==
    /\ Live(row) /\ vector # row.content => row.content \in Keys /\ ~Indexed(row.content)
    /\ ~Live(row) /\ vector # Absent =>
         \E k \in Keys : Removes(k) /\ ops[k].status # "none" /\ ~Indexed(k)

SerialInv ==
    serial => /\ Single /\ VersionHeld /\ ContentIsUpdated
              /\ DeletionIsDone /\ InspectionIsTrue /\ TombstoneIsOwned /\ DriftIsOwned

MutationsInv ==
    /\ TypeOK /\ OneActs /\ StepsOfKinds /\ ListIsFrozen /\ PurgeIsDone /\ EntriesFirst
    /\ SerialInv
-----------------------------------------------------------------------------
(* Where each step leads.                                                  *)

OthersKept(c) == \A d \in Calls : d # c => calls'[d] = calls[d]

LEMMA GotoEffect ==
    ASSUME TypeOK, NEW c \in Calls, NEW pc, Goto(c, pc)
    PROVE  /\ calls'[c].pc = pc
           /\ calls'[c].before = calls[c].before
           /\ calls'[c].current = calls[c].current
           /\ calls'[c].done = calls[c].done
           /\ calls'[c].vectorReady = calls[c].vectorReady
           /\ OthersKept(c)
BY DEF Goto, OthersKept, TypeOK

LEMMA ReturnEffect ==
    ASSUME TypeOK, NEW c \in Calls, NEW pc, NEW done, Return(c, pc, done)
    PROVE  /\ calls'[c] = [NewCall EXCEPT !.pc = pc, !.done = done]
           /\ calls'[c].pc = pc
           /\ OthersKept(c)
BY DEF Return, OthersKept, TypeOK, NewCall

LEMMA EndEffect ==
    ASSUME TypeOK, NEW c \in Calls, NEW pc, Return(c, pc, FALSE)
    PROVE  calls'[c].pc = pc /\ OthersKept(c)
BY DEF Return, OthersKept, TypeOK, NewCall

LEMMA ArriveEffect ==
    ASSUME TypeOK, NEW c \in Calls, Arrive(c)
    PROVE  /\ calls[c].pc = "idle" /\ MayStart
           /\ calls'[c].pc \in {"begin", "notFound", "conflict"}
           /\ calls'[c].pc = "begin" /\ IsUpdate(KeyOf[c]) =>
                Live(row) /\ asserted[KeyOf[c]] \in {Absent, row.version}
           /\ OthersKept(c)
           /\ UNCHANGED <<commands, record, events, ops>>
<1>1. calls[c].pc = "idle" /\ MayStart /\ UNCHANGED <<commands, record, events, ops>>
  BY DEF Arrive, At
<1>2. CASE Goto(c, "begin") /\ (IsUpdate(KeyOf[c]) => Live(row) /\ VersionMatches(KeyOf[c]))
  BY <1>1, <1>2, GotoEffect DEF VersionMatches
<1>3. CASE Return(c, "notFound", FALSE) \/ Return(c, "conflict", FALSE)
  <2>1. calls'[c].pc \in {"notFound", "conflict"} /\ OthersKept(c)
    BY <1>3, EndEffect
  <2> QED
    BY <1>1, <2>1
<1> QED
  BY <1>2, <1>3 DEF Arrive

LEMMA BeginEffect ==
    ASSUME TypeOK, NEW c \in Calls, Begin(c)
    PROVE  /\ calls[c].pc = "begin"
           /\ calls'[c].pc \in {"claim", "notFound"}
           /\ calls'[c].pc = "claim" => calls'[c].before \in {row, NoRow}
           /\ calls'[c].pc = "claim" /\ Kind(c) = "deleteAll" => calls'[c].before = NoRow
           /\ calls'[c].pc = "claim" /\ Kind(c) = "delete" /\ Live(row) => calls'[c].before = row
           /\ OthersKept(c)
           /\ UNCHANGED <<commands, record, events, ops>>
<1>1. CASE calls' = [calls EXCEPT ![c].pc = "claim",
                       ![c].before = IF \/ Kind(c) = "delete" /\ ~Live(row)
                                        \/ Kind(c) = "deleteAll"
                                     THEN NoRow ELSE row]
  <2>1. calls[c].pc = "begin" /\ UNCHANGED <<commands, record, events, ops>>
    BY DEF Begin, At
  <2>2. /\ calls'[c].pc = "claim"
        /\ calls'[c].before = IF \/ Kind(c) = "delete" /\ ~Live(row)
                                 \/ Kind(c) = "deleteAll"
                              THEN NoRow ELSE row
        /\ OthersKept(c)
    BY <1>1 DEF OthersKept, TypeOK
  <2> QED
    BY <2>1, <2>2
<1>2. CASE Return(c, "notFound", FALSE)
  <2>1. calls[c].pc = "begin" /\ UNCHANGED <<commands, record, events, ops>>
    BY DEF Begin, At
  <2> QED
    <3>1. calls'[c].pc = "notFound" /\ OthersKept(c)
      BY <1>2, EndEffect
    <3> QED
      BY <2>1, <3>1
<1> QED
  BY <1>1, <1>2 DEF Begin

LEMMA PerformEffect ==
    ASSUME TypeOK, NEW c \in Calls, Perform(c)
    PROVE  calls'[c] = [NewCall EXCEPT !.pc = "read"] /\ OthersKept(c)
BY DEF Perform, OthersKept, TypeOK

LEMMA ReadCurrentEffect ==
    ASSUME TypeOK, NEW c \in Calls, ReadCurrent(c)
    PROVE  /\ calls[c].pc = "read" /\ Kind(c) \notin {"feedback", "deleteAll"}
           /\ calls'[c].pc \in {"write", "vector", "fail"}
           /\ calls'[c].pc = "write" =>
                Present(row) /\ (Kind(c) # "purge" => Live(row))
           /\ calls'[c].pc = "vector" =>
                \/ Kind(c) = "purge" /\ ~Present(row)
                \/ Kind(c) = "delete" /\ ~Live(row)
           /\ calls'[c].before = calls[c].before
           /\ calls'[c].current = row
           /\ calls'[c].done \in BOOLEAN
           /\ calls'[c].vectorReady = FALSE
           /\ OthersKept(c)
           /\ UNCHANGED <<commands, record, events, ops>>
<1> DEFINE pc == IF Kind(c) = "purge" THEN IF Present(row) THEN "write" ELSE "vector"
                 ELSE IF Live(row) THEN "write"
                 ELSE IF Kind(c) = "delete" THEN "vector" ELSE "fail"
           done == Kind(c) = "purge" /\ Present(row)
<1>1. /\ pc \in {"write", "vector", "fail"}
      /\ pc = "write" => Present(row) /\ (Kind(c) # "purge" => Live(row))
      /\ pc = "vector" =>
           \/ Kind(c) = "purge" /\ ~Present(row)
           \/ Kind(c) = "delete" /\ ~Live(row)
  BY DEF Live
<1>2. done \in BOOLEAN
  OBVIOUS
<1>3. calls' = [calls EXCEPT ![c].current = row, ![c].vectorReady = FALSE,
                             ![c].done = done, ![c].pc = pc]
  BY DEF ReadCurrent
<1> HIDE DEF pc, done
<1>4. /\ calls'[c].pc = pc /\ calls'[c].current = row /\ calls'[c].done = done
      /\ calls'[c].before = calls[c].before /\ calls'[c].vectorReady = FALSE
      /\ OthersKept(c)
  BY <1>3 DEF TypeOK, OthersKept
<1> QED
  BY <1>1, <1>2, <1>4 DEF ReadCurrent, At

LEMMA ReadRatedEffect ==
    ASSUME TypeOK, NEW c \in Calls, ReadRated(c)
    PROVE  /\ calls[c].pc = "read" /\ Kind(c) = "feedback"
           /\ calls'[c].pc \in {"history", "fail"}
           /\ OthersKept(c)
           /\ UNCHANGED <<commands, record, events, ops>>
BY GotoEffect DEF ReadRated, At

LEMMA ListEffect ==
    ASSUME TypeOK, NEW c \in Calls, ListRecords(c)
    PROVE  /\ calls[c].pc = "read" /\ Kind(c) = "deleteAll"
           /\ \/ /\ ops[KeyOf[c]].planned
                 /\ calls'[c].pc = "write" /\ calls'[c].current = ops[KeyOf[c]].before
              \/ /\ ~ops[KeyOf[c]].planned
                 /\ calls'[c].pc = "plan" /\ calls'[c].current \in {row, NoRow}
           /\ calls'[c].before = calls[c].before
           /\ calls'[c].done = calls[c].done
           /\ calls'[c].vectorReady = calls[c].vectorReady
           /\ OthersKept(c)
           /\ UNCHANGED <<commands, record, events, ops>>
<1>1. KeyOf[c] \in Keys
  BY MutationAssumption
<1>2. ops[KeyOf[c]].planned \in BOOLEAN
  BY <1>1 DEF TypeOK, Operations
<1> QED
  BY <1>2 DEF ListRecords, At, OthersKept, TypeOK

\* The locals of a call that wrote.
LEMMA WrittenEffect ==
    ASSUME TypeOK, NEW c \in Calls, NEW pc, NEW done, Written(c, pc, done)
    PROVE  /\ calls'[c].pc = pc /\ calls'[c].done = done
           /\ calls'[c].current = NoRow
           /\ calls'[c].before = calls[c].before
           /\ calls'[c].vectorReady = calls[c].vectorReady
           /\ OthersKept(c)
BY DEF Written, OthersKept, TypeOK
\* A step changes the operation of key k and no other.
OnlyOp(k) == \A j \in Keys : j # k => ops'[j] = ops[j]

LEMMA ClaimEffect ==
    ASSUME TypeOK, NEW c \in Calls, Claim(c)
    PROVE  LET k == KeyOf[c] IN
           /\ calls[c].pc = "claim"
           /\ \/ /\ ops[k].status = "none"
                 /\ ops'[k].status = "pending" /\ ops'[k].before = calls[c].before
                 /\ calls'[c] = [NewCall EXCEPT !.pc = "read"]
              \/ /\ Resumable(k)
                 /\ ops'[k].status = "pending" /\ ops'[k].before = ops[k].before
                 /\ calls'[c] = [NewCall EXCEPT !.pc = "read"]
              \/ /\ ops[k].status \in {"committed", "pending"}
                 /\ ops' = ops
                 /\ calls'[c].pc \in {"ok", "refused"}
           /\ ops'[k].planned = ops[k].planned
           /\ ops'[k].done = ops[k].done
           /\ OnlyOp(k)
           /\ OthersKept(c)
           /\ UNCHANGED <<commands, record, events>>
<1> DEFINE k == KeyOf[c]
<1>0. k \in Keys
  BY MutationAssumption
<1>1. calls[c].pc = "claim" /\ UNCHANGED <<commands, record, events>>
  BY DEF Claim, At
<1>2. CASE /\ ops[k].status = "none"
           /\ ops' = [ops EXCEPT ![k].status = "pending", ![k].before = calls[c].before]
           /\ Perform(c)
  <2>1. /\ ops'[k].status = "pending" /\ ops'[k].before = calls[c].before
        /\ ops'[k].planned = ops[k].planned /\ ops'[k].done = ops[k].done
        /\ OnlyOp(k)
    BY <1>0, <1>2 DEF OnlyOp, TypeOK, Operations
  <2>2. calls'[c] = [NewCall EXCEPT !.pc = "read"] /\ OthersKept(c)
    BY <1>2, PerformEffect
  <2> QED
    BY <1>1, <1>2, <2>1, <2>2
<1>3. CASE /\ Resumable(k)
           /\ ops' = [ops EXCEPT ![k].status = "pending"]
           /\ Perform(c)
  <2>1. /\ ops'[k].status = "pending" /\ ops'[k].before = ops[k].before
        /\ ops'[k].planned = ops[k].planned /\ ops'[k].done = ops[k].done
        /\ OnlyOp(k)
    BY <1>0, <1>3 DEF OnlyOp, TypeOK, Operations
  <2>2. calls'[c] = [NewCall EXCEPT !.pc = "read"] /\ OthersKept(c)
    BY <1>3, PerformEffect
  <2> QED
    BY <1>1, <1>3, <2>1, <2>2
<1>4. CASE /\ ops[k].status \in {"committed", "pending"} /\ UNCHANGED ops
           /\ Return(c, "ok", ops[k].done) \/ Return(c, "refused", FALSE)
  <2>1. calls'[c].pc \in {"ok", "refused"} /\ OthersKept(c)
    BY <1>4, EndEffect, ReturnEffect
  <2> QED
    BY <1>1, <1>4, <2>1 DEF OnlyOp
<1> QED
  BY <1>2, <1>3, <1>4 DEF Claim

LEMMA PlanEffect ==
    ASSUME TypeOK, NEW c \in Calls, PlanOperation(c)
    PROVE  LET k == KeyOf[c] IN
           /\ calls[c].pc = "plan" /\ calls'[c].pc = "write"
           /\ ops'[k].before = calls[c].current /\ ops'[k].planned = TRUE
           /\ ops'[k].status = ops[k].status /\ ops'[k].vector = ops[k].vector
           /\ ops'[k].done = ops[k].done
           /\ calls'[c].current = calls[c].current
           /\ calls'[c].done = calls[c].done
           /\ calls'[c].before = calls[c].before
           /\ calls'[c].vectorReady = calls[c].vectorReady
           /\ OnlyOp(k)
           /\ OthersKept(c)
           /\ UNCHANGED <<commands, record, events>>
<1> DEFINE k == KeyOf[c]
<1>1. /\ ops'[k].before = calls[c].current /\ ops'[k].planned = TRUE
      /\ ops'[k].status = ops[k].status /\ ops'[k].vector = ops[k].vector
      /\ ops'[k].done = ops[k].done
      /\ OnlyOp(k)
  BY MutationAssumption DEF PlanOperation, OnlyOp, TypeOK, Operations
<1>2. calls[c].pc = "plan" /\ UNCHANGED <<commands, record, events>>
  BY DEF PlanOperation, At
<1> QED
  BY <1>1, <1>2, GotoEffect DEF PlanOperation

\* What a write leaves in the row, per kind of its command.
LEMMA WriteEffect ==
    ASSUME TypeOK, NEW c \in Calls, WriteRow(c)
    PROVE  /\ calls[c].pc = "write"
           /\ calls'[c].current = NoRow
           /\ calls'[c].before = calls[c].before
           /\ calls'[c].vectorReady = calls[c].vectorReady
           /\ OthersKept(c)
           /\ UNCHANGED <<commands, vector, events, ops>>
           /\ \/ /\ Kind(c) \in {"update", "reweigh", "invalidate"}
                 /\ row' = IF Present(row) THEN Patched(c) ELSE NoRow
                 /\ calls'[c].pc = IF Kind(c) = "update" THEN "vector" ELSE "history"
                 /\ calls'[c].done = FALSE
                 /\ UNCHANGED history
              \/ /\ Kind(c) = "delete"
                 /\ row' = IF Present(row)
                           THEN [row EXCEPT !.forgotten = TRUE, !.version = KeyOf[c]]
                           ELSE NoRow
                 /\ calls'[c].pc = "vector" /\ calls'[c].done = TRUE
                 /\ UNCHANGED history
              \/ /\ Kind(c) = "delete" /\ ~Live(row)
                 /\ calls'[c].pc = "vector" /\ calls'[c].done = FALSE
                 /\ UNCHANGED <<row, history>>
              \/ /\ Kind(c) = "purge"
                 /\ row' = NoRow /\ history' = {}
                 /\ calls'[c].pc = "vector" /\ calls'[c].done = TRUE
<1>1. calls[c].pc = "write" /\ UNCHANGED <<commands, vector, events, ops>>
  BY DEF WriteRow, At
<1>2. ASSUME NEW pc, Written(c, pc, FALSE)
      PROVE  /\ calls'[c].pc = pc /\ calls'[c].done = FALSE
             /\ calls'[c].current = NoRow
             /\ calls'[c].before = calls[c].before
             /\ calls'[c].vectorReady = calls[c].vectorReady
             /\ OthersKept(c)
  BY <1>2 DEF Written, OthersKept, TypeOK
<1>3. ASSUME NEW pc, Written(c, pc, TRUE)
      PROVE  /\ calls'[c].pc = pc /\ calls'[c].done = TRUE
             /\ calls'[c].current = NoRow
             /\ calls'[c].before = calls[c].before
             /\ calls'[c].vectorReady = calls[c].vectorReady
             /\ OthersKept(c)
  BY <1>3 DEF Written, OthersKept, TypeOK
<1>4. CASE /\ Kind(c) \in {"update", "reweigh", "invalidate"}
           /\ Stored(Patched(c))
           /\ Written(c, IF Kind(c) = "update" THEN "vector" ELSE "history", FALSE)
           /\ UNCHANGED history
  <2>1. row' = IF Present(row) THEN Patched(c) ELSE NoRow
    BY <1>4 DEF Stored
  <2> QED
    BY <1>1, <1>2, <1>4, <2>1
<1>5. CASE /\ Kind(c) = "delete"
           /\ row' = IF Present(row)
                     THEN [row EXCEPT !.forgotten = TRUE, !.version = KeyOf[c]]
                     ELSE NoRow
           /\ Written(c, "vector", TRUE)
           /\ UNCHANGED history
  BY <1>1, <1>3, <1>5
<1>6. CASE /\ Kind(c) = "delete" /\ ~Live(row)
           /\ Written(c, "vector", FALSE)
           /\ UNCHANGED <<row, history>>
  BY <1>1, <1>2, <1>6
<1>7. CASE /\ Kind(c) = "purge" /\ row' = NoRow /\ history' = {}
           /\ Written(c, "vector", TRUE)
  BY <1>1, <1>3, <1>7
<1> QED
  BY <1>4, <1>5, <1>6, <1>7 DEF WriteRow

LEMMA DeleteListedEffect ==
    ASSUME TypeOK, NEW c \in Calls, DeleteListed(c)
    PROVE  /\ calls[c].pc = "write" /\ Kind(c) = "deleteAll"
           /\ calls'[c].pc = "vector"
           /\ calls'[c].current = NoRow
           /\ calls'[c].before = calls[c].before
           /\ calls'[c].vectorReady = calls[c].vectorReady
           /\ OthersKept(c)
           /\ UNCHANGED <<commands, vector, events, ops>>
           /\ \/ /\ Present(calls[c].current) /\ calls'[c].done = TRUE
                 /\ row' = NoRow /\ history' = {}
              \/ /\ ~Present(calls[c].current) /\ calls'[c].done = FALSE
                 /\ UNCHANGED <<row, history>>
<1>1. /\ calls[c].pc = "write" /\ Kind(c) = "deleteAll"
      /\ UNCHANGED <<commands, vector, events, ops>>
  BY DEF DeleteListed, At
<1>2. /\ calls'[c].pc = "vector" /\ calls'[c].done = Present(calls[c].current)
      /\ calls'[c].current = NoRow /\ calls'[c].before = calls[c].before
      /\ calls'[c].vectorReady = calls[c].vectorReady
      /\ OthersKept(c)
  BY WrittenEffect DEF DeleteListed
<1>3. CASE Present(calls[c].current)
  BY <1>1, <1>2, <1>3 DEF DeleteListed
<1>4. CASE ~Present(calls[c].current)
  BY <1>1, <1>2, <1>4 DEF DeleteListed
<1> QED
  BY <1>3, <1>4
LEMMA ProjectEffect ==
    ASSUME TypeOK, NEW c \in Calls, ProjectVector(c)
    PROVE  /\ calls[c].pc = "vector"
           /\ calls'[c].done = calls[c].done
           /\ calls'[c].before = calls[c].before
           /\ calls'[c].current = calls[c].current
           /\ OthersKept(c)
           /\ UNCHANGED <<commands, row, history, events, ops>>
           /\ \/ /\ Kind(c) = "update" /\ vector' = KeyOf[c]
                 /\ calls'[c].pc = "history" /\ calls'[c].vectorReady = TRUE
              \/ /\ NothingToRemove(c) /\ vector' = vector
                 /\ calls'[c].pc = "event" /\ calls'[c].vectorReady = TRUE
              \/ /\ Kind(c) \in {"delete", "purge", "deleteAll"} /\ ~NothingToRemove(c)
                 /\ calls'[c].pc = IF Kind(c) = "delete" THEN "history" ELSE "event"
                 /\ \/ vector' = Absent /\ calls'[c].vectorReady = TRUE
                    \/ vector' = vector /\ calls'[c].vectorReady = FALSE
<1>1. calls[c].pc = "vector" /\ UNCHANGED <<commands, row, history, events, ops>>
  BY DEF ProjectVector, At
<1>2. ASSUME NEW pc, calls' = [calls EXCEPT ![c].pc = pc, ![c].vectorReady = TRUE]
      PROVE  /\ calls'[c].pc = pc /\ calls'[c].vectorReady = TRUE
             /\ calls'[c].done = calls[c].done
             /\ calls'[c].before = calls[c].before
             /\ calls'[c].current = calls[c].current
             /\ OthersKept(c)
  BY <1>2 DEF OthersKept, TypeOK
<1>3. ASSUME NEW pc, calls' = [calls EXCEPT ![c].pc = pc, ![c].vectorReady = FALSE]
      PROVE  /\ calls'[c].pc = pc /\ calls'[c].vectorReady = FALSE
             /\ calls'[c].done = calls[c].done
             /\ calls'[c].before = calls[c].before
             /\ calls'[c].current = calls[c].current
             /\ OthersKept(c)
  BY <1>3 DEF OthersKept, TypeOK
<1>4. CASE /\ Kind(c) = "update" /\ vector' = KeyOf[c]
           /\ calls' = [calls EXCEPT ![c].pc = "history", ![c].vectorReady = TRUE]
  BY <1>1, <1>2, <1>4
<1>5. CASE /\ NothingToRemove(c) /\ UNCHANGED vector
           /\ calls' = [calls EXCEPT ![c].pc = "event", ![c].vectorReady = TRUE]
  BY <1>1, <1>2, <1>5
<1>6. CASE /\ Kind(c) \in {"delete", "purge", "deleteAll"} /\ ~NothingToRemove(c)
           /\ \E ok \in BOOLEAN :
                /\ vector' = IF ok THEN Absent ELSE vector
                /\ calls' = [calls EXCEPT
                     ![c].pc = IF Kind(c) = "delete" THEN "history" ELSE "event",
                     ![c].vectorReady = DeletedFromIndex(ok)]
  <2> DEFINE pc == IF Kind(c) = "delete" THEN "history" ELSE "event"
  <2>1. PICK ok \in BOOLEAN :
          /\ vector' = IF ok THEN Absent ELSE vector
          /\ calls' = [calls EXCEPT ![c].pc = pc, ![c].vectorReady = ok]
    BY <1>6 DEF DeletedFromIndex
  <2> HIDE DEF pc
  <2>2. CASE ok = TRUE
    <3>1. vector' = Absent
      BY <2>1, <2>2
    <3>2. calls' = [calls EXCEPT ![c].pc = pc, ![c].vectorReady = TRUE]
      BY <2>1, <2>2
    <3> QED
      BY <1>1, <1>2, <1>6, <3>1, <3>2 DEF pc
  <2>3. CASE ok = FALSE
    <3>1. vector' = vector
      BY <2>1, <2>3
    <3>2. calls' = [calls EXCEPT ![c].pc = pc, ![c].vectorReady = FALSE]
      BY <2>1, <2>3
    <3> QED
      BY <1>1, <1>3, <1>6, <3>1, <3>2 DEF pc
  <2> QED
    BY <2>2, <2>3
<1> QED
  BY <1>4, <1>5, <1>6 DEF ProjectVector

LEMMA EntryEffect ==
    ASSUME TypeOK, NEW c \in Calls, AddHistory(c) \/ AppendEvent(c)
    PROVE  /\ \/ /\ AddHistory(c)
                 /\ calls[c].pc = "history" /\ calls'[c].pc = "event"
                 /\ history' = IF Recorded(c) THEN history \cup {KeyOf[c]} ELSE history
                 /\ UNCHANGED <<row, vector, events, ops>>
              \/ /\ AppendEvent(c)
                 /\ calls[c].pc = "event" /\ calls'[c].pc = "commit"
                 /\ events' = events \cup {KeyOf[c]}
                 /\ UNCHANGED <<record, ops>>
           /\ calls'[c].before = calls[c].before
           /\ calls'[c].current = calls[c].current
           /\ calls'[c].done = calls[c].done
           /\ calls'[c].vectorReady = calls[c].vectorReady
           /\ OthersKept(c)
           /\ UNCHANGED commands
<1>1. CASE AddHistory(c)
  BY <1>1, GotoEffect DEF AddHistory, At, commands
<1>2. CASE AppendEvent(c)
  BY <1>2, GotoEffect DEF AppendEvent, At
<1> QED
  BY <1>1, <1>2

LEMMA CommitEffect ==
    ASSUME TypeOK, NEW c \in Calls, CommitOperation(c)
    PROVE  LET k == KeyOf[c] IN
           /\ calls[c].pc = "commit" /\ calls'[c].pc = "ok"
           /\ calls'[c] = [NewCall EXCEPT !.pc = "ok", !.done = Result(c)]
           /\ ops'[k].status = "committed"
           /\ ops'[k].before = ops[k].before /\ ops'[k].planned = ops[k].planned
           /\ ops'[k].done = Result(c)
           /\ ops'[k].vector = (calls[c].vectorReady \/ Kind(c) \in {"reweigh", "invalidate"})
           /\ OnlyOp(k)
           /\ OthersKept(c)
           /\ UNCHANGED <<commands, record, events>>
<1> DEFINE k == KeyOf[c]
           done == Result(c)
           indexed == calls[c].vectorReady \/ Kind(c) \in {"reweigh", "invalidate"}
<1>0. k \in Keys
  BY MutationAssumption
<1>1. /\ calls[c].pc = "commit" /\ UNCHANGED <<commands, record, events>>
      /\ ops' = [ops EXCEPT ![k].status = "committed", ![k].done = done,
                            ![k].vector = indexed]
      /\ Return(c, "ok", done)
  BY DEF CommitOperation, At
<1> HIDE DEF done, indexed
<1>2. /\ ops'[k].status = "committed" /\ ops'[k].done = done
      /\ ops'[k].before = ops[k].before /\ ops'[k].planned = ops[k].planned
      /\ ops'[k].vector = indexed
      /\ OnlyOp(k)
  BY <1>0, <1>1 DEF OnlyOp, TypeOK, Operations
<1>3. calls'[c] = [NewCall EXCEPT !.pc = "ok", !.done = done] /\ OthersKept(c)
  BY <1>1 DEF Return, OthersKept, TypeOK
<1>4. calls'[c].pc = "ok"
  BY <1>3 DEF NewCall
<1> QED
  BY <1>1, <1>2, <1>3, <1>4 DEF done, indexed

LEMMA FailEffect ==
    ASSUME TypeOK, NEW c \in Calls, FailOperation(c)
    PROVE  LET k == KeyOf[c] IN
           /\ \/ calls[c].pc = "record"
              \/ calls[c].pc = "fail" /\ Kind(c) = "deleteAll"
           /\ calls'[c].pc = "failed"
           /\ calls'[c] = [NewCall EXCEPT !.pc = "failed", !.done = FALSE]
           /\ ops'[k].status = "failed"
           /\ ops'[k].before = ops[k].before /\ ops'[k].planned = ops[k].planned
           /\ ops'[k].done = ops[k].done
           /\ ops'[k].vector = calls[c].vectorReady
           /\ OnlyOp(k)
           /\ OthersKept(c)
           /\ UNCHANGED <<commands, record, events>>
<1> DEFINE k == KeyOf[c]
           indexed == calls[c].vectorReady
<1>0. k \in Keys
  BY MutationAssumption
<1>1. /\ calls[c].pc = "record" \/ (calls[c].pc = "fail" /\ Kind(c) = "deleteAll")
      /\ UNCHANGED <<commands, record, events>>
      /\ ops' = [ops EXCEPT ![k].status = "failed", ![k].vector = indexed]
      /\ Return(c, "failed", FALSE)
  BY DEF FailOperation, At
<1> HIDE DEF indexed
<1>2. /\ ops'[k].status = "failed" /\ ops'[k].done = ops[k].done
      /\ ops'[k].before = ops[k].before /\ ops'[k].planned = ops[k].planned
      /\ ops'[k].vector = indexed
      /\ OnlyOp(k)
  BY <1>0, <1>1 DEF OnlyOp, TypeOK, Operations
<1>3. calls'[c] = [NewCall EXCEPT !.pc = "failed", !.done = FALSE] /\ OthersKept(c)
  BY <1>1 DEF Return, OthersKept, TypeOK, NewCall
<1>4. calls'[c].pc = "failed"
  BY <1>3 DEF NewCall
<1> QED
  BY <1>1, <1>2, <1>3, <1>4 DEF indexed

LEMMA InspectRowEffect ==
    ASSUME TypeOK, NEW c \in Calls, InspectRow(c)
    PROVE  /\ calls[c].pc = "fail" /\ Kind(c) # "deleteAll"
           /\ \E found \in {row, NoRow} :
                \/ /\ calls'[c].pc = "record"
                   /\ calls'[c].vectorReady => Kind(c) \notin {"update", "delete", "purge"}
                   /\ calls' = [calls EXCEPT ![c] =
                        [NewCall EXCEPT !.pc = "record",
                                        !.vectorReady = RawReady(KeyOf[c], found)]]
                \/ /\ calls'[c].pc = "inspect" /\ RawReady(KeyOf[c], found)
                   /\ calls'[c].current = found
                   /\ calls' = [calls EXCEPT ![c] =
                        [NewCall EXCEPT !.pc = "inspect", !.current = found]]
           /\ OthersKept(c)
           /\ UNCHANGED <<commands, record, events, ops>>
<1>1. /\ calls[c].pc = "fail" /\ Kind(c) # "deleteAll"
      /\ UNCHANGED <<commands, record, events, ops>>
  BY DEF InspectRow, At
<1>2. PICK found \in {row, NoRow} :
        calls' = [calls EXCEPT ![c] =
          IF Kind(c) = "invalidate" \/ ~RawReady(KeyOf[c], found)
          THEN [NewCall EXCEPT !.pc = "record", !.vectorReady = RawReady(KeyOf[c], found)]
          ELSE [NewCall EXCEPT !.pc = "inspect", !.current = found]]
  BY DEF InspectRow
<1> DEFINE ready == RawReady(KeyOf[c], found)
<1>3. CASE Kind(c) = "invalidate" \/ ~ready
  <2>1. calls' = [calls EXCEPT ![c] = [NewCall EXCEPT !.pc = "record", !.vectorReady = ready]]
    BY <1>2, <1>3
  <2> HIDE DEF ready
  <2>2. /\ calls'[c].pc = "record" /\ calls'[c].vectorReady = ready
        /\ OthersKept(c)
    BY <2>1 DEF OthersKept, TypeOK, NewCall
  <2> QED
    BY <1>1, <1>3, <2>1, <2>2 DEF ready
<1>4. CASE ~(Kind(c) = "invalidate" \/ ~ready)
  <2>1. calls' = [calls EXCEPT ![c] = [NewCall EXCEPT !.pc = "inspect", !.current = found]]
    BY <1>2, <1>4
  <2>2. calls'[c].pc = "inspect" /\ calls'[c].current = found /\ OthersKept(c)
    BY <2>1 DEF OthersKept, TypeOK, NewCall
  <2> QED
    BY <1>1, <1>4, <2>1, <2>2
<1> QED
  BY <1>3, <1>4

LEMMA InspectVectorEffect ==
    ASSUME TypeOK, NEW c \in Calls, InspectVector(c)
    PROVE  /\ calls[c].pc = "inspect" /\ calls'[c].pc = "record"
           /\ \E ok \in BOOLEAN :
                calls' = [calls EXCEPT ![c].pc = "record", ![c].current = NoRow,
                  ![c].vectorReady = ok /\ VectorReady(KeyOf[c], calls[c].current)]
           /\ calls'[c].vectorReady => VectorReady(KeyOf[c], calls[c].current)
           /\ OthersKept(c)
           /\ UNCHANGED <<commands, record, events, ops>>
<1>1. calls[c].pc = "inspect" /\ UNCHANGED <<commands, record, events, ops>>
  BY DEF InspectVector, At
<1> DEFINE found == calls[c].current
<1>2. PICK ok \in BOOLEAN :
        calls' = [calls EXCEPT ![c].pc = "record", ![c].current = NoRow,
                    ![c].vectorReady = ok /\ VectorReady(KeyOf[c], found)]
  BY DEF InspectVector
<1> DEFINE ready == ok /\ VectorReady(KeyOf[c], found)
<1>3. calls' = [calls EXCEPT ![c].pc = "record", ![c].current = NoRow,
                             ![c].vectorReady = ready]
  BY <1>2
<1> HIDE DEF ready
<1>4. calls'[c].pc = "record" /\ calls'[c].vectorReady = ready /\ OthersKept(c)
  BY <1>3 DEF OthersKept, TypeOK
<1> QED
  BY <1>1, <1>2, <1>4 DEF ready

LEMMA BreakEffect ==
    ASSUME TypeOK, NEW c \in Calls, Breaks(c)
    PROVE  /\ calls[c].pc \in Running
           /\ \/ calls[c].pc \in Acting /\ calls'[c].pc \in {"fail", "inspect", "record"}
              \/ calls'[c].pc = "crashed"
           /\ OthersKept(c)
           /\ UNCHANGED <<commands, record, events, ops>>
<1>1. CASE StepThrows(c)
  <2>1. calls[c].pc \in Performing /\ UNCHANGED <<commands, record, events, ops>>
    BY <1>1 DEF StepThrows
  <2>2. calls'[c].pc = "fail" /\ OthersKept(c)
    BY <1>1 DEF StepThrows, NewCall, OthersKept, TypeOK
  <2> QED
    BY <2>1, <2>2 DEF Running, Acting, Failing
<1>2. CASE InspectRow(c)
  BY <1>2, InspectRowEffect DEF Running, Acting, Failing
<1>3. CASE InspectVector(c)
  BY <1>3, InspectVectorEffect DEF Running, Acting, Failing
<1>4. CASE Crash(c)
  <2>1. calls[c].pc \in Running /\ UNCHANGED <<commands, record, events, ops>>
    BY <1>4 DEF Crash
  <2>2. calls'[c].pc = "crashed" /\ OthersKept(c)
    BY <1>4, EndEffect DEF Crash
  <2> QED
    BY <2>1, <2>2
<1> QED
  BY <1>1, <1>2, <1>3, <1>4 DEF Breaks
-----------------------------------------------------------------------------
(* Types.                                                                  *)

Locals == [pc : {"idle"} \cup Running \cup Returned,
           before : Rows \cup {NoRow}, current : Rows \cup {NoRow},
           done : BOOLEAN, vectorReady : BOOLEAN]

LEMMA LocalType ==
    ASSUME NEW l \in Locals
    PROVE  /\ \A p \in Running \cup Returned : [l EXCEPT !.pc = p] \in Locals
           /\ \A r \in Rows \cup {NoRow} : [l EXCEPT !.before = r] \in Locals
           /\ \A r \in Rows \cup {NoRow} : [l EXCEPT !.current = r] \in Locals
           /\ \A b \in BOOLEAN : [l EXCEPT !.done = b] \in Locals
           /\ \A b \in BOOLEAN : [l EXCEPT !.vectorReady = b] \in Locals
BY DEF Locals

\* An assignment to the locals of c by c's fields.
LEMMA CallsType ==
    ASSUME TypeOK, NEW c \in Calls, NEW l \in Locals, calls' = [calls EXCEPT ![c] = l]
    PROVE  calls' \in [Calls -> Locals]
BY DEF TypeOK, Locals

LEMMA NewCallType ==
    /\ \A p \in Running \cup Returned : [NewCall EXCEPT !.pc = p] \in Locals
    /\ \A p \in Running \cup Returned, b \in BOOLEAN :
         [NewCall EXCEPT !.pc = p, !.done = b] \in Locals
BY DEF NewCall, Locals

\* One assignment after the other.
LEMMA FieldType ==
    ASSUME NEW m \in [Calls -> Locals], NEW c \in Calls
    PROVE  /\ \A p \in Running \cup Returned : [m EXCEPT ![c].pc = p] \in [Calls -> Locals]
           /\ \A r \in Rows \cup {NoRow} : [m EXCEPT ![c].before = r] \in [Calls -> Locals]
           /\ \A r \in Rows \cup {NoRow} : [m EXCEPT ![c].current = r] \in [Calls -> Locals]
           /\ \A b \in BOOLEAN : [m EXCEPT ![c].done = b] \in [Calls -> Locals]
           /\ \A b \in BOOLEAN : [m EXCEPT ![c].vectorReady = b] \in [Calls -> Locals]
BY LocalType

LEMMA RawReadyType ==
    ASSUME TypeOK, NEW k \in Keys, NEW r \in Rows \cup {NoRow}
    PROVE  RawReady(k, r) \in BOOLEAN
<1>1. kinds[k] \in Kinds
  BY DEF TypeOK
<1>2. r.forgotten \in BOOLEAN
  <2>1. CASE r \in Rows
    BY <2>1 DEF Rows
  <2>2. CASE r = NoRow
    BY <2>2 DEF NoRow
  <2> QED
    BY <2>1, <2>2
<1> QED
  BY <1>1, <1>2 DEF RawReady, Kinds, Present

\* Every step assigns typed locals to the call that makes it.
LEMMA CallsStep ==
    ASSUME TypeOK, [Next]_vars
    PROVE  calls' \in [Calls -> Locals]
<1> USE DEF Running, Returned, Performing, Failing
<1>0. /\ calls \in [Calls -> Locals]
      /\ row \in Rows \cup {NoRow}
      /\ \A c \in Calls : KeyOf[c] \in Keys
      /\ \A k \in Keys : /\ ops[k].before \in Rows \cup {NoRow}
                         /\ ops[k].done \in BOOLEAN /\ ops[k].planned \in BOOLEAN
  BY MutationAssumption DEF TypeOK, Locals, Operations
<1>1. ASSUME NEW c \in Calls, NEW p \in Running \cup Returned, Goto(c, p)
      PROVE  calls' \in [Calls -> Locals]
  BY <1>0, <1>1, LocalType DEF Goto
<1>2. ASSUME NEW c \in Calls, NEW p \in Running \cup Returned, NEW b \in BOOLEAN,
             Return(c, p, b)
      PROVE  calls' \in [Calls -> Locals]
  BY <1>2, CallsType, NewCallType DEF Return
<1>3. ASSUME NEW c \in Calls, Arrive(c) \/ Begin(c) PROVE calls' \in [Calls -> Locals]
  <2>1. CASE Arrive(c)
    BY <1>1, <1>2, <2>1 DEF Arrive
  <2>2. CASE Begin(c)
    <3>1. CASE Return(c, "notFound", FALSE)
      BY <1>2, <3>1
    <3>2. ASSUME NEW r \in Rows \cup {NoRow},
                 calls' = [calls EXCEPT ![c].pc = "claim", ![c].before = r]
          PROVE  calls' \in [Calls -> Locals]
      BY <1>0, <3>2, FieldType
    <3> QED
      BY <1>0, <2>2, <3>1, <3>2 DEF Begin
  <2> QED
    BY <1>3, <2>1, <2>2
<1>4. ASSUME NEW c \in Calls, Claim(c) PROVE calls' \in [Calls -> Locals]
  <2>1. CASE Perform(c)
    BY <2>1, CallsType, NewCallType DEF Perform
  <2> QED
    BY <1>0, <1>2, <1>4, <2>1 DEF Claim
<1>5. ASSUME NEW c \in Calls, ReadCurrent(c) PROVE calls' \in [Calls -> Locals]
  <2>1. PICK p \in {"write", "vector", "fail"}, b \in BOOLEAN :
          calls' = [calls EXCEPT ![c].current = row, ![c].vectorReady = FALSE,
                                 ![c].done = b, ![c].pc = p]
    <3> DEFINE p == IF Kind(c) = "purge" THEN IF Present(row) THEN "write" ELSE "vector"
                    ELSE IF Live(row) THEN "write"
                    ELSE IF Kind(c) = "delete" THEN "vector" ELSE "fail"
               b == Kind(c) = "purge" /\ Present(row)
    <3>1. p \in {"write", "vector", "fail"} /\ b \in BOOLEAN
      OBVIOUS
    <3>2. calls' = [calls EXCEPT ![c].current = row, ![c].vectorReady = FALSE,
                                 ![c].done = b, ![c].pc = p]
      BY <1>5 DEF ReadCurrent
    <3> QED
      BY <3>1, <3>2
  <2> QED
    BY <1>0, <2>1, FieldType
<1>6. ASSUME NEW c \in Calls, ListRecords(c) PROVE calls' \in [Calls -> Locals]
  <2>1. PICK p \in {"write", "plan"}, r \in Rows \cup {NoRow} :
          calls' = [calls EXCEPT ![c].pc = p, ![c].current = r]
    BY <1>0, <1>6 DEF ListRecords
  <2> QED
    BY <1>0, <2>1, FieldType
<1>7. ASSUME NEW c \in Calls, NEW p \in Running, NEW b \in BOOLEAN, Written(c, p, b)
      PROVE  calls' \in [Calls -> Locals]
  BY <1>0, <1>7, FieldType DEF Written
<1>8. ASSUME NEW c \in Calls, WriteRow(c) PROVE calls' \in [Calls -> Locals]
  BY <1>7, <1>8 DEF WriteRow
<1>9. ASSUME NEW c \in Calls, DeleteListed(c) PROVE calls' \in [Calls -> Locals]
  <2>1. Present(calls[c].current) \in BOOLEAN
    BY DEF Present
  <2> QED
    BY <1>7, <1>9, <2>1 DEF DeleteListed
<1>10. ASSUME NEW c \in Calls, ProjectVector(c) PROVE calls' \in [Calls -> Locals]
  <2>1. PICK p \in {"history", "event"}, b \in BOOLEAN :
          calls' = [calls EXCEPT ![c].pc = p, ![c].vectorReady = b]
    BY <1>10 DEF ProjectVector, DeletedFromIndex
  <2> QED
    BY <1>0, <2>1, FieldType
<1>11. ASSUME NEW c \in Calls, CommitOperation(c) PROVE calls' \in [Calls -> Locals]
  <2>1. Result(c) \in BOOLEAN
    <3>1. calls[c].done \in BOOLEAN
      BY DEF TypeOK
    <3> QED
      BY <3>1 DEF Result
  <2> QED
    BY <1>2, <1>11, <2>1 DEF CommitOperation
<1>12. ASSUME NEW c \in Calls,
              \/ ReadRated(c) \/ PlanOperation(c) \/ AddHistory(c) \/ AppendEvent(c)
              \/ FailOperation(c) \/ Crash(c)
       PROVE  calls' \in [Calls -> Locals]
  BY <1>1, <1>2, <1>12 DEF ReadRated, PlanOperation, AddHistory, AppendEvent,
                           FailOperation, Crash
<1>14. ASSUME NEW c \in Calls, StepThrows(c) PROVE calls' \in [Calls -> Locals]
  BY <1>14, CallsType, NewCallType DEF StepThrows
<1>15. ASSUME NEW c \in Calls, InspectRow(c) PROVE calls' \in [Calls -> Locals]
  <2>1. PICK found \in {row, NoRow} :
          \/ calls' = [calls EXCEPT ![c] =
               [NewCall EXCEPT !.pc = "record", !.vectorReady = RawReady(KeyOf[c], found)]]
          \/ calls' = [calls EXCEPT ![c] = [NewCall EXCEPT !.pc = "inspect", !.current = found]]
    BY <1>15, InspectRowEffect
  <2>2. found \in Rows \cup {NoRow} /\ RawReady(KeyOf[c], found) \in BOOLEAN
    BY <1>0, RawReadyType
  <2>3. /\ [NewCall EXCEPT !.pc = "record"] \in Locals
        /\ [NewCall EXCEPT !.pc = "inspect"] \in Locals
    BY NewCallType
  <2> DEFINE ready == RawReady(KeyOf[c], found)
             l == [NewCall EXCEPT !.pc = "record"]
             m == [NewCall EXCEPT !.pc = "inspect"]
  <2>4. /\ [NewCall EXCEPT !.pc = "record", !.vectorReady = ready] \in Locals
        /\ [NewCall EXCEPT !.pc = "inspect", !.current = found] \in Locals
    <3>1. /\ [NewCall EXCEPT !.pc = "record", !.vectorReady = ready]
              = [l EXCEPT !.vectorReady = ready]
          /\ [NewCall EXCEPT !.pc = "inspect", !.current = found] = [m EXCEPT !.current = found]
      BY DEF NewCall
    <3>2. [l EXCEPT !.vectorReady = ready] \in Locals
      BY <2>2, <2>3, LocalType
    <3>3. [m EXCEPT !.current = found] \in Locals
      BY <2>2, <2>3, LocalType
    <3> QED
      BY <3>1, <3>2, <3>3
  <2> QED
    BY <2>1, <2>4, CallsType
<1>16. ASSUME NEW c \in Calls, InspectVector(c) PROVE calls' \in [Calls -> Locals]
  <2>1. PICK ok \in BOOLEAN :
          calls' = [calls EXCEPT ![c].pc = "record", ![c].current = NoRow,
            ![c].vectorReady = ok /\ VectorReady(KeyOf[c], calls[c].current)]
    BY <1>16, InspectVectorEffect
  <2> DEFINE b == ok /\ VectorReady(KeyOf[c], calls[c].current)
  <2>2. b \in BOOLEAN
    BY DEF VectorReady
  <2>3. calls' = [calls EXCEPT ![c].pc = "record", ![c].current = NoRow, ![c].vectorReady = b]
    BY <2>1
  <2> HIDE DEF b
  <2> QED
    BY <1>0, <2>2, <2>3, FieldType
<1>13. (\E k \in Keys : ReadVersion(k)) \/ AllReturned \/ UNCHANGED vars => UNCHANGED calls
  BY DEF ReadVersion, AllReturned, vars
<1> QED
  BY <1>0, <1>3, <1>4, <1>5, <1>6, <1>8, <1>9, <1>10, <1>11, <1>12, <1>13, <1>14, <1>15,
     <1>16 DEF Next, Step, Breaks
LEMMA OpType ==
    ASSUME NEW m \in [Keys -> Operations], NEW k \in Keys
    PROVE  /\ \A s \in {"none", "pending", "committed", "failed"} :
                [m EXCEPT ![k].status = s] \in [Keys -> Operations]
           /\ \A r \in Rows \cup {NoRow} : [m EXCEPT ![k].before = r] \in [Keys -> Operations]
           /\ \A b \in BOOLEAN : /\ [m EXCEPT ![k].planned = b] \in [Keys -> Operations]
                                 /\ [m EXCEPT ![k].done = b] \in [Keys -> Operations]
                                 /\ [m EXCEPT ![k].vector = b] \in [Keys -> Operations]
<1> DEFINE op == m[k]
<1>1. op \in Operations
  OBVIOUS
<1>2. /\ \A s \in {"none", "pending", "committed", "failed"} :
           [op EXCEPT !.status = s] \in Operations
      /\ \A r \in Rows \cup {NoRow} : [op EXCEPT !.before = r] \in Operations
      /\ \A b \in BOOLEAN : /\ [op EXCEPT !.planned = b] \in Operations
                            /\ [op EXCEPT !.done = b] \in Operations
                            /\ [op EXCEPT !.vector = b] \in Operations
  BY <1>1 DEF Operations
<1> QED
  BY <1>2

LEMMA OpsStep ==
    ASSUME TypeOK, [Next]_vars
    PROVE  ops' \in [Keys -> Operations]
<1>0. /\ ops \in [Keys -> Operations]
      /\ \A c \in Calls : /\ KeyOf[c] \in Keys
                          /\ calls[c].before \in Rows \cup {NoRow}
                          /\ calls[c].current \in Rows \cup {NoRow}
                          /\ calls[c].done \in BOOLEAN
                          /\ calls[c].vectorReady \in BOOLEAN
  BY MutationAssumption DEF TypeOK
<1>1. ASSUME NEW c \in Calls, Claim(c) PROVE ops' \in [Keys -> Operations]
  <2> DEFINE k == KeyOf[c]
             m == [ops EXCEPT ![k].status = "pending"]
  <2>1. m \in [Keys -> Operations]
    BY <1>0, OpType
  <2>2. [m EXCEPT ![k].before = calls[c].before] \in [Keys -> Operations]
    BY <1>0, <2>1, OpType
  <2>3. ops' \in {ops, m, [m EXCEPT ![k].before = calls[c].before]}
    BY <1>1 DEF Claim
  <2> HIDE DEF m
  <2> QED
    BY <1>0, <2>1, <2>2, <2>3
<1>2. ASSUME NEW c \in Calls, PlanOperation(c) PROVE ops' \in [Keys -> Operations]
  <2> DEFINE k == KeyOf[c]
             m == [ops EXCEPT ![k].before = calls[c].current]
  <2>1. m \in [Keys -> Operations]
    BY <1>0, OpType
  <2>2. [m EXCEPT ![k].planned = TRUE] \in [Keys -> Operations]
    BY <1>0, <2>1, OpType
  <2>3. ops' = [m EXCEPT ![k].planned = TRUE]
    BY <1>2 DEF PlanOperation
  <2> QED
    BY <2>2, <2>3
<1>3. ASSUME NEW c \in Calls, CommitOperation(c) PROVE ops' \in [Keys -> Operations]
  <2> DEFINE done == Result(c)
             indexed == calls[c].vectorReady \/ Kind(c) \in {"reweigh", "invalidate"}
             k == KeyOf[c]
  <2>1. done \in BOOLEAN /\ indexed \in BOOLEAN
    BY <1>0 DEF Result
  <2>2. ops' = [ops EXCEPT ![k].status = "committed", ![k].done = done,
                           ![k].vector = indexed]
    BY <1>3 DEF CommitOperation
  <2> HIDE DEF done, indexed
  <2> DEFINE m == [ops EXCEPT ![k].status = "committed"]
             n == [m EXCEPT ![k].done = done]
  <2>3. m \in [Keys -> Operations]
    BY <1>0, OpType
  <2>4. n \in [Keys -> Operations]
    BY <1>0, <2>1, <2>3, OpType
  <2>5. ops' = [n EXCEPT ![k].vector = indexed]
    BY <2>2
  <2> HIDE DEF n
  <2>6. [n EXCEPT ![k].vector = indexed] \in [Keys -> Operations]
    BY <1>0, <2>1, <2>4, OpType
  <2> QED
    BY <2>5, <2>6
<1>4. ASSUME NEW c \in Calls, FailOperation(c) PROVE ops' \in [Keys -> Operations]
  <2> DEFINE k == KeyOf[c]
             indexed == calls[c].vectorReady
             m == [ops EXCEPT ![k].status = "failed"]
  <2>1. ops' = [m EXCEPT ![k].vector = indexed]
    BY <1>4 DEF FailOperation
  <2>2. m \in [Keys -> Operations]
    BY <1>0, OpType
  <2> HIDE DEF m
  <2>3. [m EXCEPT ![k].vector = indexed] \in [Keys -> Operations]
    BY <1>0, <2>2, OpType
  <2> QED
    BY <2>1, <2>3
<1>5. ASSUME NEW c \in Calls,
             \/ Arrive(c) \/ Begin(c) \/ ReadCurrent(c) \/ ReadRated(c) \/ ListRecords(c)
             \/ WriteRow(c) \/ DeleteListed(c) \/ ProjectVector(c) \/ AddHistory(c)
             \/ AppendEvent(c) \/ Breaks(c)
      PROVE  UNCHANGED ops
  BY <1>5 DEF Arrive, Begin, ReadCurrent, ReadRated, ListRecords, WriteRow, DeleteListed,
              ProjectVector, AddHistory, AppendEvent, Breaks, StepThrows, InspectRow,
              InspectVector, Crash
<1>6. (\E k \in Keys : ReadVersion(k)) \/ AllReturned \/ UNCHANGED vars => UNCHANGED ops
  BY DEF ReadVersion, AllReturned, vars
<1> QED
  BY <1>0, <1>1, <1>2, <1>3, <1>4, <1>5, <1>6 DEF Next, Step, Breaks

\* What the writes of the row, the index and the entries leave.
LEMMA PatchedType ==
    ASSUME TypeOK, NEW c \in Calls, Present(calls[c].current),
           Kind(c) \in {"update", "reweigh", "invalidate"}
    PROVE  /\ Patched(c) \in Rows
           /\ Patched(c).forgotten = calls[c].current.forgotten
           /\ Patched(c).version = KeyOf[c]
           /\ Patched(c).content =
                IF Kind(c) = "update" THEN KeyOf[c] ELSE calls[c].current.content
           /\ Patched(c).validTo =
                IF Kind(c) = "invalidate" THEN KeyOf[c] ELSE calls[c].current.validTo
<1>1. calls[c].current \in Rows /\ KeyOf[c] \in Keys /\ KeyOf[c] \in Values
  BY MutationAssumption DEF TypeOK, Present, Values
<1>2. CASE Kind(c) = "update"
  BY <1>1, <1>2 DEF Patched, Base, Rows
<1>3. CASE Kind(c) = "reweigh"
  BY <1>1, <1>3 DEF Patched, Base, Rows
<1>4. CASE Kind(c) = "invalidate"
  BY <1>1, <1>4 DEF Patched, Base, Rows
<1> QED
  BY <1>2, <1>3, <1>4

LEMMA TombstoneType ==
    ASSUME NEW r \in Rows, NEW k \in Keys
    PROVE  /\ [r EXCEPT !.forgotten = TRUE, !.version = k] \in Rows
           /\ [r EXCEPT !.forgotten = TRUE, !.version = k].forgotten = TRUE
           /\ [r EXCEPT !.forgotten = TRUE, !.version = k].version = k
           /\ [r EXCEPT !.forgotten = TRUE, !.version = k].content = r.content
           /\ [r EXCEPT !.forgotten = TRUE, !.version = k].validTo = r.validTo
BY DEF Rows, Values

\* No row is not a row: nothing that is stored has the content of no row.
LEMMA NoRowIsNone == NoRow \notin Rows
BY MutationAssumption DEF NoRow, Rows, Values

\* The record, its index entry and its entries keep their types.
LEMMA RecordStep ==
    ASSUME TypeOK, [Next]_vars
    PROVE  /\ row' \in Rows \cup {NoRow} /\ vector' \in Values \cup {Absent}
           /\ history' \subseteq Keys /\ events' \subseteq Keys
<1>0. /\ row \in Rows \cup {NoRow} /\ vector \in Values \cup {Absent}
      /\ history \subseteq Keys /\ events \subseteq Keys
      /\ \A c \in Calls : KeyOf[c] \in Keys /\ KeyOf[c] \in Values
  BY MutationAssumption DEF TypeOK, Values
<1>1. ASSUME NEW c \in Calls, WriteRow(c)
      PROVE  row' \in Rows \cup {NoRow} /\ history' \subseteq Keys
             /\ UNCHANGED <<vector, events>>
  <2>1. calls[c].pc = "write" => Present(calls[c].current) \/ Kind(c) = "deleteAll"
    BY DEF TypeOK, Kind
  <2>2. Present(row) => row \in Rows
    BY <1>0 DEF Present
  <2>3. CASE Kind(c) \in {"update", "reweigh", "invalidate"}
    BY <1>0, <1>1, <2>1, <2>3, WriteEffect, PatchedType
  <2>4. CASE Kind(c) = "delete"
    <3> DEFINE tombstone == [row EXCEPT !.forgotten = TRUE, !.version = KeyOf[c]]
    <3>1. Present(row) => tombstone \in Rows
      BY <1>0, <2>2, TombstoneType
    <3>2. /\ row' = row \/ row' = NoRow \/ (Present(row) /\ row' = tombstone)
          /\ UNCHANGED <<vector, events, history>>
      BY <1>1, <2>4, WriteEffect
    <3> HIDE DEF tombstone
    <3> QED
      BY <1>0, <3>1, <3>2
  <2>5. CASE Kind(c) = "purge"
    BY <1>0, <1>1, <2>5, WriteEffect
  <2> QED
    BY <1>1, <2>3, <2>4, <2>5, WriteEffect
<1>2. ASSUME NEW c \in Calls, DeleteListed(c)
      PROVE  row' \in Rows \cup {NoRow} /\ history' \subseteq Keys
             /\ UNCHANGED <<vector, events>>
  BY <1>0, <1>2, DeleteListedEffect
<1>3. ASSUME NEW c \in Calls, ProjectVector(c)
      PROVE  vector' \in Values \cup {Absent} /\ UNCHANGED <<row, history, events>>
  BY <1>0, <1>3, ProjectEffect
<1>4. ASSUME NEW c \in Calls, AddHistory(c) \/ AppendEvent(c)
      PROVE  history' \subseteq Keys /\ events' \subseteq Keys /\ UNCHANGED <<row, vector>>
  BY <1>0, <1>4, EntryEffect DEF record
<1>5. ASSUME NEW c \in Calls,
             \/ Arrive(c) \/ Begin(c) \/ Claim(c) \/ ReadCurrent(c) \/ ReadRated(c)
             \/ ListRecords(c) \/ PlanOperation(c) \/ CommitOperation(c)
             \/ Breaks(c) \/ FailOperation(c)
      PROVE  UNCHANGED <<row, vector, history, events>>
  BY <1>5 DEF Arrive, Begin, Claim, ReadCurrent, ReadRated, ListRecords, PlanOperation,
              CommitOperation, Breaks, StepThrows, InspectRow, InspectVector, FailOperation, Crash, record
<1>6. (\E k \in Keys : ReadVersion(k)) \/ AllReturned \/ UNCHANGED vars
      => UNCHANGED <<row, vector, history, events>>
  BY DEF ReadVersion, AllReturned, vars, record
<1> QED
  BY <1>0, <1>1, <1>2, <1>3, <1>4, <1>5, <1>6 DEF Next, Step, Breaks

\* What clients decided stays decided.
LEMMA CommandsStep ==
    ASSUME TypeOK, [Next]_vars
    PROVE  /\ UNCHANGED <<serial, kinds>>
           /\ UNCHANGED asserted \/ \E k \in Keys : ReadVersion(k)
<1>1. ASSUME NEW c \in Calls, Step(c) PROVE UNCHANGED commands
  BY <1>1 DEF Step, Arrive, Begin, Claim, ReadCurrent, ReadRated, ListRecords,
              PlanOperation, WriteRow, DeleteListed, ProjectVector, AddHistory,
              AppendEvent, CommitOperation, Breaks, StepThrows, InspectRow, InspectVector, FailOperation, Crash
<1>2. AllReturned \/ UNCHANGED vars => UNCHANGED commands
  BY DEF AllReturned, vars, commands
<1>3. ASSUME NEW k \in Keys, ReadVersion(k) PROVE UNCHANGED <<serial, kinds>>
  BY <1>3 DEF ReadVersion
<1> QED
  BY <1>1, <1>2, <1>3 DEF Next, commands

LEMMA CallSteps ==
    ASSUME TypeOK, [Next]_vars, NEW c \in Calls
    PROVE  calls'[c] = calls[c] \/ Step(c)
<1>1. ASSUME NEW d \in Calls, Step(d) PROVE OthersKept(d)
  <2>1. CASE \/ Arrive(d) \/ Begin(d) \/ Claim(d) \/ ReadCurrent(d) \/ ReadRated(d)
             \/ ListRecords(d) \/ PlanOperation(d)
    BY <2>1, ArriveEffect, BeginEffect, ClaimEffect, ReadCurrentEffect, ReadRatedEffect,
       ListEffect, PlanEffect
  <2>2. CASE \/ WriteRow(d) \/ DeleteListed(d) \/ ProjectVector(d) \/ AddHistory(d)
             \/ AppendEvent(d) \/ CommitOperation(d)
             \/ FailOperation(d) \/ Breaks(d)
    BY <2>2, WriteEffect, DeleteListedEffect, ProjectEffect, EntryEffect, CommitEffect,
       FailEffect, BreakEffect
  <2> QED
    BY <1>1, <2>1, <2>2 DEF Step, Breaks
<1>2. (\E k \in Keys : ReadVersion(k)) \/ AllReturned \/ UNCHANGED vars => UNCHANGED calls
  BY DEF ReadVersion, AllReturned, vars
<1> QED
  BY <1>1, <1>2 DEF Next, OthersKept
LEMMA KindsStep == TypeOK /\ StepsOfKinds /\ [Next]_vars => StepsOfKinds'
<1> SUFFICES ASSUME TypeOK, StepsOfKinds, [Next]_vars, NEW c \in Calls
             PROVE  /\ calls'[c].pc = "plan" => Kind(c) = "deleteAll"
                    /\ calls'[c].pc = "write" => Kind(c) # "feedback"
                    /\ calls'[c].pc = "vector" =>
                         Kind(c) \in {"update", "delete", "purge", "deleteAll"}
                    /\ calls'[c].pc = "history" => Kind(c) \notin {"purge", "deleteAll"}
  BY CommandsStep DEF StepsOfKinds, Kind
<1>0. /\ calls[c].pc = "plan" => Kind(c) = "deleteAll"
      /\ calls[c].pc = "write" => Kind(c) # "feedback"
      /\ calls[c].pc = "vector" => Kind(c) \in {"update", "delete", "purge", "deleteAll"}
      /\ calls[c].pc = "history" => Kind(c) \notin {"purge", "deleteAll"}
  BY DEF StepsOfKinds
<1>1. CASE calls'[c] = calls[c]
  BY <1>0, <1>1
<1>2. CASE Arrive(c) \/ Begin(c) \/ Claim(c)
  <2>1. NewCall.pc = "idle" /\ [NewCall EXCEPT !.pc = "read"].pc = "read"
    BY DEF NewCall
  <2> QED
    BY <1>2, <2>1, ArriveEffect, BeginEffect, ClaimEffect
<1>3. CASE ReadCurrent(c) \/ ReadRated(c) \/ ListRecords(c) \/ PlanOperation(c)
  BY <1>0, <1>3, ReadCurrentEffect, ReadRatedEffect, ListEffect, PlanEffect
<1>4. CASE WriteRow(c) \/ DeleteListed(c) \/ ProjectVector(c)
  BY <1>4, WriteEffect, DeleteListedEffect, ProjectEffect
<1>5. CASE \/ AddHistory(c) \/ AppendEvent(c) \/ CommitOperation(c)
           \/ Breaks(c) \/ FailOperation(c)
  BY <1>5, EntryEffect, CommitEffect, FailEffect, BreakEffect
<1> QED
  BY <1>1, <1>2, <1>3, <1>4, <1>5, CallSteps DEF Step, Breaks

LEMMA TypeStep == TypeOK /\ StepsOfKinds /\ [Next]_vars => TypeOK'
<1> SUFFICES ASSUME TypeOK, StepsOfKinds, [Next]_vars PROVE TypeOK'
  OBVIOUS
<1>1. /\ serial' \in BOOLEAN /\ kinds' \in [Keys -> Kinds]
      /\ asserted' \in [Keys -> Values \cup {Absent}]
  <2>1. ASSUME NEW k \in Keys, ReadVersion(k)
        PROVE  asserted' \in [Keys -> Values \cup {Absent}]
    <3>1. row.version \in Values
      BY <2>1 DEF ReadVersion, Live, Present, TypeOK, Rows
    <3> QED
      BY <2>1, <3>1 DEF ReadVersion, TypeOK
  <2> QED
    BY <2>1, CommandsStep DEF TypeOK
<1>2. ASSUME NEW c \in Calls, calls'[c].pc = "write"
      PROVE  Present(calls'[c].current) \/ kinds'[KeyOf[c]] = "deleteAll"
  <2>0. UNCHANGED kinds
    BY CommandsStep
  <2>1. CASE calls'[c] = calls[c]
    BY <1>2, <2>0, <2>1 DEF TypeOK
  <2>2. CASE Arrive(c) \/ Begin(c) \/ Claim(c)
    <3>1. [NewCall EXCEPT !.pc = "read"].pc = "read"
      BY DEF NewCall
    <3> QED
      BY <1>2, <2>2, <3>1, ArriveEffect, BeginEffect, ClaimEffect
  <2>3. CASE ReadCurrent(c) \/ ReadRated(c) \/ ListRecords(c)
    BY <1>2, <2>0, <2>3, ReadCurrentEffect, ReadRatedEffect, ListEffect DEF Kind
  <2>4. CASE PlanOperation(c)
    BY <2>0, <2>4, PlanEffect DEF StepsOfKinds, Kind
  <2>5. CASE WriteRow(c) \/ DeleteListed(c) \/ ProjectVector(c)
    BY <1>2, <2>5, WriteEffect, DeleteListedEffect, ProjectEffect
  <2>6. CASE \/ AddHistory(c) \/ AppendEvent(c) \/ CommitOperation(c)
             \/ Breaks(c) \/ FailOperation(c)
    BY <1>2, <2>6, EntryEffect, CommitEffect, FailEffect, BreakEffect
  <2> QED
    BY <2>1, <2>2, <2>3, <2>4, <2>5, <2>6, CallSteps DEF Step, Breaks
<1>3. calls' \in [Calls -> Locals] /\ ops' \in [Keys -> Operations]
  BY CallsStep, OpsStep
<1>4. /\ row' \in Rows \cup {NoRow} /\ vector' \in Values \cup {Absent}
      /\ history' \subseteq Keys /\ events' \subseteq Keys
  BY RecordStep
<1> QED
  BY <1>1, <1>2, <1>3, <1>4 DEF TypeOK, Locals

-----------------------------------------------------------------------------
(* Calls that may overlap.                                                 *)

\* A step of a call writes its own operation only.
LEMMA OpSteps ==
    ASSUME TypeOK, [Next]_vars, NEW k \in Keys
    PROVE  \/ ops'[k] = ops[k]
           \/ \E c \in Calls : /\ KeyOf[c] = k
                               /\ \/ Claim(c) \/ PlanOperation(c)
                                  \/ CommitOperation(c) \/ FailOperation(c)
<1>1. ASSUME NEW c \in Calls,
             Claim(c) \/ PlanOperation(c) \/ CommitOperation(c) \/ FailOperation(c)
      PROVE  OnlyOp(KeyOf[c])
  BY <1>1, ClaimEffect, PlanEffect, CommitEffect, FailEffect
<1>2. ASSUME NEW c \in Calls,
             \/ Arrive(c) \/ Begin(c) \/ ReadCurrent(c) \/ ReadRated(c) \/ ListRecords(c)
             \/ WriteRow(c) \/ DeleteListed(c) \/ ProjectVector(c) \/ AddHistory(c)
             \/ AppendEvent(c) \/ Breaks(c)
      PROVE  UNCHANGED ops
  BY <1>2 DEF Arrive, Begin, ReadCurrent, ReadRated, ListRecords, WriteRow, DeleteListed,
              ProjectVector, AddHistory, AppendEvent, Breaks, StepThrows, InspectRow,
              InspectVector, Crash
<1>3. (\E j \in Keys : ReadVersion(j)) \/ AllReturned \/ UNCHANGED vars => UNCHANGED ops
  BY DEF ReadVersion, AllReturned, vars
<1> QED
  BY <1>1, <1>2, <1>3 DEF Next, Step, Breaks, OnlyOp

\* Who performs an operation: it was claimed, by one call.
LEMMA ActingSteps ==
    ASSUME TypeOK, [Next]_vars, NEW c \in Calls, calls'[c].pc \in Acting
    PROVE  \/ calls'[c] = calls[c]
           \/ /\ calls[c].pc \in Acting
              /\ ops'[KeyOf[c]].status = ops[KeyOf[c]].status
           \/ /\ Claim(c) /\ ops'[KeyOf[c]].status = "pending"
              /\ ops[KeyOf[c]].status = "none" \/ Resumable(KeyOf[c])
<1> USE DEF Acting, Performing, Failing
<1>1. CASE Arrive(c) \/ Begin(c)
  BY <1>1, ArriveEffect, BeginEffect
<1>2. CASE Claim(c)
  BY <1>2, ClaimEffect
<1>3. CASE ReadCurrent(c) \/ ReadRated(c) \/ ListRecords(c) \/ PlanOperation(c)
  BY <1>3, ReadCurrentEffect, ReadRatedEffect, ListEffect, PlanEffect
<1>4. CASE WriteRow(c) \/ DeleteListed(c) \/ ProjectVector(c)
  BY <1>4, WriteEffect, DeleteListedEffect, ProjectEffect
<1>5. CASE AddHistory(c) \/ AppendEvent(c) \/ CommitOperation(c) \/ FailOperation(c)
  BY <1>5, EntryEffect, CommitEffect, FailEffect
<1>6. CASE Breaks(c)
  BY <1>6, BreakEffect
<1> QED
  BY <1>1, <1>2, <1>3, <1>4, <1>5, <1>6, CallSteps DEF Step, Breaks

LEMMA OneActsStep == TypeOK /\ OneActs /\ [Next]_vars => OneActs'
<1> SUFFICES ASSUME TypeOK, OneActs, [Next]_vars PROVE OneActs'
  OBVIOUS
<1>0. \A c \in Calls : KeyOf[c] \in Keys
  BY MutationAssumption
<1>1. ASSUME NEW c \in Calls, calls'[c].pc \in Acting
      PROVE  ops'[KeyOf[c]].status = "pending"
  <2>1. ASSUME calls[c].pc \in Acting, NEW d \in Calls, d # c, KeyOf[d] = KeyOf[c],
               \/ Claim(d) \/ PlanOperation(d) \/ CommitOperation(d) \/ FailOperation(d)
        PROVE  ops'[KeyOf[c]].status = "pending"
    <3>1. ops[KeyOf[c]].status = "pending" /\ calls[d].pc \notin Acting
      BY <2>1 DEF OneActs
    <3>2. Claim(d)
      BY <2>1, <3>1, PlanEffect, CommitEffect, FailEffect DEF Acting, Performing, Failing
    <3> QED
      BY <2>1, <3>1, <3>2, ClaimEffect
  <2>2. CASE calls[c].pc \in Acting /\ ops'[KeyOf[c]].status = ops[KeyOf[c]].status
    BY <2>2 DEF OneActs
  <2>3. CASE calls'[c] = calls[c]
    <3>1. calls[c].pc \in Acting
      BY <1>1, <2>3
    <3>2. ~(Claim(c) \/ PlanOperation(c) \/ CommitOperation(c) \/ FailOperation(c))
      <4>1. calls'[c].pc = calls[c].pc
        BY <2>3
      <4>2. calls[c].pc # "claim"
        BY <3>1 DEF Acting, Performing, Failing
      <4> QED
        BY <4>1, <4>2, ClaimEffect, PlanEffect, CommitEffect, FailEffect
    <3> QED
      BY <1>0, <2>1, <2>2, <3>1, <3>2, OpSteps
  <2> QED
    BY <1>1, <2>2, <2>3, ActingSteps
<1>2. ASSUME NEW c \in Calls, NEW d \in Calls, KeyOf[c] = KeyOf[d],
             calls'[c].pc \in Acting, calls'[d].pc \in Acting, c # d
      PROVE  FALSE
  <2>1. ASSUME NEW e \in Calls, NEW f \in Calls, KeyOf[e] = KeyOf[f], e # f,
               Claim(e), ops[KeyOf[e]].status = "none" \/ Resumable(KeyOf[e]),
               calls'[f].pc \in Acting
        PROVE  FALSE
    <3>1. calls'[f] = calls[f]
      BY <2>1, ClaimEffect DEF OthersKept
    <3>2. calls[f].pc \in Acting /\ ops[KeyOf[e]].status = "pending"
      BY <2>1, <3>1 DEF OneActs, Acting
    <3> QED
      BY <2>1, <3>2 DEF Resumable, Owned, Acting
  <2>2. calls[c].pc \in Acting /\ calls[d].pc \in Acting
    BY <1>2, <2>1, ActingSteps
  <2> QED
    BY <1>2, <2>2 DEF OneActs
<1> QED
  BY <1>1, <1>2 DEF OneActs
\* The operation of a call in an attempt is left to that call.
LEMMA OpKept ==
    ASSUME TypeOK, OneActs, [Next]_vars, NEW c \in Calls, calls[c].pc \in Acting,
           calls'[c] = calls[c]
    PROVE  ops'[KeyOf[c]] = ops[KeyOf[c]]
<1>0. KeyOf[c] \in Keys
  BY MutationAssumption
<1>1. ASSUME NEW d \in Calls, KeyOf[d] = KeyOf[c],
             PlanOperation(d) \/ CommitOperation(d) \/ FailOperation(d)
      PROVE  FALSE
  <2>1. calls[d].pc \in Acting /\ calls'[d].pc # calls[d].pc
    BY <1>1, PlanEffect, CommitEffect, FailEffect DEF Acting, Performing, Failing
  <2>2. d = c
    BY <1>1, <2>1 DEF OneActs
  <2> QED
    BY <2>1, <2>2
<1>2. ASSUME NEW d \in Calls, KeyOf[d] = KeyOf[c], Claim(d)
      PROVE  ops'[KeyOf[c]] = ops[KeyOf[c]]
  <2>1. ops[KeyOf[c]].status = "pending" /\ Owned(KeyOf[c])
    BY DEF OneActs, Owned, Acting
  <2> QED
    BY <1>2, <2>1, ClaimEffect DEF Resumable
<1> QED
  BY <1>0, <1>1, <1>2, OpSteps

\* A record that is gone does not come back: every write is an UPDATE.
LEMMA AbsentStays ==
    ASSUME TypeOK, [Next]_vars, ~Present(row)
    PROVE  ~Present(row')
<1>1. ASSUME NEW c \in Calls, WriteRow(c) \/ DeleteListed(c) PROVE ~Present(row')
  BY <1>1, WriteEffect, DeleteListedEffect DEF Present
<1>2. ASSUME NEW c \in Calls,
             \/ Arrive(c) \/ Begin(c) \/ Claim(c) \/ ReadCurrent(c) \/ ReadRated(c)
             \/ ListRecords(c) \/ PlanOperation(c) \/ ProjectVector(c) \/ AddHistory(c)
             \/ AppendEvent(c) \/ CommitOperation(c)
             \/ Breaks(c) \/ FailOperation(c)
      PROVE  UNCHANGED row
  BY <1>2 DEF Arrive, Begin, Claim, ReadCurrent, ReadRated, ListRecords, PlanOperation,
              ProjectVector, AddHistory, AppendEvent, CommitOperation, Breaks, StepThrows,
              InspectRow, InspectVector, FailOperation, Crash, record
<1>3. (\E k \in Keys : ReadVersion(k)) \/ AllReturned \/ UNCHANGED vars => UNCHANGED row
  BY DEF ReadVersion, AllReturned, vars, record
<1> QED
  BY <1>1, <1>2, <1>3 DEF Next, Step, Breaks

LEMMA FrozenStep ==
    TypeOK /\ OneActs /\ StepsOfKinds /\ ListIsFrozen /\ [Next]_vars => ListIsFrozen'
<1> SUFFICES ASSUME TypeOK, OneActs, StepsOfKinds, ListIsFrozen, [Next]_vars
             PROVE  ListIsFrozen'
  OBVIOUS
<1>0. UNCHANGED kinds /\ \A c \in Calls : KeyOf[c] \in Keys
  BY CommandsStep, MutationAssumption
<1>a. ~Present(NoRow)
  BY DEF Present
<1>1. ASSUME NEW k \in Keys, kinds[k] = "deleteAll", Present(ops'[k].before)
      PROVE  ops'[k].planned
  <2>1. CASE ops'[k] = ops[k]
    BY <1>1, <2>1 DEF ListIsFrozen
  <2>2. ASSUME NEW c \in Calls, KeyOf[c] = k, Claim(c) PROVE ops'[k].planned
    <3>1. ops'[k].before \in {ops[k].before, NoRow} /\ ops'[k].planned = ops[k].planned
      BY <1>1, <2>2, ClaimEffect DEF ListIsFrozen, Kind
    <3> QED
      BY <1>1, <1>a, <3>1 DEF ListIsFrozen
  <2>3. ASSUME NEW c \in Calls, KeyOf[c] = k, PlanOperation(c) PROVE ops'[k].planned
    BY <2>3, PlanEffect
  <2>4. ASSUME NEW c \in Calls, KeyOf[c] = k, CommitOperation(c) \/ FailOperation(c)
        PROVE  ops'[k].planned
    <3>1. ops'[k].before = ops[k].before /\ ops'[k].planned = ops[k].planned
      BY <2>4, CommitEffect, FailEffect
    <3> QED
      BY <1>1, <3>1 DEF ListIsFrozen
  <2> QED
    BY <2>1, <2>2, <2>3, <2>4, OpSteps
<1>2. ASSUME NEW c \in Calls, Kind(c) = "deleteAll"
      PROVE  /\ calls'[c].pc = "claim" => calls'[c].before = NoRow
             /\ calls'[c].pc = "plan" => ~ops'[KeyOf[c]].planned
             /\ calls'[c].pc = "write" =>
                  ops'[KeyOf[c]].planned /\ calls'[c].current = ops'[KeyOf[c]].before
             /\ calls'[c].pc \in {"vector", "event", "commit"} =>
                  /\ Present(ops'[KeyOf[c]].before) => calls'[c].done
                  /\ calls'[c].done => ~Present(row')
  <2>0. /\ calls[c].pc = "claim" => calls[c].before = NoRow
        /\ calls[c].pc = "plan" => ~ops[KeyOf[c]].planned
        /\ calls[c].pc = "write" =>
             ops[KeyOf[c]].planned /\ calls[c].current = ops[KeyOf[c]].before
        /\ calls[c].pc \in {"vector", "event", "commit"} =>
             /\ Present(ops[KeyOf[c]].before) => calls[c].done
             /\ calls[c].done => ~Present(row)
    BY <1>2 DEF ListIsFrozen
  <2>1. CASE calls'[c] = calls[c]
    <3>1. CASE calls[c].pc \in {"plan", "write", "vector", "event", "commit"}
      <4>1. ops'[KeyOf[c]] = ops[KeyOf[c]]
        BY <2>1, <3>1, OpKept DEF Acting, Performing, Failing
      <4> QED
        BY <2>0, <2>1, <3>1, <4>1, AbsentStays
    <3> QED
      BY <2>0, <2>1, <3>1
  <2>2. CASE Arrive(c) \/ Begin(c)
    BY <1>2, <2>2, ArriveEffect, BeginEffect
  <2>3. CASE Claim(c)
    <3>1. [NewCall EXCEPT !.pc = "read"].pc = "read"
      BY DEF NewCall
    <3> QED
      BY <2>3, <3>1, ClaimEffect
  <2>4. CASE ReadCurrent(c) \/ ReadRated(c)
    BY <1>2, <2>4, ReadCurrentEffect, ReadRatedEffect
  <2>5. CASE ListRecords(c) \/ PlanOperation(c)
    <3>1. CASE ListRecords(c)
      <4>1. ops' = ops
        BY <3>1, ListEffect
      <4> QED
        BY <3>1, <4>1, ListEffect
    <3>2. CASE PlanOperation(c)
      <4>1. /\ calls'[c].pc = "write" /\ ops'[KeyOf[c]].planned = TRUE
            /\ ops'[KeyOf[c]].before = calls[c].current
            /\ calls'[c].current = calls[c].current
        BY <3>2, PlanEffect
      <4> QED
        BY <4>1
    <3> QED
      BY <2>5, <3>1, <3>2
  <2>6. CASE WriteRow(c) \/ DeleteListed(c)
    <3>1. DeleteListed(c)
      BY <1>2, <2>6, WriteEffect
    <3>2. /\ ops' = ops /\ calls'[c].pc = "vector"
          /\ calls[c].current = ops[KeyOf[c]].before
      BY <2>0, <3>1, DeleteListedEffect
    <3>3. CASE Present(calls[c].current)
      <4>1. row' = NoRow /\ calls'[c].done = TRUE
        BY <3>1, <3>3, DeleteListedEffect
      <4> QED
        BY <1>a, <3>2, <4>1
    <3>4. CASE ~Present(calls[c].current)
      <4>1. calls'[c].done = FALSE
        BY <3>1, <3>4, DeleteListedEffect
      <4> QED
        BY <3>2, <3>4, <4>1
    <3> QED
      BY <3>3, <3>4
  <2>7. CASE ProjectVector(c)
    BY <1>2, <2>0, <2>7, AbsentStays, ProjectEffect
  <2>8. CASE AddHistory(c) \/ AppendEvent(c)
    <3>1. AppendEvent(c) /\ calls[c].pc = "event" /\ calls'[c].pc = "commit"
          /\ calls'[c].done = calls[c].done /\ UNCHANGED ops
      BY <1>2, <2>8, EntryEffect DEF StepsOfKinds
    <3> QED
      BY <2>0, <3>1, AbsentStays
  <2>9. CASE CommitOperation(c) \/ FailOperation(c) \/ Breaks(c)
    BY <2>9, CommitEffect, FailEffect, BreakEffect
  <2> QED
    BY <2>1, <2>2, <2>3, <2>4, <2>5, <2>6, <2>7, <2>8, <2>9, CallSteps DEF Step, Breaks
<1> QED
  BY <1>0, <1>1, <1>2 DEF ListIsFrozen, Kind

\* What a purge or a deleteAll answers is its record's end.
LEMMA PurgeStep ==
    TypeOK /\ OneActs /\ StepsOfKinds /\ ListIsFrozen /\ PurgeIsDone /\ [Next]_vars
    => PurgeIsDone'
<1> SUFFICES ASSUME TypeOK, OneActs, StepsOfKinds, ListIsFrozen, PurgeIsDone, [Next]_vars
             PROVE  PurgeIsDone'
  OBVIOUS
<1>0. UNCHANGED kinds /\ \A c \in Calls : KeyOf[c] \in Keys
  BY CommandsStep, MutationAssumption
<1>a. ~Present(NoRow)
  BY DEF Present
<1>1. ASSUME NEW c \in Calls, Kind(c) = "purge", calls'[c].pc \in {"vector", "event", "commit"}
      PROVE  ~Present(row')
  <2>0. calls[c].pc \in {"vector", "event", "commit"} => ~Present(row)
    BY <1>1 DEF PurgeIsDone
  <2>1. CASE calls'[c] = calls[c]
    BY <1>1, <2>0, <2>1, AbsentStays
  <2>2. CASE Arrive(c) \/ Begin(c) \/ Claim(c)
    <3>1. [NewCall EXCEPT !.pc = "read"].pc = "read"
      BY DEF NewCall
    <3> QED
      BY <1>1, <2>2, <3>1, ArriveEffect, BeginEffect, ClaimEffect
  <2>3. CASE ReadCurrent(c) \/ ReadRated(c) \/ ListRecords(c) \/ PlanOperation(c)
    BY <1>1, <2>3, AbsentStays, ReadCurrentEffect, ReadRatedEffect, ListEffect, PlanEffect
  <2>4. CASE WriteRow(c) \/ DeleteListed(c)
    BY <1>1, <1>a, <2>4, WriteEffect, DeleteListedEffect
  <2>5. CASE ProjectVector(c)
    BY <2>0, <2>5, AbsentStays, ProjectEffect
  <2>6. CASE AddHistory(c) \/ AppendEvent(c)
    BY <1>1, <2>0, <2>6, AbsentStays, EntryEffect DEF StepsOfKinds
  <2>7. CASE CommitOperation(c) \/ FailOperation(c) \/ Breaks(c)
    BY <1>1, <2>7, CommitEffect, FailEffect, BreakEffect
  <2> QED
    BY <2>1, <2>2, <2>3, <2>4, <2>5, <2>6, <2>7, CallSteps DEF Step, Breaks
<1>2. ASSUME NEW k \in Keys, kinds[k] \in {"purge", "deleteAll"},
             ops'[k].status = "committed", ops'[k].done
      PROVE  ~Present(row')
  <2>1. CASE ops'[k] = ops[k]
    BY <1>2, <2>1, AbsentStays DEF PurgeIsDone
  <2>2. ASSUME NEW c \in Calls, KeyOf[c] = k, Claim(c) PROVE ~Present(row')
    <3>1. ops' = ops
      BY <1>2, <2>2, ClaimEffect
    <3> QED
      BY <2>1, <3>1
  <2>3. ASSUME NEW c \in Calls, KeyOf[c] = k, PlanOperation(c) PROVE ~Present(row')
    BY <1>2, <2>3, AbsentStays, PlanEffect DEF PurgeIsDone
  <2>4. ASSUME NEW c \in Calls, KeyOf[c] = k, CommitOperation(c) PROVE ~Present(row')
    <3>1. calls[c].pc = "commit" /\ Result(c)
      BY <1>2, <2>4, CommitEffect
    <3>2. CASE Kind(c) = "purge"
      BY <3>1, <3>2, AbsentStays DEF PurgeIsDone
    <3>3. CASE Kind(c) = "deleteAll"
      BY <3>1, <3>3, AbsentStays DEF ListIsFrozen, Result
    <3> QED
      BY <1>2, <2>4, <3>2, <3>3 DEF Kind
  <2>5. ASSUME NEW c \in Calls, KeyOf[c] = k, FailOperation(c) PROVE ~Present(row')
    BY <1>2, <2>5, FailEffect
  <2> QED
    BY <2>1, <2>2, <2>3, <2>4, <2>5, OpSteps
<1> QED
  BY <1>0, <1>1, <1>2 DEF PurgeIsDone, Kind
\* Entries are removed with their record, and events never.
LEMMA EntriesKept ==
    ASSUME TypeOK, [Next]_vars, NEW k \in Keys
    PROVE  /\ k \in events => k \in events'
           /\ k \in history => k \in history' \/ ~Present(row')
<1>a. ~Present(NoRow)
  BY DEF Present
<1>1. ASSUME NEW c \in Calls, WriteRow(c) \/ DeleteListed(c)
      PROVE  /\ k \in events => k \in events'
             /\ k \in history => k \in history' \/ ~Present(row')
  BY <1>1, <1>a, WriteEffect, DeleteListedEffect
<1>2. ASSUME NEW c \in Calls, AddHistory(c) \/ AppendEvent(c)
      PROVE  (k \in events => k \in events') /\ (k \in history => k \in history')
  BY <1>2, EntryEffect DEF record
<1>3. ASSUME NEW c \in Calls,
             \/ Arrive(c) \/ Begin(c) \/ Claim(c) \/ ReadCurrent(c) \/ ReadRated(c)
             \/ ListRecords(c) \/ PlanOperation(c) \/ ProjectVector(c)
             \/ CommitOperation(c) \/ Breaks(c) \/ FailOperation(c)
      PROVE  UNCHANGED <<history, events>>
  BY <1>3 DEF Arrive, Begin, Claim, ReadCurrent, ReadRated, ListRecords, PlanOperation,
              ProjectVector, CommitOperation, Breaks, StepThrows, InspectRow, InspectVector, FailOperation, Crash, record
<1>4. (\E j \in Keys : ReadVersion(j)) \/ AllReturned \/ UNCHANGED vars
      => UNCHANGED <<history, events>>
  BY DEF ReadVersion, AllReturned, vars, record
<1> QED
  BY <1>1, <1>2, <1>3, <1>4 DEF Next, Step, Breaks

LEMMA RecordedKept ==
    ASSUME TypeOK, [Next]_vars, NEW k \in Keys, IsRecorded(k), ops'[k].before = ops[k].before
    PROVE  IsRecorded(k)'
BY CommandsStep, EntriesKept, AbsentStays DEF IsRecorded

LEMMA EntriesStep ==
    TypeOK /\ OneActs /\ StepsOfKinds /\ EntriesFirst /\ [Next]_vars => EntriesFirst'
<1> SUFFICES ASSUME TypeOK, OneActs, StepsOfKinds, EntriesFirst, [Next]_vars
             PROVE  EntriesFirst'
  OBVIOUS
<1>0. UNCHANGED kinds /\ \A c \in Calls : KeyOf[c] \in Keys
  BY CommandsStep, MutationAssumption
<1>1. ASSUME NEW c \in Calls, NEW k, k = KeyOf[c]
      PROVE  /\ calls'[c].pc = "commit" => k \in events'
             /\ calls'[c].pc \in {"event", "commit"} => IsRecorded(k)'
  <2>k. k \in Keys
    BY <1>0, <1>1
  <2>0. /\ calls[c].pc = "commit" => k \in events
        /\ calls[c].pc \in {"event", "commit"} => IsRecorded(k)
    BY <1>1 DEF EntriesFirst
  <2>1. CASE calls'[c] = calls[c]
    <3>1. CASE calls[c].pc \in {"event", "commit"}
      <4>1. ops'[k] = ops[k]
        BY <1>1, <2>1, <3>1, OpKept DEF Acting, Performing, Failing
      <4>2. IsRecorded(k)'
        BY <2>k, <2>0, <3>1, <4>1, RecordedKept
      <4> QED
        BY <2>k, <2>0, <2>1, <4>2, EntriesKept
    <3> QED
      BY <2>1, <3>1
  <2>2. CASE Arrive(c) \/ Begin(c) \/ Claim(c)
    <3>1. [NewCall EXCEPT !.pc = "read"].pc = "read"
      BY DEF NewCall
    <3>2. calls'[c].pc \notin {"event", "commit"}
      BY <2>2, <3>1, ArriveEffect, BeginEffect, ClaimEffect
    <3> QED
      BY <3>2
  <2>3. CASE ReadCurrent(c) \/ ReadRated(c) \/ ListRecords(c) \/ PlanOperation(c)
             \/ WriteRow(c) \/ DeleteListed(c)
    <3>1. calls'[c].pc \notin {"event", "commit"}
      BY <2>3, ReadCurrentEffect, ReadRatedEffect, ListEffect, PlanEffect, WriteEffect,
         DeleteListedEffect
    <3> QED
      BY <3>1
  <2>4. CASE ProjectVector(c)
    <3>1. calls'[c].pc \in {"history", "event"}
      BY <2>4, ProjectEffect
    <3>2. calls'[c].pc = "event" => Kind(c) \in {"purge", "deleteAll"}
      BY <2>4, ProjectEffect DEF NothingToRemove
    <3> QED
      BY <1>0, <1>1, <3>1, <3>2 DEF IsRecorded, Kind
  <2>5. CASE AddHistory(c)
    <3>1. /\ calls'[c].pc = "event" /\ ops' = ops
          /\ history' = IF Recorded(c) THEN history \cup {KeyOf[c]} ELSE history
      BY <2>5, EntryEffect DEF AddHistory, AppendEvent, At
    <3>2. IsRecorded(k)'
      BY <1>0, <1>1, <3>1 DEF IsRecorded, Recorded, Kind
    <3> QED
      BY <3>1, <3>2
  <2>6. CASE AppendEvent(c)
    <3>1. /\ calls[c].pc = "event" /\ calls'[c].pc = "commit" /\ ops' = ops
          /\ events' = events \cup {KeyOf[c]}
      BY <2>6, EntryEffect DEF AddHistory, AppendEvent, At
    <3>2. IsRecorded(k)'
      BY <2>k, <2>0, <3>1, RecordedKept
    <3> QED
      BY <1>1, <3>1, <3>2
  <2>7. CASE CommitOperation(c) \/ FailOperation(c) \/ Breaks(c)
    <3>1. calls'[c].pc \notin {"event", "commit"}
      BY <2>7, CommitEffect, FailEffect, BreakEffect
    <3> QED
      BY <3>1
  <2> QED
    BY <2>1, <2>2, <2>3, <2>4, <2>5, <2>6, <2>7, CallSteps DEF Step, Breaks
<1>2. ASSUME NEW k \in Keys, ops'[k].status = "committed"
      PROVE  k \in events' /\ IsRecorded(k)'
  <2>1. CASE ops[k].status = "committed" /\ ops'[k].before = ops[k].before
    BY <2>1, EntriesKept, RecordedKept DEF EntriesFirst
  <2>2. ASSUME NEW c \in Calls, KeyOf[c] = k, Claim(c) \/ FailOperation(c) \/ PlanOperation(c)
        PROVE  ops[k].status = "committed" /\ ops'[k].before = ops[k].before
    <3>1. Claim(c)
      BY <1>2, <2>2, FailEffect, PlanEffect DEF OneActs, Acting, Performing, Failing
    <3> QED
      BY <1>2, <2>2, <3>1, ClaimEffect
  <2>3. ASSUME NEW c \in Calls, KeyOf[c] = k, CommitOperation(c)
        PROVE  k \in events' /\ IsRecorded(k)'
    <3>1. k \in events /\ IsRecorded(k) /\ ops'[k].before = ops[k].before
      BY <2>3, CommitEffect DEF EntriesFirst
    <3> QED
      BY <3>1, EntriesKept, RecordedKept
  <2> QED
    BY <1>2, <2>1, <2>2, <2>3, OpSteps
<1> QED
  BY <1>1, <1>2 DEF EntriesFirst
-----------------------------------------------------------------------------
(* Calls that do not overlap.                                              *)

LEMMA StepRuns ==
    ASSUME TypeOK, NEW c \in Calls, Step(c)
    PROVE  calls[c].pc \in Running \/ Arrive(c)
<1> USE DEF Running, Performing, Failing
<1>1. CASE Begin(c) \/ Claim(c) \/ ReadCurrent(c) \/ ReadRated(c) \/ ListRecords(c)
           \/ PlanOperation(c)
  BY <1>1 DEF Begin, Claim, ReadCurrent, ReadRated, ListRecords, PlanOperation, At
<1>2. CASE WriteRow(c) \/ DeleteListed(c) \/ ProjectVector(c) \/ AddHistory(c)
           \/ AppendEvent(c) \/ CommitOperation(c)
  BY <1>2 DEF WriteRow, DeleteListed, ProjectVector, AddHistory, AppendEvent,
              CommitOperation, At
<1>3. CASE Breaks(c) \/ FailOperation(c)
  BY <1>3 DEF Breaks, StepThrows, InspectRow, InspectVector, FailOperation, Crash, At
<1> QED
  BY <1>1, <1>2, <1>3 DEF Step, Breaks

\* While a call runs, either it makes the step or nothing it looks at changes.
LEMMA SerialSteps ==
    ASSUME TypeOK, serial, Single, [Next]_vars, NEW c \in Calls
    PROVE  \/ Step(c)
           \/ /\ calls'[c] = calls[c]
              /\ calls[c].pc \in Running => UNCHANGED <<row, vector, history, events, ops, calls>>
<1>1. ASSUME NEW d \in Calls, Step(d), d # c, calls[c].pc \in Running
      PROVE  FALSE
  <2>1. CASE Arrive(d)
    BY <1>1, <2>1, ArriveEffect DEF MayStart
  <2>2. CASE calls[d].pc \in Running
    BY <1>1, <2>2 DEF Single
  <2> QED
    BY <1>1, <2>1, <2>2, StepRuns
<1>2. (\E k \in Keys : ReadVersion(k)) \/ AllReturned \/ UNCHANGED vars
      => UNCHANGED <<row, vector, history, events, ops, calls>>
  BY DEF ReadVersion, AllReturned, vars, record
<1> QED
  BY <1>1, <1>2, CallSteps DEF Next

\* What a write of a call that is alone does to the row it read.
LEMMA SerialWrite ==
    ASSUME TypeOK, Single, NEW c \in Calls, WriteRow(c)
    PROVE  \/ /\ Kind(c) \in {"update", "reweigh", "invalidate"}
              /\ Live(row) /\ Live(row')
              /\ row'.content = IF Kind(c) = "update" THEN KeyOf[c] ELSE row.content
              /\ row'.version = KeyOf[c]
              /\ row'.validTo = IF Kind(c) = "invalidate" THEN KeyOf[c] ELSE row.validTo
           \/ /\ Kind(c) = "delete" /\ Live(row)
              /\ Present(row') /\ ~Live(row')
              /\ row'.content = row.content
              /\ row'.version = KeyOf[c]
              /\ row'.validTo = row.validTo
           \/ Kind(c) = "purge" /\ row' = NoRow
<1>0. KeyOf[c] \in Keys
  BY MutationAssumption
<1>1. CASE Kind(c) \in {"update", "reweigh", "invalidate"}
  <2>1. calls[c].current = row /\ Live(row)
    BY <1>1, WriteEffect DEF Single
  <2>2. Present(row)
    BY <2>1 DEF Live
  <2>3. row' = Patched(c)
    BY <1>1, <2>2, WriteEffect
  <2>4. Patched(c) \in Rows /\ Patched(c) # NoRow
    BY <1>1, <2>1, <2>2, PatchedType, NoRowIsNone
  <2>5. Live(row')
    BY <1>1, <2>1, <2>2, <2>3, <2>4, PatchedType DEF Live, Present
  <2> QED
    BY <1>1, <2>1, <2>2, <2>3, <2>5, PatchedType
<1>2. CASE Kind(c) = "delete"
  <2>1. Live(row)
    BY <1>2, WriteEffect DEF Single
  <2>2. row \in Rows /\ Present(row)
    BY <2>1 DEF Live, Present, TypeOK
  <2> DEFINE tombstone == [row EXCEPT !.forgotten = TRUE, !.version = KeyOf[c]]
  <2>3. row' = tombstone
    BY <1>2, <2>1, <2>2, WriteEffect
  <2>4. /\ tombstone \in Rows /\ tombstone.forgotten = TRUE
        /\ tombstone.version = KeyOf[c] /\ tombstone.content = row.content
        /\ tombstone.validTo = row.validTo
    BY <1>0, <2>2, TombstoneType
  <2> HIDE DEF tombstone
  <2>5. Present(row') /\ ~Live(row')
    BY <2>3, <2>4, NoRowIsNone DEF Live, Present
  <2> QED
    BY <1>2, <2>1, <2>3, <2>4, <2>5
<1>3. CASE Kind(c) = "purge"
  BY <1>3, WriteEffect
<1> QED
  BY <1>1, <1>2, <1>3, WriteEffect

LEMMA RowSteps ==
    ASSUME TypeOK, [Next]_vars
    PROVE  /\ UNCHANGED row \/ \E c \in Calls : WriteRow(c) \/ DeleteListed(c)
           /\ UNCHANGED vector \/ \E c \in Calls : ProjectVector(c)
<1>1. ASSUME NEW c \in Calls, WriteRow(c) \/ DeleteListed(c) PROVE UNCHANGED vector
  BY <1>1, WriteEffect, DeleteListedEffect
<1>2. ASSUME NEW c \in Calls, ProjectVector(c) PROVE UNCHANGED row
  BY <1>2, ProjectEffect
<1>3. ASSUME NEW c \in Calls, AddHistory(c) \/ AppendEvent(c)
      PROVE  UNCHANGED <<row, vector>>
  BY <1>3, EntryEffect DEF record
<1>4. ASSUME NEW c \in Calls,
             \/ Arrive(c) \/ Begin(c) \/ Claim(c) \/ ReadCurrent(c) \/ ReadRated(c)
             \/ ListRecords(c) \/ PlanOperation(c) \/ CommitOperation(c)
             \/ Breaks(c) \/ FailOperation(c)
      PROVE  UNCHANGED <<row, vector>>
  BY <1>4 DEF Arrive, Begin, Claim, ReadCurrent, ReadRated, ListRecords, PlanOperation,
              CommitOperation, Breaks, StepThrows, InspectRow, InspectVector, FailOperation, Crash, record
<1>5. (\E k \in Keys : ReadVersion(k)) \/ AllReturned \/ UNCHANGED vars
      => UNCHANGED <<row, vector>>
  BY DEF ReadVersion, AllReturned, vars, record
<1> QED
  BY <1>1, <1>2, <1>3, <1>4, <1>5 DEF Next, Step, Breaks

\* A record that is no longer live stays so.
LEMMA EndedStays ==
    ASSUME TypeOK, Single, [Next]_vars, ~Live(row)
    PROVE  ~Live(row')
<1>1. ~Live(NoRow)
  BY DEF Live, Present
<1>2. ASSUME NEW c \in Calls, WriteRow(c) PROVE ~Live(row')
  BY <1>1, <1>2, SerialWrite
<1>3. ASSUME NEW c \in Calls, DeleteListed(c) PROVE ~Live(row')
  BY <1>1, <1>3, DeleteListedEffect
<1> QED
  BY <1>2, <1>3, RowSteps

LEMMA SingleStep == TypeOK /\ serial /\ StepsOfKinds /\ Single /\ [Next]_vars => Single'
<1> SUFFICES ASSUME TypeOK, serial, StepsOfKinds, Single, [Next]_vars PROVE Single'
  OBVIOUS
<1>0. UNCHANGED kinds
  BY CommandsStep
<1>1. ASSUME NEW c \in Calls, NEW d \in Calls, c # d,
             calls'[c].pc \in Running, calls'[d].pc \in Running
      PROVE  FALSE
  <2>0. "idle" \notin Running /\ ~(calls[c].pc \in Running /\ calls[d].pc \in Running)
    BY <1>1 DEF Running, Performing, Failing, Single
  <2>1. ASSUME NEW e \in Calls, NEW f \in Calls, e # f, calls'[f].pc \in Running,
               calls[e].pc \notin Running, Step(e)
        PROVE  FALSE
    <3>1. Arrive(e)
      BY <2>1, StepRuns
    <3>2. MayStart /\ calls'[f] = calls[f]
      BY <2>1, <3>1, ArriveEffect DEF OthersKept
    <3> QED
      BY <2>1, <3>2 DEF MayStart
  <2>2. CASE calls[c].pc \notin Running
    BY <1>1, <2>1, <2>2, CallSteps
  <2>3. CASE calls[d].pc \notin Running
    BY <1>1, <2>1, <2>3, CallSteps
  <2> QED
    BY <2>0, <2>2, <2>3
<1>2. ASSUME NEW c \in Calls, calls'[c].pc = "write", Kind(c) # "deleteAll"
      PROVE  calls'[c].current = row' /\ (Kind(c) # "purge" => Live(row'))
  <2>1. CASE calls'[c] = calls[c] /\ UNCHANGED row
    BY <1>2, <2>1 DEF Single
  <2>2. CASE Arrive(c) \/ Begin(c) \/ Claim(c)
    <3>1. [NewCall EXCEPT !.pc = "read"].pc = "read"
      BY DEF NewCall
    <3> QED
      BY <1>2, <2>2, <3>1, ArriveEffect, BeginEffect, ClaimEffect
  <2>3. CASE ReadCurrent(c)
    <3>1. UNCHANGED row
      BY <2>3 DEF ReadCurrent, record
    <3> QED
      BY <1>2, <2>3, <3>1, ReadCurrentEffect
  <2>4. CASE ReadRated(c) \/ ListRecords(c) \/ PlanOperation(c)
    BY <1>2, <2>4, ReadRatedEffect, ListEffect, PlanEffect DEF StepsOfKinds
  <2>5. CASE WriteRow(c) \/ DeleteListed(c) \/ ProjectVector(c)
    BY <1>2, <2>5, WriteEffect, DeleteListedEffect, ProjectEffect
  <2>6. CASE \/ AddHistory(c) \/ AppendEvent(c) \/ CommitOperation(c)
             \/ Breaks(c) \/ FailOperation(c)
    BY <1>2, <2>6, EntryEffect, CommitEffect, FailEffect, BreakEffect
  <2> QED
    BY <1>2, <2>1, <2>2, <2>3, <2>4, <2>5, <2>6, SerialSteps DEF Step, Breaks, Running, Performing
<1> QED
  BY <1>0, <1>1, <1>2 DEF Single, Kind
LEMMA VersionStep ==
    TypeOK /\ serial /\ StepsOfKinds /\ Single /\ VersionHeld /\ [Next]_vars => VersionHeld'
<1> SUFFICES ASSUME TypeOK, serial, StepsOfKinds, Single, VersionHeld, [Next]_vars
             PROVE  VersionHeld'
  OBVIOUS
<1> DEFINE Early == {"begin", "claim", "read", "write"}
<1>0. UNCHANGED kinds /\ \A c \in Calls : KeyOf[c] \in Keys
  BY CommandsStep, MutationAssumption
<1>1. ASSUME NEW k \in Keys, ReadVersion(k)
      PROVE  VersionHeld'
  <2>1. /\ IsUpdate(k) /\ UNCHANGED <<row, calls, kinds>>
        /\ \A c \in Calls : KeyOf[c] = k => calls[c].pc = "idle"
        /\ \A j \in Keys : j # k => asserted'[j] = asserted[j]
    BY <1>1 DEF ReadVersion, record, At, TypeOK
  <2> QED
    BY <2>1 DEF VersionHeld, IsUpdate
<1>2. ASSUME UNCHANGED asserted, NEW c \in Calls, NEW k \in Keys, k = KeyOf[c],
             asserted[k] # Absent, calls'[c].pc \in Early
      PROVE  row'.version = asserted[k]
  <2>0. IsUpdate(k) /\ (calls[c].pc \in Early => row.version = asserted[k])
    BY <1>2 DEF VersionHeld
  <2>1. CASE /\ calls'[c] = calls[c]
             /\ calls[c].pc \in Running => UNCHANGED row
    BY <1>2, <2>0, <2>1 DEF Running, Performing
  <2>2. CASE Arrive(c)
    <3>1. UNCHANGED row
      BY <2>2, ArriveEffect DEF record
    <3> QED
      BY <1>2, <2>0, <2>2, <3>1, ArriveEffect
  <2>3. CASE Begin(c) \/ Claim(c) \/ ReadCurrent(c) \/ ListRecords(c) \/ PlanOperation(c)
             \/ ReadRated(c)
    <3>1. UNCHANGED row
      BY <2>3 DEF Begin, Claim, ReadCurrent, ListRecords, PlanOperation, ReadRated, record
    <3>2. calls[c].pc \in Early \cup {"plan"}
      BY <2>3 DEF Begin, Claim, ReadCurrent, ListRecords, PlanOperation, ReadRated, At
    <3>3. calls[c].pc # "plan"
      BY <1>2, <2>0 DEF StepsOfKinds, IsUpdate, Kind
    <3> QED
      BY <2>0, <3>1, <3>2, <3>3
  <2>4. CASE WriteRow(c) \/ DeleteListed(c) \/ ProjectVector(c)
    BY <1>2, <2>4, WriteEffect, DeleteListedEffect, ProjectEffect
  <2>5. CASE \/ AddHistory(c) \/ AppendEvent(c) \/ CommitOperation(c)
             \/ Breaks(c) \/ FailOperation(c)
    BY <1>2, <2>5, EntryEffect, CommitEffect, FailEffect, BreakEffect
  <2> QED
    BY <2>1, <2>2, <2>3, <2>4, <2>5, SerialSteps DEF Step, Breaks
<1>3. CASE UNCHANGED asserted
  BY <1>0, <1>2, <1>3 DEF VersionHeld, IsUpdate
<1> QED
  BY <1>1, <1>3, CommandsStep
LEMMA ContentStep ==
    TypeOK /\ serial /\ StepsOfKinds /\ Single /\ ContentIsUpdated /\ [Next]_vars
    => ContentIsUpdated'
<1> SUFFICES ASSUME TypeOK, serial, StepsOfKinds, Single, ContentIsUpdated, [Next]_vars
             PROVE  ContentIsUpdated'
  OBVIOUS
<1> DEFINE Late == {"history", "event", "commit"}
<1>0. UNCHANGED kinds /\ \A c \in Calls : KeyOf[c] \in Keys
  BY CommandsStep, MutationAssumption
<1>a. NoRow.content \notin Keys
  BY MutationAssumption DEF NoRow
<1>1. row'.content \in Keys => kinds[row'.content] = "update"
  <2>1. ASSUME NEW c \in Calls, WriteRow(c)
        PROVE  row'.content \in Keys => kinds[row'.content] = "update"
    BY <1>a, <2>1, SerialWrite DEF ContentIsUpdated, Kind
  <2>2. ASSUME NEW c \in Calls, DeleteListed(c)
        PROVE  row'.content \in Keys => kinds[row'.content] = "update"
    BY <1>a, <2>2, DeleteListedEffect DEF ContentIsUpdated
  <2> QED
    BY <2>1, <2>2, RowSteps DEF ContentIsUpdated
<1>2. ASSUME NEW c \in Calls, Kind(c) = "update"
      PROVE  /\ calls'[c].pc \in {"vector"} \cup Late => Live(row') /\ row'.content = KeyOf[c]
             /\ calls'[c].pc \in Late => vector' = KeyOf[c]
  <2>0. /\ calls[c].pc \in {"vector"} \cup Late => Live(row) /\ row.content = KeyOf[c]
        /\ calls[c].pc \in Late => vector = KeyOf[c]
    BY <1>2 DEF ContentIsUpdated
  <2>1. CASE /\ calls'[c] = calls[c]
             /\ calls[c].pc \in Running => UNCHANGED <<row, vector>>
    BY <2>0, <2>1 DEF Running, Performing
  <2>2. CASE Arrive(c) \/ Begin(c) \/ Claim(c)
    <3>1. [NewCall EXCEPT !.pc = "read"].pc = "read"
      BY DEF NewCall
    <3> QED
      BY <2>2, <3>1, ArriveEffect, BeginEffect, ClaimEffect
  <2>3. CASE ReadCurrent(c) \/ ReadRated(c) \/ ListRecords(c) \/ PlanOperation(c)
    BY <1>2, <2>3, ReadCurrentEffect, ReadRatedEffect, ListEffect, PlanEffect
  <2>4. CASE WriteRow(c) \/ DeleteListed(c)
    <3>1. WriteRow(c)
      BY <1>2, <2>4, DeleteListedEffect
    <3>2. calls'[c].pc = "vector"
      BY <1>2, <3>1, WriteEffect
    <3> QED
      BY <1>2, <3>1, <3>2, SerialWrite
  <2>5. CASE ProjectVector(c)
    BY <1>2, <2>0, <2>5, ProjectEffect DEF NothingToRemove
  <2>6. CASE AddHistory(c) \/ AppendEvent(c)
    <3>1. UNCHANGED <<row, vector>>
      BY <2>6, EntryEffect DEF record
    <3> QED
      BY <2>0, <2>6, <3>1, EntryEffect
  <2>7. CASE CommitOperation(c) \/ FailOperation(c) \/ Breaks(c)
    BY <2>7, CommitEffect, FailEffect, BreakEffect
  <2> QED
    BY <2>1, <2>2, <2>3, <2>4, <2>5, <2>6, <2>7, SerialSteps DEF Step, Breaks
<1> QED
  BY <1>0, <1>1, <1>2 DEF ContentIsUpdated, Kind

LEMMA DeletionStep ==
    TypeOK /\ serial /\ StepsOfKinds /\ Single /\ DeletionIsDone /\ [Next]_vars
    => DeletionIsDone'
<1> SUFFICES ASSUME TypeOK, serial, StepsOfKinds, Single, DeletionIsDone, [Next]_vars
             PROVE  DeletionIsDone'
  OBVIOUS
<1> DEFINE Late == {"history", "event", "commit"}
<1>0. UNCHANGED kinds /\ \A c \in Calls : KeyOf[c] \in Keys
  BY CommandsStep, MutationAssumption
<1>1. ASSUME NEW c \in Calls, Kind(c) = "delete", calls'[c].pc \in {"vector"} \cup Late
      PROVE  ~Live(row')
  <2>0. calls[c].pc \in {"vector"} \cup Late => ~Live(row)
    BY <1>1 DEF DeletionIsDone
  <2>1. CASE calls'[c] = calls[c]
    BY <1>1, <2>0, <2>1, EndedStays
  <2>2. CASE Arrive(c) \/ Begin(c) \/ Claim(c)
    <3>1. [NewCall EXCEPT !.pc = "read"].pc = "read"
      BY DEF NewCall
    <3> QED
      BY <1>1, <2>2, <3>1, ArriveEffect, BeginEffect, ClaimEffect
  <2>3. CASE ReadCurrent(c)
    BY <1>1, <2>3, ReadCurrentEffect, EndedStays
  <2>4. CASE ReadRated(c) \/ ListRecords(c) \/ PlanOperation(c) \/ DeleteListed(c)
    BY <1>1, <2>4, ReadRatedEffect, ListEffect, PlanEffect, DeleteListedEffect DEF StepsOfKinds
  <2>5. CASE WriteRow(c)
    BY <1>1, <2>5, SerialWrite
  <2>6. CASE ProjectVector(c) \/ AddHistory(c) \/ AppendEvent(c)
    BY <2>0, <2>6, EndedStays, ProjectEffect, EntryEffect
  <2>7. CASE CommitOperation(c) \/ FailOperation(c) \/ Breaks(c)
    BY <1>1, <2>7, CommitEffect, FailEffect, BreakEffect
  <2> QED
    BY <2>1, <2>2, <2>3, <2>4, <2>5, <2>6, <2>7, CallSteps DEF Step, Breaks
<1>2. ASSUME NEW c \in Calls,
             \/ Kind(c) \in {"delete", "purge"}
             \/ Kind(c) = "deleteAll" /\ calls'[c].done,
             calls'[c].pc \in Late, calls'[c].vectorReady
      PROVE  vector' = Absent
  <2>1. CASE /\ calls'[c] = calls[c]
             /\ calls[c].pc \in Running => UNCHANGED <<row, vector>>
    BY <1>2, <2>1 DEF DeletionIsDone, Running, Performing
  <2>2. CASE Arrive(c) \/ Begin(c) \/ Claim(c)
    <3>1. [NewCall EXCEPT !.pc = "read"].pc = "read"
      BY DEF NewCall
    <3> QED
      BY <1>2, <2>2, <3>1, ArriveEffect, BeginEffect, ClaimEffect
  <2>3. CASE ReadCurrent(c) \/ ReadRated(c) \/ ListRecords(c) \/ PlanOperation(c)
    BY <1>2, <2>3, ReadCurrentEffect, ReadRatedEffect, ListEffect, PlanEffect
  <2>4. CASE WriteRow(c) \/ DeleteListed(c)
    BY <1>2, <2>4, WriteEffect, DeleteListedEffect
  <2>5. CASE ProjectVector(c)
    BY <1>2, <2>5, ProjectEffect DEF NothingToRemove
  <2>6. CASE AddHistory(c) \/ AppendEvent(c)
    <3>1. UNCHANGED vector
      BY <2>6, EntryEffect DEF record
    <3>2. /\ calls[c].pc \in Late /\ calls[c].vectorReady
          /\ calls'[c].done = calls[c].done
      BY <1>2, <2>6, EntryEffect
    <3> QED
      BY <1>2, <3>1, <3>2 DEF DeletionIsDone
  <2>7. CASE CommitOperation(c) \/ FailOperation(c) \/ Breaks(c)
    BY <1>2, <2>7, CommitEffect, FailEffect, BreakEffect
  <2> QED
    BY <2>1, <2>2, <2>3, <2>4, <2>5, <2>6, <2>7, SerialSteps DEF Step, Breaks
<1> QED
  BY <1>0, <1>1, <1>2 DEF DeletionIsDone, Kind
\* What becomes of the operation of a delete.
LEMMA DeleteOpSteps ==
    ASSUME TypeOK, OneActs, StepsOfKinds, [Next]_vars, NEW k \in Keys, kinds[k] = "delete"
    PROVE  \/ /\ ops'[k].before = ops[k].before
              /\ ops[k].status # "none" => ops'[k].status # "none"
              /\ ops'[k].status # "none" => ops[k].status # "none"
              /\ \/ ops'[k].status # "committed"
                 \/ ops[k].status = "committed" /\ ops'[k].done = ops[k].done
                 \/ Present(ops[k].before) => ops'[k].done
           \/ \E c \in Calls : /\ KeyOf[c] = k /\ calls[c].pc = "claim"
                               /\ ops[k].status = "none" /\ ops'[k].status = "pending"
                               /\ ops'[k].before = calls[c].before
<1>1. ASSUME NEW c \in Calls, KeyOf[c] = k, PlanOperation(c) PROVE FALSE
  BY <1>1, PlanEffect DEF StepsOfKinds, Kind
<1>2. ASSUME NEW c \in Calls, KeyOf[c] = k, Claim(c)
      PROVE  \/ ops'[k] = ops[k]
             \/ /\ ops[k].status = "none" /\ calls[c].pc = "claim"
                /\ ops'[k].status = "pending" /\ ops'[k].before = calls[c].before
             \/ /\ Resumable(k) /\ ops'[k].status = "pending"
                /\ ops'[k].before = ops[k].before
  BY <1>2, ClaimEffect
<1>3. Resumable(k) => ops[k].status # "none"
  BY DEF Resumable
<1>4. ASSUME NEW c \in Calls, KeyOf[c] = k, CommitOperation(c)
      PROVE  /\ ops'[k].before = ops[k].before /\ ops'[k].status = "committed"
             /\ ops[k].status = "pending" /\ (Present(ops[k].before) => ops'[k].done)
  BY <1>4, CommitEffect DEF OneActs, Acting, Performing, Failing, Result
<1>5. ASSUME NEW c \in Calls, KeyOf[c] = k, FailOperation(c)
      PROVE  /\ ops'[k].before = ops[k].before /\ ops'[k].status = "failed"
             /\ ops[k].status = "pending"
  BY <1>5, FailEffect DEF OneActs, Acting, Failing
<1> QED
  BY <1>1, <1>2, <1>3, <1>4, <1>5, OpSteps

LEMMA TombstoneStep ==
    TypeOK /\ OneActs /\ StepsOfKinds /\ serial /\ Single /\ TombstoneIsOwned /\ [Next]_vars
    => TombstoneIsOwned'
<1> SUFFICES ASSUME TypeOK, OneActs, StepsOfKinds, serial, Single, TombstoneIsOwned,
                    [Next]_vars, NEW k \in Keys, kinds[k] = "delete"
             PROVE  /\ ops'[k].status # "none" /\ ~Present(ops'[k].before) => ~Live(row')
                    /\ \A c \in Calls :
                         KeyOf[c] = k /\ calls'[c].pc = "claim" /\ ~Present(calls'[c].before)
                         => ~Live(row')
                    /\ row'.forgotten /\ row'.version = k =>
                         ops'[k].status # "none" /\ Present(ops'[k].before)
                    /\ ops'[k].status = "committed" /\ Present(ops'[k].before)
                         => ops'[k].done
  BY CommandsStep DEF TombstoneIsOwned
<1>0. /\ ops[k].status # "none" /\ ~Present(ops[k].before) => ~Live(row)
      /\ \A c \in Calls :
           KeyOf[c] = k /\ calls[c].pc = "claim" /\ ~Present(calls[c].before) => ~Live(row)
      /\ row.forgotten /\ row.version = k => ops[k].status # "none" /\ Present(ops[k].before)
      /\ ops[k].status = "committed" /\ Present(ops[k].before) => ops[k].done
  BY DEF TombstoneIsOwned
<1>1. ASSUME ops'[k].status # "none", ~Present(ops'[k].before) PROVE ~Live(row')
  <2>1. ~Live(row)
    BY <1>0, <1>1, DeleteOpSteps
  <2> QED
    BY <2>1, EndedStays
<1>2. ASSUME NEW c \in Calls, KeyOf[c] = k, calls'[c].pc = "claim", ~Present(calls'[c].before)
      PROVE  ~Live(row')
  <2>1. CASE calls'[c] = calls[c]
    BY <1>0, <1>2, <2>1, EndedStays
  <2>2. CASE Begin(c)
    <3>1. Live(row) => Present(row)
      BY DEF Live
    <3> QED
      BY <1>2, <2>2, <3>1, BeginEffect, EndedStays DEF Kind
  <2>3. CASE Arrive(c) \/ Claim(c)
    <3>1. [NewCall EXCEPT !.pc = "read"].pc = "read"
      BY DEF NewCall
    <3> QED
      BY <1>2, <2>3, <3>1, ArriveEffect, ClaimEffect
  <2>4. CASE ReadCurrent(c) \/ ReadRated(c) \/ ListRecords(c) \/ PlanOperation(c)
    BY <1>2, <2>4, ReadCurrentEffect, ReadRatedEffect, ListEffect, PlanEffect
  <2>5. CASE WriteRow(c) \/ DeleteListed(c) \/ ProjectVector(c)
    BY <1>2, <2>5, WriteEffect, DeleteListedEffect, ProjectEffect
  <2>6. CASE \/ AddHistory(c) \/ AppendEvent(c) \/ CommitOperation(c)
             \/ Breaks(c) \/ FailOperation(c)
    BY <1>2, <2>6, EntryEffect, CommitEffect, FailEffect, BreakEffect
  <2> QED
    BY <2>1, <2>2, <2>3, <2>4, <2>5, <2>6, CallSteps DEF Step, Breaks
<1>3. ASSUME row'.forgotten, row'.version = k
      PROVE  ops'[k].status # "none" /\ Present(ops'[k].before)
  <2>n. ~NoRow.forgotten
    BY DEF NoRow
  <2>1. CASE UNCHANGED row
    <3>1. ops[k].status # "none" /\ Present(ops[k].before)
      BY <1>0, <1>3, <2>1
    <3> QED
      BY <3>1, DeleteOpSteps
  <2>2. ASSUME NEW c \in Calls, WriteRow(c)
        PROVE  ops'[k].status # "none" /\ Present(ops'[k].before)
    <3>1. KeyOf[c] = k /\ Live(row)
      BY <1>3, <2>n, <2>2, SerialWrite DEF Live
    <3>2. ops[k].status = "pending" /\ ops' = ops
      BY <2>2, <3>1, WriteEffect DEF OneActs, Acting, Performing, Failing
    <3> QED
      BY <1>0, <3>1, <3>2
  <2>3. ASSUME NEW c \in Calls, DeleteListed(c) PROVE UNCHANGED row
    BY <1>3, <2>n, <2>3, DeleteListedEffect
  <2> QED
    BY <2>1, <2>2, <2>3, RowSteps
<1>4. ASSUME ops'[k].status = "committed", Present(ops'[k].before) PROVE ops'[k].done
  BY <1>0, <1>4, DeleteOpSteps
<1> QED
  BY <1>1, <1>2, <1>3, <1>4
LEMMA InspectionStep ==
    /\ TypeOK /\ serial /\ StepsOfKinds /\ Single /\ InspectionIsTrue /\ [Next]_vars
    => InspectionIsTrue'
<1> SUFFICES ASSUME TypeOK, serial, StepsOfKinds, Single, InspectionIsTrue, [Next]_vars,
                    NEW c \in Calls
             PROVE  /\ calls'[c].pc = "inspect" /\ Kind(c) = "update" =>
                         calls'[c].current.content = KeyOf[c]
                    /\ calls'[c].pc = "record" /\ calls'[c].vectorReady =>
                         /\ Kind(c) = "update" => vector' = KeyOf[c]
                         /\ Kind(c) \in {"delete", "purge"} => vector' = Absent
                    /\ Kind(c) = "deleteAll" /\ calls'[c].pc \in Failing =>
                         calls'[c].pc = "fail" /\ ~calls'[c].vectorReady
  BY CommandsStep DEF InspectionIsTrue, Kind
<1> USE DEF Failing
<1>0. /\ calls[c].pc = "inspect" /\ Kind(c) = "update" => calls[c].current.content = KeyOf[c]
      /\ calls[c].pc = "record" /\ calls[c].vectorReady =>
           /\ Kind(c) = "update" => vector = KeyOf[c]
           /\ Kind(c) \in {"delete", "purge"} => vector = Absent
      /\ Kind(c) = "deleteAll" /\ calls[c].pc \in Failing =>
           calls[c].pc = "fail" /\ ~calls[c].vectorReady
  BY DEF InspectionIsTrue
<1>1. CASE /\ calls'[c] = calls[c]
           /\ calls[c].pc \in Running => UNCHANGED <<row, vector>>
  BY <1>0, <1>1 DEF Running
<1>2. CASE Arrive(c) \/ Begin(c) \/ Claim(c)
  <2>1. [NewCall EXCEPT !.pc = "read"].pc = "read"
    BY DEF NewCall
  <2> QED
    BY <1>2, <2>1, ArriveEffect, BeginEffect, ClaimEffect
<1>3. CASE ReadCurrent(c) \/ ReadRated(c) \/ ListRecords(c) \/ PlanOperation(c)
  BY <1>3, ReadCurrentEffect, ReadRatedEffect, ListEffect, PlanEffect
<1>4. CASE WriteRow(c) \/ DeleteListed(c) \/ ProjectVector(c)
  BY <1>4, WriteEffect, DeleteListedEffect, ProjectEffect
<1>5. CASE AddHistory(c) \/ AppendEvent(c) \/ CommitOperation(c) \/ FailOperation(c)
  BY <1>5, EntryEffect, CommitEffect, FailEffect
<1>6. CASE StepThrows(c)
  <2>1. calls'[c].pc = "fail" /\ ~calls'[c].vectorReady
    BY <1>6 DEF StepThrows, NewCall, TypeOK
  <2> QED
    BY <2>1
<1>7. CASE InspectRow(c)
  <2>1. \A found : RawReady(KeyOf[c], found) /\ Kind(c) = "update" => found.content = KeyOf[c]
    BY DEF RawReady, Kind
  <2>2. PICK found \in {row, NoRow} :
          \/ /\ calls'[c].pc = "record"
             /\ calls'[c].vectorReady => Kind(c) \notin {"update", "delete", "purge"}
          \/ /\ calls'[c].pc = "inspect" /\ RawReady(KeyOf[c], found)
             /\ calls'[c].current = found
    BY <1>7, InspectRowEffect
  <2> QED
    BY <1>7, <2>1, <2>2, InspectRowEffect
<1>8. CASE InspectVector(c)
  <2>1. /\ calls[c].pc = "inspect" /\ calls'[c].pc = "record" /\ UNCHANGED vector
        /\ calls'[c].vectorReady => VectorReady(KeyOf[c], calls[c].current)
    BY <1>8, InspectVectorEffect DEF record
  <2> QED
    BY <1>0, <2>1 DEF VectorReady, IsUpdate, Kind
<1>9. CASE Crash(c)
  <2>1. calls'[c].pc = "crashed"
    BY <1>9, EndEffect DEF Crash
  <2> QED
    BY <2>1
<1> QED
  BY <1>1, <1>2, <1>3, <1>4, <1>5, <1>6, <1>7, <1>8, <1>9, SerialSteps DEF Step

\* An operation that is not reported as indexed is so only by a commit, or by
\* the record of a failure.
LEMMA IndexedSteps ==
    ASSUME TypeOK, OneActs, [Next]_vars, NEW k \in Keys, ~Indexed(k)
    PROVE  \/ ~Indexed(k)'
           \/ \E c \in Calls :
                /\ KeyOf[c] = k
                /\ \/ /\ CommitOperation(c)
                      /\ calls[c].vectorReady \/ Kind(c) \in {"reweigh", "invalidate"}
                   \/ FailOperation(c) /\ calls[c].vectorReady
<1>1. CASE ops'[k] = ops[k]
  BY <1>1 DEF Indexed
<1>2. ASSUME NEW c \in Calls, KeyOf[c] = k, Claim(c)
      PROVE  ops'[k] = ops[k] \/ ops'[k].status = "pending"
  BY <1>2, ClaimEffect
<1>3. ASSUME NEW c \in Calls, KeyOf[c] = k, PlanOperation(c)
      PROVE  ops'[k].status = "pending"
  BY <1>3, PlanEffect DEF OneActs, Acting, Performing
<1>4. ASSUME NEW c \in Calls, KeyOf[c] = k, CommitOperation(c), ops'[k].vector
      PROVE  calls[c].vectorReady \/ Kind(c) \in {"reweigh", "invalidate"}
  BY <1>4, CommitEffect
<1>5. ASSUME NEW c \in Calls, KeyOf[c] = k, FailOperation(c), ops'[k].vector
      PROVE  calls[c].vectorReady
  BY <1>5, FailEffect
<1> QED
  BY <1>1, <1>2, <1>3, <1>4, <1>5, OpSteps DEF Indexed

\* While the index holds an entry, the deletion that owes it its removal is known.
LEMMA OwnerKept ==
    ASSUME TypeOK, OneActs, ListIsFrozen, DeletionIsDone, InspectionIsTrue, [Next]_vars,
           vector # Absent,
           NEW k \in Keys, Removes(k), ops[k].status # "none", ~Indexed(k)
    PROVE  Removes(k)' /\ ops'[k].status # "none" /\ ~Indexed(k)'
<1>0. UNCHANGED kinds
  BY CommandsStep
<1>1. ASSUME NEW c \in Calls, KeyOf[c] = k, Claim(c)
      PROVE  ops'[k].before = ops[k].before /\ ops'[k].status # "none"
  BY <1>1, ClaimEffect
<1>2. ASSUME NEW c \in Calls, KeyOf[c] = k, CommitOperation(c) \/ FailOperation(c)
      PROVE  ops'[k].before = ops[k].before /\ ops'[k].status # "none"
  BY <1>2, CommitEffect, FailEffect
<1>3. ASSUME NEW c \in Calls, KeyOf[c] = k, PlanOperation(c)
      PROVE  kinds[k] # "deleteAll" /\ ops'[k].status # "none"
  BY <1>3, PlanEffect DEF ListIsFrozen, Removes, Kind
<1>4. Removes(k)' /\ ops'[k].status # "none"
  BY <1>0, <1>1, <1>2, <1>3, OpSteps DEF Removes
<1>5. ASSUME NEW c \in Calls, KeyOf[c] = k, CommitOperation(c),
             calls[c].vectorReady \/ Kind(c) \in {"reweigh", "invalidate"}
      PROVE  FALSE
  <2>1. calls[c].pc = "commit" /\ calls[c].vectorReady
    BY <1>5, CommitEffect DEF Removes, Kind
  <2>2. Kind(c) = "deleteAll" => calls[c].done
    BY <1>5, <2>1 DEF Removes, Kind, ListIsFrozen
  <2> QED
    BY <1>5, <2>1, <2>2 DEF DeletionIsDone, Removes, Kind
<1>6. ASSUME NEW c \in Calls, KeyOf[c] = k, FailOperation(c), calls[c].vectorReady
      PROVE  FALSE
  <2>1. Kind(c) \in {"delete", "purge", "deleteAll"}
    BY <1>6 DEF Removes, Kind
  <2> QED
    BY <1>6, <2>1, FailEffect DEF InspectionIsTrue, Failing
<1> QED
  BY <1>4, <1>5, <1>6, IndexedSteps

LEMMA DriftStep ==
    /\ TypeOK /\ OneActs /\ StepsOfKinds /\ ListIsFrozen /\ PurgeIsDone
    /\ serial /\ Single /\ ContentIsUpdated /\ DeletionIsDone /\ InspectionIsTrue
    /\ DriftIsOwned /\ [Next]_vars
    => DriftIsOwned'
<1> SUFFICES ASSUME TypeOK, OneActs, StepsOfKinds, ListIsFrozen, PurgeIsDone, serial, Single,
                    ContentIsUpdated, DeletionIsDone, InspectionIsTrue, DriftIsOwned,
                    [Next]_vars
             PROVE  DriftIsOwned'
  OBVIOUS
<1>0. /\ UNCHANGED kinds /\ \A c \in Calls : KeyOf[c] \in Keys
      /\ Live(row) => Present(row)
  BY CommandsStep, MutationAssumption DEF Live
<1>a. ~Live(NoRow) /\ ~Present(NoRow)
  BY DEF Live, Present
\* The index entry of a live record was written by an update that ran to the end.
<1>1. ASSUME NEW k \in Keys, Live(row), row.content = k, vector # k, ~Indexed(k)
      PROVE  ~Indexed(k)'
  <2>1. ASSUME NEW c \in Calls, KeyOf[c] = k, CommitOperation(c) PROVE FALSE
    <3>1. calls[c].pc = "commit" /\ Kind(c) = "update"
      BY <1>1, <2>1, CommitEffect DEF ContentIsUpdated, Kind
    <3> QED
      BY <1>1, <2>1, <3>1 DEF ContentIsUpdated
  <2>2. ASSUME NEW c \in Calls, KeyOf[c] = k, FailOperation(c), calls[c].vectorReady
        PROVE  FALSE
    <3>1. Kind(c) = "update"
      BY <1>1, <2>2 DEF ContentIsUpdated, Kind
    <3> QED
      BY <1>1, <2>2, <3>1, FailEffect DEF InspectionIsTrue
  <2> QED
    BY <1>1, <2>1, <2>2, IndexedSteps
<1>2. ASSUME NEW c \in Calls, ProjectVector(c)
      PROVE  /\ Live(row) => vector' = vector \/ vector' = row.content
             /\ ~Live(row) => vector' = vector \/ vector' = Absent
  <2>1. calls[c].pc = "vector"
    BY <1>2, ProjectEffect
  <2>2. CASE Kind(c) = "update"
    BY <1>2, <2>1, <2>2, ProjectEffect DEF ContentIsUpdated, NothingToRemove
  <2>3. CASE Kind(c) # "update"
    <3>1. NothingToRemove(c) \/ ~Live(row)
      BY <1>0, <1>2, <2>1, <2>3, ProjectEffect
         DEF NothingToRemove, DeletionIsDone, PurgeIsDone, ListIsFrozen
    <3> QED
      BY <1>2, <2>3, <3>1, ProjectEffect
  <2> QED
    BY <2>2, <2>3
<1>3. ASSUME Live(row'), NEW k, k = row'.content, vector' # k
      PROVE  k \in Keys /\ ~Indexed(k)'
  <2>0. Live(row)
    BY <1>3, EndedStays
  <2>1. CASE k = row.content /\ vector # k
    <3>1. k \in Keys /\ ~Indexed(k)
      BY <2>0, <2>1 DEF DriftIsOwned
    <3> QED
      BY <1>1, <2>0, <2>1, <3>1
  <2>2. CASE UNCHANGED row
    <3>1. vector # k
      BY <1>2, <1>3, <2>0, <2>2, RowSteps
    <3> QED
      BY <1>3, <2>1, <2>2, <3>1
  <2>3. ASSUME NEW c \in Calls, WriteRow(c), Kind(c) = "update"
        PROVE  k \in Keys /\ ~Indexed(k)'
    <3>1. k = KeyOf[c]
      BY <1>3, <2>3, SerialWrite
    <3>2. ops' = ops /\ ops[KeyOf[c]].status = "pending"
      BY <2>3, WriteEffect DEF OneActs, Acting, Performing, Failing
    <3> QED
      BY <1>0, <3>1, <3>2 DEF Indexed
  <2>4. ASSUME NEW c \in Calls, WriteRow(c), Kind(c) # "update"
        PROVE  k = row.content /\ vector # k
    BY <1>3, <1>a, <2>4, SerialWrite, WriteEffect
  <2>5. ASSUME NEW c \in Calls, DeleteListed(c) PROVE UNCHANGED row
    BY <1>3, <1>a, <2>5, DeleteListedEffect
  <2> QED
    BY <2>1, <2>2, <2>3, <2>4, <2>5, RowSteps
<1>4. ASSUME ~Live(row'), vector' # Absent
      PROVE  \E k \in Keys : Removes(k)' /\ ops'[k].status # "none" /\ ~Indexed(k)'
  <2>1. CASE ~Live(row) /\ vector # Absent
    <3>1. PICK k \in Keys : Removes(k) /\ ops[k].status # "none" /\ ~Indexed(k)
      BY <2>1 DEF DriftIsOwned
    <3> QED
      BY <2>1, <3>1, OwnerKept
  <2>2. CASE UNCHANGED row
    <3>1. ~Live(row) /\ vector # Absent
      BY <1>2, <1>4, <2>2, RowSteps
    <3> QED
      BY <2>1, <3>1
  <2>3. ASSUME NEW c \in Calls, NEW k \in Keys, k = KeyOf[c], UNCHANGED ops, Removes(k),
               ops[k].status = "pending"
        PROVE  Removes(k)' /\ ops'[k].status # "none" /\ ~Indexed(k)'
    BY <1>0, <2>3 DEF Removes, Indexed
  <2>4. ASSUME NEW c \in Calls, WriteRow(c)
        PROVE  \E k \in Keys : Removes(k)' /\ ops'[k].status # "none" /\ ~Indexed(k)'
    <3>1. Kind(c) \in {"delete", "purge"}
      BY <1>4, <2>4, SerialWrite
    <3>2. Removes(KeyOf[c]) /\ UNCHANGED ops /\ ops[KeyOf[c]].status = "pending"
      BY <2>4, <3>1, WriteEffect DEF Removes, Kind, OneActs, Acting, Performing, Failing
    <3> QED
      BY <1>0, <2>3, <3>2
  <2>5. ASSUME NEW c \in Calls, DeleteListed(c), ~UNCHANGED row
        PROVE  \E k \in Keys : Removes(k)' /\ ops'[k].status # "none" /\ ~Indexed(k)'
    <3>1. Present(calls[c].current) /\ Kind(c) = "deleteAll" /\ calls[c].pc = "write"
      BY <2>5, DeleteListedEffect
    <3>2. Removes(KeyOf[c]) /\ UNCHANGED ops /\ ops[KeyOf[c]].status = "pending"
      BY <2>5, <3>1, DeleteListedEffect
         DEF Removes, Kind, OneActs, Acting, Performing, Failing, ListIsFrozen
    <3> QED
      BY <1>0, <2>3, <3>2
  <2> QED
    BY <2>2, <2>4, <2>5, RowSteps
<1> QED
  BY <1>3, <1>4 DEF DriftIsOwned, Indexed
-----------------------------------------------------------------------------
(* The invariant, and what follows from it.                                *)

LEMMA MutationsInit == Init => MutationsInv
<1> SUFFICES ASSUME Init PROVE MutationsInv
  OBVIOUS
<1>1. /\ \A c \in Calls : KeyOf[c] \in Keys /\ calls[c] = NewCall /\ calls[c].pc = "idle"
      /\ \A k \in Keys : ops[k] = NoOperation /\ ops[k].status = "none"
                         /\ ~Present(ops[k].before)
      /\ \A k \in Keys : asserted[k] = Absent
      /\ row.content = Original /\ vector = Original /\ ~row.forgotten
      /\ NewCall \in Locals /\ NoOperation \in Operations
      /\ row \in Rows /\ row # NoRow /\ serial \in BOOLEAN
  BY MutationAssumption
     DEF Init, NewCall, NoOperation, Present, Locals, Operations, NoRow, Rows, Values
<1>2. TypeOK
  BY <1>1 DEF TypeOK, Init, Locals, Values
<1>3. OneActs /\ StepsOfKinds /\ PurgeIsDone /\ EntriesFirst /\ ListIsFrozen
  BY <1>1 DEF OneActs, StepsOfKinds, ListIsFrozen, PurgeIsDone, EntriesFirst, Acting,
              Performing, Failing
<1>4. /\ Single /\ VersionHeld /\ ContentIsUpdated /\ DeletionIsDone /\ InspectionIsTrue
      /\ TombstoneIsOwned
  BY <1>1, MutationAssumption DEF Single, VersionHeld, ContentIsUpdated, DeletionIsDone,
     InspectionIsTrue, TombstoneIsOwned, Running, Performing, Failing
<1>5. DriftIsOwned
  BY <1>1 DEF DriftIsOwned, Live, Present
<1> QED
  BY <1>2, <1>3, <1>4, <1>5 DEF MutationsInv, SerialInv

\* The invariant of mutations, whether or not their calls overlap.
THEOREM MutationsInvariant == Spec => []MutationsInv
<1>1. MutationsInv /\ [Next]_vars => MutationsInv'
  <2> SUFFICES ASSUME MutationsInv, [Next]_vars PROVE MutationsInv'
    OBVIOUS
  <2>0. /\ TypeOK /\ OneActs /\ StepsOfKinds /\ ListIsFrozen /\ PurgeIsDone /\ EntriesFirst
        /\ UNCHANGED serial
    BY CommandsStep DEF MutationsInv
  <2>1. /\ TypeOK' /\ OneActs' /\ StepsOfKinds' /\ ListIsFrozen' /\ PurgeIsDone'
        /\ EntriesFirst'
    BY <2>0, TypeStep, OneActsStep, KindsStep, FrozenStep, PurgeStep, EntriesStep
  <2>2. ASSUME serial
        PROVE  /\ Single' /\ VersionHeld' /\ ContentIsUpdated'
               /\ DeletionIsDone' /\ InspectionIsTrue' /\ TombstoneIsOwned'
               /\ DriftIsOwned'
    <3>1. /\ Single /\ VersionHeld /\ ContentIsUpdated
          /\ DeletionIsDone /\ InspectionIsTrue /\ TombstoneIsOwned /\ DriftIsOwned
      BY <2>2 DEF MutationsInv, SerialInv
    <3> QED
      BY <2>0, <2>2, <3>1, SingleStep, VersionStep, ContentStep, DeletionStep,
         InspectionStep, TombstoneStep, DriftStep
  <2> QED
    BY <2>0, <2>1, <2>2 DEF MutationsInv, SerialInv
<1> QED
  BY <1>1, MutationsInit, PTL DEF Spec

\* Records, operations and calls have their types, and a call that is about to
\* write a row read one.
THEOREM TypeCorrect == Spec => []TypeOK
<1>1. MutationsInv => TypeOK
  BY DEF MutationsInv
<1> QED
  BY <1>1, MutationsInvariant, PTL

\* Of calls that do not overlap: an index that disagrees with its row is never
\* hidden behind a journal that calls every write fully indexed.
THEOREM DriftIsSeen == Spec => []DriftIsVisible
<1>1. MutationsInv => DriftIsVisible
  BY DEF MutationsInv, SerialInv, DriftIsOwned, DriftIsVisible, Removes
<1> QED
  BY <1>1, MutationsInvariant, PTL

\* What a committed mutation answers is true, however the calls overlapped and
\* whichever of its attempts did the work, and its entries precede it.
THEOREM AnswersAreTrue == Spec => []AnswerIsTrue
<1>1. MutationsInv => EffectIsReported
  BY DEF MutationsInv, SerialInv, PurgeIsDone, TombstoneIsOwned, EffectIsReported
<1>2. MutationsInv => AnswerIsTrue
  BY <1>1 DEF MutationsInv, EntriesFirst, IsRecorded, AnswerIsTrue
<1> QED
  BY <1>2, MutationsInvariant, PTL

\* A record that is gone stays gone, whatever was in flight; of calls that do
\* not overlap, a record that was invalidated stays invalidated.
THEOREM EndedStaysEnded == Spec => EndedIsFinal
<1> DEFINE Ended == /\ ~Present(row) => ~Present(row')
                    /\ serial /\ row.validTo # Absent =>
                         row'.validTo # Absent \/ ~Present(row')
<1>1. MutationsInv /\ [Next]_vars => [Ended]_vars
  <2> SUFFICES ASSUME MutationsInv, [Next]_vars PROVE Ended
    OBVIOUS
  <2>0. TypeOK
    BY DEF MutationsInv
  <2>1. ASSUME serial, row.validTo # Absent
        PROVE  row'.validTo # Absent \/ ~Present(row')
    <3>1. Single
      BY <2>1 DEF MutationsInv, SerialInv
    <3>2. ~Present(NoRow) /\ \A c \in Calls : KeyOf[c] # Absent
      BY MutationAssumption DEF Present
    <3>3. ASSUME NEW c \in Calls, WriteRow(c)
          PROVE  row'.validTo # Absent \/ ~Present(row')
      BY <2>0, <2>1, <3>1, <3>2, <3>3, SerialWrite
    <3>4. ASSUME NEW c \in Calls, DeleteListed(c)
          PROVE  row'.validTo # Absent \/ ~Present(row')
      BY <2>0, <2>1, <3>2, <3>4, DeleteListedEffect
    <3> QED
      BY <2>0, <2>1, <3>3, <3>4, RowSteps
  <2> QED
    BY <2>0, <2>1, AbsentStays
<1> QED
  BY <1>1, MutationsInvariant, PTL DEF Spec, EndedIsFinal

\* Of calls that do not overlap: an update that asserts a version writes over
\* that version or its own.
THEOREM NoUpdateIsLost == Spec => NoLostUpdate
<1> DEFINE Over == \A c \in Calls :
                      LET k == KeyOf[c] IN
                      /\ serial /\ asserted[k] # Absent
                      /\ calls[c].pc = "write" /\ calls'[c].pc # "write"
                      /\ row' # row
                      => row.version \in {asserted[k], k}
<1>1. MutationsInv => Over
  BY MutationAssumption DEF MutationsInv, SerialInv, VersionHeld
<1> QED
  BY <1>1, MutationsInvariant, PTL DEF Spec, NoLostUpdate

\* A retry of a committed command changes nothing.
THEOREM ReplaysChangeNothing == Spec => ReplayChangesNothing
<1> DEFINE Replay == \A c \in Calls :
                        /\ calls'[c] # calls[c]
                        /\ ops[KeyOf[c]].status = "committed"
                        => UNCHANGED <<record, events, ops>>
<1>1. MutationsInv /\ [Next]_vars => [Replay]_vars
  <2> SUFFICES ASSUME MutationsInv, [Next]_vars, NEW c \in Calls, calls'[c] # calls[c],
                      ops[KeyOf[c]].status = "committed"
               PROVE  UNCHANGED <<record, events, ops>>
    OBVIOUS
  <2>0. TypeOK /\ calls[c].pc \notin Acting
    BY DEF MutationsInv, OneActs
  <2>1. CASE Arrive(c) \/ Begin(c)
    BY <2>0, <2>1, ArriveEffect, BeginEffect
  <2>2. CASE Claim(c)
    <3>1. ops' = ops
      BY <2>0, <2>2, ClaimEffect DEF Resumable
    <3> QED
      BY <2>0, <2>2, <3>1, ClaimEffect
  <2>3. CASE Breaks(c)
    BY <2>0, <2>3, BreakEffect
  <2>4. CASE ReadCurrent(c) \/ ReadRated(c) \/ ListRecords(c) \/ PlanOperation(c)
    BY <2>0, <2>4, ReadCurrentEffect, ReadRatedEffect, ListEffect, PlanEffect
       DEF Acting, Performing, Failing
  <2>5. CASE WriteRow(c) \/ DeleteListed(c) \/ ProjectVector(c)
    BY <2>0, <2>5, WriteEffect, DeleteListedEffect, ProjectEffect DEF Acting, Performing, Failing
  <2>6. CASE AddHistory(c) \/ AppendEvent(c) \/ CommitOperation(c) \/ FailOperation(c)
    BY <2>0, <2>6, EntryEffect, CommitEffect, FailEffect DEF Acting, Performing, Failing
  <2> QED
    BY <2>0, <2>1, <2>2, <2>3, <2>4, <2>5, <2>6, CallSteps DEF Step, Breaks
<1> QED
  BY <1>1, MutationsInvariant, PTL DEF Spec, ReplayChangesNothing
===============================================================================
