----------------------- MODULE OperationJournalProofs -----------------------
(***************************************************************************)
(* Proofs about OperationJournal, for any set of callers and keys, any     *)
(* lease and any size of a plan.                                           *)
(***************************************************************************)
EXTENDS OperationJournal, TLAPS

\* A plan drawn by a caller is a plan.
LEMMA FreshPlan ==
    ASSUME NEW c \in Callers, NEW n \in 0..MaxRecords
    PROVE  [i \in 1..n |-> <<c, i>>] \in Plans
<1>1. \A i \in 1..n : <<c, i>> \in Ids
  BY JournalAssumption DEF Ids
<1>2. [i \in 1..n |-> <<c, i>>] \in [1..n -> Ids]
  BY <1>1
<1> QED
  BY <1>2 DEF Plans

LEMMA NoRowType == NoRow \in Rows
BY DEF NoRow, Rows, Statuses

LEMMA PcAtType ==
    ASSUME NEW plan, NEW i
    PROVE  PcAt(plan, i) \in {"check", "episode"}
BY DEF PcAt

\* What one assignment to a field of a row, or of a caller's locals, keeps.
LEMMA RowUpdate ==
    ASSUME NEW r \in Rows
    PROVE  /\ \A s \in Statuses : [r EXCEPT !.status = s] \in Rows
           /\ \A p \in Plans \cup {Null} : [r EXCEPT !.plan = p] \in Rows
           /\ \A p \in Plans \cup {Null} : [r EXCEPT !.result = p] \in Rows
           /\ \A t \in Nat : [r EXCEPT !.lease = t] \in Rows
           /\ \A b \in BOOLEAN : [r EXCEPT !.raw = b] \in Rows
           /\ \A b \in BOOLEAN : [r EXCEPT !.vector = b] \in Rows
BY DEF Rows

LEMMA LocalUpdate ==
    ASSUME NEW l \in Locals
    PROVE  /\ \A p \in Running \cup Final : [l EXCEPT !.pc = p] \in Locals
           /\ \A t \in Nat : [l EXCEPT !.createdAt = t] \in Locals
           /\ \A r \in Rows : [l EXCEPT !.seen = r] \in Locals
           /\ \A p \in Plans \cup {Null} : [l EXCEPT !.plan = p] \in Locals
           /\ \A i \in Nat \ {0} : [l EXCEPT !.at = i] \in Locals
BY DEF Locals

\* The identifiers of a plan.
LEMMA PlannedIdsType ==
    ASSUME NEW plan \in Plans
    PROVE  PlannedIds(plan) \subseteq Ids
<1>1. PICK n \in 0..MaxRecords : plan \in [1..n -> Ids]
  BY DEF Plans
<1>2. Len(plan) = n
  BY <1>1, JournalAssumption
<1> QED
  BY <1>1, <1>2 DEF PlannedIds

LEMMA GotoType ==
    ASSUME TypeOK, NEW c \in Callers, NEW p \in Running \cup Final, Goto(c, p)
    PROVE  calls' \in [Callers -> Locals]
BY LocalUpdate DEF TypeOK, Goto

LEMMA RefuseType ==
    ASSUME TypeOK, NEW c \in Callers, Refuse(c)
    PROVE  calls' \in [Callers -> Locals]
BY LocalUpdate, NoRowType DEF TypeOK, Refuse, Final

LEMMA LocalsUpdate ==
    ASSUME TypeOK, NEW c \in Callers, NEW pc \in Running,
           NEW plan \in Plans \cup {Null}, NEW i \in Nat \ {0}, NEW row \in Rows,
           calls' = [calls EXCEPT ![c].pc = pc, ![c].plan = plan,
                                  ![c].at = i, ![c].seen = row]
    PROVE  calls' \in [Callers -> Locals]
<1> DEFINE l1 == [calls[c] EXCEPT !.pc = pc]
           l2 == [l1 EXCEPT !.plan = plan]
           l3 == [l2 EXCEPT !.at = i]
           l4 == [l3 EXCEPT !.seen = row]
<1>1. l1 \in Locals
  BY LocalUpdate DEF TypeOK
<1>2. l2 \in Locals
  BY <1>1, LocalUpdate
<1>3. l3 \in Locals
  BY <1>2, LocalUpdate
<1>4. l4 \in Locals
  BY <1>3, LocalUpdate
<1>5. calls' = [calls EXCEPT ![c] = l4]
  BY DEF TypeOK
<1> HIDE DEF l4
<1> QED
  BY <1>4, <1>5 DEF TypeOK

LEMMA OpsUpdate ==
    ASSUME TypeOK, NEW k \in Keys, NEW status \in Statuses, NEW lease \in Nat,
           NEW raw \in BOOLEAN, NEW vector \in BOOLEAN,
           ops' = [ops EXCEPT ![k].status = status, ![k].lease = lease,
                              ![k].raw = raw, ![k].vector = vector]
    PROVE  ops' \in [Keys -> Rows]
<1> DEFINE r1 == [ops[k] EXCEPT !.status = status]
           r2 == [r1 EXCEPT !.lease = lease]
           r3 == [r2 EXCEPT !.raw = raw]
           r4 == [r3 EXCEPT !.vector = vector]
<1>1. r1 \in Rows
  BY RowUpdate DEF TypeOK
<1>2. r2 \in Rows
  BY <1>1, RowUpdate
<1>3. r3 \in Rows
  BY <1>2, RowUpdate
<1>4. r4 \in Rows
  BY <1>3, RowUpdate
<1>5. ops' = [ops EXCEPT ![k] = r4]
  BY DEF TypeOK
<1> HIDE DEF r4
<1> QED
  BY <1>4, <1>5 DEF TypeOK

LEMMA AttemptType ==
    ASSUME TypeOK, NEW c \in Callers, NEW plan \in Plans \cup {Null}, Attempt(c, plan)
    PROVE  calls' \in [Callers -> Locals]
<1> DEFINE pc == IF plan = Null THEN "extract" ELSE PcAt(plan, FirstRecord)
<1>1. pc \in Running
  BY PcAtType DEF Running, Attempting, AttemptSteps
<1>2. FirstRecord \in Nat \ {0}
  BY DEF FirstRecord
<1> HIDE DEF pc
<1>3. calls' = [calls EXCEPT ![c].pc = pc, ![c].plan = plan,
                             ![c].at = FirstRecord, ![c].seen = NoRow]
  BY DEF Attempt, pc
<1> QED
  BY <1>1, <1>2, <1>3, LocalsUpdate, NoRowType

LEMMA NextRecordType ==
    ASSUME TypeOK, NEW c \in Callers, NextRecord(c)
    PROVE  calls' \in [Callers -> Locals]
<1> DEFINE pc == PcAt(calls[c].plan, calls[c].at + 1)
<1>1. pc \in Running
  BY PcAtType DEF Running, Attempting, AttemptSteps
<1>2. calls[c].at + 1 \in Nat \ {0}
  BY DEF TypeOK, Locals
<1> HIDE DEF pc
<1>3. calls' = [calls EXCEPT ![c].at = calls[c].at + 1, ![c].pc = pc]
  BY DEF NextRecord, pc
<1> QED
  BY <1>1, <1>2, <1>3, LocalUpdate DEF TypeOK

-----------------------------------------------------------------------------

\* Type correctness: no step of a caller, of a user or of the clock leaves the
\* types of the tables and of the callers' local variables.
LEMMA TypeStep == TypeOK /\ PlanHeld /\ [Next]_vars => TypeOK'
<1> SUFFICES ASSUME TypeOK, PlanHeld, [Next]_vars PROVE TypeOK'
  OBVIOUS
<1> USE DEF records
<1>0. \A c \in Callers :
        /\ KeyOf[c] \in Keys /\ RequestOf[c] \in Requests
        /\ LeaseOf(c) \in Nat /\ ops[KeyOf[c]] \in Rows
        /\ calls[c].plan \in Plans \cup {Null}
        /\ calls[c].seen \in Rows
  BY JournalAssumption DEF TypeOK, LeaseOf, Locals, Requests
<1>a. \A r \in Rows : r.plan \in Plans \cup {Null} /\ r.result \in Plans \cup {Null}
  BY DEF Rows
<1>1. ASSUME NEW c \in Callers, InsertOperation(c) PROVE TypeOK'
  <2>1. now + Lease \in Nat
    BY JournalAssumption DEF TypeOK
  <2>2. ops' \in [Keys -> Rows]
    BY <1>0, <1>1, <2>1 DEF InsertOperation, TypeOK, Rows, Statuses
  <2>3. calls' \in [Callers -> Locals]
    BY <1>1, LocalUpdate
       DEF InsertOperation, TypeOK, Running, Attempting, AttemptSteps
  <2> QED
    BY <1>1, <2>2, <2>3 DEF InsertOperation, TypeOK
<1>2. ASSUME NEW c \in Callers, ReadOperation(c) PROVE TypeOK'
  BY <1>0, <1>2, LocalUpdate DEF ReadOperation, TypeOK, Running
<1>22. ASSUME NEW c \in Callers, FindOperation(c) PROVE TypeOK'
  BY <1>22, LocalUpdate DEF FindOperation, TypeOK, Running
<1>23. ASSUME NEW c \in Callers, ReadOwnOperation(c) PROVE TypeOK'
  <2>1. calls' \in [Callers -> Locals]
    BY <1>0, <1>a, <1>23, AttemptType DEF ReadOwnOperation
  <2> QED
    BY <1>23, <2>1 DEF ReadOwnOperation, TypeOK
<1>3. ASSUME NEW c \in Callers, ReclaimOperation(c) PROVE TypeOK'
  <2>1. ops' \in [Keys -> Rows]
    BY <1>0, <1>3, RowUpdate DEF ReclaimOperation, TypeOK
  <2>2. calls' \in [Callers -> Locals]
    BY <1>0, <1>a, <1>3, AttemptType, RefuseType DEF ReclaimOperation
  <2> QED
    BY <1>3, <2>1, <2>2 DEF ReclaimOperation, TypeOK
<1>4. ASSUME NEW c \in Callers, UseStoredOperation(c) PROVE TypeOK'
  <2>1. CASE calls' = [calls EXCEPT ![c].pc = "ok", ![c].plan = calls[c].seen.result,
                                    ![c].seen = NoRow]
    <3>1. calls' \in [Callers -> Locals]
      BY <1>0, <1>a, <2>1, LocalUpdate, NoRowType DEF TypeOK, Final
    <3> QED
      BY <1>4, <3>1 DEF UseStoredOperation, TypeOK
  <2>2. CASE Goto(c, "retry") \/ Refuse(c)
    <3>1. calls' \in [Callers -> Locals]
      BY <2>2, GotoType, RefuseType DEF Running
    <3> QED
      BY <1>4, <3>1 DEF UseStoredOperation, TypeOK
  <2> QED
    BY <1>4, <2>1, <2>2 DEF UseStoredOperation
<1>5. ASSUME NEW c \in Callers, RetryOperation(c) PROVE TypeOK'
  <2>1. ops' \in [Keys -> Rows]
    <3>1. CASE ops' = [ops EXCEPT ![KeyOf[c]].status = "pending",
                                  ![KeyOf[c]].lease = LeaseOf(c)]
      BY <1>0, <3>1, RowUpdate DEF TypeOK, Statuses
    <3>2. CASE UNCHANGED ops
      BY <3>2 DEF TypeOK
    <3> QED
      BY <1>5, <3>1, <3>2 DEF RetryOperation
  <2>2. calls' \in [Callers -> Locals]
    BY <1>0, <1>a, <1>5, AttemptType, RefuseType DEF RetryOperation
  <2> QED
    BY <1>5, <2>1, <2>2 DEF RetryOperation, TypeOK
<1>6. ASSUME NEW c \in Callers, PlanOperation(c) PROVE TypeOK'
  <2>1. CASE Goto(c, "fail") /\ UNCHANGED ops
    <3>1. calls' \in [Callers -> Locals]
      BY <2>1, GotoType DEF Running, Attempting
    <3> QED
      BY <1>6, <2>1, <3>1 DEF PlanOperation, TypeOK
  <2>2. ASSUME NEW plan \in Plans, NEW pc \in Running,
               ops' = [ops EXCEPT ![KeyOf[c]].plan = plan],
               calls' = [calls EXCEPT ![c].pc = pc, ![c].plan = plan,
                                      ![c].at = FirstRecord]
        PROVE  TypeOK'
    <3>1. ops' \in [Keys -> Rows]
      BY <1>0, <2>2, RowUpdate DEF TypeOK
    <3>2. calls' \in [Callers -> Locals]
      <4>1. FirstRecord \in Nat \ {0}
        BY DEF FirstRecord
      <4>2. calls' = [calls EXCEPT ![c].pc = pc, ![c].plan = plan,
                                   ![c].at = FirstRecord, ![c].seen = calls[c].seen]
        BY <2>2 DEF TypeOK, Locals
      <4> QED
        BY <1>0, <4>1, <4>2, LocalsUpdate
    <3> QED
      BY <1>6, <3>1, <3>2 DEF PlanOperation, TypeOK
  <2>3. \A plan : PcAt(plan, FirstRecord) \in Running
    BY PcAtType DEF Running, Attempting, AttemptSteps
  <2> QED
    BY <1>6, <2>1, <2>2, <2>3, FreshPlan DEF PlanOperation
<1>7. ASSUME NEW c \in Callers, CheckRecord(c) PROVE TypeOK'
  <2>1. calls' \in [Callers -> Locals]
    BY <1>7, GotoType DEF CheckRecord, Running, Attempting, AttemptSteps
  <2> QED
    BY <1>7, <2>1 DEF CheckRecord, TypeOK
<1>8. ASSUME NEW c \in Callers, SaveRecord(c) PROVE TypeOK'
  <2>1. calls' \in [Callers -> Locals]
    BY <1>8, GotoType DEF SaveRecord, Running, Attempting, AttemptSteps
  <2> QED
    BY <1>8, <2>1 DEF SaveRecord, TypeOK, Contents
<1>9. ASSUME NEW c \in Callers, ProjectRecord(c) PROVE TypeOK'
  <2>1. calls' \in [Callers -> Locals]
    BY <1>9, GotoType DEF ProjectRecord, Running, Attempting, AttemptSteps
  <2> QED
    BY <1>9, <2>1 DEF ProjectRecord, TypeOK, Contents
<1>10. ASSUME NEW c \in Callers, ReadHistory(c) PROVE TypeOK'
  <2>1. calls' \in [Callers -> Locals]
    BY <1>10, GotoType DEF ReadHistory, Running, Attempting, AttemptSteps
  <2> QED
    BY <1>10, <2>1 DEF ReadHistory, TypeOK
<1>11. ASSUME NEW c \in Callers, AddHistory(c) PROVE TypeOK'
  <2>1. calls' \in [Callers -> Locals]
    BY <1>11, GotoType DEF AddHistory, Running, Attempting, AttemptSteps
  <2>2. history' \in [Ids -> Nat]
    <3>1. history' = [history EXCEPT ![Current(c)] = history[Current(c)] + 1]
      BY <1>11 DEF AddHistory
    <3>2. CASE Current(c) \in Ids
      BY <3>1, <3>2 DEF TypeOK
    <3>3. CASE Current(c) \notin Ids
      BY <3>1, <3>3 DEF TypeOK
    <3> QED
      BY <3>2, <3>3
  <2> QED
    BY <1>11, <2>1, <2>2 DEF AddHistory, TypeOK
<1>12. ASSUME NEW c \in Callers, ArchiveEpisode(c) PROVE TypeOK'
  <2>1. calls' \in [Callers -> Locals]
    BY <1>12, GotoType DEF ArchiveEpisode, Running, Attempting, AttemptSteps
  <2> QED
    BY <1>0, <1>12, <2>1 DEF ArchiveEpisode, TypeOK
<1>24. ASSUME NEW c \in Callers, LinkRecord(c) PROVE TypeOK'
  <2>1. calls' \in [Callers -> Locals]
    BY <1>24, NextRecordType DEF LinkRecord
  <2> QED
    BY <1>24, <2>1 DEF LinkRecord, TypeOK
<1>25. ASSUME NEW c \in Callers, ReadEpisode(c) PROVE TypeOK'
  <2>1. calls' \in [Callers -> Locals]
    BY <1>25, GotoType DEF ReadEpisode, Running, Attempting, AttemptSteps
  <2> QED
    BY <1>25, <2>1 DEF ReadEpisode, TypeOK
<1>13. ASSUME NEW c \in Callers, AppendEvents(c) PROVE TypeOK'
  <2>1. calls' \in [Callers -> Locals]
    BY <1>13, GotoType DEF AppendEvents, Running, Attempting, AttemptSteps
  <2>2. events' \subseteq Ids
    <3>1. calls[c].plan \in Plans
      BY <1>13 DEF AppendEvents, PlanHeld, WithPlan, Attempting, AttemptSteps
    <3> QED
      BY <1>13, <3>1, PlannedIdsType DEF AppendEvents, TypeOK
  <2> QED
    BY <1>13, <2>1, <2>2 DEF AppendEvents, TypeOK
<1>14. ASSUME NEW c \in Callers, CommitOperation(c) PROVE TypeOK'
  <2>1. calls' \in [Callers -> Locals]
    BY <1>14, GotoType DEF CommitOperation, Running, Attempting
  <2>2. ops' \in [Keys -> Rows]
    BY <1>0, <1>14, RowUpdate DEF CommitOperation, TypeOK, Statuses
  <2> QED
    BY <1>14, <2>1, <2>2 DEF CommitOperation, TypeOK
<1>15. ASSUME NEW c \in Callers, Reply(c) PROVE TypeOK'
  BY <1>15, GotoType DEF Reply, Final, TypeOK
<1>16. ASSUME NEW c \in Callers, StepThrows(c) PROVE TypeOK'
  BY <1>16, GotoType DEF StepThrows, Running, Attempting, TypeOK
<1>17. ASSUME NEW c \in Callers, FailOperation(c) PROVE TypeOK'
  <2>1. calls' \in [Callers -> Locals]
    BY <1>17, GotoType DEF FailOperation, Final
  <2>2. \E raw, vector \in BOOLEAN :
          ops' = [ops EXCEPT ![KeyOf[c]].status = "failed",
                             ![KeyOf[c]].lease = 0,
                             ![KeyOf[c]].raw = raw, ![KeyOf[c]].vector = vector]
    BY <1>17, Zenon DEF FailOperation
  <2>3. ops' \in [Keys -> Rows]
    BY <1>0, <2>2, OpsUpdate DEF Statuses
  <2> QED
    BY <1>17, <2>1, <2>3 DEF FailOperation, TypeOK
<1>18. ASSUME NEW c \in Callers, Crash(c) PROVE TypeOK'
  BY <1>18, GotoType DEF Crash, Final, TypeOK
<1>19. CASE Tick
  BY <1>19 DEF Tick, TypeOK
<1>20. ASSUME NEW id \in Ids, EditRecord(id) \/ PurgeRecord(id) PROVE TypeOK'
  <2>1. CASE EditRecord(id)
    BY <2>1 DEF EditRecord, TypeOK, Contents
  <2>2. CASE PurgeRecord(id)
    <3>1. memories' \in [Ids -> Contents] /\ vectors' \in [Ids -> Contents]
      BY <2>2 DEF PurgeRecord, TypeOK, Contents
    <3>2. history' \in [Ids -> Nat] /\ links' \in [Ids -> BOOLEAN]
      BY <2>2 DEF PurgeRecord, TypeOK
    <3> QED
      BY <2>2, <3>1, <3>2 DEF PurgeRecord, TypeOK
  <2> QED
    BY <1>20, <2>1, <2>2
<1>21. CASE AllReturned \/ UNCHANGED vars
  BY <1>21 DEF AllReturned, vars, TypeOK
<1> QED
  BY <1>1, <1>2, <1>3, <1>4, <1>5, <1>6, <1>7, <1>8, <1>9, <1>10, <1>11,
     <1>12, <1>13, <1>14, <1>15, <1>16, <1>17, <1>18, <1>19, <1>20, <1>21,
     <1>22, <1>23, <1>24, <1>25
     DEF Next, Step
-----------------------------------------------------------------------------

\* What the assignments to a caller's locals change, field by field.
\* A step moves caller c, keeps the instant c began, and moves no other call.
OnlyCall(c) ==
    /\ calls'[c].createdAt = calls[c].createdAt
    /\ \A d \in Callers : d # c => calls'[d] = calls[d]

LEMMA GotoEffect ==
    ASSUME TypeOK, NEW c \in Callers, NEW p, Goto(c, p)
    PROVE  /\ calls'[c].pc = p
           /\ calls'[c].plan = calls[c].plan
           /\ calls'[c].seen = calls[c].seen
           /\ OnlyCall(c)
BY DEF OnlyCall, TypeOK, Locals, Goto

LEMMA RefuseEffect ==
    ASSUME TypeOK, NEW c \in Callers, Refuse(c)
    PROVE  /\ calls'[c].pc = "error"
           /\ OnlyCall(c)
BY DEF OnlyCall, TypeOK, Locals, Refuse

LEMMA NextRecordEffect ==
    ASSUME TypeOK, NEW c \in Callers, NextRecord(c)
    PROVE  /\ calls'[c].pc \in {"check", "episode"}
           /\ calls'[c].plan = calls[c].plan
           /\ OnlyCall(c)
BY DEF OnlyCall, TypeOK, Locals, NextRecord, PcAt

LEMMA AttemptEffect ==
    ASSUME TypeOK, NEW c \in Callers, NEW plan, Attempt(c, plan)
    PROVE  /\ calls'[c].pc \in {"extract", "check", "episode"}
           /\ calls'[c].pc # "extract" => plan # Null
           /\ calls'[c].plan = plan
           /\ OnlyCall(c)
BY DEF OnlyCall, TypeOK, Locals, Attempt, PcAt

\* The locals of a caller that has just frozen its plan.
LEMMA PlanEffect ==
    ASSUME TypeOK, NEW c \in Callers, NEW plan,
           calls' = [calls EXCEPT ![c].pc = PcAt(plan, FirstRecord),
                                  ![c].plan = plan, ![c].at = FirstRecord]
    PROVE  /\ calls'[c].pc \in {"check", "episode"}
           /\ calls'[c].plan = plan
           /\ OnlyCall(c)
BY DEF OnlyCall, TypeOK, Locals, PcAt

LEMMA PlanHeldStep == TypeOK /\ PlanHeld /\ [Next]_vars => PlanHeld'
<1> SUFFICES ASSUME TypeOK, PlanHeld, [Next]_vars PROVE PlanHeld'
  OBVIOUS
<1> USE DEF OnlyCall, PlanHeld, WithPlan, Attempting, AttemptSteps
<1>0. /\ Null \notin Plans
      /\ \A c \in Callers : ops[KeyOf[c]].plan \in Plans \cup {Null}
      /\ \A c \in Callers : calls[c].seen.plan \in Plans \cup {Null}
  BY JournalAssumption DEF TypeOK, Locals, Rows
<1>1. ASSUME NEW c \in Callers, InsertOperation(c) PROVE PlanHeld'
  BY <1>1 DEF InsertOperation, TypeOK, Locals
<1>2. ASSUME NEW c \in Callers, ReadOperation(c) \/ FindOperation(c) PROVE PlanHeld'
  BY <1>2 DEF ReadOperation, FindOperation, TypeOK, Locals
<1>20. ASSUME NEW c \in Callers, ReadOwnOperation(c) PROVE PlanHeld'
  BY <1>0, <1>20, AttemptEffect DEF ReadOwnOperation
<1>3. ASSUME NEW c \in Callers, ReclaimOperation(c) PROVE PlanHeld'
  BY <1>0, <1>3, AttemptEffect, RefuseEffect DEF ReclaimOperation
<1>4. ASSUME NEW c \in Callers, UseStoredOperation(c) PROVE PlanHeld'
  BY <1>4, GotoEffect, RefuseEffect DEF UseStoredOperation, TypeOK, Locals
<1>5. ASSUME NEW c \in Callers, RetryOperation(c) PROVE PlanHeld'
  BY <1>0, <1>5, AttemptEffect, RefuseEffect DEF RetryOperation
<1>6. ASSUME NEW c \in Callers, PlanOperation(c) PROVE PlanHeld'
  <2>1. CASE Goto(c, "fail")
    BY <2>1, GotoEffect
  <2>2. ASSUME NEW plan \in Plans,
               calls' = [calls EXCEPT ![c].pc = PcAt(plan, FirstRecord),
                                      ![c].plan = plan, ![c].at = FirstRecord]
        PROVE  PlanHeld'
    <3>1. /\ calls'[c].plan = plan
          /\ OnlyCall(c)
      BY <2>2, PlanEffect
    <3> QED
      BY <3>1
  <2> QED
    BY <1>6, <2>1, <2>2, FreshPlan DEF PlanOperation
<1>7. ASSUME NEW c \in Callers, CheckRecord(c) PROVE PlanHeld'
  BY <1>7, GotoEffect DEF CheckRecord
<1>8. ASSUME NEW c \in Callers, SaveRecord(c) PROVE PlanHeld'
  BY <1>8, GotoEffect DEF SaveRecord
<1>9. ASSUME NEW c \in Callers, ProjectRecord(c) PROVE PlanHeld'
  BY <1>9, GotoEffect DEF ProjectRecord
<1>10. ASSUME NEW c \in Callers, ReadHistory(c) PROVE PlanHeld'
  BY <1>10, GotoEffect DEF ReadHistory
<1>11. ASSUME NEW c \in Callers, AddHistory(c) \/ ReadEpisode(c) PROVE PlanHeld'
  BY <1>11, GotoEffect DEF AddHistory, ReadEpisode
<1>21. ASSUME NEW c \in Callers, LinkRecord(c) PROVE PlanHeld'
  BY <1>21, NextRecordEffect DEF LinkRecord
<1>12. ASSUME NEW c \in Callers, ArchiveEpisode(c) PROVE PlanHeld'
  BY <1>12, GotoEffect DEF ArchiveEpisode
<1>13. ASSUME NEW c \in Callers, AppendEvents(c) PROVE PlanHeld'
  BY <1>13, GotoEffect DEF AppendEvents
<1>14. ASSUME NEW c \in Callers, CommitOperation(c) PROVE PlanHeld'
  BY <1>14, GotoEffect DEF CommitOperation
<1>15. ASSUME NEW c \in Callers, Reply(c) PROVE PlanHeld'
  BY <1>15, GotoEffect DEF Reply
<1>16. ASSUME NEW c \in Callers, StepThrows(c) PROVE PlanHeld'
  BY <1>16, GotoEffect DEF StepThrows
<1>17. ASSUME NEW c \in Callers, FailOperation(c) PROVE PlanHeld'
  <2>1. Goto(c, "error")
    BY <1>17, Zenon DEF FailOperation
  <2> QED
    BY <2>1, GotoEffect
<1>18. ASSUME NEW c \in Callers, Crash(c) PROVE PlanHeld'
  BY <1>18, GotoEffect DEF Crash
<1>19. ASSUME UNCHANGED calls PROVE PlanHeld'
  BY <1>19
<1> QED
  BY <1>1, <1>2, <1>3, <1>4, <1>5, <1>6, <1>7, <1>8, <1>9, <1>10, <1>11, <1>12,
     <1>13, <1>14, <1>15, <1>16, <1>17, <1>18, <1>19, <1>20, <1>21
     DEF Next, Step, Tick, EditRecord, PurgeRecord, AllReturned, vars

\* Type correctness: the tables and the callers' local variables keep their
\* types, whatever the callers, the users, the providers and the clock do.
THEOREM TypeCorrect == Spec => []TypeOK
<1>1. Init => TypeOK /\ PlanHeld
  BY NoRowType, JournalAssumption
     DEF Init, TypeOK, PlanHeld, WithPlan, Attempting, AttemptSteps, Locals, Contents
<1>2. (TypeOK /\ PlanHeld) /\ [Next]_vars => (TypeOK /\ PlanHeld)'
  BY TypeStep, PlanHeldStep
<1> QED
  BY <1>1, <1>2, PTL DEF Spec

-----------------------------------------------------------------------------

\* A step changes the row of key k and no other.
OnlyRow(k) == \A j \in Keys : j # k => ops'[j] = ops[j]

\* An attempt's row is its own: the inductive invariant of prompt attempts.
Held == InTime /\ RowHeld /\ Alone

\* A step inside the try block that leaves the row alone.
LEMMA InsideStep ==
    ASSUME TypeOK, Held, NEW c \in Callers, UNCHANGED <<ops, now>>,
           calls[c].pc \in AttemptSteps \cup {"claimed"},
           calls'[c].pc \in AttemptSteps \cup {"fail"},
           OnlyCall(c)
    PROVE  Held'
BY DEF OnlyCall, OnlyRow, Held, InTime, RowHeld, Alone, Leased, LeaseOf, Running, Attempting,
       AttemptSteps, TypeOK, Locals

\* A call that ends, or has not begun its attempt, holds nothing.
LEMMA OutsideStep ==
    ASSUME TypeOK, Held, NEW c \in Callers, UNCHANGED <<ops, now>>,
           \/ calls'[c].pc \in Final
           \/ calls'[c].pc \in {"reclaim", "retry"} /\ calls[c].pc \in Running,
           OnlyCall(c)
    PROVE  Held'
BY DEF OnlyCall, OnlyRow, Held, InTime, RowHeld, Alone, Leased, LeaseOf, Running, Attempting,
       AttemptSteps, Final, TypeOK, Locals

\* The two compare-and-sets start an attempt on a row nobody attempts.
LEMMA TakeOverStep ==
    ASSUME TypeOK, Held, NEW c \in Callers, UNCHANGED now,
           calls[c].pc \in {"reclaim", "retry"},
           \/ Reclaimable(ops[KeyOf[c]], calls[c].createdAt)
           \/ Retryable(ops[KeyOf[c]]),
           ops'[KeyOf[c]].status = "pending",
           ops'[KeyOf[c]].lease = LeaseOf(c),
           OnlyRow(KeyOf[c]),
           calls'[c].pc \in AttemptSteps \cup {"error"},
           OnlyCall(c)
    PROVE  Held'
<1>1. \A d \in Callers : KeyOf[d] = KeyOf[c] => calls[d].pc \notin Attempting
  BY JournalAssumption
     DEF OnlyCall, OnlyRow, Held, InTime, RowHeld, Leased, LeaseOf, Running, Attempting,
         AttemptSteps, TypeOK, Locals, Reclaimable, Retryable
<1>2. \A d \in Callers : KeyOf[d] \in Keys
  BY JournalAssumption
<1>3. InTime'
  BY DEF OnlyCall, OnlyRow, Held, InTime, LeaseOf, Running, Attempting, AttemptSteps
<1>4. RowHeld'
  BY <1>1, <1>2 DEF OnlyCall, OnlyRow, Held, RowHeld, Leased, LeaseOf, Attempting, AttemptSteps
<1>5. Alone'
  BY <1>1 DEF OnlyCall, OnlyRow, Held, Alone, Attempting, AttemptSteps
<1> QED
  BY <1>3, <1>4, <1>5 DEF Held

\* What the assignments to a row change.
LEMMA LeaseEffect ==
    ASSUME TypeOK, NEW k \in Keys, NEW lease,
           ops' = [ops EXCEPT ![k].lease = lease]
    PROVE  /\ ops'[k].lease = lease
           /\ ops'[k].status = ops[k].status
           /\ ops'[k].result = ops[k].result
           /\ ops'[k].request = ops[k].request
           /\ OnlyRow(k)
BY DEF OnlyRow, TypeOK, Rows

LEMMA FrozenEffect ==
    ASSUME TypeOK, NEW k \in Keys, NEW plan,
           ops' = [ops EXCEPT ![k].plan = plan]
    PROVE  /\ ops'[k].lease = ops[k].lease
           /\ ops'[k].status = ops[k].status
           /\ ops'[k].result = ops[k].result
           /\ ops'[k].request = ops[k].request
           /\ OnlyRow(k)
BY DEF OnlyRow, TypeOK, Rows

LEMMA CommitEffect ==
    ASSUME TypeOK, NEW c \in Callers, CommitOperation(c)
    PROVE  /\ ops'[KeyOf[c]].status = "committed"
           /\ ops'[KeyOf[c]].result = calls[c].plan
           /\ ops'[KeyOf[c]].request = ops[KeyOf[c]].request
           /\ OnlyRow(KeyOf[c])
BY JournalAssumption DEF OnlyRow, TypeOK, Rows, CommitOperation

LEMMA FailEffect ==
    ASSUME TypeOK, NEW c \in Callers, FailOperation(c)
    PROVE  /\ ops'[KeyOf[c]].status = "failed"
           /\ ops'[KeyOf[c]].result = ops[KeyOf[c]].result
           /\ ops'[KeyOf[c]].request = ops[KeyOf[c]].request
           /\ OnlyRow(KeyOf[c])
<1>1. PICK raw, vector : ops' = [ops EXCEPT ![KeyOf[c]].status = "failed",
                                            ![KeyOf[c]].lease = 0,
                                            ![KeyOf[c]].raw = raw,
                                            ![KeyOf[c]].vector = vector]
  BY Zenon DEF FailOperation
<1>2. KeyOf[c] \in Keys
  BY JournalAssumption
<1> QED
  BY <1>1, <1>2 DEF OnlyRow, TypeOK, Rows

LEMMA HeldStep ==
    TypeOK /\ PlanHeld /\ PromptAttempts /\ Held /\ [Next]_vars => Held'
<1> SUFFICES ASSUME TypeOK, PlanHeld, PromptAttempts, Held, [Next]_vars
             PROVE  Held'
  OBVIOUS
<1> USE DEF records
<1>0. \A c \in Callers : KeyOf[c] \in Keys
  BY JournalAssumption
<1>1. ASSUME NEW c \in Callers, InsertOperation(c) PROVE Held'
  <2>1. \A d \in Callers : KeyOf[d] = KeyOf[c] => calls[d].pc \notin Attempting
    BY <1>1 DEF InsertOperation, NoRow, Held, RowHeld, Leased, Attempting
  <2>2. /\ ops'[KeyOf[c]].status = "pending"
        /\ ops'[KeyOf[c]].lease = now + Lease
        /\ OnlyRow(KeyOf[c])
    BY <1>0, <1>1 DEF InsertOperation, OnlyRow, TypeOK
  <2>3. /\ calls'[c].pc = "claimed" /\ calls'[c].createdAt = now /\ now' = now
        /\ \A d \in Callers : d # c => calls'[d] = calls[d]
    BY <1>1 DEF InsertOperation, TypeOK, Locals
  <2>4. InTime'
    BY <2>3, JournalAssumption DEF OnlyCall, OnlyRow, Held, InTime, LeaseOf, TypeOK
  <2>5. RowHeld'
    BY <1>0, <2>1, <2>2, <2>3
       DEF OnlyCall, OnlyRow, Held, RowHeld, Leased, LeaseOf, Attempting, AttemptSteps
  <2>6. Alone'
    BY <2>1, <2>3 DEF OnlyCall, OnlyRow, Held, Alone
  <2> QED
    BY <2>4, <2>5, <2>6 DEF Held
<1>2. ASSUME NEW c \in Callers, FindOperation(c) PROVE Held'
  <2>1. /\ calls'[c].pc = "select" /\ calls'[c].createdAt = now
        /\ \A d \in Callers : d # c => calls'[d] = calls[d]
        /\ UNCHANGED <<ops, now>>
    BY <1>2 DEF FindOperation, TypeOK, Locals
  <2>2. InTime'
    BY <2>1, JournalAssumption DEF OnlyCall, OnlyRow, Held, InTime, LeaseOf, TypeOK
  <2> QED
    BY <2>1, <2>2
       DEF OnlyCall, OnlyRow, Held, RowHeld, Alone, Leased, LeaseOf, Attempting, AttemptSteps
<1>14. ASSUME NEW c \in Callers, ReadOperation(c) PROVE Held'
  <2>1. /\ calls[c].pc = "select" /\ calls'[c].pc = "reclaim"
        /\ UNCHANGED <<ops, now>> /\ OnlyCall(c)
    BY <1>14 DEF ReadOperation, OnlyCall, TypeOK, Locals
  <2> QED
    BY <2>1, OutsideStep DEF Running
<1>15. ASSUME NEW c \in Callers, ReadOwnOperation(c) PROVE Held'
  <2>1. calls[c].pc = "claimed" /\ UNCHANGED <<ops, now>>
    BY <1>15 DEF ReadOwnOperation
  <2> QED
    BY <1>15, <2>1, AttemptEffect, InsideStep DEF ReadOwnOperation, AttemptSteps
<1>3. ASSUME NEW c \in Callers, ReclaimOperation(c) PROVE Held'
  <2>1. /\ ops[KeyOf[c]].status = "pending"
        /\ ops' = [ops EXCEPT ![KeyOf[c]].lease = LeaseOf(c)]
        /\ Reclaimable(ops[KeyOf[c]], calls[c].createdAt)
        /\ calls[c].pc = "reclaim" /\ UNCHANGED now
    BY <1>3 DEF ReclaimOperation, Reclaimable
  <2>2. /\ calls'[c].pc \in AttemptSteps \cup {"error"}
        /\ OnlyCall(c)
    BY <1>3, AttemptEffect, RefuseEffect DEF ReclaimOperation, AttemptSteps
  <2>3. /\ ops'[KeyOf[c]].status = "pending"
        /\ ops'[KeyOf[c]].lease = LeaseOf(c)
        /\ OnlyRow(KeyOf[c])
    BY <1>0, <2>1, LeaseEffect
  <2> QED
    BY <2>1, <2>2, <2>3, TakeOverStep
<1>4. ASSUME NEW c \in Callers, UseStoredOperation(c) PROVE Held'
  <2>1. calls[c].pc \in Running /\ UNCHANGED <<ops, now>>
    BY <1>4 DEF UseStoredOperation, Running
  <2>2. CASE Goto(c, "retry")
    BY <2>1, <2>2, GotoEffect, OutsideStep
  <2>3. CASE Refuse(c)
    BY <2>1, <2>3, RefuseEffect, OutsideStep DEF Final
  <2>4. CASE calls' = [calls EXCEPT ![c].pc = "ok", ![c].plan = calls[c].seen.result,
                                    ![c].seen = NoRow]
    <3>1. calls'[c].pc \in Final /\ OnlyCall(c)
      BY <2>4 DEF OnlyCall, Final, TypeOK, Locals
    <3> QED
      BY <2>1, <3>1, OutsideStep
  <2> QED
    BY <1>4, <2>2, <2>3, <2>4 DEF UseStoredOperation
<1>5. ASSUME NEW c \in Callers, RetryOperation(c) PROVE Held'
  <2>1. CASE /\ Retryable(ops[KeyOf[c]])
             /\ ops' = [ops EXCEPT ![KeyOf[c]].status = "pending",
                                   ![KeyOf[c]].lease = LeaseOf(c)]
             /\ Attempt(c, calls[c].seen.plan)
    <3>1. /\ calls'[c].pc \in AttemptSteps
          /\ OnlyCall(c)
      BY <2>1, AttemptEffect DEF AttemptSteps
    <3>2. calls[c].pc = "retry" /\ UNCHANGED now
      BY <1>5 DEF RetryOperation
    <3>3. /\ ops'[KeyOf[c]].status = "pending"
          /\ ops'[KeyOf[c]].lease = LeaseOf(c)
          /\ OnlyRow(KeyOf[c])
      BY <1>0, <2>1 DEF OnlyRow, TypeOK, Rows
    <3> QED
      BY <2>1, <3>1, <3>2, <3>3, TakeOverStep
  <2>2. CASE Refuse(c) /\ UNCHANGED ops
    <3>1. UNCHANGED now
      BY <1>5 DEF RetryOperation
    <3> QED
      BY <2>2, <3>1, RefuseEffect, OutsideStep DEF Final
  <2> QED
    BY <1>5, <2>1, <2>2 DEF RetryOperation
<1>6. ASSUME NEW c \in Callers, PlanOperation(c) PROVE Held'
  <2>1. calls[c].pc = "extract" /\ UNCHANGED now
    BY <1>6 DEF PlanOperation
  <2>2. CASE Goto(c, "fail") /\ UNCHANGED ops
    BY <2>1, <2>2, GotoEffect, InsideStep DEF AttemptSteps
  <2>3. ASSUME NEW plan \in Plans,
               ops' = [ops EXCEPT ![KeyOf[c]].plan = plan],
               calls' = [calls EXCEPT ![c].pc = PcAt(plan, FirstRecord),
                                      ![c].plan = plan, ![c].at = FirstRecord]
        PROVE  Held'
    <3>1. /\ calls'[c].pc \in {"check", "episode"}
          /\ OnlyCall(c)
      BY <2>3, PlanEffect
    <3>2. /\ \A d \in Callers : ops'[KeyOf[d]].lease = ops[KeyOf[d]].lease
          /\ \A d \in Callers : ops'[KeyOf[d]].status = ops[KeyOf[d]].status
      BY <1>0, <2>3, FrozenEffect
    <3>3. InTime' /\ Alone'
      BY <2>1, <3>1
         DEF OnlyCall, OnlyRow, Held, InTime, Alone, LeaseOf, Running, Attempting, AttemptSteps
    <3>4. RowHeld'
      <4>1. \A d \in Callers : Leased(d) => Leased(d)'
        BY <3>1, <3>2 DEF OnlyCall, Leased, LeaseOf
      <4>2. calls[c].pc \in AttemptSteps /\ calls'[c].pc \in AttemptSteps
        BY <2>1, <3>1 DEF AttemptSteps
      <4> QED
        BY <3>1, <3>2, <4>1, <4>2 DEF OnlyCall, OnlyRow, Held, RowHeld
    <3> QED
      BY <3>3, <3>4 DEF Held
  <2> QED
    BY <1>6, <2>2, <2>3, FreshPlan DEF PlanOperation
<1>7. ASSUME NEW c \in Callers,
             CheckRecord(c) \/ SaveRecord(c) \/ ProjectRecord(c) \/ ReadHistory(c)
             \/ AddHistory(c) \/ LinkRecord(c) \/ ReadEpisode(c) \/ ArchiveEpisode(c)
             \/ AppendEvents(c)
      PROVE  Held'
  <2>1. /\ calls[c].pc \in AttemptSteps
        /\ UNCHANGED <<ops, now>>
        /\ NextRecord(c) \/ \E p \in AttemptSteps \cup {"fail"} : Goto(c, p)
    BY <1>7 DEF CheckRecord, SaveRecord, ProjectRecord, ReadHistory, AddHistory,
                LinkRecord, ReadEpisode, ArchiveEpisode, AppendEvents, AttemptSteps
  <2>2. CASE NextRecord(c)
    BY <2>1, <2>2, NextRecordEffect, InsideStep DEF AttemptSteps
  <2>3. ASSUME NEW p \in AttemptSteps \cup {"fail"}, Goto(c, p) PROVE Held'
    BY <2>1, <2>3, GotoEffect, InsideStep
  <2> QED
    BY <2>1, <2>2, <2>3
<1>8. ASSUME NEW c \in Callers, CommitOperation(c) PROVE Held'
  <2>1. /\ calls[c].pc = "commit" /\ UNCHANGED now
        /\ Goto(c, "reply")
    BY <1>8 DEF CommitOperation
  <2>2. /\ calls'[c].pc = "reply"
        /\ OnlyCall(c)
    BY <2>1, GotoEffect
  <2>3. \A d \in Callers : d # c /\ KeyOf[d] = KeyOf[c] => calls[d].pc \notin Attempting
    BY <2>1 DEF OnlyCall, OnlyRow, Held, Alone, Attempting, AttemptSteps
  <2>4. /\ ops'[KeyOf[c]].status = "committed"
        /\ OnlyRow(KeyOf[c])
    BY <1>8, CommitEffect
  <2>5. InTime' /\ Alone'
    <3>1. InTime'
      BY <2>1, <2>2
         DEF OnlyCall, Held, InTime, LeaseOf, Running, Attempting, AttemptSteps
    <3>2. Alone'
      BY <2>1, <2>2 DEF OnlyCall, Held, Alone, Attempting, AttemptSteps
    <3> QED
      BY <3>1, <3>2
  <2>6. RowHeld'
    BY <1>0, <2>2, <2>3, <2>4
       DEF OnlyCall, OnlyRow, Held, RowHeld, Leased, LeaseOf, Attempting, AttemptSteps
  <2> QED
    BY <2>5, <2>6 DEF Held
<1>9. ASSUME NEW c \in Callers, Reply(c) \/ Crash(c) PROVE Held'
  <2>1. UNCHANGED <<ops, now>> /\ \E p \in Final : Goto(c, p)
    BY <1>9 DEF Reply, Crash, Final
  <2> QED
    BY <2>1, GotoEffect, OutsideStep
<1>10. ASSUME NEW c \in Callers, StepThrows(c) PROVE Held'
  <2>1. UNCHANGED <<ops, now>> /\ Goto(c, "fail")
    BY <1>10 DEF StepThrows
  <2>2. CASE calls[c].pc \in AttemptSteps
    BY <2>1, <2>2, GotoEffect, InsideStep
  <2>3. CASE RepliesLost /\ calls[c].pc = "reply"
    BY <2>1, <2>3, GotoEffect
       DEF OnlyCall, OnlyRow, Held, InTime, RowHeld, Alone, Leased, LeaseOf, Running, Attempting,
           AttemptSteps
  <2> QED
    BY <1>10, <2>2, <2>3 DEF StepThrows
<1>11. ASSUME NEW c \in Callers, FailOperation(c) PROVE Held'
  <2>1. /\ calls[c].pc = "fail" /\ UNCHANGED now
        /\ Goto(c, "error")
    BY <1>11, Zenon DEF FailOperation
  <2>2. /\ calls'[c].pc = "error"
        /\ OnlyCall(c)
    BY <2>1, GotoEffect
  <2>3. \A d \in Callers : d # c /\ KeyOf[d] = KeyOf[c] => calls[d].pc \notin Attempting
    BY <2>1 DEF OnlyCall, OnlyRow, Held, Alone, Attempting, AttemptSteps
  <2>4. OnlyRow(KeyOf[c])
    BY <1>11, FailEffect
  <2>5. InTime' /\ Alone'
    <3>1. InTime'
      BY <2>1, <2>2
         DEF OnlyCall, Held, InTime, LeaseOf, Running, Attempting, AttemptSteps
    <3>2. Alone'
      BY <2>1, <2>2 DEF OnlyCall, Held, Alone, Attempting, AttemptSteps
    <3> QED
      BY <3>1, <3>2
  <2>6. RowHeld'
    BY <1>0, <2>2, <2>3, <2>4
       DEF OnlyCall, OnlyRow, Held, RowHeld, Leased, LeaseOf, Attempting, AttemptSteps
  <2> QED
    BY <2>5, <2>6 DEF Held
<1>12. CASE Tick
  BY <1>12
     DEF Tick, Held, InTime, RowHeld, Alone, Leased, LeaseOf, TypeOK, Locals
<1>13. ASSUME UNCHANGED <<ops, calls, now>> PROVE Held'
  BY <1>13 DEF OnlyCall, OnlyRow, Held, InTime, RowHeld, Alone, Leased, LeaseOf
<1> QED
  BY <1>1, <1>2, <1>3, <1>4, <1>5, <1>6, <1>7, <1>8, <1>9, <1>10, <1>11, <1>12,
     <1>13, <1>14, <1>15
     DEF Next, Step, EditRecord, PurgeRecord, AllReturned, vars

-----------------------------------------------------------------------------

\* One result per key: inductive as long as the row of an attempt is Held.
Results == ResultsAgree /\ Bound /\ OneResult

\* A step that leaves the rows alone and tells its caller nothing.
LEMMA QuietStep ==
    ASSUME Results, NEW c \in Callers, UNCHANGED ops, OnlyCall(c),
           \/ calls'[c].pc \in {"error", "crashed"}
           \/ /\ calls[c].pc \in Attempting
              /\ calls'[c].pc \in AttemptSteps \cup {"fail"}
    PROVE  Results'
<1>1. ResultsAgree'
  BY DEF Results, ResultsAgree, OnlyCall, AttemptSteps
<1>2. Bound'
  BY DEF Results, Bound, OnlyCall, Attempting, AttemptSteps
<1>3. OneResult'
  BY DEF Results, OneResult
<1> QED
  BY <1>1, <1>2, <1>3 DEF Results

\* A step that takes over, freezes or fails a row that is not committed.
LEMMA UncommittedStep ==
    ASSUME Results, NEW c \in Callers, OnlyCall(c), OnlyRow(KeyOf[c]),
           \A d \in Callers : KeyOf[d] \in Keys,
           ops[KeyOf[c]] # NoRow,
           ops[KeyOf[c]].status # "committed",
           ops'[KeyOf[c]].status # "committed",
           ops'[KeyOf[c]].result = ops[KeyOf[c]].result,
           ops'[KeyOf[c]].request = ops[KeyOf[c]].request,
           \/ calls'[c].pc = "error"
           \/ /\ calls'[c].pc \in AttemptSteps
              /\ ops[KeyOf[c]].request = RequestOf[c]
    PROVE  Results'
<1>1. ResultsAgree'
  BY DEF Results, ResultsAgree, OnlyCall, OnlyRow, AttemptSteps
<1>2. Bound'
  <2>1. \A k \in Keys : ops'[k].request = ops[k].request
    BY DEF OnlyRow
  <2>2. \A k \in Keys : ops'[k].request = Null => ops'[k] = NoRow
    BY <2>1 DEF Results, Bound, OnlyRow
  <2>3. \A d \in Callers :
          /\ calls'[d].pc \in Attempting \cup {"retry", "ok"} =>
                ops'[KeyOf[d]].request = RequestOf[d]
          /\ calls'[d].pc = "select" => ops'[KeyOf[d]].request # Null
          /\ calls'[d].pc = "reclaim" =>
                /\ ops'[KeyOf[d]].request # Null
                /\ ops'[KeyOf[d]].request = calls'[d].seen.request
    BY <2>1 DEF Results, Bound, OnlyCall, Attempting, AttemptSteps
  <2> QED
    BY <2>2, <2>3 DEF Bound
<1>3. OneResult'
  BY DEF Results, OneResult, OnlyRow
<1> QED
  BY <1>1, <1>2, <1>3 DEF Results

LEMMA ResultsStep ==
    TypeOK /\ PlanHeld /\ PromptAttempts /\ ~RepliesLost /\ Held /\ Results
    /\ [Next]_vars => Results'
<1> SUFFICES ASSUME TypeOK, PlanHeld, PromptAttempts, ~RepliesLost, Held, Results,
                    [Next]_vars
             PROVE  Results'
  OBVIOUS
<1> USE DEF records
<1>0. /\ \A c \in Callers : KeyOf[c] \in Keys
      /\ \A c \in Callers : RequestOf[c] # Null
      /\ Null \notin Plans
  BY JournalAssumption DEF Requests
<1>1. ASSUME NEW c \in Callers, InsertOperation(c) PROVE Results'
  <2>1. /\ ops[KeyOf[c]] = NoRow
        /\ ops'[KeyOf[c]].status = "pending"
        /\ ops'[KeyOf[c]].request = RequestOf[c]
        /\ ops'[KeyOf[c]].result = Null
        /\ OnlyRow(KeyOf[c])
    BY <1>0, <1>1 DEF InsertOperation, OnlyRow, TypeOK
  <2>2. /\ calls'[c].pc = "claimed"
        /\ \A d \in Callers : d # c => calls'[d] = calls[d]
    BY <1>1 DEF InsertOperation, TypeOK, Locals
  <2>3. \A d \in Callers : KeyOf[d] = KeyOf[c] =>
          calls[d].pc \notin Attempting \cup {"retry", "ok", "select", "reclaim"}
    BY <1>0, <2>1 DEF Results, Bound, NoRow
  <2>4. ResultsAgree'
    BY <1>0, <2>1, <2>2, <2>3 DEF Results, ResultsAgree, OnlyRow, Attempting
  <2>5. Bound'
    BY <1>0, <2>1, <2>2, <2>3 DEF Results, Bound, OnlyRow
  <2>6. OneResult'
    BY <1>0, <2>1 DEF Results, OneResult, OnlyRow
  <2> QED
    BY <2>4, <2>5, <2>6 DEF Results
<1>2. ASSUME NEW c \in Callers, FindOperation(c) PROVE Results'
  <2>1. /\ calls'[c].pc = "select"
        /\ \A d \in Callers : d # c => calls'[d] = calls[d]
        /\ ops[KeyOf[c]] # NoRow /\ UNCHANGED ops
    BY <1>2 DEF FindOperation, TypeOK, Locals
  <2>2. ResultsAgree'
    BY <2>1 DEF Results, ResultsAgree
  <2>3. Bound'
    BY <1>0, <2>1 DEF Results, Bound, Attempting, AttemptSteps
  <2>4. OneResult'
    BY <2>1 DEF Results, OneResult
  <2> QED
    BY <2>2, <2>3, <2>4 DEF Results
<1>13. ASSUME NEW c \in Callers, ReadOperation(c) PROVE Results'
  <2>1. /\ calls'[c].pc = "reclaim" /\ calls'[c].seen = ops[KeyOf[c]]
        /\ \A d \in Callers : d # c => calls'[d] = calls[d]
        /\ calls[c].pc = "select" /\ UNCHANGED ops
    BY <1>13 DEF ReadOperation, TypeOK, Locals
  <2>2. ResultsAgree'
    BY <2>1 DEF Results, ResultsAgree
  <2>3. Bound'
    BY <1>0, <2>1 DEF Results, Bound, Attempting, AttemptSteps
  <2>4. OneResult'
    BY <2>1 DEF Results, OneResult
  <2> QED
    BY <2>2, <2>3, <2>4 DEF Results
<1>14. ASSUME NEW c \in Callers, ReadOwnOperation(c) PROVE Results'
  <2>1. calls[c].pc = "claimed" /\ UNCHANGED ops
    BY <1>14 DEF ReadOwnOperation
  <2> QED
    BY <1>14, <2>1, AttemptEffect, QuietStep DEF ReadOwnOperation, Attempting, AttemptSteps
<1>3. ASSUME NEW c \in Callers, ReclaimOperation(c) PROVE Results'
  <2>1. /\ ops[KeyOf[c]].status = "pending"
        /\ ops' = [ops EXCEPT ![KeyOf[c]].lease = LeaseOf(c)]
    BY <1>3 DEF ReclaimOperation, Reclaimable
  <2>2. /\ ops'[KeyOf[c]].status = "pending"
        /\ ops'[KeyOf[c]].result = ops[KeyOf[c]].result
        /\ ops'[KeyOf[c]].request = ops[KeyOf[c]].request
        /\ OnlyRow(KeyOf[c])
    BY <1>0, <2>1, LeaseEffect
  <2>3. /\ OnlyCall(c)
        /\ \/ calls'[c].pc = "error"
           \/ calls'[c].pc \in AttemptSteps /\ ops[KeyOf[c]].request = RequestOf[c]
    BY <1>3, AttemptEffect, RefuseEffect DEF ReclaimOperation, SameCommand, AttemptSteps
  <2>4. ops[KeyOf[c]] # NoRow
    BY <2>1 DEF NoRow
  <2> QED
    BY <1>0, <2>1, <2>2, <2>3, <2>4, UncommittedStep
<1>4. ASSUME NEW c \in Callers, UseStoredOperation(c) PROVE Results'
  <2>1. calls[c].pc = "reclaim" /\ UNCHANGED ops
    BY <1>4 DEF UseStoredOperation
  <2>2. CASE Refuse(c)
    BY <2>1, <2>2, RefuseEffect, QuietStep
  <2>3. CASE SameCommand(calls[c].seen, c) /\ Goto(c, "retry")
    <3>1. calls'[c].pc = "retry" /\ OnlyCall(c)
      BY <2>3, GotoEffect
    <3>2. ops[KeyOf[c]].request = RequestOf[c]
      BY <2>1, <2>3 DEF Results, Bound, SameCommand
    <3>3. ResultsAgree' /\ OneResult'
      BY <2>1, <3>1 DEF Results, ResultsAgree, OneResult, OnlyCall
    <3>4. Bound'
      BY <2>1, <3>1, <3>2 DEF Results, Bound, OnlyCall
    <3> QED
      BY <3>3, <3>4 DEF Results
  <2>4. CASE /\ SameCommand(calls[c].seen, c) /\ calls[c].seen.status = "committed"
             /\ calls' = [calls EXCEPT ![c].pc = "ok", ![c].plan = calls[c].seen.result,
                                       ![c].seen = NoRow]
    <3>1. /\ calls'[c].pc = "ok" /\ calls'[c].plan = calls[c].seen.result
          /\ OnlyCall(c)
      BY <2>4 DEF OnlyCall, TypeOK, Locals
    <3>2. /\ ops[KeyOf[c]].request = RequestOf[c]
          /\ ops[KeyOf[c]].status = "committed"
          /\ ops[KeyOf[c]].result = calls[c].seen.result
      BY <2>1, <2>4 DEF Results, ResultsAgree, Bound, SameCommand
    <3>3. ResultsAgree' /\ OneResult'
      BY <2>1, <3>1, <3>2 DEF Results, ResultsAgree, OneResult, OnlyCall
    <3>4. Bound'
      BY <2>1, <3>1, <3>2 DEF Results, Bound, OnlyCall
    <3> QED
      BY <3>3, <3>4 DEF Results
  <2> QED
    BY <1>4, <2>2, <2>3, <2>4 DEF UseStoredOperation
<1>5. ASSUME NEW c \in Callers, RetryOperation(c) PROVE Results'
  <2>1. CASE /\ Retryable(ops[KeyOf[c]])
             /\ ops' = [ops EXCEPT ![KeyOf[c]].status = "pending",
                                   ![KeyOf[c]].lease = LeaseOf(c)]
             /\ Attempt(c, calls[c].seen.plan)
    <3>1. calls'[c].pc \in AttemptSteps /\ OnlyCall(c)
      BY <2>1, AttemptEffect DEF AttemptSteps
    <3>2. /\ ops'[KeyOf[c]].status = "pending"
          /\ ops'[KeyOf[c]].result = ops[KeyOf[c]].result
          /\ ops'[KeyOf[c]].request = ops[KeyOf[c]].request
          /\ OnlyRow(KeyOf[c])
      BY <1>0, <2>1 DEF OnlyRow, TypeOK, Rows
    <3>3. ops[KeyOf[c]].status = "failed" /\ ops[KeyOf[c]] # NoRow
      BY <2>1 DEF Retryable, NoRow
    <3>4. ops[KeyOf[c]].request = RequestOf[c]
      BY <1>5 DEF RetryOperation, Results, Bound
    <3> QED
      BY <1>0, <3>1, <3>2, <3>3, <3>4, UncommittedStep
  <2>2. CASE Refuse(c) /\ UNCHANGED ops
    BY <2>2, RefuseEffect, QuietStep
  <2> QED
    BY <1>5, <2>1, <2>2 DEF RetryOperation
<1>6. ASSUME NEW c \in Callers, PlanOperation(c) PROVE Results'
  <2>1. calls[c].pc = "extract" /\ ops[KeyOf[c]].request = RequestOf[c]
    BY <1>6 DEF PlanOperation, Results, Bound, Attempting, AttemptSteps
  <2>2. CASE Goto(c, "fail") /\ UNCHANGED ops
    BY <2>1, <2>2, GotoEffect, QuietStep DEF Attempting, AttemptSteps
  <2>3. ASSUME NEW plan \in Plans,
               ops[KeyOf[c]].status = "pending",
               ops' = [ops EXCEPT ![KeyOf[c]].plan = plan],
               calls' = [calls EXCEPT ![c].pc = PcAt(plan, FirstRecord),
                                      ![c].plan = plan, ![c].at = FirstRecord]
        PROVE  Results'
    <3>1. calls'[c].pc \in AttemptSteps /\ OnlyCall(c)
      BY <2>3, PlanEffect DEF AttemptSteps
    <3>2. /\ ops'[KeyOf[c]].status = "pending"
          /\ ops'[KeyOf[c]].result = ops[KeyOf[c]].result
          /\ ops'[KeyOf[c]].request = ops[KeyOf[c]].request
          /\ OnlyRow(KeyOf[c])
      BY <1>0, <2>3, FrozenEffect
    <3>3. ops[KeyOf[c]] # NoRow
      BY <2>3 DEF NoRow
    <3> QED
      BY <1>0, <2>1, <2>3, <3>1, <3>2, <3>3, UncommittedStep
  <2> QED
    BY <1>6, <2>2, <2>3, FreshPlan DEF PlanOperation
<1>7. ASSUME NEW c \in Callers,
             CheckRecord(c) \/ SaveRecord(c) \/ ProjectRecord(c) \/ ReadHistory(c)
             \/ AddHistory(c) \/ LinkRecord(c) \/ ReadEpisode(c) \/ ArchiveEpisode(c)
             \/ AppendEvents(c) \/ StepThrows(c)
      PROVE  Results'
  <2>1. /\ calls[c].pc \in Attempting
        /\ UNCHANGED ops
        /\ NextRecord(c) \/ \E p \in AttemptSteps \cup {"fail"} : Goto(c, p)
    BY <1>7 DEF CheckRecord, SaveRecord, ProjectRecord, ReadHistory, AddHistory,
                LinkRecord, ReadEpisode, ArchiveEpisode, AppendEvents, StepThrows,
                Attempting, AttemptSteps
  <2>2. CASE NextRecord(c)
    BY <2>1, <2>2, NextRecordEffect, QuietStep DEF AttemptSteps
  <2>3. ASSUME NEW p \in AttemptSteps \cup {"fail"}, Goto(c, p) PROVE Results'
    BY <2>1, <2>3, GotoEffect, QuietStep
  <2> QED
    BY <2>1, <2>2, <2>3
<1>8. ASSUME NEW c \in Callers, CommitOperation(c) PROVE Results'
  <2>1. calls[c].pc = "commit" /\ Goto(c, "reply")
    BY <1>8 DEF CommitOperation
  <2>2. /\ calls'[c].pc = "reply" /\ calls'[c].plan = calls[c].plan
        /\ OnlyCall(c)
    BY <2>1, GotoEffect
  <2>3. /\ ops'[KeyOf[c]].status = "committed"
        /\ ops'[KeyOf[c]].result = calls[c].plan
        /\ ops'[KeyOf[c]].request = ops[KeyOf[c]].request
        /\ OnlyRow(KeyOf[c])
    BY <1>8, CommitEffect
  <2>4. ops[KeyOf[c]].status = "pending"
    BY <2>1 DEF Held, RowHeld, Leased, AttemptSteps
  <2>5. ops[KeyOf[c]].request = RequestOf[c] /\ ops[KeyOf[c]].request # Null
    BY <1>0, <2>1 DEF Results, Bound, Attempting, AttemptSteps
  <2>6. calls[c].plan \in Plans
    BY <2>1 DEF PlanHeld, WithPlan, Attempting, AttemptSteps
  <2>7. ResultsAgree'
    BY <1>0, <2>2, <2>3, <2>4 DEF Results, ResultsAgree, OnlyCall, OnlyRow
  <2>8. Bound'
    <3>1. \A k \in Keys : ops'[k].request = Null => ops'[k] = NoRow
      BY <2>3, <2>5 DEF Results, Bound, OnlyRow
    <3>2. \A d \in Callers : ops'[KeyOf[d]].request = ops[KeyOf[d]].request
      BY <1>0, <2>3 DEF OnlyRow
    <3> QED
      BY <2>2, <2>5, <3>1, <3>2 DEF Results, Bound, OnlyCall
  <2>9. OneResult'
    BY <1>0, <2>3, <2>6 DEF Results, OneResult, OnlyRow
  <2> QED
    BY <2>7, <2>8, <2>9 DEF Results
<1>9. ASSUME NEW c \in Callers, Reply(c) PROVE Results'
  <2>1. /\ calls[c].pc = "reply" /\ UNCHANGED ops
        /\ calls'[c].pc = "ok" /\ calls'[c].plan = calls[c].plan
        /\ OnlyCall(c)
    BY <1>9, GotoEffect DEF Reply
  <2>2. ResultsAgree' /\ OneResult'
    BY <2>1 DEF Results, ResultsAgree, OneResult, OnlyCall
  <2>3. Bound'
    BY <2>1 DEF Results, Bound, OnlyCall, Attempting
  <2> QED
    BY <2>2, <2>3 DEF Results
<1>10. ASSUME NEW c \in Callers, Crash(c) PROVE Results'
  <2>1. UNCHANGED ops /\ Goto(c, "crashed")
    BY <1>10 DEF Crash
  <2> QED
    BY <2>1, GotoEffect, QuietStep
<1>11. ASSUME NEW c \in Callers, FailOperation(c) PROVE Results'
  <2>1. calls[c].pc = "fail" /\ Goto(c, "error")
    BY <1>11, Zenon DEF FailOperation
  <2>2. calls'[c].pc = "error" /\ OnlyCall(c)
    BY <2>1, GotoEffect
  <2>3. /\ ops'[KeyOf[c]].status = "failed"
        /\ ops'[KeyOf[c]].result = ops[KeyOf[c]].result
        /\ ops'[KeyOf[c]].request = ops[KeyOf[c]].request
        /\ OnlyRow(KeyOf[c])
    BY <1>11, FailEffect
  <2>4. ops[KeyOf[c]].status = "pending" /\ ops[KeyOf[c]] # NoRow
    BY <2>1 DEF Held, RowHeld, Leased, NoRow
  <2> QED
    BY <1>0, <2>2, <2>3, <2>4, UncommittedStep
<1>12. ASSUME UNCHANGED <<ops, calls>> PROVE Results'
  BY <1>12 DEF Results, ResultsAgree, Bound, OneResult
<1> QED
  BY <1>1, <1>2, <1>3, <1>4, <1>5, <1>6, <1>7, <1>8, <1>9, <1>10, <1>11, <1>12,
     <1>13, <1>14
     DEF Next, Step, Tick, EditRecord, PurgeRecord, AllReturned, vars

-----------------------------------------------------------------------------

LEMMA InitInv == Init => TypeOK /\ PlanHeld /\ Held /\ Results
<1> SUFFICES ASSUME Init PROVE TypeOK /\ PlanHeld /\ Held /\ Results
  OBVIOUS
<1>1. TypeOK /\ PlanHeld
  BY NoRowType, JournalAssumption
     DEF Init, TypeOK, PlanHeld, WithPlan, Attempting, AttemptSteps, Locals, Contents
<1>2. Held
  BY DEF Init, Held, InTime, RowHeld, Alone, Running, Attempting, AttemptSteps
<1>3. Results
  BY JournalAssumption
     DEF Init, NoRow, Results, ResultsAgree, Bound, OneResult, Attempting, AttemptSteps
<1> QED
  BY <1>1, <1>2, <1>3

\* The inductive invariant, under whichever of the two assumptions hold.
THEOREM JournalInvariant == Spec => [](TypeOK /\ JournalInv)
<1>1. Init => TypeOK /\ JournalInv
  BY InitInv DEF JournalInv, Held, Results
<1>2. (TypeOK /\ JournalInv) /\ [Next]_vars => (TypeOK /\ JournalInv)'
  <2> SUFFICES ASSUME TypeOK, JournalInv, [Next]_vars
               PROVE  TypeOK' /\ JournalInv'
    OBVIOUS
  <2>1. PlanHeld
    BY DEF JournalInv
  <2>2. TypeOK' /\ PlanHeld'
    BY <2>1, TypeStep, PlanHeldStep
  <2>3. ASSUME PromptAttempts PROVE Held /\ Held'
    BY <2>1, <2>3, HeldStep DEF JournalInv, Held
  <2>4. ASSUME PromptAttempts, ~RepliesLost PROVE Results'
    BY <2>1, <2>3, <2>4, ResultsStep DEF JournalInv, Results
  <2> QED
    BY <2>2, <2>3, <2>4 DEF JournalInv, Held, Results
<1> QED
  BY <1>1, <1>2, PTL DEF Spec

\* Mutual exclusion of attempts: the lease and the two compare-and-sets of
\* claimOperation and retryOperation let at most one call be inside the try
\* block of add for a key, if no call outlives the lease it wrote.
THEOREM OneAttemptAtATime == PromptAttempts => (Spec => []OneAttempt)
<1> SUFFICES ASSUME PromptAttempts PROVE Spec => []OneAttempt
  OBVIOUS
<1>1. JournalInv => OneAttempt
  BY DEF JournalInv, Alone, OneAttempt, Attempting
<1> QED
  BY <1>1, JournalInvariant, PTL

\* Every caller of a key that is answered - the first, one that replays the
\* committed row, one that resumed the operation - is told the same result,
\* if no call outlives its lease and no commit is taken for a failure.
THEOREM OneAnswer ==
    PromptAttempts /\ ~RepliesLost => (Spec => []AgreeOnResult)
<1> SUFFICES ASSUME PromptAttempts, ~RepliesLost PROVE Spec => []AgreeOnResult
  OBVIOUS
<1>1. JournalInv => AgreeOnResult
  BY DEF JournalInv, ResultsAgree, AgreeOnResult
<1> QED
  BY <1>1, JournalInvariant, PTL

\* What one step does to a committed row: nothing.
LEMMA CommittedStep ==
    ASSUME TypeOK, PlanHeld, PromptAttempts, ~RepliesLost, Held, [Next]_vars,
           NEW k \in Keys, ops[k].status = "committed"
    PROVE  ops'[k].status = "committed" /\ ops'[k].result = ops[k].result
<1>0. \A c \in Callers : KeyOf[c] \in Keys
  BY JournalAssumption
<1>1. ASSUME NEW c \in Callers, OnlyRow(KeyOf[c]),
             ops[KeyOf[c]].status # "committed"
      PROVE  UNCHANGED ops[k]
  BY <1>1 DEF OnlyRow
<1>2. ASSUME NEW c \in Callers, InsertOperation(c) PROVE UNCHANGED ops[k]
  BY <1>0, <1>1, <1>2 DEF InsertOperation, NoRow, OnlyRow, TypeOK
<1>3. ASSUME NEW c \in Callers, ReclaimOperation(c) PROVE UNCHANGED ops[k]
  BY <1>0, <1>1, <1>3, LeaseEffect DEF ReclaimOperation, Reclaimable
<1>4. ASSUME NEW c \in Callers, RetryOperation(c) PROVE UNCHANGED ops[k]
  BY <1>0, <1>1, <1>4 DEF RetryOperation, Retryable, OnlyRow, TypeOK
<1>5. ASSUME NEW c \in Callers, PlanOperation(c) PROVE UNCHANGED ops[k]
  BY <1>0, <1>1, <1>5 DEF PlanOperation, OnlyRow, TypeOK
<1>6. ASSUME NEW c \in Callers, CommitOperation(c) PROVE UNCHANGED ops[k]
  <2>1. ops[KeyOf[c]].status = "pending"
    BY <1>6 DEF CommitOperation, Held, RowHeld, Leased, AttemptSteps
  <2> QED
    BY <1>1, <1>6, <2>1, CommitEffect
<1>7. ASSUME NEW c \in Callers, FailOperation(c) PROVE UNCHANGED ops[k]
  <2>1. calls[c].pc = "fail"
    BY <1>7, Zenon DEF FailOperation
  <2>2. ops[KeyOf[c]].status = "pending"
    BY <2>1 DEF Held, RowHeld, Leased
  <2> QED
    BY <1>1, <1>7, <2>2, FailEffect
<1> QED
  BY <1>2, <1>3, <1>4, <1>5, <1>6, <1>7
     DEF Next, Step, FindOperation, ReadOwnOperation, ReadOperation,
         UseStoredOperation, CheckRecord, SaveRecord, ProjectRecord, ReadHistory,
         AddHistory, LinkRecord, ReadEpisode, ArchiveEpisode, AppendEvents,
         Reply, StepThrows, Crash, Tick, EditRecord, PurgeRecord, AllReturned, vars

\* No retry, no late failure and no late planner ever touches the status or
\* the result of a committed operation, under the same two conditions.
THEOREM CommitIsFinal ==
    PromptAttempts /\ ~RepliesLost => (Spec => CommittedIsFinal)
<1> SUFFICES ASSUME PromptAttempts, ~RepliesLost PROVE Spec => CommittedIsFinal
  OBVIOUS
<1> DEFINE Kept == \A k \in Keys : ops[k].status = "committed" =>
                     ops'[k].status = "committed" /\ ops'[k].result = ops[k].result
<1>1. TypeOK /\ JournalInv /\ [Next]_vars => [Kept]_vars
  BY CommittedStep DEF JournalInv, Held
<1> QED
  BY <1>1, JournalInvariant, PTL DEF Spec, CommittedIsFinal

-----------------------------------------------------------------------------
(* The journal implements the promise of an idempotency key.               *)

\* What a caller was told, as Abstract sees it.
Told(c) == IF calls[c].pc = "ok" THEN calls[c].plan ELSE Null

\* A step that changes no request, no result and no answer is a stutter.
LEMMA StutterStep ==
    ASSUME \A k \in Keys : /\ ops'[k].request = ops[k].request
                           /\ ops'[k].result = ops[k].result,
           \A c \in Callers : Told(c)' = Told(c)
    PROVE  UNCHANGED Abstract!vars
<1>1. [k \in Keys |-> ops'[k].request] = [k \in Keys |-> ops[k].request]
  OBVIOUS
<1>2. [k \in Keys |-> ops'[k].result] = [k \in Keys |-> ops[k].result]
  OBVIOUS
<1>3. [c \in Callers |-> Told(c)'] = [c \in Callers |-> Told(c)]
  OBVIOUS
<1> QED
  BY <1>1, <1>2, <1>3 DEF Abstract!vars, Told

\* The insertion binds the key; the commit is the moment the command takes
\* effect; a reply and a replay are answers; every other step is a stutter.
LEMMA AbstractStep ==
    ASSUME TypeOK, PlanHeld, PromptAttempts, ~RepliesLost, Held, Results, [Next]_vars
    PROVE  [Abstract!Next]_(Abstract!vars)
<1>0. /\ \A c \in Callers : KeyOf[c] \in Keys
      /\ \A c \in Callers : RequestOf[c] # Null
      /\ Null \notin Plans
  BY JournalAssumption DEF Requests
<1>1. ASSUME NEW c \in Callers, InsertOperation(c) PROVE Abstract!Bind(c)
  <2>1. /\ ops[KeyOf[c]] = NoRow
        /\ ops'[KeyOf[c]].request = RequestOf[c]
        /\ ops'[KeyOf[c]].result = Null
        /\ OnlyRow(KeyOf[c])
    BY <1>0, <1>1 DEF InsertOperation, OnlyRow, TypeOK
  <2>2. /\ calls'[c].pc = "claimed" /\ calls[c].pc = "idle"
        /\ \A d \in Callers : d # c => calls'[d] = calls[d]
    BY <1>1 DEF InsertOperation, TypeOK, Locals
  <2>3. [k \in Keys |-> ops'[k].request]
        = [[k \in Keys |-> ops[k].request] EXCEPT ![KeyOf[c]] = RequestOf[c]]
    BY <1>0, <2>1 DEF OnlyRow
  <2>4. [k \in Keys |-> ops'[k].result] = [k \in Keys |-> ops[k].result]
    BY <2>1 DEF OnlyRow, NoRow
  <2>5. [d \in Callers |-> Told(d)'] = [d \in Callers |-> Told(d)]
    BY <2>2 DEF Told
  <2>6. ops[KeyOf[c]].request = Null
    BY <2>1 DEF NoRow
  <2> QED
    BY <1>0, <2>3, <2>4, <2>5, <2>6 DEF Abstract!Bind, Told
<1>2. ASSUME NEW c \in Callers, CommitOperation(c) PROVE Abstract!TakeEffect(c)
  <2>1. calls[c].pc = "commit" /\ Goto(c, "reply")
    BY <1>2 DEF CommitOperation
  <2>2. calls'[c].pc = "reply" /\ OnlyCall(c)
    BY <2>1, GotoEffect
  <2>3. /\ ops'[KeyOf[c]].request = ops[KeyOf[c]].request
        /\ ops'[KeyOf[c]].result = calls[c].plan
        /\ OnlyRow(KeyOf[c])
    BY <1>2, CommitEffect
  <2>4. ops[KeyOf[c]].request = RequestOf[c] /\ ops[KeyOf[c]].result = Null
    BY <1>0, <2>1 DEF Held, RowHeld, Leased, Results, Bound, OneResult, Attempting,
                      AttemptSteps
  <2>5. calls[c].plan \in Plans
    BY <2>1 DEF PlanHeld, WithPlan, Attempting, AttemptSteps
  <2>6. [k \in Keys |-> ops'[k].request] = [k \in Keys |-> ops[k].request]
    BY <2>3 DEF OnlyRow
  <2>7. [k \in Keys |-> ops'[k].result]
        = [[k \in Keys |-> ops[k].result] EXCEPT ![KeyOf[c]] = calls[c].plan]
    BY <1>0, <2>3 DEF OnlyRow
  <2>8. [d \in Callers |-> Told(d)'] = [d \in Callers |-> Told(d)]
    BY <2>1, <2>2 DEF Told, OnlyCall
  <2> QED
    BY <1>0, <2>4, <2>5, <2>6, <2>7, <2>8 DEF Abstract!TakeEffect, Told
<1>3. ASSUME NEW c \in Callers, UNCHANGED ops, OnlyCall(c),
             calls[c].pc # "ok", calls'[c].pc = "ok",
             ops[KeyOf[c]].status = "committed",
             ops[KeyOf[c]].request = RequestOf[c],
             ops[KeyOf[c]].result = calls'[c].plan
      PROVE  Abstract!Answer(c)
  <2>1. [k \in Keys |-> ops'[k].request] = [k \in Keys |-> ops[k].request]
    BY <1>3
  <2>2. [k \in Keys |-> ops'[k].result] = [k \in Keys |-> ops[k].result]
    BY <1>3
  <2>3. [d \in Callers |-> Told(d)']
        = [[d \in Callers |-> Told(d)] EXCEPT ![c] = ops[KeyOf[c]].result]
    BY <1>3 DEF Told, OnlyCall
  <2>4. ops[KeyOf[c]].result # Null
    BY <1>0, <1>3 DEF Results, OneResult
  <2> QED
    BY <1>0, <1>3, <2>1, <2>2, <2>3, <2>4 DEF Abstract!Answer, Told
<1>4. ASSUME NEW c \in Callers, UseStoredOperation(c)
      PROVE  Abstract!Answer(c) \/ UNCHANGED Abstract!vars
  <2>1. calls[c].pc = "reclaim" /\ UNCHANGED ops
    BY <1>4 DEF UseStoredOperation
  <2>2. CASE Refuse(c) \/ Goto(c, "retry")
    <3>1. calls'[c].pc \in {"error", "retry"} /\ OnlyCall(c)
      BY <2>2, GotoEffect, RefuseEffect
    <3> QED
      BY <2>1, <3>1, StutterStep DEF OnlyCall, Told
  <2>3. CASE /\ SameCommand(calls[c].seen, c) /\ calls[c].seen.status = "committed"
             /\ calls' = [calls EXCEPT ![c].pc = "ok", ![c].plan = calls[c].seen.result,
                                       ![c].seen = NoRow]
    <3>1. /\ calls'[c].pc = "ok" /\ calls'[c].plan = calls[c].seen.result
          /\ OnlyCall(c)
      BY <2>3 DEF OnlyCall, TypeOK, Locals
    <3>2. /\ ops[KeyOf[c]].request = RequestOf[c]
          /\ ops[KeyOf[c]].status = "committed"
          /\ ops[KeyOf[c]].result = calls[c].seen.result
      BY <2>1, <2>3 DEF Results, ResultsAgree, Bound, SameCommand
    <3> QED
      BY <1>3, <2>1, <3>1, <3>2
  <2> QED
    BY <1>4, <2>2, <2>3 DEF UseStoredOperation
<1>5. ASSUME NEW c \in Callers, Reply(c) PROVE Abstract!Answer(c)
  <2>1. /\ calls[c].pc = "reply" /\ UNCHANGED ops
        /\ calls'[c].pc = "ok" /\ calls'[c].plan = calls[c].plan
        /\ OnlyCall(c)
    BY <1>5, GotoEffect DEF Reply
  <2>2. /\ ops[KeyOf[c]].request = RequestOf[c]
        /\ ops[KeyOf[c]].status = "committed"
        /\ ops[KeyOf[c]].result = calls[c].plan
    BY <2>1 DEF Results, ResultsAgree, Bound, Attempting
  <2> QED
    BY <1>3, <2>1, <2>2
<1>6. ASSUME NEW c \in Callers, OnlyCall(c), OnlyRow(KeyOf[c]),
             ops'[KeyOf[c]].request = ops[KeyOf[c]].request,
             ops'[KeyOf[c]].result = ops[KeyOf[c]].result,
             calls[c].pc # "ok", calls'[c].pc # "ok"
      PROVE  UNCHANGED Abstract!vars
  <2>1. \A k \in Keys : /\ ops'[k].request = ops[k].request
                        /\ ops'[k].result = ops[k].result
    BY <1>6 DEF OnlyRow
  <2>2. \A d \in Callers : Told(d)' = Told(d)
    BY <1>6 DEF OnlyCall, Told
  <2> QED
    BY <2>1, <2>2, StutterStep
<1>7. ASSUME NEW c \in Callers, ReclaimOperation(c) PROVE UNCHANGED Abstract!vars
  <2>1. /\ calls[c].pc = "reclaim"
        /\ ops' = [ops EXCEPT ![KeyOf[c]].lease = LeaseOf(c)]
    BY <1>7 DEF ReclaimOperation
  <2>2. /\ ops'[KeyOf[c]].request = ops[KeyOf[c]].request
        /\ ops'[KeyOf[c]].result = ops[KeyOf[c]].result
        /\ OnlyRow(KeyOf[c])
    BY <1>0, <2>1, LeaseEffect
  <2>3. calls'[c].pc # "ok" /\ OnlyCall(c)
    BY <1>7, AttemptEffect, RefuseEffect DEF ReclaimOperation
  <2> QED
    BY <1>6, <2>1, <2>2, <2>3
<1>8. ASSUME NEW c \in Callers, RetryOperation(c) PROVE UNCHANGED Abstract!vars
  <2>1. calls[c].pc = "retry" /\ calls'[c].pc # "ok" /\ OnlyCall(c)
    BY <1>8, AttemptEffect, RefuseEffect DEF RetryOperation
  <2>2. /\ ops'[KeyOf[c]].request = ops[KeyOf[c]].request
        /\ ops'[KeyOf[c]].result = ops[KeyOf[c]].result
        /\ OnlyRow(KeyOf[c])
    BY <1>0, <1>8 DEF RetryOperation, OnlyRow, TypeOK, Rows
  <2> QED
    BY <1>6, <2>1, <2>2
<1>9. ASSUME NEW c \in Callers, PlanOperation(c) PROVE UNCHANGED Abstract!vars
  <2>1. calls[c].pc = "extract"
    BY <1>9 DEF PlanOperation
  <2>2. CASE Goto(c, "fail") /\ UNCHANGED ops
    <3>1. calls'[c].pc = "fail" /\ OnlyCall(c)
      BY <2>2, GotoEffect
    <3> QED
      BY <1>6, <2>1, <2>2, <3>1 DEF OnlyRow
  <2>3. ASSUME NEW plan \in Plans,
               ops' = [ops EXCEPT ![KeyOf[c]].plan = plan],
               calls' = [calls EXCEPT ![c].pc = PcAt(plan, FirstRecord),
                                      ![c].plan = plan, ![c].at = FirstRecord]
        PROVE  UNCHANGED Abstract!vars
    <3>1. calls'[c].pc # "ok" /\ OnlyCall(c)
      BY <2>3, PlanEffect
    <3>2. /\ ops'[KeyOf[c]].request = ops[KeyOf[c]].request
          /\ ops'[KeyOf[c]].result = ops[KeyOf[c]].result
          /\ OnlyRow(KeyOf[c])
      BY <1>0, <2>3, FrozenEffect
    <3> QED
      BY <1>6, <2>1, <3>1, <3>2
  <2> QED
    BY <1>9, <2>2, <2>3, FreshPlan DEF PlanOperation
<1>10. ASSUME NEW c \in Callers,
              CheckRecord(c) \/ SaveRecord(c) \/ ProjectRecord(c) \/ ReadHistory(c)
              \/ AddHistory(c) \/ LinkRecord(c) \/ ReadEpisode(c)
              \/ ArchiveEpisode(c) \/ AppendEvents(c) \/ StepThrows(c) \/ Crash(c)
       PROVE  UNCHANGED Abstract!vars
  <2>1. /\ calls[c].pc # "ok"
        /\ UNCHANGED ops
        /\ \/ NextRecord(c)
           \/ \E p \in AttemptSteps \cup {"fail", "crashed"} : Goto(c, p)
    BY <1>10 DEF CheckRecord, SaveRecord, ProjectRecord, ReadHistory, AddHistory,
                 LinkRecord, ReadEpisode, ArchiveEpisode, AppendEvents, StepThrows, Crash,
                 Running, Attempting, AttemptSteps
  <2>2. calls'[c].pc # "ok" /\ OnlyCall(c)
    BY <2>1, GotoEffect, NextRecordEffect DEF AttemptSteps
  <2> QED
    BY <1>6, <2>1, <2>2 DEF OnlyRow
<1>11. ASSUME NEW c \in Callers, FailOperation(c) PROVE UNCHANGED Abstract!vars
  <2>1. calls[c].pc = "fail" /\ Goto(c, "error")
    BY <1>11, Zenon DEF FailOperation
  <2>2. calls'[c].pc = "error" /\ OnlyCall(c)
    BY <2>1, GotoEffect
  <2>3. /\ ops'[KeyOf[c]].request = ops[KeyOf[c]].request
        /\ ops'[KeyOf[c]].result = ops[KeyOf[c]].result
        /\ OnlyRow(KeyOf[c])
    BY <1>11, FailEffect
  <2> QED
    BY <1>6, <2>1, <2>2, <2>3
<1>12. ASSUME NEW c \in Callers,
              FindOperation(c) \/ ReadOperation(c) \/ ReadOwnOperation(c)
       PROVE  UNCHANGED Abstract!vars
  <2>1. /\ UNCHANGED ops /\ calls[c].pc # "ok" /\ calls'[c].pc # "ok"
        /\ \A d \in Callers : d # c => calls'[d] = calls[d]
    BY <1>12, AttemptEffect
       DEF FindOperation, ReadOperation, ReadOwnOperation, OnlyCall, TypeOK, Locals
  <2> QED
    BY <2>1, StutterStep DEF Told
<1>13. ASSUME UNCHANGED <<ops, calls>> PROVE UNCHANGED Abstract!vars
  BY <1>13, StutterStep DEF Told
<1> QED
  BY <1>1, <1>2, <1>4, <1>5, <1>7, <1>8, <1>9, <1>10, <1>11, <1>12, <1>13
     DEF Next, Step, Tick, EditRecord, PurgeRecord, AllReturned, vars, Abstract!Next

\* Refinement: with prompt attempts whose commits are not taken for failures,
\* all that callers of add can tell of leases, retries, resumed plans and
\* crashes is what IdempotentWrite lets them: a key is bound to one command,
\* takes effect once, and every answer is that outcome.
THEOREM JournalImplementsPromise ==
    PromptAttempts /\ ~RepliesLost => (Spec => Implementation)
<1> SUFFICES ASSUME PromptAttempts, ~RepliesLost PROVE Spec => Implementation
  OBVIOUS
<1>1. Init => Abstract!Init
  BY JournalAssumption DEF Init, NoRow, Abstract!Init
<1>2. TypeOK /\ JournalInv /\ [Next]_vars => [Abstract!Next]_(Abstract!vars)
  BY AbstractStep DEF JournalInv, Held, Results
<1> QED
  BY <1>1, <1>2, JournalInvariant, PTL DEF Spec, Implementation, Abstract!Spec
=============================================================================
