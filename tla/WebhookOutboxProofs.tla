-------------------------- MODULE WebhookOutboxProofs --------------------------
(***************************************************************************)
(* Proofs about WebhookOutbox, for any mutations, endpoints and drains:    *)
(* what holds of every outbox, and what holds while drains end within the  *)
(* leases of their deliveries.                                             *)
(***************************************************************************)
EXTENDS WebhookOutbox, FiniteSetTheorems, TLAPS

\* A test has its own steps, and no row before it begins.
KindsApart ==
    \A m \in Mutations :
        /\ mutations[m].pc \in {"insert", "record"} => mutationKind[m] # "test"
        /\ mutations[m].pc = "testing" => mutationKind[m] = "test"
        /\ mutationKind[m] = "test" /\ mutations[m].pc = "start" =>
             \A d \in EventOf(m) : outbox[d].status = "none"

\* A deleted endpoint has no rows, and what was not switched is on.
EndpointsHold ==
    /\ \A d \in Deliveries : endpoints[d[2]] = "deleted" => outbox[d].status = "none"
    /\ \A e \in Endpoints \ toggled : endpoints[e] = "enabled"

\* A row a drain selected is due as long as nobody wrote it.
FreshIsDue ==
    \A r \in Drains : \A d \in drains[r].selected \cap freshRows[r] : RowDue(d)

\* The identity of an inferred add's row is that of its task.
StableIdentity ==
    \A d \in Deliveries :
        outbox[d].status # "none" /\ mutationKind[d[1]] = "inferred" => d[3] = 0

\* Who inserts read every endpoint that is enabled, and who inserted has a row.
Announced(m, e) == \E d \in EventOf(m) : d[2] = e /\ outbox[d].status # "none"

AnnouncedFirst ==
    \A m \in Mutations, e \in Endpoints \ toggled :
        /\ mutations[m].pc = "insert" => e \in mutations[m].targets
        /\ mutations[m].pc \in {"record", "success"} /\ mutationKind[m] # "test" =>
             Announced(m, e)

\* A success was received before it is recorded.
SuccessIsReceived ==
    /\ \A d \in Deliveries : outbox[d].status = "success" => d \in received
    /\ \A r \in Drains :
         drains[r].pc = "finish" /\ ~drains[r].error => drains[r].delivery \in received

-----------------------------------------------------------------------------
(* Drains that end within their leases.                                    *)

AtWork(r) == drains[r].pc \in {"endpoint", "post", "finish"}

\* The row of a delivery that is at work is this drain's, under a lease that
\* the drain's clock cannot outrun, unless its endpoint was deleted.
Held(r) ==
    LET d == drains[r].delivery IN
    \/ endpoints[d[2]] = "deleted"
    \/ /\ outbox[d].status = "processing" /\ Leased(d)
       /\ outbox[d].lease = OutboxLease - drains[r].age
       /\ tries[d] = drains[r].attempts

\* A delivery is at work in one drain.
HeldByOne ==
    \A r, s \in Drains :
        AtWork(r) /\ AtWork(s) /\ drains[r].delivery = drains[s].delivery =>
            r = s \/ endpoints[drains[r].delivery[2]] = "deleted"

LeasesHold ==
    /\ \A r \in Drains : drains[r].pc # "idle" => drains[r].age < OutboxLease
    /\ \A r \in Drains : AtWork(r) => Held(r)
    /\ HeldByOne

\* The row of a test that runs is nobody else's.
TestIsAlone ==
    \A m \in Mutations, e \in Endpoints :
        LET d == <<m, e, 0>> IN
        /\ mutations[m].pc = "testing" /\ e \in mutations[m].targets
        => \/ endpoints[e] = "deleted"
           \/ outbox[d].status = "processing" /\ tries[d] = 0

\* A row counts its claims since it was last pending, and a row that is not
\* there has none to count.
ClaimsCounted ==
    \A d \in Deliveries :
        /\ \/ outbox[d].status \in {"pending", "retry"}
           \/ outbox[d].status = "processing" /\ Leased(d)
           => outbox[d].attempts = tries[d]
        /\ outbox[d].status = "dead" => tries[d] >= MaxDeliveries
        /\ outbox[d].status = "none" /\ endpoints[d[2]] # "deleted" => tries[d] = 0

PromptInv == promptDrains => LeasesHold /\ TestIsAlone /\ ClaimsCounted

OutboxInv ==
    /\ OutboxTypeOK /\ KindsApart /\ EndpointsHold /\ FreshIsDue
    /\ StableIdentity /\ AnnouncedFirst /\ SuccessIsReceived
    /\ PromptInv
-----------------------------------------------------------------------------
(* Rows and their types.                                                   *)

LEMMA DeliveryParts ==
    /\ \A d \in Deliveries : /\ d[1] \in Mutations /\ d[2] \in Endpoints
                             /\ d[3] \in 0..MaxEmissions /\ d = <<d[1], d[2], d[3]>>
    /\ \A m \in Mutations, e \in Endpoints, n \in 0..MaxEmissions :
         <<m, e, n>> \in Deliveries
BY DEF Deliveries

\* Nobody's look at a row that was written is fresh any more.
Unwritten ==
    \A r \in Drains : \A d \in freshRows'[r] : d \in freshRows[r] /\ outbox'[d] = outbox[d]

LEMMA PutRowsEffect ==
    ASSUME OutboxTypeOK, NEW rows, PutRows(rows)
    PROVE  /\ \A d \in Deliveries :
                outbox'[d] = IF d \in DOMAIN rows THEN rows[d] ELSE outbox[d]
           /\ Unwritten
           /\ freshRows' \in [Drains -> SUBSET Deliveries]
           /\ (\A d \in DOMAIN rows : rows[d] \in DeliveryRows)
              => outbox' \in [Deliveries -> DeliveryRows]
<1>1. /\ outbox' = [d \in Deliveries |-> IF d \in DOMAIN rows THEN rows[d] ELSE outbox[d]]
      /\ freshRows' = [r \in Drains |-> freshRows[r] \ DOMAIN rows]
  BY DEF PutRows
<1>2. freshRows \in [Drains -> SUBSET Deliveries] /\ outbox \in [Deliveries -> DeliveryRows]
  BY DEF OutboxTypeOK
<1>3. freshRows' \in [Drains -> SUBSET Deliveries]
  BY <1>1, <1>2
<1>4. Unwritten
  BY <1>1, <1>2 DEF Unwritten
<1> QED
  BY <1>1, <1>2, <1>3, <1>4

LEMMA PutRowEffect ==
    ASSUME OutboxTypeOK, NEW d \in Deliveries, NEW row, PutRow(d, row)
    PROVE  /\ outbox'[d] = row
           /\ \A f \in Deliveries : f # d => outbox'[f] = outbox[f]
           /\ Unwritten
           /\ freshRows' \in [Drains -> SUBSET Deliveries]
           /\ row \in DeliveryRows => outbox' \in [Deliveries -> DeliveryRows]
<1> DEFINE rows == [x \in {d} |-> row]
<1>1. PutRows(rows)
  BY DEF PutRow
<1>2. DOMAIN rows = {d} /\ rows[d] = row
  OBVIOUS
<1> HIDE DEF rows
<1> QED
  BY <1>1, <1>2, PutRowsEffect

LEMMA RowTypes ==
    /\ NoDeliveryRow \in DeliveryRows /\ PendingRow \in DeliveryRows
    /\ NoDeliveryRow.status = "none" /\ NoDeliveryRow.attempts = 0
    /\ PendingRow.status = "pending" /\ PendingRow.attempts = 0 /\ PendingRow.due
    /\ OutboxLease \in Nat \ {0} /\ MaxDeliveries \in Nat \ {0}
    /\ CountLimit \in Nat \ {0}
    /\ MaxEmissions \in Nat \ {0}
BY OutboxAssumption DEF NoDeliveryRow, PendingRow, DeliveryRows

LEMMA CountedType ==
    \A n \in 0..CountLimit : Counted(n) \in 1..CountLimit
BY RowTypes DEF Counted

DrainLocals ==
    [pc : {"idle", "batch", "endpoint", "post", "finish"},
     selected : SUBSET Deliveries, delivery : Deliveries \cup {NoDelivery},
     attempts : 0..CountLimit, error : BOOLEAN, age : 0..OutboxLease]

LEMMA IdleType ==
    /\ IdleDrain \in DrainLocals
    /\ IdleDrain.pc = "idle" /\ IdleDrain.selected = {} /\ IdleDrain.age = 0
BY RowTypes DEF IdleDrain, DrainLocals

LEMMA NextOfBatchEffect ==
    ASSUME OutboxTypeOK, NEW r \in Drains, NEW S \in SUBSET Deliveries, NEW next,
           next = NextOfBatch(r, S)
    PROVE  /\ next \in DrainLocals
           /\ next.pc \in {"idle", "batch"} /\ next.selected = S
           /\ next.age \in {0, drains[r].age}
<1>1. CASE S = {}
  BY <1>1, IdleType DEF NextOfBatch
<1>2. CASE S # {}
  <2>1. next = [IdleDrain EXCEPT !.pc = "batch", !.selected = S, !.age = drains[r].age]
    BY <1>2 DEF NextOfBatch
  <2>2. drains[r].age \in 0..OutboxLease
    BY DEF OutboxTypeOK
  <2>3. next = [pc |-> "batch", selected |-> S, delivery |-> NoDelivery,
                attempts |-> 0, error |-> FALSE, age |-> drains[r].age]
    BY <2>1 DEF IdleDrain
  <2> QED
    BY <2>2, <2>3, RowTypes DEF DrainLocals
<1> QED
  BY <1>1, <1>2
-----------------------------------------------------------------------------
(* What each action does.                                                  *)

OthersKept(r) == \A s \in Drains : s # r => drains'[s] = drains[s]

OtherMutationsKept(m) == \A n \in Mutations : n # m => mutations'[n] = mutations[n]

OtherRowsKept(d) == \A f \in Deliveries : f # d => outbox'[f] = outbox[f]

MutationLocals ==
    [pc : {"start", "insert", "record", "testing", "success", "dead"},
     emissions : 1..MaxEmissions, targets : SUBSET Endpoints]

LEMMA MutationType ==
    ASSUME NEW f \in [Mutations -> MutationLocals], NEW m \in Mutations
    PROVE  /\ \A p \in {"start", "insert", "record", "testing", "success", "dead"} :
                [f EXCEPT ![m].pc = p] \in [Mutations -> MutationLocals]
           /\ \A T \in SUBSET Endpoints :
                [f EXCEPT ![m].targets = T] \in [Mutations -> MutationLocals]
<1>1. f[m] \in MutationLocals
  OBVIOUS
<1>2. /\ \A p \in {"start", "insert", "record", "testing", "success", "dead"} :
           [f[m] EXCEPT !.pc = p] \in MutationLocals
      /\ \A T \in SUBSET Endpoints : [f[m] EXCEPT !.targets = T] \in MutationLocals
  BY <1>1 DEF MutationLocals
<1> QED
  BY <1>2

LEMMA ReadEffect ==
    ASSUME OutboxTypeOK, NEW m \in Mutations, ReadEndpoints(m)
    PROVE  /\ mutations[m].pc = "start" /\ mutationKind[m] # "test"
           /\ mutations' \in [Mutations -> MutationLocals]
           /\ mutations'[m].pc = "insert"
           /\ mutations'[m].targets = {e \in Endpoints : endpoints[e] = "enabled"}
           /\ OtherMutationsKept(m)
           /\ UNCHANGED <<promptDrains, mutationKind, endpoints, outbox, drains,
                          freshRows, received, tries, incidents, toggled>>
<1> DEFINE T == {e \in Endpoints : endpoints[e] = "enabled"}
<1>1. T \in SUBSET Endpoints
  OBVIOUS
<1>2. mutations' = [mutations EXCEPT ![m].pc = "insert", ![m].targets = T]
  BY DEF ReadEndpoints, Emission
<1> HIDE DEF T
<1>a. mutations \in [Mutations -> MutationLocals]
  BY DEF OutboxTypeOK, MutationLocals
<1>3. /\ mutations'[m].pc = "insert" /\ mutations'[m].targets = T
      /\ OtherMutationsKept(m)
  BY <1>2, <1>a DEF MutationLocals, OtherMutationsKept
<1> DEFINE f == [mutations EXCEPT ![m].pc = "insert"]
<1>4. f \in [Mutations -> MutationLocals]
  BY <1>a, MutationType
<1>5. mutations' = [f EXCEPT ![m].targets = T]
  BY <1>2, <1>a DEF MutationLocals
<1> HIDE DEF f
<1>6. mutations' \in [Mutations -> MutationLocals]
  BY <1>1, <1>4, <1>5, MutationType
<1> QED
  BY <1>3, <1>6 DEF ReadEndpoints, T

LEMMA MutateEffect ==
    ASSUME OutboxTypeOK, NEW m \in Mutations,
           NEW pc \in {"start", "insert", "record", "testing", "success", "dead"},
           Mutate(m, pc)
    PROVE  /\ mutations' \in [Mutations -> MutationLocals]
           /\ mutations'[m].pc = pc /\ mutations'[m].targets = mutations[m].targets
           /\ OtherMutationsKept(m)
<1>a. mutations \in [Mutations -> MutationLocals]
  BY DEF OutboxTypeOK, MutationLocals
<1>1. mutations' = [mutations EXCEPT ![m].pc = pc]
  BY DEF Mutate
<1>2. mutations' \in [Mutations -> MutationLocals]
  BY <1>a, <1>1, MutationType
<1>3. /\ mutations'[m].pc = pc /\ mutations'[m].targets = mutations[m].targets
      /\ OtherMutationsKept(m)
  BY <1>a, <1>1 DEF MutationLocals, OtherMutationsKept
<1> QED
  BY <1>2, <1>3

LEMMA IdentityType ==
    ASSUME OutboxTypeOK, NEW m \in Mutations
    PROVE  Identity(m) \in 0..MaxEmissions /\ (mutationKind[m] = "inferred" => Identity(m) = 0)
BY RowTypes DEF Identity, OutboxTypeOK

\* A row that was added for mutation m.
Added(m, d) ==
    /\ d[1] = m /\ d[2] \in mutations[m].targets /\ d[3] = Identity(m)
    /\ endpoints[d[2]] # "deleted"
    /\ outbox[d].status = "none" /\ outbox'[d] = PendingRow

LEMMA InsertEffect ==
    ASSUME OutboxTypeOK, NEW m \in Mutations, InsertDeliveries(m)
    PROVE  /\ mutations[m].pc = "insert" /\ mutations'[m].pc = "record"
           /\ mutations' \in [Mutations -> MutationLocals]
           /\ mutations'[m].targets = mutations[m].targets
           /\ OtherMutationsKept(m)
           /\ \A d \in Deliveries : outbox'[d] = outbox[d] \/ Added(m, d)
           /\ \A e \in mutations[m].targets :
                outbox'[<<m, e, Identity(m)>>].status # "none"
           /\ Unwritten
           /\ outbox' \in [Deliveries -> DeliveryRows]
           /\ freshRows' \in [Drains -> SUBSET Deliveries]
           /\ UNCHANGED <<promptDrains, mutationKind, endpoints, drains, received,
                          tries, incidents, toggled>>
<1> DEFINE all == {<<m, e, Identity(m)>> : e \in mutations[m].targets}
           new == {d \in all : outbox[d].status = "none"}
           rows == [d \in new |-> PendingRow]
<1>1. /\ mutations[m].pc = "insert" /\ Mutate(m, "record") /\ PutRows(rows)
      /\ \A e \in mutations[m].targets : endpoints[e] # "deleted"
      /\ UNCHANGED <<promptDrains, mutationKind, endpoints, drains, received,
                     tries, incidents, toggled>>
  BY DEF InsertDeliveries
<1>2. /\ DOMAIN rows = new /\ \A d \in new : rows[d] = PendingRow
      /\ \A d \in DOMAIN rows : rows[d] \in DeliveryRows
  BY RowTypes
<1>3. mutations[m].targets \subseteq Endpoints
  BY DEF OutboxTypeOK
<1>4. \A d \in new : /\ d[1] = m /\ d[2] \in mutations[m].targets /\ d[3] = Identity(m)
                     /\ outbox[d].status = "none"
  OBVIOUS
<1>5. \A e \in mutations[m].targets :
        LET d == <<m, e, Identity(m)>> IN
        /\ d \in Deliveries
        /\ d \in new \/ outbox[d].status # "none"
  BY <1>3, DeliveryParts, IdentityType
<1> HIDE DEF rows, new
<1>6. /\ \A d \in Deliveries : outbox'[d] = IF d \in new THEN PendingRow ELSE outbox[d]
      /\ Unwritten /\ outbox' \in [Deliveries -> DeliveryRows]
      /\ freshRows' \in [Drains -> SUBSET Deliveries]
  BY <1>1, <1>2, PutRowsEffect
<1>7. \A d \in Deliveries : outbox'[d] = outbox[d] \/ Added(m, d)
  BY <1>1, <1>4, <1>6 DEF Added
<1>8. \A e \in mutations[m].targets : outbox'[<<m, e, Identity(m)>>].status # "none"
  BY <1>5, <1>6, RowTypes
<1> QED
  BY <1>1, <1>6, <1>7, <1>8, MutateEffect

LEMMA RecordEffect ==
    ASSUME OutboxTypeOK, NEW m \in Mutations, RecordMutation(m)
    PROVE  /\ mutations[m].pc = "record" /\ mutations'[m].pc = "success"
           /\ mutations' \in [Mutations -> MutationLocals]
           /\ OtherMutationsKept(m)
           /\ UNCHANGED <<promptDrains, mutationKind, endpoints, outbox, drains,
                          freshRows, received, tries, incidents, toggled>>
BY MutateEffect DEF RecordMutation

LEMMA MutationFailsEffect ==
    ASSUME OutboxTypeOK, NEW m \in Mutations, MutationFails(m)
    PROVE  /\ mutationKind[m] # "test" /\ mutations'[m].pc \in {"start", "dead"}
           /\ mutations' \in [Mutations -> MutationLocals]
           /\ OtherMutationsKept(m)
           /\ UNCHANGED <<promptDrains, mutationKind, endpoints, outbox, drains,
                          freshRows, received, tries, incidents, toggled>>
<1>1. mutations[m] \in MutationLocals
  BY DEF OutboxTypeOK, MutationLocals
<1> DEFINE next == IF mutations[m].emissions < MaxEmissions
                   THEN [pc |-> "start", emissions |-> mutations[m].emissions + 1,
                         targets |-> {}]
                   ELSE [mutations[m] EXCEPT !.pc = "dead"]
<1>2. next \in MutationLocals /\ next.pc \in {"start", "dead"}
  BY <1>1, RowTypes DEF MutationLocals
<1>3. mutations' = [mutations EXCEPT ![m] = next]
  BY DEF MutationFails
<1> HIDE DEF next
<1> QED
  BY <1>2, <1>3 DEF MutationFails, OtherMutationsKept, OutboxTypeOK, MutationLocals

TestRow == [status |-> "processing", attempts |-> 1, due |-> FALSE, lease |-> OutboxLease]

LEMMA BeginTestEffect ==
    ASSUME OutboxTypeOK, NEW m \in Mutations, NEW e \in Endpoints, BeginTest(m, e)
    PROVE  LET d == <<m, e, 0>> IN
           /\ d \in Deliveries /\ d \in EventOf(m) /\ d[1] = m /\ d[2] = e /\ d[3] = 0
           /\ mutationKind[m] = "test" /\ mutations[m].pc = "start"
           /\ endpoints[e] # "deleted"
           /\ outbox'[d] = TestRow /\ TestRow.status = "processing"
           /\ OtherRowsKept(d)
           /\ mutations'[m].pc = "testing" /\ mutations'[m].targets = {e}
           /\ mutations' \in [Mutations -> MutationLocals]
           /\ OtherMutationsKept(m)
           /\ Unwritten
           /\ outbox' \in [Deliveries -> DeliveryRows]
           /\ freshRows' \in [Drains -> SUBSET Deliveries]
           /\ UNCHANGED <<promptDrains, mutationKind, endpoints, drains, received,
                          tries, incidents, toggled>>
<1> DEFINE d == <<m, e, 0>>
<1>1. d \in Deliveries /\ d \in EventOf(m) /\ d[1] = m /\ d[2] = e /\ d[3] = 0
  BY DeliveryParts, RowTypes DEF EventOf
<1>2. TestRow \in DeliveryRows /\ TestRow.status = "processing"
  BY RowTypes DEF TestRow, DeliveryRows
<1>3. PutRow(d, TestRow)
  BY DEF BeginTest, TestRow
<1>4. /\ mutations' = [mutations EXCEPT ![m].pc = "testing", ![m].targets = {e}]
      /\ mutationKind[m] = "test" /\ mutations[m].pc = "start"
      /\ endpoints[e] # "deleted"
      /\ UNCHANGED <<promptDrains, mutationKind, endpoints, drains, received,
                     tries, incidents, toggled>>
  BY DEF BeginTest
<1>5. /\ mutations'[m].pc = "testing" /\ mutations'[m].targets = {e}
      /\ mutations' \in [Mutations -> MutationLocals] /\ OtherMutationsKept(m)
  BY <1>4 DEF OutboxTypeOK, MutationLocals, OtherMutationsKept
<1> HIDE DEF d
<1>6. /\ outbox'[d] = TestRow /\ OtherRowsKept(d) /\ Unwritten
      /\ outbox' \in [Deliveries -> DeliveryRows]
      /\ freshRows' \in [Drains -> SUBSET Deliveries]
  BY <1>1, <1>2, <1>3, PutRowEffect DEF OtherRowsKept
<1> QED
  BY <1>1, <1>2, <1>4, <1>5, <1>6 DEF d

LEMMA TestRowBegins ==
    ASSUME OutboxTypeOK, NEW m \in Mutations, NEW e \in Endpoints, BeginTest(m, e),
           NEW d, d = <<m, e, 0>>
    PROVE  /\ outbox'[d].status = "processing" /\ tries' = tries
           /\ mutationKind[m] = "test" /\ mutations[m].pc = "start"
           /\ endpoints[e] # "deleted"
<1>1. d \in Deliveries
  BY DeliveryParts, RowTypes
<1>2. PutRow(d, TestRow)
  BY DEF BeginTest, TestRow
<1>3. outbox'[d] = TestRow
  BY <1>1, <1>2, PutRowEffect
<1> QED
  BY <1>3 DEF TestRow, BeginTest

LEMMA EndTestEffect ==
    ASSUME OutboxTypeOK, NEW m \in Mutations, EndTest(m)
    PROVE  /\ mutations[m].pc = "testing" /\ mutations'[m].pc \in {"success", "dead"}
           /\ mutations' \in [Mutations -> MutationLocals]
           /\ OtherMutationsKept(m)
           /\ Unwritten
           /\ outbox' \in [Deliveries -> DeliveryRows]
           /\ freshRows' \in [Drains -> SUBSET Deliveries]
           /\ received \subseteq received' /\ received' \subseteq Deliveries
           /\ UNCHANGED <<promptDrains, mutationKind, endpoints, drains, tries,
                          incidents, toggled>>
           /\ \/ UNCHANGED outbox
              \/ \E e \in mutations[m].targets :
                   LET d == <<m, e, 0>> IN
                   /\ d \in Deliveries /\ d[1] = m /\ d[2] = e /\ d[3] = 0
                   /\ endpoints[e] # "deleted"
                   /\ outbox'[d].status \in {"success", "failed"}
                   /\ outbox'[d].status = "success" => d \in received'
                   /\ outbox'[d].attempts = outbox[d].attempts
                   /\ OtherRowsKept(d)
<1>0. /\ mutations[m].pc = "testing" /\ mutations[m].targets \subseteq Endpoints
      /\ UNCHANGED <<promptDrains, mutationKind, endpoints, drains, tries,
                     incidents, toggled>>
      /\ received \subseteq Deliveries
      /\ freshRows \in [Drains -> SUBSET Deliveries]
      /\ outbox \in [Deliveries -> DeliveryRows]
  BY DEF EndTest, OutboxTypeOK
<1>1. CASE Mutate(m, "dead") /\ UNCHANGED <<outbox, freshRows, received>>
  <2>1. Unwritten
    BY <1>1, <1>0 DEF Unwritten
  <2> QED
    BY <1>0, <1>1, <2>1, MutateEffect
<1>2. ASSUME NEW ok \in BOOLEAN, NEW e \in mutations[m].targets, NEW d, d = <<m, e, 0>>,
             received' = IF ok THEN received \cup {d} ELSE received,
             IF endpoints[e] = "deleted" THEN UNCHANGED <<outbox, freshRows>>
             ELSE PutRow(d, [outbox[d] EXCEPT !.status = IF ok THEN "success" ELSE "failed"])
      PROVE  /\ Unwritten
             /\ outbox' \in [Deliveries -> DeliveryRows]
             /\ freshRows' \in [Drains -> SUBSET Deliveries]
             /\ received \subseteq received' /\ received' \subseteq Deliveries
             /\ \/ UNCHANGED outbox
                \/ /\ d \in Deliveries /\ d[1] = m /\ d[2] = e /\ d[3] = 0
                   /\ endpoints[e] # "deleted"
                   /\ outbox'[d].status \in {"success", "failed"}
                   /\ outbox'[d].status = "success" => d \in received'
                   /\ outbox'[d].attempts = outbox[d].attempts
                   /\ OtherRowsKept(d)
  <2>1. d \in Deliveries /\ d[1] = m /\ d[2] = e /\ d[3] = 0
    BY <1>0, <1>2, DeliveryParts, RowTypes
  <2>2. received \subseteq received' /\ received' \subseteq Deliveries
    BY <1>0, <1>2, <2>1
  <2>3. CASE endpoints[e] = "deleted"
    BY <1>0, <1>2, <2>2, <2>3 DEF Unwritten
  <2>4. CASE endpoints[e] # "deleted"
    <3> DEFINE row == [outbox[d] EXCEPT !.status = IF ok THEN "success" ELSE "failed"]
    <3>1. /\ row \in DeliveryRows /\ row.status \in {"success", "failed"}
          /\ row.status = "success" => ok
          /\ row.attempts = outbox[d].attempts
      BY <1>0, <2>1 DEF DeliveryRows
    <3>2. PutRow(d, row)
      BY <1>2, <2>4
    <3> HIDE DEF row
    <3>3. /\ outbox'[d] = row /\ OtherRowsKept(d) /\ Unwritten
          /\ outbox' \in [Deliveries -> DeliveryRows]
          /\ freshRows' \in [Drains -> SUBSET Deliveries]
      BY <2>1, <3>1, <3>2, PutRowEffect DEF OtherRowsKept
    <3> QED
      BY <1>2, <2>1, <2>2, <2>4, <3>1, <3>3
  <2> QED
    BY <2>3, <2>4
<1>3. CASE \E ok \in BOOLEAN, e \in mutations[m].targets :
             LET d == <<m, e, 0>> IN
             /\ received' = IF ok THEN received \cup {d} ELSE received
             /\ IF endpoints[e] = "deleted" THEN UNCHANGED <<outbox, freshRows>>
                ELSE PutRow(d, [outbox[d] EXCEPT
                                !.status = IF ok THEN "success" ELSE "failed"])
             /\ Mutate(m, "success")
  <2>1. PICK ok \in BOOLEAN, e \in mutations[m].targets :
          LET d == <<m, e, 0>> IN
          /\ received' = IF ok THEN received \cup {d} ELSE received
          /\ IF endpoints[e] = "deleted" THEN UNCHANGED <<outbox, freshRows>>
             ELSE PutRow(d, [outbox[d] EXCEPT
                             !.status = IF ok THEN "success" ELSE "failed"])
          /\ Mutate(m, "success")
    BY <1>3
  <2> DEFINE d == <<m, e, 0>>
  <2>2. /\ Unwritten
        /\ outbox' \in [Deliveries -> DeliveryRows]
        /\ freshRows' \in [Drains -> SUBSET Deliveries]
        /\ received \subseteq received' /\ received' \subseteq Deliveries
        /\ \/ UNCHANGED outbox
           \/ /\ d \in Deliveries /\ d[1] = m /\ d[2] = e /\ d[3] = 0
              /\ endpoints[e] # "deleted"
              /\ outbox'[d].status \in {"success", "failed"}
              /\ outbox'[d].status = "success" => d \in received'
              /\ outbox'[d].attempts = outbox[d].attempts
              /\ OtherRowsKept(d)
    BY <2>1, <1>2
  <2>3. /\ mutations'[m].pc = "success" /\ mutations' \in [Mutations -> MutationLocals]
        /\ OtherMutationsKept(m)
    BY <2>1, MutateEffect
  <2> QED
    BY <1>0, <2>2, <2>3
<1> QED
  BY <1>1, <1>3 DEF EndTest

LEMMA SelectedType ==
    ASSUME NEW S \in SUBSET Deliveries, NEW next,
           next = [IdleDrain EXCEPT !.pc = "batch", !.selected = S]
    PROVE  next \in DrainLocals /\ next.pc = "batch" /\ next.selected = S /\ next.age = 0
BY IdleType DEF DrainLocals

Posted(l, pc, error) == [l EXCEPT !.pc = pc, !.error = error]

LEMMA PostedType ==
    ASSUME NEW l \in DrainLocals, NEW pc \in {"post", "finish"}, NEW error \in BOOLEAN
    PROVE  LET next == Posted(l, pc, error) IN
           /\ l.delivery \in Deliveries => next \in DrainLocals
           /\ next.pc = pc /\ next.error = error
           /\ next.delivery = l.delivery /\ next.selected = l.selected
           /\ next.attempts = l.attempts /\ next.age = l.age
BY DEF DrainLocals, Posted

Finished(row, status) == [row EXCEPT !.status = status, !.due = FALSE, !.lease = 0]

LEMMA FinishedType ==
    ASSUME NEW row \in DeliveryRows, NEW status \in {"success", "dead", "retry"}
    PROVE  LET next == Finished(row, status) IN
           next \in DeliveryRows /\ next.status = status /\ next.attempts = row.attempts
<1>1. row.attempts \in 0..CountLimit /\ 0 \in 0..OutboxLease
  BY RowTypes DEF DeliveryRows
<1> DEFINE a == [row EXCEPT !.status = status]
           b == [a EXCEPT !.due = FALSE]
<1>2. a \in DeliveryRows /\ a.status = status /\ a.attempts = row.attempts
  BY DEF DeliveryRows
<1>3. Finished(row, status) = [b EXCEPT !.lease = 0]
  BY DEF Finished
<1> HIDE DEF a
<1>4. b \in DeliveryRows /\ b.status = status /\ b.attempts = row.attempts
  BY <1>2 DEF DeliveryRows
<1> HIDE DEF b
<1>5. [b EXCEPT !.lease = 0] \in DeliveryRows
  BY <1>1, <1>4 DEF DeliveryRows
<1> QED
  BY <1>3, <1>4, <1>5 DEF DeliveryRows

LEMMA SelectEffect ==
    ASSUME OutboxTypeOK, NEW r \in Drains, SelectDeliveries(r)
    PROVE  /\ drains[r].pc = "idle" /\ drains'[r].pc = "batch" /\ drains'[r].age = 0
           /\ \A d \in drains'[r].selected : RowDue(d)
           /\ drains' \in [Drains -> DrainLocals]
           /\ OthersKept(r)
           /\ freshRows' \in [Drains -> SUBSET Deliveries]
           /\ \A s \in Drains : s # r => freshRows'[s] = freshRows[s]
           /\ UNCHANGED <<promptDrains, mutationVars, endpoints, outbox, received,
                          tries, incidents, toggled>>
<1>1. PICK S \in SUBSET {d \in Deliveries : RowDue(d)} :
        /\ drains' = [drains EXCEPT ![r] = [IdleDrain EXCEPT !.pc = "batch", !.selected = S]]
        /\ freshRows' = [freshRows EXCEPT ![r] = S]
  BY DEF SelectDeliveries
<1> DEFINE next == [IdleDrain EXCEPT !.pc = "batch", !.selected = S]
<1>2. S \in SUBSET Deliveries
  OBVIOUS
<1>3. next \in DrainLocals /\ next.pc = "batch" /\ next.selected = S /\ next.age = 0
  BY <1>2, SelectedType
<1> HIDE DEF next
<1>4. drains \in [Drains -> DrainLocals] /\ freshRows \in [Drains -> SUBSET Deliveries]
  BY DEF OutboxTypeOK, DrainLocals
<1>5. /\ drains'[r] = next /\ drains' \in [Drains -> DrainLocals] /\ OthersKept(r)
      /\ freshRows' \in [Drains -> SUBSET Deliveries]
      /\ \A s \in Drains : s # r => freshRows'[s] = freshRows[s]
  BY <1>1, <1>3, <1>4 DEF OthersKept, next
<1> QED
  BY <1>3, <1>5 DEF SelectDeliveries

LEMMA ClaimEffect ==
    ASSUME OutboxTypeOK, NEW r \in Drains, NEW d \in Deliveries, ClaimDelivery(r, d)
    PROVE  /\ drains[r].pc = "batch" /\ d \in drains[r].selected \cap freshRows[r]
           /\ drains'[r].pc = "endpoint" /\ drains'[r].delivery = d
           /\ drains'[r].selected = drains[r].selected \ {d}
           /\ drains'[r].attempts = Counted(outbox[d].attempts)
           /\ drains'[r].age = drains[r].age
           /\ drains' \in [Drains -> DrainLocals]
           /\ OthersKept(r)
           /\ outbox'[d].status = "processing"
           /\ outbox'[d].attempts = Counted(outbox[d].attempts)
           /\ outbox'[d].lease = OutboxLease - drains[r].age
           /\ OtherRowsKept(d)
           /\ Unwritten
           /\ tries'[d] = Counted(tries[d])
           /\ \A f \in Deliveries : f # d => tries'[f] = tries[f]
           /\ outbox' \in [Deliveries -> DeliveryRows]
           /\ freshRows' \in [Drains -> SUBSET Deliveries]
           /\ tries' \in [Deliveries -> 0..CountLimit]
           /\ UNCHANGED <<promptDrains, mutationVars, endpoints, received, incidents, toggled>>
<1> DEFINE attempts == Counted(outbox[d].attempts)
           row == [status |-> "processing", attempts |-> attempts, due |-> FALSE,
                   lease |-> LeaseLeft(r)]
<1>1. /\ drains \in [Drains -> DrainLocals] /\ drains[r] \in DrainLocals
      /\ outbox[d] \in DeliveryRows /\ tries \in [Deliveries -> 0..CountLimit]
  BY DEF OutboxTypeOK, DrainLocals
<1>2. attempts \in 0..CountLimit
  BY <1>1, CountedType DEF DeliveryRows
<1>3. LeaseLeft(r) \in 0..OutboxLease
  BY <1>1, RowTypes DEF LeaseLeft, DrainLocals
<1> HIDE DEF attempts
<1>4. row \in DeliveryRows
  BY <1>2, <1>3 DEF DeliveryRows
<1>5. /\ drains[r].pc = "batch" /\ d \in drains[r].selected \cap freshRows[r]
      /\ PutRow(d, row)
      /\ drains' = [drains EXCEPT ![r].pc = "endpoint", ![r].delivery = d,
                                  ![r].selected = @ \ {d}, ![r].attempts = attempts]
      /\ tries' = [tries EXCEPT ![d] = Counted(@)]
      /\ UNCHANGED <<promptDrains, mutationVars, endpoints, received, incidents, toggled>>
  BY DEF ClaimDelivery, attempts
<1>6. /\ row.status = "processing" /\ row.attempts = attempts
      /\ row.lease = OutboxLease - drains[r].age
  BY DEF LeaseLeft
<1> HIDE DEF row
<1>7. /\ outbox'[d] = row /\ OtherRowsKept(d) /\ Unwritten
      /\ outbox' \in [Deliveries -> DeliveryRows]
      /\ freshRows' \in [Drains -> SUBSET Deliveries]
  BY <1>4, <1>5, PutRowEffect DEF OtherRowsKept
<1>8. /\ tries'[d] = Counted(tries[d]) /\ tries' \in [Deliveries -> 0..CountLimit]
      /\ \A f \in Deliveries : f # d => tries'[f] = tries[f]
  BY <1>1, <1>5, CountedType
<1> DEFINE next == [pc |-> "endpoint", selected |-> drains[r].selected \ {d}, delivery |-> d,
                    attempts |-> attempts, error |-> drains[r].error, age |-> drains[r].age]
<1>9. drains' = [drains EXCEPT ![r] = next]
  BY <1>1, <1>5 DEF DrainLocals
<1>10. next \in DrainLocals
  BY <1>1, <1>2 DEF DrainLocals
<1>11. /\ next.pc = "endpoint" /\ next.delivery = d /\ next.selected = drains[r].selected \ {d}
       /\ next.attempts = attempts /\ next.age = drains[r].age
  OBVIOUS
<1> HIDE DEF next
<1>12. drains'[r] = next /\ drains' \in [Drains -> DrainLocals] /\ OthersKept(r)
  BY <1>1, <1>9, <1>10 DEF OthersKept
<1> QED
  BY <1>5, <1>6, <1>7, <1>8, <1>11, <1>12 DEF attempts

LEMMA SkipEffect ==
    ASSUME OutboxTypeOK, NEW r \in Drains, NEW d \in Deliveries, SkipDelivery(r, d)
    PROVE  /\ drains[r].pc = "batch" /\ drains'[r].pc \in {"idle", "batch"}
           /\ drains'[r].selected = drains[r].selected \ {d}
           /\ drains'[r].age \in {0, drains[r].age}
           /\ drains' \in [Drains -> DrainLocals]
           /\ OthersKept(r)
           /\ UNCHANGED <<promptDrains, mutationVars, endpoints, outbox, freshRows,
                          received, tries, incidents, toggled>>
<1>1. drains \in [Drains -> DrainLocals] /\ drains[r].selected \subseteq Deliveries
  BY DEF OutboxTypeOK, DrainLocals
<1> DEFINE S == drains[r].selected \ {d}
           next == NextOfBatch(r, S)
<1>2. /\ next \in DrainLocals /\ next.pc \in {"idle", "batch"} /\ next.selected = S
      /\ next.age \in {0, drains[r].age}
  BY <1>1, NextOfBatchEffect
<1>3. drains' = [drains EXCEPT ![r] = next]
  BY DEF SkipDelivery
<1> HIDE DEF next
<1>4. drains'[r] = next /\ drains' \in [Drains -> DrainLocals] /\ OthersKept(r)
  BY <1>1, <1>2, <1>3 DEF OthersKept
<1> QED
  BY <1>2, <1>4 DEF SkipDelivery

\* What both steps between a claim and its outcome leave of the drain's locals.
MovesOn(r) ==
    /\ drains[r].delivery \in Deliveries
    /\ drains'[r].pc \in {"post", "finish"}
    /\ drains'[r].delivery = drains[r].delivery
    /\ drains'[r].selected = drains[r].selected
    /\ drains'[r].attempts = drains[r].attempts
    /\ drains'[r].age = drains[r].age
    /\ drains' \in [Drains -> DrainLocals]
    /\ OthersKept(r)
    /\ UNCHANGED <<promptDrains, mutationVars, endpoints, outbox, freshRows,
                   tries, incidents, toggled>>

LEMMA MovedOn ==
    ASSUME OutboxTypeOK, NEW r \in Drains, drains[r].delivery \in Deliveries,
           NEW pc \in {"post", "finish"}, NEW error \in BOOLEAN,
           drains' = [drains EXCEPT ![r].pc = pc, ![r].error = error]
    PROVE  /\ drains'[r].pc = pc /\ drains'[r].error = error
           /\ drains'[r].delivery = drains[r].delivery
           /\ drains'[r].selected = drains[r].selected
           /\ drains'[r].attempts = drains[r].attempts
           /\ drains'[r].age = drains[r].age
           /\ drains' \in [Drains -> DrainLocals]
           /\ OthersKept(r)
<1>1. drains \in [Drains -> DrainLocals] /\ drains[r] \in DrainLocals
  BY DEF OutboxTypeOK, DrainLocals
<1> DEFINE next == Posted(drains[r], pc, error)
<1>2. drains' = [drains EXCEPT ![r] = next]
  BY <1>1 DEF Posted
<1>3. /\ next \in DrainLocals
      /\ next.pc = pc /\ next.error = error
      /\ next.delivery = drains[r].delivery /\ next.selected = drains[r].selected
      /\ next.attempts = drains[r].attempts /\ next.age = drains[r].age
  BY <1>1, PostedType
<1> HIDE DEF next
<1>4. drains'[r] = next /\ drains' \in [Drains -> DrainLocals] /\ OthersKept(r)
  BY <1>1, <1>2, <1>3 DEF OthersKept
<1> QED
  BY <1>3, <1>4

LEMMA CheckEffect ==
    ASSUME OutboxTypeOK, NEW r \in Drains, CheckEndpoint(r)
    PROVE  /\ drains[r].pc = "endpoint" /\ MovesOn(r) /\ UNCHANGED received
           /\ drains'[r].pc = "finish" => drains'[r].error
<1> DEFINE enabled == endpoints[drains[r].delivery[2]] = "enabled"
           pc == IF enabled THEN "post" ELSE "finish"
<1>1. /\ drains[r].pc = "endpoint" /\ drains[r].delivery \in Deliveries
      /\ UNCHANGED <<promptDrains, mutationVars, endpoints, outbox, freshRows,
                     received, tries, incidents, toggled>>
      /\ drains' = [drains EXCEPT ![r].pc = pc, ![r].error = EndpointError(r)]
  BY DEF OutboxTypeOK, CheckEndpoint
<1>2. EndpointError(r) = ~enabled
  BY DEF EndpointError
<1>3. pc \in {"post", "finish"} /\ EndpointError(r) \in BOOLEAN
  BY <1>2
<1>4. pc = "finish" => EndpointError(r)
  BY <1>2
<1> HIDE DEF enabled, pc
<1> QED
  BY <1>1, <1>3, <1>4, MovedOn DEF MovesOn

LEMMA PostEffect ==
    ASSUME OutboxTypeOK, NEW r \in Drains, PostDelivery(r)
    PROVE  /\ drains[r].pc = "post" /\ drains'[r].pc = "finish" /\ MovesOn(r)
           /\ ~drains'[r].error => drains[r].delivery \in received'
           /\ received \subseteq received' /\ received' \subseteq Deliveries
<1>1. /\ received \subseteq Deliveries
      /\ drains[r].pc = "post" /\ drains[r].delivery \in Deliveries
      /\ UNCHANGED <<promptDrains, mutationVars, endpoints, outbox, freshRows,
                     tries, incidents, toggled>>
  BY DEF OutboxTypeOK, PostDelivery
<1>2. PICK got \in BOOLEAN, error \in BOOLEAN :
        /\ got \/ error
        /\ received' = IF got THEN received \cup {drains[r].delivery} ELSE received
        /\ drains' = [drains EXCEPT ![r].pc = "finish", ![r].error = error]
  BY DEF PostDelivery
<1>3. /\ ~error => drains[r].delivery \in received'
      /\ received \subseteq received' /\ received' \subseteq Deliveries
  BY <1>1, <1>2
<1> QED
  BY <1>1, <1>2, <1>3, MovedOn DEF MovesOn

LEMMA FinishEffect ==
    ASSUME OutboxTypeOK, NEW r \in Drains, FinishDelivery(r)
    PROVE  LET d == drains[r].delivery IN
           /\ drains[r].pc = "finish" /\ d \in Deliveries
           /\ drains'[r].pc \in {"idle", "batch"}
           /\ drains'[r].selected = drains[r].selected
           /\ drains'[r].age \in {0, drains[r].age}
           /\ drains' \in [Drains -> DrainLocals]
           /\ OthersKept(r)
           /\ Unwritten
           /\ outbox' \in [Deliveries -> DeliveryRows]
           /\ freshRows' \in [Drains -> SUBSET Deliveries]
           /\ \/ outbox[d].status = "none" /\ UNCHANGED outbox
              \/ /\ outbox[d].status # "none"
                 /\ outbox'[d].status \in {"success", "dead", "retry"}
                 /\ outbox'[d].status = "success" => ~drains[r].error
                 /\ outbox'[d].status = "dead" => drains[r].attempts >= MaxDeliveries
                 /\ outbox'[d].attempts = outbox[d].attempts
                 /\ OtherRowsKept(d)
           /\ UNCHANGED <<promptDrains, mutationVars, endpoints, received, tries,
                          incidents, toggled>>
<1> DEFINE d == drains[r].delivery
           next == NextOfBatch(r, drains[r].selected)
           status == IF ~drains[r].error THEN "success"
                     ELSE IF Exhausted(r) THEN "dead" ELSE "retry"
           row == Finished(outbox[d], status)
<1>1. /\ drains \in [Drains -> DrainLocals] /\ drains[r] \in DrainLocals
      /\ drains[r].pc = "finish" /\ d \in Deliveries
      /\ outbox \in [Deliveries -> DeliveryRows]
      /\ freshRows \in [Drains -> SUBSET Deliveries]
      /\ UNCHANGED <<promptDrains, mutationVars, endpoints, received, tries,
                     incidents, toggled>>
  BY DEF OutboxTypeOK, DrainLocals, FinishDelivery
<1>2. /\ next \in DrainLocals /\ next.pc \in {"idle", "batch"}
      /\ next.selected = drains[r].selected /\ next.age \in {0, drains[r].age}
  <2>1. drains[r].selected \in SUBSET Deliveries
    BY <1>1 DEF DrainLocals
  <2> QED
    BY <2>1, NextOfBatchEffect
<1>3. drains' = [drains EXCEPT ![r] = next]
  BY DEF FinishDelivery
<1>4. IF outbox[d].status = "none" THEN UNCHANGED <<outbox, freshRows>> ELSE PutRow(d, row)
  BY DEF FinishDelivery, Finished
<1>5. /\ status \in {"success", "dead", "retry"}
      /\ status = "success" => ~drains[r].error
      /\ status = "dead" => drains[r].attempts >= MaxDeliveries
  BY <1>1, RowTypes DEF Exhausted, DrainLocals
<1> HIDE DEF next, status
<1>6. row \in DeliveryRows /\ row.status = status /\ row.attempts = outbox[d].attempts
  <2>1. outbox[d] \in DeliveryRows
    BY <1>1
  <2> QED
    BY <1>5, <2>1, FinishedType
<1> HIDE DEF row
<1>7. drains'[r] = next /\ drains' \in [Drains -> DrainLocals] /\ OthersKept(r)
  BY <1>1, <1>2, <1>3 DEF OthersKept
<1>8. CASE outbox[d].status = "none"
  <2>1. Unwritten
    BY <1>1, <1>4, <1>8 DEF Unwritten
  <2> QED
    BY <1>1, <1>2, <1>4, <1>7, <1>8, <2>1
<1>9. CASE outbox[d].status # "none"
  <2>1. /\ outbox'[d] = row /\ OtherRowsKept(d) /\ Unwritten
        /\ outbox' \in [Deliveries -> DeliveryRows]
        /\ freshRows' \in [Drains -> SUBSET Deliveries]
    BY <1>1, <1>4, <1>6, <1>9, PutRowEffect DEF OtherRowsKept
  <2> QED
    BY <1>1, <1>2, <1>5, <1>6, <1>7, <1>9, <2>1
<1> QED
  BY <1>8, <1>9

LEMMA DiesEffect ==
    ASSUME OutboxTypeOK, NEW r \in Drains, DrainDies(r)
    PROVE  /\ drains'[r] = IdleDrain /\ drains' \in [Drains -> DrainLocals]
           /\ OthersKept(r)
           /\ UNCHANGED <<promptDrains, mutationVars, endpoints, outbox, freshRows,
                          received, tries, toggled>>
BY IdleType DEF DrainDies, OthersKept, OutboxTypeOK, DrainLocals

LEMMA ReplayEffect ==
    ASSUME OutboxTypeOK, NEW d \in Deliveries, ReplayDelivery(d)
    PROVE  /\ outbox[d].status \in {"dead", "failed", "retry"}
           /\ outbox'[d] = PendingRow /\ OtherRowsKept(d) /\ Unwritten
           /\ tries'[d] = 0
           /\ \A f \in Deliveries : f # d => tries'[f] = tries[f]
           /\ outbox' \in [Deliveries -> DeliveryRows]
           /\ freshRows' \in [Drains -> SUBSET Deliveries]
           /\ tries' \in [Deliveries -> 0..CountLimit]
           /\ UNCHANGED <<promptDrains, mutationVars, endpoints, drains, received, toggled>>
<1>1. tries \in [Deliveries -> 0..CountLimit] /\ tries' = [tries EXCEPT ![d] = 0]
  BY DEF OutboxTypeOK, ReplayDelivery
<1>2. /\ tries'[d] = 0 /\ tries' \in [Deliveries -> 0..CountLimit]
      /\ \A f \in Deliveries : f # d => tries'[f] = tries[f]
  BY <1>1, RowTypes
<1>3. /\ outbox'[d] = PendingRow /\ OtherRowsKept(d) /\ Unwritten
      /\ outbox' \in [Deliveries -> DeliveryRows]
      /\ freshRows' \in [Drains -> SUBSET Deliveries]
  BY PutRowEffect, RowTypes DEF ReplayDelivery, OtherRowsKept
<1> QED
  BY <1>2, <1>3 DEF ReplayDelivery

LEMMA ToggleEffect ==
    ASSUME OutboxTypeOK, NEW e \in Endpoints, ToggleEndpoint(e)
    PROVE  /\ endpoints[e] # "deleted" /\ e \in toggled'
           /\ toggled \subseteq toggled' /\ toggled' \subseteq Endpoints
           /\ \A f \in Endpoints : f # e => endpoints'[f] = endpoints[f]
           /\ endpoints' \in [Endpoints -> {"enabled", "disabled", "deleted"}]
           /\ \/ endpoints'[e] # "deleted" /\ UNCHANGED outbox
              \/ /\ endpoints'[e] = "deleted"
                 /\ \A d \in Deliveries :
                      outbox'[d] = IF d[2] = e THEN NoDeliveryRow ELSE outbox[d]
           /\ Unwritten
           /\ outbox' \in [Deliveries -> DeliveryRows]
           /\ freshRows' \in [Drains -> SUBSET Deliveries]
           /\ UNCHANGED <<promptDrains, mutationVars, drains, received, tries>>
<1> DEFINE gone == {d \in Deliveries : d[2] = e}
           rows == [d \in gone |-> NoDeliveryRow]
<1>1. /\ endpoints[e] # "deleted" /\ toggled' = toggled \cup {e}
      /\ endpoints \in [Endpoints -> {"enabled", "disabled", "deleted"}]
      /\ toggled \subseteq Endpoints
      /\ outbox \in [Deliveries -> DeliveryRows]
      /\ freshRows \in [Drains -> SUBSET Deliveries]
      /\ UNCHANGED <<promptDrains, mutationVars, drains, received, tries>>
  BY DEF ToggleEndpoint, OutboxTypeOK
<1>2. PICK s \in {"enabled", "disabled", "deleted"} :
        /\ endpoints' = [endpoints EXCEPT ![e] = s]
        /\ IF s = "deleted" THEN PutRows(rows) ELSE UNCHANGED <<outbox, freshRows>>
  BY DEF ToggleEndpoint
<1>3. /\ endpoints'[e] = s
      /\ \A f \in Endpoints : f # e => endpoints'[f] = endpoints[f]
      /\ endpoints' \in [Endpoints -> {"enabled", "disabled", "deleted"}]
  BY <1>1, <1>2
<1>4. CASE s = "deleted"
  <2>1. DOMAIN rows = gone /\ \A d \in gone : rows[d] = NoDeliveryRow
    OBVIOUS
  <2>2. PutRows(rows)
    BY <1>2, <1>4
  <2>3. \A d \in Deliveries : d \in gone <=> d[2] = e
    OBVIOUS
  <2> HIDE DEF rows, gone
  <2>4. /\ \A d \in Deliveries : outbox'[d] = IF d \in gone THEN NoDeliveryRow ELSE outbox[d]
        /\ Unwritten /\ outbox' \in [Deliveries -> DeliveryRows]
        /\ freshRows' \in [Drains -> SUBSET Deliveries]
    BY <2>1, <2>2, PutRowsEffect, RowTypes
  <2> QED
    BY <1>1, <1>3, <1>4, <2>3, <2>4
<1>5. CASE s # "deleted"
  <2>1. UNCHANGED <<outbox, freshRows>>
    BY <1>2, <1>5
  <2>2. Unwritten
    BY <1>1, <2>1 DEF Unwritten
  <2> QED
    BY <1>1, <1>3, <1>5, <2>1, <2>2
<1> QED
  BY <1>4, <1>5

LEMMA RetryEffect ==
    ASSUME OutboxTypeOK, NEW d \in Deliveries, RetryDue(d)
    PROVE  /\ outbox[d].status = "retry" /\ ~outbox[d].due
           /\ outbox'[d].status = "retry" /\ outbox'[d].due
           /\ outbox'[d].attempts = outbox[d].attempts
           /\ OtherRowsKept(d)
           /\ outbox' \in [Deliveries -> DeliveryRows]
           /\ UNCHANGED <<promptDrains, mutationVars, endpoints, drains, freshRows,
                          received, tries, incidents, toggled>>
<1>1. outbox \in [Deliveries -> DeliveryRows] /\ outbox[d] \in DeliveryRows
  BY DEF OutboxTypeOK
<1>2. outbox' = [outbox EXCEPT ![d].due = TRUE]
  BY DEF RetryDue
<1> DEFINE row == [outbox[d] EXCEPT !.due = TRUE]
<1>3. /\ row \in DeliveryRows /\ row.due /\ row.status = outbox[d].status
      /\ row.attempts = outbox[d].attempts
  BY <1>1 DEF DeliveryRows
<1>4. outbox' = [outbox EXCEPT ![d] = row]
  BY <1>2
<1> HIDE DEF row
<1>5. outbox'[d] = row /\ OtherRowsKept(d) /\ outbox' \in [Deliveries -> DeliveryRows]
  BY <1>1, <1>3, <1>4 DEF OtherRowsKept
<1> QED
  BY <1>3, <1>5 DEF RetryDue

\* The lease of row d runs.
Runs(d) == outbox[d].lease > 0 /\ Leased(d)

LEMMA TickEffect ==
    ASSUME OutboxTypeOK, OutboxTick
    PROVE  /\ \A d \in Deliveries :
                /\ ~Runs(d) => outbox'[d] = outbox[d]
                /\ outbox'[d].status = outbox[d].status
                /\ outbox'[d].attempts = outbox[d].attempts
                /\ outbox'[d].due = outbox[d].due
                /\ outbox'[d].lease = IF Runs(d) THEN outbox[d].lease - 1 ELSE outbox[d].lease
           /\ outbox' \in [Deliveries -> DeliveryRows]
           /\ \A r \in Drains :
                /\ drains'[r].pc = drains[r].pc /\ drains'[r].selected = drains[r].selected
                /\ drains'[r].delivery = drains[r].delivery
                /\ drains'[r].attempts = drains[r].attempts
                /\ drains'[r].error = drains[r].error
                /\ drains[r].pc # "idle" /\ drains[r].age < OutboxLease =>
                     drains'[r].age = drains[r].age + 1
           /\ drains' \in [Drains -> DrainLocals]
           /\ promptDrains =>
                \A r \in Drains : drains[r].pc # "idle" => drains[r].age + 1 < OutboxLease
           /\ UNCHANGED <<promptDrains, mutationVars, endpoints, freshRows, received,
                          tries, incidents, toggled>>
<1>1. /\ outbox \in [Deliveries -> DeliveryRows] /\ drains \in [Drains -> DrainLocals]
      /\ outbox' = [d \in Deliveries |->
           IF Runs(d) THEN [outbox[d] EXCEPT !.lease = outbox[d].lease - 1] ELSE outbox[d]]
      /\ drains' = [r \in Drains |->
           IF drains[r].pc = "idle" \/ drains[r].age = OutboxLease THEN drains[r]
           ELSE [drains[r] EXCEPT !.age = drains[r].age + 1]]
      /\ promptDrains =>
           \A r \in Drains : drains[r].pc # "idle" => drains[r].age + 1 < OutboxLease
      /\ UNCHANGED <<promptDrains, mutationVars, endpoints, freshRows, received,
                     tries, incidents, toggled>>
  BY DEF OutboxTypeOK, OutboxTick, DrainLocals, Runs
<1>2. ASSUME NEW d \in Deliveries
      PROVE  /\ ~Runs(d) => outbox'[d] = outbox[d]
             /\ outbox'[d].status = outbox[d].status
             /\ outbox'[d].attempts = outbox[d].attempts
             /\ outbox'[d].due = outbox[d].due
             /\ outbox'[d].lease = IF Runs(d) THEN outbox[d].lease - 1 ELSE outbox[d].lease
             /\ outbox'[d] \in DeliveryRows
  <2>0. outbox[d] \in DeliveryRows
    BY <1>1
  <2>1. CASE Runs(d)
    <3>1. outbox[d].lease - 1 \in 0..OutboxLease
      BY <2>0, <2>1, RowTypes DEF Runs, DeliveryRows
    <3>2. outbox'[d] = [outbox[d] EXCEPT !.lease = outbox[d].lease - 1]
      BY <1>1, <2>1
    <3> QED
      BY <2>0, <2>1, <3>1, <3>2 DEF DeliveryRows
  <2>2. CASE ~Runs(d)
    BY <1>1, <2>0, <2>2
  <2> QED
    BY <2>1, <2>2
<1>3. ASSUME NEW r \in Drains
      PROVE  /\ drains'[r].pc = drains[r].pc /\ drains'[r].selected = drains[r].selected
             /\ drains'[r].delivery = drains[r].delivery
             /\ drains'[r].attempts = drains[r].attempts
             /\ drains'[r].error = drains[r].error
             /\ drains[r].pc # "idle" /\ drains[r].age < OutboxLease =>
                  drains'[r].age = drains[r].age + 1
             /\ drains'[r] \in DrainLocals
  <2>0. drains[r] \in DrainLocals
    BY <1>1
  <2>1. CASE drains[r].pc = "idle" \/ drains[r].age = OutboxLease
    BY <1>1, <2>0, <2>1, RowTypes DEF DrainLocals
  <2>2. CASE ~(drains[r].pc = "idle" \/ drains[r].age = OutboxLease)
    <3>1. drains[r].age + 1 \in 0..OutboxLease
      BY <2>0, <2>2, RowTypes DEF DrainLocals
    <3>2. drains'[r] = [drains[r] EXCEPT !.age = drains[r].age + 1]
      BY <1>1, <2>2
    <3> QED
      BY <2>0, <3>1, <3>2 DEF DrainLocals
  <2> QED
    BY <2>1, <2>2
<1> QED
  BY <1>1, <1>2, <1>3
-----------------------------------------------------------------------------
(* Type correctness.                                                       *)

\* A delivery in the hands of a drain is one.
InHands == \A r \in Drains : drains[r].pc \in {"endpoint", "post", "finish"} => drains[r].delivery \in Deliveries

LEMMA TypeParts ==
    OutboxTypeOK <=>
        /\ promptDrains \in BOOLEAN /\ mutationKind \in [Mutations -> MutationKinds]
        /\ mutations \in [Mutations -> MutationLocals]
        /\ endpoints \in [Endpoints -> {"enabled", "disabled", "deleted"}]
        /\ outbox \in [Deliveries -> DeliveryRows]
        /\ drains \in [Drains -> DrainLocals]
        /\ InHands
        /\ freshRows \in [Drains -> SUBSET Deliveries]
        /\ received \subseteq Deliveries
        /\ tries \in [Deliveries -> 0..CountLimit]
        /\ incidents \in 0..MaxIncidents
        /\ toggled \subseteq Endpoints
BY DEF OutboxTypeOK, MutationLocals, DrainLocals, InHands

LEMMA IncidentType ==
    ASSUME incidents \in 0..MaxIncidents, Incident
    PROVE  incidents' \in 0..MaxIncidents
BY OutboxAssumption DEF Incident

LEMMA TypeStep == OutboxTypeOK /\ [OutboxNext]_outboxVars => OutboxTypeOK'
<1> SUFFICES ASSUME OutboxTypeOK, [OutboxNext]_outboxVars PROVE OutboxTypeOK'
  OBVIOUS
<1> DEFINE Types == /\ promptDrains' \in BOOLEAN
                    /\ mutationKind' \in [Mutations -> MutationKinds]
                    /\ mutations' \in [Mutations -> MutationLocals]
                    /\ endpoints' \in [Endpoints -> {"enabled", "disabled", "deleted"}]
                    /\ outbox' \in [Deliveries -> DeliveryRows]
                    /\ drains' \in [Drains -> DrainLocals]
                    /\ InHands'
                    /\ freshRows' \in [Drains -> SUBSET Deliveries]
                    /\ received' \subseteq Deliveries
                    /\ tries' \in [Deliveries -> 0..CountLimit]
                    /\ incidents' \in 0..MaxIncidents
                    /\ toggled' \subseteq Endpoints
<1>0. /\ promptDrains \in BOOLEAN /\ mutationKind \in [Mutations -> MutationKinds]
      /\ mutations \in [Mutations -> MutationLocals]
      /\ endpoints \in [Endpoints -> {"enabled", "disabled", "deleted"}]
      /\ outbox \in [Deliveries -> DeliveryRows]
      /\ drains \in [Drains -> DrainLocals]
      /\ InHands
      /\ freshRows \in [Drains -> SUBSET Deliveries]
      /\ received \subseteq Deliveries
      /\ tries \in [Deliveries -> 0..CountLimit]
      /\ incidents \in 0..MaxIncidents
      /\ toggled \subseteq Endpoints
  BY TypeParts
<1>1. ASSUME NEW m \in Mutations, ReadEndpoints(m) \/ RecordMutation(m) \/ MutationFails(m)
      PROVE  Types
  <2>1. mutations' \in [Mutations -> MutationLocals]
    BY <1>1, ReadEffect, RecordEffect, MutationFailsEffect
  <2>2. UNCHANGED <<promptDrains, mutationKind, endpoints, outbox, drains, freshRows,
                    received, tries, incidents, toggled>>
    BY <1>1, ReadEffect, RecordEffect, MutationFailsEffect
  <2> QED
    BY <1>0, <2>1, <2>2 DEF InHands
<1>2. ASSUME NEW m \in Mutations, InsertDeliveries(m) PROVE Types
  BY <1>0, <1>2, InsertEffect DEF InHands
<1>3. ASSUME NEW m \in Mutations, NEW e \in Endpoints, BeginTest(m, e) PROVE Types
  <2>1. /\ mutations' \in [Mutations -> MutationLocals]
        /\ outbox' \in [Deliveries -> DeliveryRows]
        /\ freshRows' \in [Drains -> SUBSET Deliveries]
        /\ UNCHANGED <<promptDrains, mutationKind, endpoints, drains, received,
                       tries, incidents, toggled>>
    BY <1>3, BeginTestEffect
  <2> QED
    BY <1>0, <2>1 DEF InHands
<1>4. ASSUME NEW m \in Mutations, EndTest(m) PROVE Types
  BY <1>0, <1>4, EndTestEffect DEF InHands
<1>5. ASSUME NEW r \in Drains, SelectDeliveries(r) PROVE Types
  <2>1. InHands'
    BY <1>0, <1>5, SelectEffect DEF InHands, OthersKept
  <2> QED
    BY <1>0, <1>5, <2>1, SelectEffect DEF mutationVars
<1>6. ASSUME NEW r \in Drains, NEW d \in Deliveries, ClaimDelivery(r, d) PROVE Types
  <2>1. InHands'
    BY <1>0, <1>6, ClaimEffect DEF InHands, OthersKept
  <2> QED
    BY <1>0, <1>6, <2>1, ClaimEffect DEF mutationVars
<1>7. ASSUME NEW r \in Drains, NEW d \in Deliveries, SkipDelivery(r, d) PROVE Types
  <2>1. InHands'
    BY <1>0, <1>7, SkipEffect DEF InHands, OthersKept
  <2> QED
    BY <1>0, <1>7, <2>1, SkipEffect DEF mutationVars
<1>8. ASSUME NEW r \in Drains, CheckEndpoint(r) \/ PostDelivery(r) PROVE Types
  <2>1. MovesOn(r) /\ received' \subseteq Deliveries
    BY <1>0, <1>8, CheckEffect, PostEffect
  <2>2. InHands'
    BY <1>0, <2>1 DEF InHands, OthersKept, MovesOn
  <2> QED
    BY <1>0, <2>1, <2>2 DEF mutationVars, MovesOn
<1>9. ASSUME NEW r \in Drains, FinishDelivery(r) PROVE Types
  <2>1. InHands'
    BY <1>0, <1>9, FinishEffect DEF InHands, OthersKept
  <2> QED
    BY <1>0, <1>9, <2>1, FinishEffect DEF mutationVars
<1>10. ASSUME NEW r \in Drains, DrainDies(r) PROVE Types
  <2>1. InHands'
    BY <1>0, <1>10, DiesEffect, IdleType DEF InHands, OthersKept
  <2>2. incidents' \in 0..MaxIncidents
    BY <1>0, <1>10, IncidentType DEF DrainDies
  <2> QED
    BY <1>0, <1>10, <2>1, <2>2, DiesEffect DEF mutationVars
<1>11. ASSUME NEW d \in Deliveries, ReplayDelivery(d) PROVE Types
  <2>1. incidents' \in 0..MaxIncidents
    BY <1>0, <1>11, IncidentType DEF ReplayDelivery
  <2> QED
    BY <1>0, <1>11, <2>1, ReplayEffect DEF mutationVars, InHands
<1>12. ASSUME NEW d \in Deliveries, RetryDue(d) PROVE Types
  BY <1>0, <1>12, RetryEffect DEF mutationVars, InHands
<1>13. ASSUME NEW e \in Endpoints, ToggleEndpoint(e) PROVE Types
  <2>1. incidents' \in 0..MaxIncidents
    BY <1>0, <1>13, IncidentType DEF ToggleEndpoint
  <2> QED
    BY <1>0, <1>13, <2>1, ToggleEffect DEF mutationVars, InHands
<1>14. ASSUME OutboxTick PROVE Types
  <2>1. InHands'
    BY <1>0, <1>14, TickEffect DEF InHands
  <2> QED
    BY <1>0, <1>14, <2>1, TickEffect DEF mutationVars
<1>15. ASSUME OutboxDrained \/ UNCHANGED outboxVars PROVE Types
  BY <1>0, <1>15 DEF OutboxDrained, outboxVars, mutationVars, InHands
<1>16. Types
  BY <1>1, <1>2, <1>3, <1>4, <1>5, <1>6, <1>7, <1>8, <1>9, <1>10, <1>11, <1>12, <1>13,
     <1>14, <1>15 DEF OutboxNext, Emit, Drain
<1> QED
  BY <1>16 DEF OutboxTypeOK, MutationLocals, DrainLocals, InHands

-----------------------------------------------------------------------------
(* Who writes what.                                                        *)

LEMMA StepKeeps ==
    ASSUME OutboxTypeOK, [OutboxNext]_outboxVars
    PROVE  /\ UNCHANGED <<promptDrains, mutationKind>>
           /\ received \subseteq received' /\ toggled \subseteq toggled'
<1>1. ASSUME NEW m \in Mutations, Emit(m)
      PROVE  /\ UNCHANGED <<promptDrains, mutationKind>>
             /\ received \subseteq received' /\ toggled \subseteq toggled'
  BY <1>1, ReadEffect, InsertEffect, RecordEffect, MutationFailsEffect, BeginTestEffect,
     EndTestEffect DEF Emit
<1>2. ASSUME NEW r \in Drains, SelectDeliveries(r) \/ Drain(r) \/ DrainDies(r)
      PROVE  /\ UNCHANGED <<promptDrains, mutationKind>>
             /\ received \subseteq received' /\ toggled \subseteq toggled'
  BY <1>2, SelectEffect, ClaimEffect, SkipEffect, CheckEffect, PostEffect, FinishEffect,
     DiesEffect DEF MovesOn, Drain, mutationVars
<1>3. ASSUME NEW d \in Deliveries, ReplayDelivery(d) \/ RetryDue(d)
      PROVE  /\ UNCHANGED <<promptDrains, mutationKind>>
             /\ received \subseteq received' /\ toggled \subseteq toggled'
  BY <1>3, ReplayEffect, RetryEffect DEF mutationVars
<1>4. ASSUME NEW e \in Endpoints, ToggleEndpoint(e)
      PROVE  /\ UNCHANGED <<promptDrains, mutationKind>>
             /\ received \subseteq received' /\ toggled \subseteq toggled'
  BY <1>4, ToggleEffect DEF mutationVars
<1>5. CASE OutboxTick
  BY <1>5, TickEffect DEF mutationVars
<1>6. CASE OutboxDrained \/ UNCHANGED outboxVars
  BY <1>6 DEF OutboxDrained, outboxVars, mutationVars
<1> QED
  BY <1>1, <1>2, <1>3, <1>4, <1>5, <1>6 DEF OutboxNext

\* An endpoint is what it was, or it was switched or deleted.
LEMMA EndpointSteps ==
    ASSUME OutboxTypeOK, [OutboxNext]_outboxVars
    PROVE  UNCHANGED <<endpoints, toggled>> \/ \E e \in Endpoints : ToggleEndpoint(e)
<1>1. ASSUME NEW m \in Mutations, Emit(m) PROVE UNCHANGED <<endpoints, toggled>>
  BY <1>1, ReadEffect, InsertEffect, RecordEffect, MutationFailsEffect, BeginTestEffect,
     EndTestEffect DEF Emit
<1>2. ASSUME NEW r \in Drains, SelectDeliveries(r) \/ Drain(r) \/ DrainDies(r)
      PROVE  UNCHANGED <<endpoints, toggled>>
  BY <1>2, SelectEffect, ClaimEffect, SkipEffect, CheckEffect, PostEffect, FinishEffect,
     DiesEffect DEF MovesOn, Drain
<1>3. ASSUME NEW d \in Deliveries, ReplayDelivery(d) \/ RetryDue(d)
      PROVE  UNCHANGED <<endpoints, toggled>>
  BY <1>3, ReplayEffect, RetryEffect
<1>4. OutboxTick \/ OutboxDrained \/ UNCHANGED outboxVars => UNCHANGED <<endpoints, toggled>>
  BY TickEffect DEF OutboxDrained, outboxVars
<1> QED
  BY <1>1, <1>2, <1>3, <1>4 DEF OutboxNext
\* What may happen to row d of the table.
RowStays(d) == outbox'[d] = outbox[d] /\ tries'[d] = tries[d]

TestEnds(m, d) ==
    /\ EndTest(m) /\ mutations[m].pc = "testing" /\ mutations'[m].pc = "success"
    /\ d[1] = m /\ d[2] \in mutations[m].targets /\ d[3] = 0
    /\ endpoints[d[2]] # "deleted"
    /\ outbox'[d].status \in {"success", "failed"}
    /\ outbox'[d].status = "success" => d \in received'
    /\ tries'[d] = tries[d]

Finishes(r, d) ==
    /\ FinishDelivery(r) /\ drains[r].pc = "finish" /\ drains[r].delivery = d
    /\ outbox[d].status # "none"
    /\ outbox'[d].status \in {"success", "dead", "retry"}
    /\ outbox'[d].status = "success" => ~drains[r].error
    /\ outbox'[d].status = "dead" => drains[r].attempts >= MaxDeliveries
    /\ outbox'[d].attempts = outbox[d].attempts
    /\ tries'[d] = tries[d]

GoesWithEndpoint(d) ==
    /\ endpoints[d[2]] # "deleted" /\ endpoints'[d[2]] = "deleted" /\ d[2] \in toggled'
    /\ outbox'[d] = NoDeliveryRow /\ tries'[d] = tries[d]

FallsDue(d) ==
    /\ outbox[d].status = "retry" /\ outbox'[d].status = "retry" /\ outbox'[d].due
    /\ outbox'[d].attempts = outbox[d].attempts
    /\ tries'[d] = tries[d]

Ages(d) ==
    /\ OutboxTick
    /\ outbox'[d].status = outbox[d].status
    /\ outbox'[d].attempts = outbox[d].attempts
    /\ outbox'[d].due = outbox[d].due
    /\ outbox'[d].lease = IF Runs(d) THEN outbox[d].lease - 1 ELSE outbox[d].lease
    /\ tries'[d] = tries[d]

RowChange(d) ==
    \/ RowStays(d)
    \/ \E m \in Mutations :
         \/ InsertDeliveries(m) /\ Added(m, d) /\ tries'[d] = tries[d]
         \/ \E e \in Endpoints : BeginTest(m, e) /\ d = <<m, e, 0>>
         \/ TestEnds(m, d)
    \/ \E r \in Drains : ClaimDelivery(r, d) \/ Finishes(r, d)
    \/ ReplayDelivery(d) \/ GoesWithEndpoint(d) \/ FallsDue(d) \/ Ages(d)

LEMMA RowSteps ==
    ASSUME OutboxTypeOK, [OutboxNext]_outboxVars, NEW d \in Deliveries
    PROVE  RowChange(d)
<1>1. ASSUME NEW m \in Mutations,
             ReadEndpoints(m) \/ RecordMutation(m) \/ MutationFails(m)
      PROVE  RowStays(d)
  <2>1. UNCHANGED <<outbox, tries>>
    BY <1>1, ReadEffect, RecordEffect, MutationFailsEffect
  <2> QED
    BY <2>1 DEF RowStays
<1>2. ASSUME NEW m \in Mutations, InsertDeliveries(m)
      PROVE  RowStays(d) \/ (Added(m, d) /\ tries'[d] = tries[d])
  BY <1>2, InsertEffect DEF RowStays
<1>3. ASSUME NEW m \in Mutations, NEW e \in Endpoints, BeginTest(m, e)
      PROVE  RowStays(d) \/ d = <<m, e, 0>>
  <2>1. OtherRowsKept(<<m, e, 0>>) /\ UNCHANGED tries
    BY <1>3, BeginTestEffect
  <2> QED
    BY <2>1 DEF RowStays, OtherRowsKept
<1>4. ASSUME NEW m \in Mutations, EndTest(m)
      PROVE  RowStays(d) \/ TestEnds(m, d)
  <2>1. tries'[d] = tries[d] /\ mutations[m].pc = "testing"
    BY <1>4, EndTestEffect
  <2>2. CASE UNCHANGED outbox
    BY <2>1, <2>2 DEF RowStays
  <2>3. CASE ~UNCHANGED outbox
    <3>1. PICK e \in mutations[m].targets :
            LET f == <<m, e, 0>> IN
            /\ f \in Deliveries /\ f[1] = m /\ f[2] = e /\ f[3] = 0
            /\ endpoints[e] # "deleted"
            /\ outbox'[f].status \in {"success", "failed"}
            /\ outbox'[f].status = "success" => f \in received'
            /\ OtherRowsKept(f)
      BY <1>4, <2>3, EndTestEffect
    <3>2. Mutate(m, "success")
      BY <1>4, <2>3 DEF EndTest
    <3>3. mutations'[m].pc = "success"
      BY <3>2, MutateEffect
    <3>4. CASE d = <<m, e, 0>>
      BY <1>4, <2>1, <3>1, <3>3, <3>4 DEF TestEnds
    <3>5. CASE d # <<m, e, 0>>
      BY <2>1, <3>1, <3>5 DEF OtherRowsKept, RowStays
    <3> QED
      BY <3>4, <3>5
  <2> QED
    BY <2>2, <2>3
<1>5. ASSUME NEW r \in Drains,
             SelectDeliveries(r) \/ CheckEndpoint(r) \/ PostDelivery(r) \/ DrainDies(r)
      PROVE  RowStays(d)
  <2>1. UNCHANGED <<outbox, tries>>
    BY <1>5, SelectEffect, CheckEffect, PostEffect, DiesEffect DEF MovesOn
  <2> QED
    BY <2>1 DEF RowStays
<1>6. ASSUME NEW r \in Drains, NEW f \in Deliveries, ClaimDelivery(r, f) \/ SkipDelivery(r, f)
      PROVE  RowStays(d) \/ ClaimDelivery(r, d)
  <2>1. CASE SkipDelivery(r, f)
    <3>1. UNCHANGED <<outbox, tries>>
      BY <2>1, SkipEffect
    <3> QED
      BY <3>1 DEF RowStays
  <2>2. CASE ClaimDelivery(r, f) /\ f # d
    BY <2>2, ClaimEffect DEF RowStays, OtherRowsKept
  <2> QED
    BY <1>6, <2>1, <2>2
<1>7. ASSUME NEW r \in Drains, FinishDelivery(r)
      PROVE  RowStays(d) \/ Finishes(r, d)
  BY <1>7, FinishEffect DEF RowStays, Finishes, OtherRowsKept
<1>8. ASSUME NEW f \in Deliveries, ReplayDelivery(f)
      PROVE  RowStays(d) \/ ReplayDelivery(d)
  <2>1. CASE f # d
    BY <1>8, <2>1, ReplayEffect DEF RowStays, OtherRowsKept
  <2> QED
    BY <1>8, <2>1
<1>9. ASSUME NEW f \in Deliveries, RetryDue(f)
      PROVE  RowStays(d) \/ FallsDue(d)
  BY <1>9, RetryEffect DEF RowStays, OtherRowsKept, FallsDue
<1>10. ASSUME NEW e \in Endpoints, ToggleEndpoint(e)
       PROVE  RowStays(d) \/ GoesWithEndpoint(d)
  BY <1>10, ToggleEffect DEF RowStays, GoesWithEndpoint
<1>11. OutboxTick => Ages(d)
  BY TickEffect DEF Ages
<1>12. OutboxDrained \/ UNCHANGED outboxVars => RowStays(d)
  BY DEF OutboxDrained, outboxVars, RowStays
<1> QED
  BY <1>1, <1>2, <1>3, <1>4, <1>5, <1>6, <1>7, <1>8, <1>9, <1>10, <1>11, <1>12
     DEF OutboxNext, Emit, Drain, RowChange
\* What may happen to the local variables of drain r.
DrainChange(r) ==
    \/ drains'[r] = drains[r]
    \/ SelectDeliveries(r) \/ CheckEndpoint(r) \/ PostDelivery(r) \/ FinishDelivery(r)
    \/ DrainDies(r)
    \/ \E d \in Deliveries : ClaimDelivery(r, d) \/ SkipDelivery(r, d)
    \/ OutboxTick

LEMMA DrainSteps ==
    ASSUME OutboxTypeOK, [OutboxNext]_outboxVars, NEW r \in Drains
    PROVE  DrainChange(r)
<1>1. ASSUME NEW m \in Mutations, Emit(m) PROVE drains'[r] = drains[r]
  BY <1>1, ReadEffect, InsertEffect, RecordEffect, MutationFailsEffect, BeginTestEffect,
     EndTestEffect DEF Emit
<1>2. ASSUME NEW s \in Drains, SelectDeliveries(s) \/ Drain(s) \/ DrainDies(s), s # r
      PROVE  drains'[r] = drains[r]
  BY <1>2, SelectEffect, ClaimEffect, SkipEffect, CheckEffect, PostEffect, FinishEffect,
     DiesEffect DEF Drain, OthersKept, MovesOn
<1>3. ASSUME NEW d \in Deliveries, ReplayDelivery(d) \/ RetryDue(d)
      PROVE  drains'[r] = drains[r]
  BY <1>3, ReplayEffect, RetryEffect
<1>4. ASSUME NEW e \in Endpoints, ToggleEndpoint(e) PROVE drains'[r] = drains[r]
  BY <1>4, ToggleEffect
<1>5. OutboxDrained \/ UNCHANGED outboxVars => drains'[r] = drains[r]
  BY DEF OutboxDrained, outboxVars
<1> QED
  BY <1>1, <1>2, <1>3, <1>4, <1>5 DEF OutboxNext, Drain, DrainChange

\* What may happen to mutation m.
MutationChange(m) ==
    \/ mutations'[m] = mutations[m]
    \/ Emit(m)

LEMMA MutationSteps ==
    ASSUME OutboxTypeOK, [OutboxNext]_outboxVars, NEW m \in Mutations
    PROVE  MutationChange(m)
<1>1. ASSUME NEW n \in Mutations, Emit(n), n # m PROVE mutations'[m] = mutations[m]
  <2>1. OtherMutationsKept(n)
    BY <1>1, ReadEffect, InsertEffect, RecordEffect, MutationFailsEffect, BeginTestEffect,
       EndTestEffect DEF Emit
  <2> QED
    BY <1>1, <2>1 DEF OtherMutationsKept
<1>2. ASSUME NEW s \in Drains, SelectDeliveries(s) \/ Drain(s) \/ DrainDies(s)
      PROVE  mutations'[m] = mutations[m]
  BY <1>2, SelectEffect, ClaimEffect, SkipEffect, CheckEffect, PostEffect, FinishEffect,
     DiesEffect DEF MovesOn, Drain, mutationVars
<1>3. ASSUME NEW d \in Deliveries, ReplayDelivery(d) \/ RetryDue(d)
      PROVE  mutations'[m] = mutations[m]
  BY <1>3, ReplayEffect, RetryEffect DEF mutationVars
<1>4. ASSUME NEW e \in Endpoints, ToggleEndpoint(e) PROVE mutations'[m] = mutations[m]
  BY <1>4, ToggleEffect DEF mutationVars
<1>5. OutboxTick \/ OutboxDrained \/ UNCHANGED outboxVars => mutations'[m] = mutations[m]
  BY TickEffect DEF OutboxDrained, outboxVars, mutationVars
<1> QED
  BY <1>1, <1>2, <1>3, <1>4, <1>5 DEF OutboxNext, MutationChange
-----------------------------------------------------------------------------
(* What holds of every outbox.                                             *)

\* A row in hand or due is there.
LEMMA DueIsThere ==
    \A d : RowDue(d) => outbox[d].status # "none"
BY DEF RowDue

LEMMA KindsStep ==
    ASSUME OutboxInv, [OutboxNext]_outboxVars PROVE KindsApart'
<1> USE DEF OutboxInv
<1> SUFFICES ASSUME NEW m \in Mutations
             PROVE  /\ mutations'[m].pc \in {"insert", "record"} => mutationKind[m] # "test"
                    /\ mutations'[m].pc = "testing" => mutationKind[m] = "test"
                    /\ mutationKind[m] = "test" /\ mutations'[m].pc = "start" =>
                         \A d \in EventOf(m) : outbox'[d].status = "none"
  BY StepKeeps DEF KindsApart, EventOf
<1>1. /\ mutations[m].pc \in {"insert", "record"} => mutationKind[m] # "test"
      /\ mutations[m].pc = "testing" => mutationKind[m] = "test"
      /\ mutationKind[m] = "test" /\ mutations[m].pc = "start" =>
           \A d \in EventOf(m) : outbox[d].status = "none"
  BY DEF KindsApart
<1>2. mutations'[m].pc = "start" /\ mutationKind[m] = "test" => mutations'[m] = mutations[m]
  BY MutationSteps, ReadEffect, InsertEffect, RecordEffect, MutationFailsEffect,
     BeginTestEffect, EndTestEffect, <1>1 DEF Emit, MutationChange
<1>3. /\ mutations'[m].pc \in {"insert", "record"} => mutationKind[m] # "test"
      /\ mutations'[m].pc = "testing" => mutationKind[m] = "test"
  BY MutationSteps, ReadEffect, InsertEffect, RecordEffect, MutationFailsEffect,
     BeginTestEffect, EndTestEffect, <1>1 DEF Emit, MutationChange
<1>4. ASSUME mutationKind[m] = "test", mutations'[m] = mutations[m], mutations[m].pc = "start",
             NEW d \in EventOf(m)
      PROVE  outbox'[d].status = "none"
  <2>1. d \in Deliveries /\ d[1] = m /\ outbox[d].status = "none"
    BY <1>1, <1>4 DEF EventOf
  <2>2. ~ \E n \in Mutations : InsertDeliveries(n) /\ Added(n, d)
    BY <1>1, <1>4, <2>1, InsertEffect DEF Added
  <2>3. ~ \E n \in Mutations, e \in Endpoints : BeginTest(n, e) /\ d = <<n, e, 0>>
    BY <1>4, <2>1, BeginTestEffect
  <2>4. ~ \E n \in Mutations : TestEnds(n, d)
    BY <1>4, <2>1 DEF TestEnds
  <2>5. ~ \E r \in Drains : ClaimDelivery(r, d) \/ Finishes(r, d)
    BY <2>1, ClaimEffect, DueIsThere DEF Finishes, FreshIsDue
  <2>6. ~ReplayDelivery(d)
    BY <2>1, ReplayEffect
  <2> QED
    BY <2>1, <2>2, <2>3, <2>4, <2>5, <2>6, RowSteps, RowTypes
       DEF RowChange, RowStays, GoesWithEndpoint, FallsDue, Ages
<1> QED
  BY <1>2, <1>3, <1>4
\* A row begins by an insert or a test, and ends with its endpoint.
LEMMA RowsBegin ==
    ASSUME OutboxTypeOK, FreshIsDue, [OutboxNext]_outboxVars, NEW d \in Deliveries,
           outbox[d].status = "none"
    PROVE  \/ outbox'[d].status = "none" /\ tries'[d] = tries[d]
           \/ \E m \in Mutations :
                \/ InsertDeliveries(m) /\ Added(m, d) /\ tries'[d] = tries[d]
                \/ \E e \in Endpoints : BeginTest(m, e) /\ d = <<m, e, 0>>
                \/ TestEnds(m, d)
<1>1. ~ \E r \in Drains : ClaimDelivery(r, d) \/ Finishes(r, d)
  BY ClaimEffect, DueIsThere DEF Finishes, FreshIsDue
<1>2. ~ReplayDelivery(d) /\ ~FallsDue(d)
  BY ReplayEffect DEF FallsDue
<1> QED
  BY <1>1, <1>2, RowSteps, RowTypes DEF RowChange, RowStays, GoesWithEndpoint, Ages

LEMMA RowsPersist ==
    ASSUME OutboxTypeOK, [OutboxNext]_outboxVars, NEW d \in Deliveries,
           outbox[d].status # "none", outbox'[d].status = "none"
    PROVE  GoesWithEndpoint(d)
<1>1. ~ \E m \in Mutations : InsertDeliveries(m) /\ Added(m, d)
  BY DEF Added
<1>2. ~ \E m \in Mutations, e \in Endpoints : BeginTest(m, e) /\ d = <<m, e, 0>>
  BY BeginTestEffect
<1>3. ~ \E r \in Drains : ClaimDelivery(r, d) \/ Finishes(r, d)
  BY ClaimEffect DEF Finishes
<1>4. ~ReplayDelivery(d)
  BY ReplayEffect, RowTypes
<1> QED
  BY <1>1, <1>2, <1>3, <1>4, RowSteps
     DEF RowChange, RowStays, TestEnds, FallsDue, Ages

LEMMA EndpointsStep ==
    ASSUME OutboxInv, [OutboxNext]_outboxVars PROVE EndpointsHold'
<1> USE DEF OutboxInv
<1>1. ASSUME NEW e \in Endpoints
      PROVE  \/ endpoints'[e] = endpoints[e]
             \/ endpoints[e] # "deleted" /\ e \in toggled'
  BY EndpointSteps, ToggleEffect
<1>2. ASSUME NEW e \in Endpoints, e \notin toggled' PROVE endpoints'[e] = "enabled"
  <2>1. e \notin toggled
    BY <1>2, StepKeeps
  <2> QED
    BY <1>1, <1>2, <2>1 DEF EndpointsHold
<1>3. ASSUME NEW d \in Deliveries, endpoints'[d[2]] = "deleted", endpoints[d[2]] # "deleted"
      PROVE  outbox'[d].status = "none"
  <2>1. PICK e \in Endpoints : ToggleEndpoint(e)
    BY <1>3, EndpointSteps
  <2>2. d[2] \in Endpoints
    BY DeliveryParts
  <2> QED
    BY <1>3, <2>1, <2>2, ToggleEffect, RowTypes
<1>4. ASSUME NEW d \in Deliveries, endpoints[d[2]] = "deleted"
      PROVE  outbox'[d].status = "none"
  <2>1. outbox[d].status = "none" /\ d[2] \in Endpoints
    BY <1>4, DeliveryParts DEF EndpointsHold
  <2>2. ~ \E m \in Mutations : \/ Added(m, d) \/ TestEnds(m, d)
    BY <1>4 DEF Added, TestEnds
  <2>3. ~ \E m \in Mutations, e \in Endpoints : BeginTest(m, e) /\ d = <<m, e, 0>>
    BY <1>4, BeginTestEffect
  <2> QED
    BY <2>1, <2>2, <2>3, RowsBegin
<1> QED
  BY <1>2, <1>3, <1>4 DEF EndpointsHold

LEMMA IdentityStep ==
    ASSUME OutboxInv, [OutboxNext]_outboxVars PROVE StableIdentity'
<1> USE DEF OutboxInv
<1> SUFFICES ASSUME NEW d \in Deliveries, outbox'[d].status # "none",
                    mutationKind[d[1]] = "inferred"
             PROVE  d[3] = 0
  BY StepKeeps DEF StableIdentity
<1>1. CASE outbox[d].status # "none"
  BY <1>1 DEF StableIdentity
<1>2. CASE outbox[d].status = "none"
  <2>1. ASSUME NEW m \in Mutations, Added(m, d) PROVE d[3] = 0
    BY <2>1, IdentityType DEF Added
  <2>2. ASSUME NEW m \in Mutations, NEW e \in Endpoints, BeginTest(m, e), d = <<m, e, 0>>
        PROVE  d[3] = 0
    BY <2>2
  <2>3. ASSUME NEW m \in Mutations, TestEnds(m, d) PROVE d[3] = 0
    BY <2>3 DEF TestEnds
  <2> QED
    BY <1>2, <2>1, <2>2, <2>3, RowsBegin
<1> QED
  BY <1>1, <1>2

LEMMA AnnouncedStep ==
    ASSUME OutboxInv, [OutboxNext]_outboxVars PROVE AnnouncedFirst'
<1> USE DEF OutboxInv
<1> SUFFICES ASSUME NEW m \in Mutations, NEW e \in Endpoints, e \notin toggled'
             PROVE  /\ mutations'[m].pc = "insert" => e \in mutations'[m].targets
                    /\ mutations'[m].pc \in {"record", "success"} /\ mutationKind[m] # "test"
                       => Announced(m, e)'
  BY StepKeeps DEF AnnouncedFirst
<1>1. e \notin toggled /\ endpoints[e] = "enabled"
  BY StepKeeps DEF EndpointsHold
<1>2. /\ mutations[m].pc = "insert" => e \in mutations[m].targets
      /\ mutations[m].pc \in {"record", "success"} /\ mutationKind[m] # "test" =>
           Announced(m, e)
  BY <1>1 DEF AnnouncedFirst
<1>3. Announced(m, e) => Announced(m, e)'
  <2> SUFFICES ASSUME NEW d \in EventOf(m), d[2] = e, outbox[d].status # "none"
               PROVE  outbox'[d].status # "none"
    BY DEF Announced, EventOf
  <2>1. ~GoesWithEndpoint(d)
    BY DEF GoesWithEndpoint
  <2>2. d \in Deliveries
    BY DEF EventOf
  <2> QED
    BY <2>1, <2>2, RowsPersist
<1>4. CASE mutations'[m] = mutations[m]
  BY <1>2, <1>3, <1>4
<1>5. CASE ReadEndpoints(m)
  BY <1>1, <1>5, ReadEffect
<1>6. CASE InsertDeliveries(m)
  <2> DEFINE d == <<m, e, Identity(m)>>
  <2>1. mutations[m].pc = "insert" /\ mutations'[m].pc = "record" /\ outbox'[d].status # "none"
    BY <1>2, <1>6, InsertEffect
  <2>2. d \in EventOf(m) /\ d[2] = e
    BY IdentityType, DeliveryParts DEF EventOf
  <2> HIDE DEF d
  <2>3. Announced(m, e)'
    BY <2>1, <2>2 DEF Announced, EventOf
  <2> QED
    BY <2>1, <2>3
<1>7. CASE RecordMutation(m)
  BY <1>2, <1>3, <1>7, RecordEffect
<1>8. CASE MutationFails(m)
  BY <1>8, MutationFailsEffect
<1>9. CASE EndTest(m)
  BY <1>9, EndTestEffect DEF KindsApart
<1>10. ASSUME NEW f \in Endpoints, BeginTest(m, f)
       PROVE  mutations'[m].pc = "testing"
  BY <1>10, BeginTestEffect
<1> QED
  BY <1>4, <1>5, <1>6, <1>7, <1>8, <1>9, <1>10, MutationSteps DEF MutationChange, Emit

LEMMA ReceivedStep ==
    ASSUME OutboxInv, [OutboxNext]_outboxVars PROVE SuccessIsReceived'
<1> USE DEF OutboxInv
<1>0. received \subseteq received'
  BY StepKeeps
<1>1. ASSUME NEW d \in Deliveries, outbox'[d].status = "success" PROVE d \in received'
  <2>1. CASE outbox[d].status = "success"
    BY <1>0, <2>1 DEF SuccessIsReceived
  <2>2. CASE outbox[d].status # "success"
    <3>1. ~ \E m \in Mutations : Added(m, d)
      BY <1>1, RowTypes DEF Added
    <3>2. ~ \E m \in Mutations, e \in Endpoints : BeginTest(m, e) /\ d = <<m, e, 0>>
      BY <1>1, BeginTestEffect
    <3>3. ~ \E r \in Drains : ClaimDelivery(r, d)
      BY <1>1, ClaimEffect
    <3>4. ~ReplayDelivery(d)
      BY <1>1, ReplayEffect, RowTypes
    <3>5. ASSUME NEW r \in Drains, Finishes(r, d) PROVE d \in received
      BY <1>1, <3>5 DEF Finishes, SuccessIsReceived
    <3> QED
      BY <1>0, <1>1, <2>2, <3>1, <3>2, <3>3, <3>4, <3>5, RowSteps, RowTypes
         DEF RowChange, RowStays, TestEnds, GoesWithEndpoint, FallsDue, Ages
  <2> QED
    BY <2>1, <2>2
<1>2. ASSUME NEW r \in Drains, drains'[r].pc = "finish", ~drains'[r].error
      PROVE  drains'[r].delivery \in received'
  <2>1. CASE CheckEndpoint(r) \/ PostDelivery(r)
    BY <1>2, <2>1, CheckEffect, PostEffect DEF MovesOn
  <2>2. CASE drains'[r] = drains[r]
    BY <1>0, <1>2, <2>2 DEF SuccessIsReceived
  <2>3. CASE OutboxTick
    BY <1>0, <1>2, <2>3, TickEffect DEF SuccessIsReceived
  <2> QED
    BY <1>2, <2>1, <2>2, <2>3, DrainSteps, SelectEffect, FinishEffect, DiesEffect,
       ClaimEffect, SkipEffect, IdleType DEF DrainChange
<1> QED
  BY <1>1, <1>2 DEF SuccessIsReceived
\* A row keeps its tries, unless it is claimed or pending again.
LEMMA TriesSteps ==
    ASSUME OutboxTypeOK, [OutboxNext]_outboxVars, NEW d \in Deliveries
    PROVE  tries'[d] = tries[d] \/ tries'[d] > 0 \/ outbox'[d] = PendingRow
<1>1. ASSUME NEW m \in Mutations, NEW e \in Endpoints, BeginTest(m, e)
      PROVE  tries'[d] = tries[d]
  BY <1>1, BeginTestEffect
<1>2. ASSUME NEW r \in Drains, ClaimDelivery(r, d) PROVE tries'[d] > 0
  BY <1>2, ClaimEffect, CountedType DEF OutboxTypeOK
<1> QED
  BY <1>1, <1>2, RowSteps, ReplayEffect
     DEF RowChange, RowStays, TestEnds, Finishes, GoesWithEndpoint, FallsDue, Ages

\* Who has a fresh look at a row has seen it as it is, or time made it due.
LEMMA FreshSteps ==
    ASSUME OutboxTypeOK, [OutboxNext]_outboxVars
    PROVE  \/ Unwritten
           \/ \E r \in Drains : SelectDeliveries(r)
           \/ \E d \in Deliveries : RetryDue(d)
           \/ OutboxTick
<1>0. freshRows \in [Drains -> SUBSET Deliveries]
  BY DEF OutboxTypeOK
<1>1. UNCHANGED <<outbox, freshRows>> => Unwritten
  BY <1>0 DEF Unwritten
<1>2. ASSUME NEW m \in Mutations, Emit(m) PROVE Unwritten
  <2>1. ASSUME NEW e \in Endpoints, BeginTest(m, e) PROVE Unwritten
    BY <2>1, BeginTestEffect
  <2> QED
    BY <1>1, <1>2, <2>1, ReadEffect, InsertEffect, RecordEffect, MutationFailsEffect,
       EndTestEffect DEF Emit
<1>3. ASSUME NEW r \in Drains, Drain(r) \/ DrainDies(r) PROVE Unwritten
  <2>1. ASSUME NEW d \in Deliveries, SkipDelivery(r, d) PROVE Unwritten
    BY <1>1, <2>1, SkipEffect
  <2>2. CheckEndpoint(r) \/ PostDelivery(r) \/ DrainDies(r) => Unwritten
    BY <1>1, CheckEffect, PostEffect, DiesEffect DEF MovesOn
  <2> QED
    BY <1>3, <2>1, <2>2, ClaimEffect, FinishEffect DEF Drain
<1>4. ASSUME NEW d \in Deliveries, ReplayDelivery(d) PROVE Unwritten
  BY <1>4, ReplayEffect
<1>5. ASSUME NEW e \in Endpoints, ToggleEndpoint(e) PROVE Unwritten
  BY <1>5, ToggleEffect
<1>6. OutboxDrained \/ UNCHANGED outboxVars => Unwritten
  BY <1>1 DEF OutboxDrained, outboxVars
<1> QED
  BY <1>2, <1>3, <1>4, <1>5, <1>6 DEF OutboxNext

\* Only a new batch has more rows than before.
LEMMA SelectedSteps ==
    ASSUME OutboxTypeOK, [OutboxNext]_outboxVars, NEW r \in Drains
    PROVE  SelectDeliveries(r) \/ drains'[r].selected \subseteq drains[r].selected
BY DrainSteps, CheckEffect, PostEffect, FinishEffect, DiesEffect, ClaimEffect, SkipEffect,
   TickEffect, IdleType DEF DrainChange, MovesOn

LEMMA FreshStep ==
    ASSUME OutboxInv, [OutboxNext]_outboxVars PROVE FreshIsDue'
<1> USE DEF OutboxInv
<1> DEFINE DueRow(row, leased) ==
             \/ row.status \in {"pending", "retry"} /\ row.due
             \/ row.status = "processing" /\ row.lease = 0 /\ leased
           LeasedNow(d) == mutationKind[d[1]] # "test" \/ tries'[d] > 0
<1>0. ASSUME NEW d \in Deliveries
      PROVE  /\ RowDue(d) <=> DueRow(outbox[d], Leased(d))
             /\ RowDue(d)' <=> DueRow(outbox'[d], LeasedNow(d))
  BY StepKeeps DEF RowDue, Leased
<1> SUFFICES ASSUME NEW r \in Drains, NEW d \in drains'[r].selected \cap freshRows'[r]
             PROVE  RowDue(d)'
  BY DEF FreshIsDue
<1>1. d \in Deliveries
  <2>1. freshRows' \in [Drains -> SUBSET Deliveries]
    BY TypeStep, TypeParts DEF OutboxTypeOK
  <2> QED
    BY <2>1
<1>2. CASE SelectDeliveries(r)
  <2>1. RowDue(d) /\ UNCHANGED <<outbox, tries>>
    BY <1>2, SelectEffect
  <2> QED
    BY <1>0, <1>1, <2>1 DEF Leased
<1>3. ASSUME ~SelectDeliveries(r), d \in freshRows[r] PROVE RowDue(d)
  BY <1>3, SelectedSteps DEF FreshIsDue
<1>4. ASSUME Unwritten, ~SelectDeliveries(r) PROVE RowDue(d)'
  <2>1. d \in freshRows[r] /\ outbox'[d] = outbox[d]
    BY <1>4 DEF Unwritten
  <2>2. RowDue(d)
    BY <1>3, <1>4, <2>1
  <2>3. Leased(d) => LeasedNow(d) \/ outbox'[d] = PendingRow
    BY <1>1, TriesSteps DEF Leased
  <2>4. DueRow(PendingRow, FALSE)
    BY RowTypes
  <2> QED
    BY <1>0, <1>1, <2>1, <2>2, <2>3, <2>4
<1>5. ASSUME NEW s \in Drains, SelectDeliveries(s), s # r PROVE RowDue(d)'
  <2>1. freshRows'[r] = freshRows[r] /\ UNCHANGED <<outbox, tries>> /\ drains'[r] = drains[r]
    BY <1>5, SelectEffect DEF OthersKept
  <2>2. RowDue(d)
    BY <2>1 DEF FreshIsDue
  <2> QED
    BY <1>0, <1>1, <2>1, <2>2 DEF Leased
<1>6. ASSUME NEW f \in Deliveries, RetryDue(f) PROVE RowDue(d)'
  <2>1. /\ UNCHANGED <<freshRows, tries, drains>> /\ OtherRowsKept(f)
        /\ outbox[f].status = "retry" /\ ~outbox[f].due
    BY <1>6, RetryEffect
  <2>2. RowDue(d)
    BY <2>1 DEF FreshIsDue
  <2>3. d # f
    BY <1>0, <2>1, <2>2
  <2>4. outbox'[d] = outbox[d]
    BY <1>1, <2>1, <2>3 DEF OtherRowsKept
  <2> QED
    BY <1>0, <1>1, <2>1, <2>2, <2>4 DEF Leased
<1>7. ASSUME OutboxTick PROVE RowDue(d)'
  <2>1. /\ UNCHANGED <<freshRows, tries>> /\ drains'[r].selected = drains[r].selected
        /\ outbox'[d].status = outbox[d].status /\ outbox'[d].due = outbox[d].due
        /\ outbox'[d].lease = IF Runs(d) THEN outbox[d].lease - 1 ELSE outbox[d].lease
    BY <1>1, <1>7, TickEffect
  <2>2. RowDue(d)
    BY <2>1 DEF FreshIsDue
  <2>3. outbox[d].lease = 0 => outbox'[d].lease = 0
    BY <2>1 DEF Runs
  <2> QED
    BY <1>0, <1>1, <2>1, <2>2, <2>3 DEF Leased
<1> QED
  BY <1>2, <1>4, <1>5, <1>6, <1>7, FreshSteps
-----------------------------------------------------------------------------
(* What holds while drains end within the leases of their deliveries.      *)

\* What is held is no longer due.
LEMMA HeldIsNotDue ==
    ASSUME OutboxInv, promptDrains, NEW r \in Drains, AtWork(r)
    PROVE  LET d == drains[r].delivery IN
           /\ d \in Deliveries
           /\ \/ endpoints[d[2]] = "deleted"
              \/ /\ outbox[d].status = "processing" /\ Leased(d)
                 /\ outbox[d].lease = OutboxLease - drains[r].age /\ outbox[d].lease > 0
                 /\ tries[d] = drains[r].attempts
           /\ ~RowDue(d)
<1> DEFINE d == drains[r].delivery
<1>1. d \in Deliveries
  BY DEF OutboxInv, OutboxTypeOK, AtWork
<1>2. Held(r) /\ drains[r].age < OutboxLease /\ drains[r].age \in 0..OutboxLease
  BY DEF OutboxInv, OutboxTypeOK, PromptInv, LeasesHold, AtWork
<1>3. endpoints[d[2]] = "deleted" => ~RowDue(d)
  BY <1>1, DueIsThere DEF OutboxInv, EndpointsHold
<1>4. OutboxLease - drains[r].age > 0
  BY <1>2, RowTypes
<1> QED
  BY <1>1, <1>2, <1>3, <1>4 DEF Held, RowDue

\* Whose delivery it was already is at work with it still.
LEMMA WorkSteps ==
    ASSUME OutboxInv, [OutboxNext]_outboxVars, NEW r \in Drains, AtWork(r)'
    PROVE  \/ \E d \in Deliveries : ClaimDelivery(r, d) /\ drains'[r].delivery = d
           \/ /\ AtWork(r) /\ ~FinishDelivery(r)
              /\ drains'[r].delivery = drains[r].delivery
              /\ drains'[r].attempts = drains[r].attempts
              /\ OutboxTick \/ drains'[r].age = drains[r].age
<1> USE DEF OutboxInv
<1>0. drains'[r].pc \in {"endpoint", "post", "finish"}
  BY DEF AtWork
<1>1. ~SelectDeliveries(r) /\ ~FinishDelivery(r) /\ ~DrainDies(r)
  BY <1>0, SelectEffect, FinishEffect, DiesEffect, IdleType
<1>2. ~ \E d \in Deliveries : SkipDelivery(r, d)
  BY <1>0, SkipEffect
<1>3. CheckEndpoint(r) \/ PostDelivery(r) =>
        /\ AtWork(r) /\ drains'[r].delivery = drains[r].delivery
        /\ drains'[r].attempts = drains[r].attempts
        /\ drains'[r].age = drains[r].age
  BY CheckEffect, PostEffect DEF AtWork, MovesOn
<1>4. OutboxTick => /\ AtWork(r) /\ drains'[r].delivery = drains[r].delivery
                    /\ drains'[r].attempts = drains[r].attempts
  BY <1>0, TickEffect DEF AtWork
<1>5. drains'[r] = drains[r] => /\ AtWork(r) /\ drains'[r].delivery = drains[r].delivery
                                /\ drains'[r].attempts = drains[r].attempts
  BY <1>0 DEF AtWork
<1> QED
  BY <1>1, <1>2, <1>3, <1>4, <1>5, DrainSteps, ClaimEffect DEF DrainChange

LEMMA AgesStep ==
    ASSUME OutboxInv, [OutboxNext]_outboxVars, promptDrains, NEW r \in Drains,
           drains'[r].pc # "idle"
    PROVE  drains'[r].age < OutboxLease
<1> USE DEF OutboxInv
<1>0. drains[r].pc # "idle" => drains[r].age < OutboxLease
  BY DEF PromptInv, LeasesHold
<1>a. 0 < OutboxLease
  BY RowTypes
<1>1. CASE SelectDeliveries(r)
  <2>1. drains'[r].age = 0
    BY <1>1, SelectEffect
  <2> QED
    BY <1>a, <2>1
<1>2. CASE CheckEndpoint(r) \/ PostDelivery(r) \/ FinishDelivery(r)
  <2>1. drains[r].pc # "idle" /\ drains'[r].age \in {0, drains[r].age}
    BY <1>2, CheckEffect, PostEffect, FinishEffect DEF MovesOn
  <2> QED
    BY <1>0, <1>a, <2>1
<1>3. CASE DrainDies(r)
  BY <1>3, DiesEffect, IdleType
<1>4. CASE \E d \in Deliveries : ClaimDelivery(r, d) \/ SkipDelivery(r, d)
  <2>1. drains[r].pc # "idle" /\ drains'[r].age \in {0, drains[r].age}
    BY <1>4, ClaimEffect, SkipEffect
  <2> QED
    BY <1>0, <1>a, <2>1
<1>5. CASE OutboxTick
  BY <1>0, <1>5, TickEffect
<1>6. CASE drains'[r] = drains[r]
  BY <1>0, <1>6
<1> QED
  BY <1>1, <1>2, <1>3, <1>4, <1>5, <1>6, DrainSteps DEF DrainChange

\* An endpoint that is deleted stays deleted.
LEMMA DeletedStays ==
    ASSUME OutboxTypeOK, [OutboxNext]_outboxVars, NEW e \in Endpoints,
           endpoints[e] = "deleted"
    PROVE  endpoints'[e] = "deleted"
BY EndpointSteps, ToggleEffect

\* Nobody but its drain touches a row that is held.
LEMMA HeldRowSteps ==
    ASSUME OutboxInv, [OutboxNext]_outboxVars, promptDrains, NEW r \in Drains, AtWork(r),
           NEW d, d = drains[r].delivery
    PROVE  \/ endpoints'[d[2]] = "deleted"
           \/ RowStays(d) \/ Ages(d)
           \/ FinishDelivery(r)
<1> USE DEF OutboxInv
<1>1. /\ d \in Deliveries /\ ~RowDue(d) /\ d[2] \in Endpoints
      /\ \/ endpoints[d[2]] = "deleted"
         \/ outbox[d].status = "processing" /\ Leased(d)
  BY HeldIsNotDue, DeliveryParts
<1> SUFFICES ASSUME endpoints[d[2]] # "deleted", ~RowStays(d), ~Ages(d),
                    ~GoesWithEndpoint(d)
             PROVE  FinishDelivery(r)
  BY <1>1, DeletedStays DEF GoesWithEndpoint
<1>2. outbox[d].status = "processing" /\ Leased(d)
  BY <1>1
<1>3. ~ \E m \in Mutations : Added(m, d)
  BY <1>2 DEF Added
<1>4. ASSUME NEW m \in Mutations, NEW e \in Endpoints, BeginTest(m, e), d = <<m, e, 0>>
      PROVE  FALSE
  <2>1. mutationKind[m] = "test" /\ mutations[m].pc = "start" /\ <<m, e, 0>> \in EventOf(m)
    BY <1>4, BeginTestEffect
  <2> QED
    BY <1>2, <1>4, <2>1 DEF KindsApart
<1>5. ASSUME NEW m \in Mutations, TestEnds(m, d) PROVE FALSE
  <2>1. /\ mutations[m].pc = "testing" /\ d[1] = m /\ d[2] \in mutations[m].targets
        /\ d = <<m, d[2], 0>>
    BY <1>1, <1>5, DeliveryParts DEF TestEnds
  <2>2. mutationKind[m] = "test"
    BY <2>1 DEF KindsApart
  <2>3. tries[<<m, d[2], 0>>] = 0
    BY <1>1, <2>1 DEF PromptInv, TestIsAlone
  <2> QED
    BY <1>2, <2>1, <2>2, <2>3 DEF Leased
<1>6. ~ \E s \in Drains : ClaimDelivery(s, d)
  BY <1>1, ClaimEffect DEF FreshIsDue
<1>7. ~ReplayDelivery(d) /\ ~FallsDue(d)
  BY <1>1, <1>2, ReplayEffect DEF FallsDue
<1>8. PICK s \in Drains : Finishes(s, d)
  BY <1>1, <1>3, <1>4, <1>5, <1>6, <1>7, RowSteps DEF RowChange
<1>9. AtWork(s) /\ drains[s].delivery = d /\ FinishDelivery(s)
  BY <1>8 DEF Finishes, AtWork
<1>10. s = r
  BY <1>9 DEF PromptInv, LeasesHold, HeldByOne
<1> QED
  BY <1>9, <1>10

LEMMA ClaimCounts ==
    ASSUME OutboxTypeOK, NEW r \in Drains, NEW d \in Deliveries, ClaimDelivery(r, d)
    PROVE  /\ drains'[r].attempts = Counted(outbox[d].attempts)
           /\ outbox'[d].attempts = Counted(outbox[d].attempts)
BY ClaimEffect

\* A claim finds a row that is due, and takes it with its tries.
LEMMA ClaimTakes ==
    ASSUME OutboxInv, promptDrains, NEW r \in Drains, NEW d \in Deliveries,
           ClaimDelivery(r, d)
    PROVE  /\ RowDue(d) /\ outbox[d].attempts = tries[d]
           /\ outbox'[d].status = "processing"
           /\ outbox'[d].lease = OutboxLease - drains'[r].age
           /\ tries'[d] > 0
           /\ tries'[d] = drains'[r].attempts /\ outbox'[d].attempts = tries'[d]
           /\ UNCHANGED <<mutationKind, endpoints>>
<1>0. OutboxTypeOK
  BY DEF OutboxInv
<1>1. RowDue(d)
  BY <1>0, ClaimEffect DEF FreshIsDue, OutboxInv
<1>2. outbox[d].attempts = tries[d]
  BY <1>1 DEF PromptInv, ClaimsCounted, RowDue, OutboxInv
<1>3. Counted(tries[d]) > 0
  BY <1>0, CountedType DEF OutboxTypeOK
<1> DEFINE attempts == Counted(outbox[d].attempts)
<1> HIDE DEF attempts
<1>4. /\ outbox'[d].status = "processing"
      /\ outbox'[d].lease = OutboxLease - drains[r].age /\ drains'[r].age = drains[r].age
      /\ tries'[d] = Counted(tries[d])
      /\ UNCHANGED <<mutationKind, endpoints>>
  BY <1>0, ClaimEffect DEF mutationVars
<1>5. drains'[r].attempts = attempts /\ outbox'[d].attempts = attempts
  BY <1>0, ClaimCounts DEF attempts
<1> QED
  BY <1>1, <1>2, <1>3, <1>4, <1>5 DEF attempts

LEMMA LeasesStep ==
    ASSUME OutboxInv, [OutboxNext]_outboxVars, promptDrains PROVE LeasesHold'
<1> USE DEF OutboxInv
<1>1. ASSUME NEW r \in Drains, drains'[r].pc # "idle" PROVE drains'[r].age < OutboxLease
  BY <1>1, AgesStep
<1>2. ASSUME NEW r \in Drains, AtWork(r)' PROVE Held(r)'
  <2> DEFINE d == drains'[r].delivery
  <2> SUFFICES \/ endpoints'[d[2]] = "deleted"
               \/ /\ outbox'[d].status = "processing"
                  /\ mutationKind[d[1]] # "test" \/ tries'[d] > 0
                  /\ outbox'[d].lease = OutboxLease - drains'[r].age
                  /\ tries'[d] = drains'[r].attempts
    BY StepKeeps DEF Held, Leased
  <2> HIDE DEF d
  <2>1. ASSUME NEW f \in Deliveries, ClaimDelivery(r, f), d = f
        PROVE  /\ outbox'[d].status = "processing" /\ tries'[d] > 0
               /\ outbox'[d].lease = OutboxLease - drains'[r].age
               /\ tries'[d] = drains'[r].attempts
    BY <2>1, ClaimTakes
  <2>2. CASE /\ AtWork(r) /\ ~FinishDelivery(r) /\ d = drains[r].delivery
             /\ drains'[r].attempts = drains[r].attempts
             /\ OutboxTick \/ drains'[r].age = drains[r].age
    <3>1. /\ d \in Deliveries
          /\ \/ endpoints[d[2]] = "deleted"
             \/ /\ outbox[d].status = "processing" /\ Leased(d)
                /\ outbox[d].lease = OutboxLease - drains[r].age /\ outbox[d].lease > 0
                /\ tries[d] = drains[r].attempts
      BY <2>2, HeldIsNotDue
    <3> SUFFICES ASSUME endpoints'[d[2]] # "deleted"
                 PROVE  /\ outbox'[d].status = "processing"
                        /\ mutationKind[d[1]] # "test" \/ tries'[d] > 0
                        /\ outbox'[d].lease = OutboxLease - drains'[r].age
                        /\ tries'[d] = drains'[r].attempts
      OBVIOUS
    <3>2. endpoints[d[2]] # "deleted"
      BY <3>1, DeletedStays, DeliveryParts
    <3>3. CASE OutboxTick
      <4>1. drains[r].pc # "idle" /\ drains[r].age < OutboxLease /\ drains[r].age \in Nat
        BY <2>2 DEF AtWork, PromptInv, LeasesHold, OutboxTypeOK
      <4>2. drains'[r].age = drains[r].age + 1 /\ UNCHANGED tries
        BY <3>3, <4>1, TickEffect
      <4>3. /\ outbox'[d].status = "processing"
            /\ outbox'[d].lease = outbox[d].lease - 1
        BY <3>1, <3>2, <3>3, TickEffect DEF Runs
      <4>4. outbox'[d].lease = OutboxLease - drains'[r].age
        BY <3>1, <3>2, <4>1, <4>2, <4>3, RowTypes
      <4> QED
        BY <2>2, <3>1, <3>2, <4>2, <4>3, <4>4 DEF Leased
    <3>4. CASE ~OutboxTick
      <4>1. RowStays(d)
        BY <2>2, <3>1, <3>4, HeldRowSteps DEF Ages
      <4>2. drains'[r].age = drains[r].age
        BY <2>2, <3>4
      <4> QED
        BY <2>2, <3>1, <3>2, <4>1, <4>2 DEF RowStays, Leased
    <3> QED
      BY <3>3, <3>4
  <2> QED
    BY <1>2, <2>1, <2>2, WorkSteps DEF d
<1>3. HeldByOne'
  <2> SUFFICES ASSUME NEW r \in Drains, NEW s \in Drains, AtWork(r)', AtWork(s)', r # s,
                      drains'[r].delivery = drains'[s].delivery
               PROVE  endpoints'[drains'[r].delivery[2]] = "deleted"
    BY DEF HeldByOne
  <2>1. ASSUME NEW p \in Drains, NEW q \in Drains, AtWork(p)', AtWork(q)', p # q,
               drains'[p].delivery = drains'[q].delivery,
               NEW d \in Deliveries, ClaimDelivery(p, d), drains'[p].delivery = d
        PROVE  endpoints'[d[2]] = "deleted"
    <3>0. OthersKept(p)
      BY <2>1, ClaimEffect
    <3>1. drains'[q] = drains[q]
      BY <2>1, <3>0 DEF OthersKept
    <3>2. AtWork(q) /\ drains[q].delivery = d
      BY <2>1, <3>1 DEF AtWork
    <3>3. RowDue(d)
      BY <2>1, ClaimTakes
    <3> QED
      BY <3>2, <3>3, HeldIsNotDue
  <2>2. CASE /\ AtWork(r) /\ drains'[r].delivery = drains[r].delivery
             /\ AtWork(s) /\ drains'[s].delivery = drains[s].delivery
    <3>1. endpoints[drains[r].delivery[2]] = "deleted"
      BY <2>2 DEF PromptInv, LeasesHold, HeldByOne
    <3>2. drains[r].delivery[2] \in Endpoints
      BY <2>2, HeldIsNotDue, DeliveryParts
    <3> QED
      BY <2>2, <3>1, <3>2, DeletedStays
  <2> QED
    BY <2>1, <2>2, WorkSteps
<1> QED
  BY <1>1, <1>2, <1>3 DEF LeasesHold
\* A row that no claim has counted has a tries of zero.
LEMMA NoneIsUntried ==
    ASSUME OutboxInv, promptDrains, NEW d \in Deliveries, outbox[d].status = "none",
           endpoints[d[2]] # "deleted"
    PROVE  tries[d] = 0
BY DEF OutboxInv, PromptInv, ClaimsCounted

LEMMA TestStep ==
    ASSUME OutboxInv, [OutboxNext]_outboxVars, promptDrains PROVE TestIsAlone'
<1> USE DEF OutboxInv
<1> SUFFICES ASSUME NEW m \in Mutations, NEW e \in Endpoints, NEW d, d = <<m, e, 0>>,
                    mutations'[m].pc = "testing", e \in mutations'[m].targets,
                    endpoints'[e] # "deleted"
             PROVE  outbox'[d].status = "processing" /\ tries'[d] = 0
  BY DEF TestIsAlone
<1>1. d \in Deliveries /\ d[1] = m /\ d[2] = e /\ endpoints[e] # "deleted"
  BY DeliveryParts, RowTypes, DeletedStays
<1>2. ASSUME NEW f \in Endpoints, BeginTest(m, f)
      PROVE  outbox'[d].status = "processing" /\ tries'[d] = 0
  <2>1. /\ mutationKind[m] = "test" /\ mutations[m].pc = "start"
        /\ mutations'[m].targets = {f} /\ UNCHANGED tries
    BY <1>2, BeginTestEffect
  <2>2. e = f
    BY <2>1
  <2>3. outbox'[d].status = "processing"
    BY <1>2, <2>2, TestRowBegins
  <2>4. outbox[d].status = "none"
    BY <1>1, <2>1 DEF KindsApart, EventOf
  <2>5. tries[d] = 0
    BY <1>1, <2>4, NoneIsUntried
  <2> QED
    BY <2>1, <2>2, <2>3, <2>5
<1>3. CASE mutations'[m] = mutations[m]
  <2>1. mutations[m].pc = "testing" /\ e \in mutations[m].targets /\ mutationKind[m] = "test"
    BY <1>3 DEF KindsApart
  <2>2. outbox[<<m, e, 0>>].status = "processing" /\ tries[<<m, e, 0>>] = 0
    BY <1>1, <2>1 DEF PromptInv, TestIsAlone
  <2>3. outbox[d].status = "processing" /\ tries[d] = 0 /\ ~Leased(d)
    BY <1>1, <2>1, <2>2 DEF Leased
  <2>4. ~ \E n \in Mutations : Added(n, d)
    BY <2>3 DEF Added
  <2>5. ~ \E n \in Mutations, f \in Endpoints : BeginTest(n, f) /\ d = <<n, f, 0>>
    BY <1>1, <2>1, BeginTestEffect
  <2>6. ~ \E n \in Mutations : TestEnds(n, d)
    BY <1>1, <1>3, <2>1 DEF TestEnds
  <2>7. ~ \E r \in Drains : ClaimDelivery(r, d)
    BY <1>1, <2>3, ClaimTakes DEF RowDue
  <2>8. ~ \E r \in Drains : Finishes(r, d)
    BY <1>1, <2>3, HeldIsNotDue DEF Finishes, AtWork
  <2>9. ~ReplayDelivery(d) /\ ~FallsDue(d) /\ ~GoesWithEndpoint(d)
    BY <1>1, <2>3, ReplayEffect DEF FallsDue, GoesWithEndpoint
  <2>10. RowStays(d) \/ Ages(d)
    BY <1>1, <2>4, <2>5, <2>6, <2>7, <2>8, <2>9, RowSteps DEF RowChange
  <2> QED
    BY <2>3, <2>10 DEF RowStays, Ages
<1>4. mutations'[m] = mutations[m] \/ \E f \in Endpoints : BeginTest(m, f)
  BY MutationSteps, ReadEffect, InsertEffect, RecordEffect, MutationFailsEffect,
     EndTestEffect DEF MutationChange, Emit
<1> QED
  BY <1>2, <1>3, <1>4

LEMMA ClaimsStep ==
    ASSUME OutboxInv, [OutboxNext]_outboxVars, promptDrains PROVE ClaimsCounted'
<1> USE DEF OutboxInv
<1> DEFINE LeasedNow(d) == mutationKind[d[1]] # "test" \/ tries'[d] > 0
           Row(row, leased, tried, deleted) ==
             /\ \/ row.status \in {"pending", "retry"}
                \/ row.status = "processing" /\ leased
                => row.attempts = tried
             /\ row.status = "dead" => tried >= MaxDeliveries
             /\ row.status = "none" /\ ~deleted => tried = 0
<1> SUFFICES ASSUME NEW d \in Deliveries
             PROVE  Row(outbox'[d], LeasedNow(d), tries'[d], endpoints'[d[2]] = "deleted")
  BY StepKeeps DEF ClaimsCounted, Leased
<1>1. Row(outbox[d], Leased(d), tries[d], endpoints[d[2]] = "deleted")
  BY DEF PromptInv, ClaimsCounted
<1>2. d[2] \in Endpoints /\ (endpoints[d[2]] = "deleted" => endpoints'[d[2]] = "deleted")
  BY DeliveryParts, DeletedStays
<1>3. CASE RowStays(d)
  BY <1>1, <1>2, <1>3 DEF RowStays, Leased
<1>4. CASE Ages(d)
  BY <1>1, <1>2, <1>4 DEF Ages, Leased
<1>5. ASSUME NEW m \in Mutations, Added(m, d), tries'[d] = tries[d]
      PROVE  Row(outbox'[d], LeasedNow(d), tries'[d], endpoints'[d[2]] = "deleted")
  BY <1>1, <1>5, RowTypes DEF Added
<1>6. ASSUME NEW m \in Mutations, NEW e \in Endpoints, BeginTest(m, e), d = <<m, e, 0>>
      PROVE  Row(outbox'[d], LeasedNow(d), tries'[d], endpoints'[d[2]] = "deleted")
  <2>1. /\ outbox'[d].status = "processing" /\ tries' = tries
        /\ mutationKind[m] = "test" /\ mutations[m].pc = "start"
        /\ endpoints[e] # "deleted"
    BY <1>6, TestRowBegins
  <2>2. d[1] = m /\ d[2] = e /\ outbox[d].status = "none"
    BY <1>6, <2>1 DEF KindsApart, EventOf
  <2>3. tries'[d] = 0
    BY <2>1, <2>2, NoneIsUntried
  <2> QED
    BY <1>6, <2>1, <2>2, <2>3
<1>7. ASSUME NEW m \in Mutations, TestEnds(m, d)
      PROVE  Row(outbox'[d], LeasedNow(d), tries'[d], endpoints'[d[2]] = "deleted")
  BY <1>7 DEF TestEnds
<1>8. ASSUME NEW r \in Drains, ClaimDelivery(r, d)
      PROVE  Row(outbox'[d], LeasedNow(d), tries'[d], endpoints'[d[2]] = "deleted")
  BY <1>8, ClaimTakes
<1>9. ASSUME NEW r \in Drains, Finishes(r, d)
      PROVE  Row(outbox'[d], LeasedNow(d), tries'[d], endpoints'[d[2]] = "deleted")
  <2>1. /\ outbox[d].status # "none" /\ outbox'[d].status \in {"success", "dead", "retry"}
        /\ outbox'[d].status = "dead" => drains[r].attempts >= MaxDeliveries
        /\ outbox'[d].attempts = outbox[d].attempts /\ tries'[d] = tries[d]
        /\ AtWork(r) /\ drains[r].delivery = d
    BY <1>9 DEF Finishes, AtWork
  <2>2. outbox[d].status = "processing" /\ Leased(d) /\ tries[d] = drains[r].attempts
    BY <2>1, HeldIsNotDue DEF EndpointsHold
  <2> QED
    BY <1>1, <2>1, <2>2
<1>10. CASE ReplayDelivery(d)
  BY <1>10, ReplayEffect, RowTypes
<1>11. CASE GoesWithEndpoint(d)
  BY <1>11, RowTypes DEF GoesWithEndpoint
<1>12. CASE FallsDue(d)
  BY <1>1, <1>12 DEF FallsDue
<1> QED
  BY <1>3, <1>4, <1>5, <1>6, <1>7, <1>8, <1>9, <1>10, <1>11, <1>12, RowSteps DEF RowChange
-----------------------------------------------------------------------------
(* The invariant.                                                          *)

LEMMA InitInv == OutboxInit => OutboxInv
<1> SUFFICES ASSUME OutboxInit PROVE OutboxInv
  OBVIOUS
<1>1. /\ promptDrains \in BOOLEAN
      /\ mutationKind \in [Mutations -> MutationKinds]
      /\ endpoints = [e \in Endpoints |-> "enabled"]
      /\ freshRows = [r \in Drains |-> {}] /\ received = {}
      /\ tries = [d \in Deliveries |-> 0] /\ incidents = 0 /\ toggled = {}
  BY OutboxAssumption DEF OutboxInit
<1>2. /\ mutations \in [Mutations -> MutationLocals]
      /\ \A m \in Mutations : mutations[m].pc = "start"
  BY RowTypes DEF OutboxInit, MutationLocals
<1>3. /\ outbox \in [Deliveries -> DeliveryRows]
      /\ \A d \in Deliveries : outbox[d].status = "none"
  BY RowTypes DEF OutboxInit
<1>4. /\ drains \in [Drains -> DrainLocals]
      /\ \A r \in Drains : drains[r].pc = "idle" /\ drains[r].selected = {}
  BY IdleType DEF OutboxInit
<1>5. OutboxTypeOK
  <2>1. tries \in [Deliveries -> 0..CountLimit] /\ incidents \in 0..MaxIncidents
    BY <1>1, RowTypes, OutboxAssumption
  <2>2. InHands
    BY <1>4 DEF InHands
  <2>3. /\ endpoints \in [Endpoints -> {"enabled", "disabled", "deleted"}]
        /\ freshRows \in [Drains -> SUBSET Deliveries]
        /\ received \subseteq Deliveries /\ toggled \subseteq Endpoints
    BY <1>1
  <2> QED
    BY <1>1, <1>2, <1>3, <1>4, <2>1, <2>2, <2>3, TypeParts
<1>6. KindsApart /\ StableIdentity /\ AnnouncedFirst
  BY <1>2, <1>3 DEF KindsApart, StableIdentity, AnnouncedFirst, EventOf
<1>7. EndpointsHold
  BY <1>1, <1>3, DeliveryParts DEF EndpointsHold
<1>8. FreshIsDue /\ SuccessIsReceived
  BY <1>3, <1>4 DEF FreshIsDue, SuccessIsReceived
<1>9. LeasesHold /\ TestIsAlone
  BY <1>2, <1>4 DEF LeasesHold, HeldByOne, AtWork, TestIsAlone
<1>10. ClaimsCounted
  BY <1>1, <1>3 DEF ClaimsCounted
<1> QED
  BY <1>5, <1>6, <1>7, <1>8, <1>9, <1>10 DEF OutboxInv, PromptInv

LEMMA NextInv == OutboxInv /\ [OutboxNext]_outboxVars => OutboxInv'
<1> SUFFICES ASSUME OutboxInv, [OutboxNext]_outboxVars PROVE OutboxInv'
  OBVIOUS
<1>1. OutboxTypeOK'
  BY TypeStep DEF OutboxInv
<1>2. /\ KindsApart' /\ EndpointsHold' /\ FreshIsDue' /\ StableIdentity'
      /\ AnnouncedFirst' /\ SuccessIsReceived'
  BY KindsStep, EndpointsStep, FreshStep, IdentityStep, AnnouncedStep, ReceivedStep
<1>3. PromptInv'
  <2>1. promptDrains' = promptDrains
    BY StepKeeps DEF OutboxInv
  <2> QED
    BY <2>1, LeasesStep, TestStep, ClaimsStep DEF PromptInv
<1> QED
  BY <1>1, <1>2, <1>3 DEF OutboxInv

\* OutboxInv holds of every state of the outbox.
THEOREM OutboxInvariant == OutboxSpec => []OutboxInv
BY InitInv, NextInv, PTL DEF OutboxSpec
\* OutboxTypeOK: every variable keeps its type; among others a lease that is
\* counted from the time a drain began never exceeds LEASE_MS, and a drain that
\* posts or records has a delivery.
THEOREM TypeCorrect == OutboxSpec => []OutboxTypeOK
BY OutboxInvariant, PTL DEF OutboxInv

-----------------------------------------------------------------------------
(* What the outbox promises.                                               *)

\* SuccessIsAnnounced: a mutation that says success has a row for every endpoint
\* that was on all the time, whichever of its attempts died between the read of
\* the endpoints, the insert and the record.
THEOREM SuccessesAreAnnounced == OutboxSpec => []SuccessIsAnnounced
<1>1. OutboxInv => SuccessIsAnnounced
  BY DEF OutboxInv, AnnouncedFirst, Announced, SuccessIsAnnounced
<1> QED
  BY <1>1, OutboxInvariant, PTL

\* OneRowPerAdd: an inferred add has at most one row for an endpoint, however
\* often it was attempted.
THEOREM AddsHaveOneRow == OutboxSpec => []OneRowPerAdd
<1>1. OutboxInv => OneRowPerAdd
  <2> SUFFICES ASSUME OutboxInv, NEW m \in Mutations, NEW e \in Endpoints,
                      mutationKind[m] = "inferred"
               PROVE  Cardinality({d \in EventOf(m) : d[2] = e /\ outbox[d].status # "none"})
                        <= 1
    BY DEF OneRowPerAdd
  <2> DEFINE rows == {d \in EventOf(m) : d[2] = e /\ outbox[d].status # "none"}
  <2>1. rows \subseteq {<<m, e, 0>>}
    BY DeliveryParts DEF OutboxInv, StableIdentity, EventOf
  <2>2. IsFiniteSet({<<m, e, 0>>}) /\ Cardinality({<<m, e, 0>>}) = 1
    BY FS_Singleton
  <2> HIDE DEF rows
  <2>3. Cardinality(rows) <= 1
    BY <2>1, <2>2, FS_Subset
  <2> QED
    BY <2>3 DEF rows
<1> QED
  BY <1>1, OutboxInvariant, PTL

\* OutcomeIsTrue: a delivery that says success was accepted by its receiver, and
\* one that is given up by drains that end within their leases was tried
\* MAX_ATTEMPTS times since it was queued or replayed.
THEOREM OutcomesAreTrue == OutboxSpec => []OutcomeIsTrue
<1>1. OutboxInv => OutcomeIsTrue
  BY DEF OutboxInv, SuccessIsReceived, PromptInv, ClaimsCounted, OutcomeIsTrue
<1> QED
  BY <1>1, OutboxInvariant, PTL

\* DeliveredIsFinal: no step of any drain, of any mutation or of an operator takes
\* a success back while drains end within their leases, until the endpoint goes.
THEOREM DeliveredStaysDelivered == OutboxSpec => DeliveredIsFinal
<1> DEFINE Final == \A d \in Deliveries :
                      promptDrains /\ outbox[d].status = "success" =>
                        outbox'[d].status \in {"success", "none"}
<1>1. OutboxInv /\ [OutboxNext]_outboxVars => [Final]_outboxVars
  <2> SUFFICES ASSUME OutboxInv, [OutboxNext]_outboxVars, promptDrains,
                      NEW d \in Deliveries, outbox[d].status = "success"
               PROVE  outbox'[d].status \in {"success", "none"}
    OBVIOUS
  <2> USE DEF OutboxInv
  <2>1. ~ \E m \in Mutations : Added(m, d)
    BY DEF Added
  <2>2. ASSUME NEW m \in Mutations, NEW e \in Endpoints, BeginTest(m, e), d = <<m, e, 0>>
        PROVE  FALSE
    <3>1. /\ mutationKind[m] = "test" /\ mutations[m].pc = "start"
          /\ <<m, e, 0>> \in EventOf(m)
      BY <2>2, BeginTestEffect
    <3> QED
      BY <2>2, <3>1 DEF KindsApart
  <2>3. ASSUME NEW m \in Mutations, TestEnds(m, d) PROVE FALSE
    <3>1. /\ mutations[m].pc = "testing" /\ d[2] \in mutations[m].targets
          /\ d = <<m, d[2], 0>> /\ d[2] \in Endpoints /\ endpoints[d[2]] # "deleted"
      BY <2>3, DeliveryParts DEF TestEnds
    <3>2. outbox[<<m, d[2], 0>>].status = "processing"
      BY <3>1 DEF PromptInv, TestIsAlone
    <3> QED
      BY <3>1, <3>2
  <2>4. ~ \E r \in Drains : ClaimDelivery(r, d)
    BY ClaimTakes DEF RowDue
  <2>5. ~ \E r \in Drains : Finishes(r, d)
    BY HeldIsNotDue DEF Finishes, AtWork, EndpointsHold
  <2>6. ~ReplayDelivery(d) /\ ~FallsDue(d)
    BY ReplayEffect DEF FallsDue
  <2> QED
    BY <2>1, <2>2, <2>3, <2>4, <2>5, <2>6, RowSteps, RowTypes
       DEF RowChange, RowStays, GoesWithEndpoint, Ages
<1> QED
  BY <1>1, OutboxInvariant, PTL DEF OutboxSpec, DeliveredIsFinal
===============================================================================
