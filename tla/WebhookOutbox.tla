---------------------------- MODULE WebhookOutbox ----------------------------
(***************************************************************************)
(* Outbound webhooks of the web application: the outbox table               *)
(* webhook_deliveries (apps/web/lib/server/webhook-outbox.ts), filled by    *)
(* the mutations it announces and drained by the minute cron.  A mutation   *)
(* reads the endpoints, then inserts a row per endpoint, then records its   *)
(* own success; a task that dies in between runs again.  The identity of a  *)
(* row is stable for an inferred add (endpoint and task) and drawn at       *)
(* random for every other event, a repeated one included.                   *)
(*                                                                          *)
(* As in OperationTasks time is relative and "freshRows" stands for the     *)
(* comparison of updated_at.  Attempts are counted at the claim, past       *)
(* MaxDeliveries if drains die.  A drain reads the clock once for all its   *)
(* deliveries and records every outcome by the identity of the row alone.   *)
(* Receivers answer in the end: the code sets no timeout on the request.    *)
(***************************************************************************)
EXTENDS Naturals, FiniteSets

CONSTANTS
    Mutations,      \* mutations, each of which emits one event
    Endpoints,      \* endpoints of the project, subscribed to the events
    Drains,         \* runs of the cron, which may overlap
    MaxEmissions,   \* attempts a mutation has
    MaxDeliveries,  \* MAX_ATTEMPTS of a delivery
    CountLimit,     \* bound: attempts are counted this far
    OutboxLease,    \* LEASE_MS, in ticks
    DrainLimit,     \* the LIMIT of a drain
    PromptDrains,   \* BOOLEAN, {TRUE}: drains end within their leases
    MaxIncidents,   \* bound: drains that die, rows an operator replays, and
                    \* endpoints switched off, switched on or deleted
    NoDelivery

MutationKinds == {"inferred", "other", "test"}

\* The row of an event of m for e; n tells the random identities apart.
Deliveries == Mutations \X Endpoints \X (0..MaxEmissions)

ASSUME OutboxAssumption ==
    /\ {MaxEmissions, MaxDeliveries, OutboxLease, DrainLimit} \subseteq Nat \ {0}
    /\ {MaxIncidents, CountLimit} \subseteq Nat
    /\ MaxDeliveries < CountLimit
    /\ PromptDrains \subseteq BOOLEAN
    /\ NoDelivery \notin Deliveries

VARIABLES
    promptDrains,   \* does every drain end within its leases here?
    mutationKind,   \* what emits the event of each mutation
    mutations,      \* the mutations: where they are, and the endpoints they read
    endpoints,      \* the webhook_endpoints rows
    outbox,         \* the webhook_deliveries rows
    drains,         \* the drains and their local variables
    freshRows,      \* per drain: selected rows whose updated_at is unchanged
    received,       \* deliveries the receiver got and answered 2xx
    tries,          \* claims of each row since it was last pending
    incidents,      \* how many so far
    toggled         \* the endpoints that did not stay as they were

mutationVars == <<mutationKind, mutations>>
outboxVars == <<promptDrains, mutationVars, endpoints, outbox, drains,
                freshRows, received, tries, incidents, toggled>>

NoDeliveryRow == [status |-> "none", attempts |-> 0, due |-> FALSE, lease |-> 0]

DeliveryRows ==
    [status : {"none", "pending", "processing", "retry", "success", "dead", "failed"},
     attempts : 0..CountLimit, due : BOOLEAN, lease : 0..OutboxLease]

IdleDrain == [pc |-> "idle", selected |-> {}, delivery |-> NoDelivery,
              attempts |-> 0, error |-> FALSE, age |-> 0]

OutboxTypeOK ==
    /\ promptDrains \in BOOLEAN
    /\ mutationKind \in [Mutations -> MutationKinds]
    /\ mutations \in [Mutations ->
         [pc : {"start", "insert", "record", "testing", "success", "dead"},
          emissions : 1..MaxEmissions, targets : SUBSET Endpoints]]
    /\ endpoints \in [Endpoints -> {"enabled", "disabled", "deleted"}]
    /\ outbox \in [Deliveries -> DeliveryRows]
    /\ drains \in [Drains ->
         [pc : {"idle", "batch", "endpoint", "post", "finish"},
          selected : SUBSET Deliveries, delivery : Deliveries \cup {NoDelivery},
          attempts : 0..CountLimit, error : BOOLEAN, age : 0..OutboxLease]]
    /\ \A r \in Drains :
         drains[r].pc \in {"endpoint", "post", "finish"} =>
            drains[r].delivery \in Deliveries
    /\ freshRows \in [Drains -> SUBSET Deliveries]
    /\ received \subseteq Deliveries
    /\ tries \in [Deliveries -> 0..CountLimit]
    /\ incidents \in 0..MaxIncidents
    /\ toggled \subseteq Endpoints

OutboxInit ==
    /\ promptDrains \in PromptDrains
    /\ mutationKind \in [Mutations -> MutationKinds]
    /\ mutations = [m \in Mutations |->
                      [pc |-> "start", emissions |-> 1, targets |-> {}]]
    /\ endpoints = [e \in Endpoints |-> "enabled"]
    /\ outbox = [d \in Deliveries |-> NoDeliveryRow]
    /\ drains = [r \in Drains |-> IdleDrain]
    /\ freshRows = [r \in Drains |-> {}]
    /\ received = {}
    /\ tries = [d \in Deliveries |-> 0]
    /\ incidents = 0
    /\ toggled = {}

Incident ==
    /\ incidents < MaxIncidents
    /\ incidents' = incidents + 1

PutRows(rows) ==
    /\ outbox' = [d \in Deliveries |-> IF d \in DOMAIN rows THEN rows[d] ELSE outbox[d]]
    /\ freshRows' = [r \in Drains |-> freshRows[r] \ DOMAIN rows]

PutRow(d, row) == PutRows([x \in {d} |-> row])

PendingRow == [status |-> "pending", attempts |-> 0, due |-> TRUE, lease |-> 0]

-----------------------------------------------------------------------------
(* Mutations and the events they emit.                                     *)

Mutate(m, pc) == mutations' = [mutations EXCEPT ![m].pc = pc]

\* stableDeliveryId of the task, or an identity of this attempt's own.
Identity(m) == IF mutationKind[m] = "inferred" THEN 0 ELSE mutations[m].emissions

\* Fault: an attempt that runs again takes the event for emitted.
FirstAttemptEmits(m) == IF mutations[m].emissions = 1 THEN "insert" ELSE "record"

Emission(m) == "insert"

\* enqueueWebhookEvent, once the mutation itself committed: the endpoints
\* that are enabled.
ReadEndpoints(m) ==
    /\ mutationKind[m] # "test"
    /\ mutations[m].pc = "start"
    /\ mutations' = [mutations EXCEPT
           ![m].pc = Emission(m),
           ![m].targets = {e \in Endpoints : endpoints[e] = "enabled"}]
    /\ UNCHANGED <<promptDrains, mutationKind, endpoints, outbox, drains,
                   freshRows, received, tries, incidents, toggled>>

\* One insert, which fails if an endpoint is gone; rows that exist stay.
InsertDeliveries(m) ==
    LET rows == {<<m, e, Identity(m)>> : e \in mutations[m].targets} IN
    /\ mutations[m].pc = "insert"
    /\ \A e \in mutations[m].targets : endpoints[e] # "deleted"
    /\ PutRows([d \in {d \in rows : outbox[d].status = "none"} |-> PendingRow])
    /\ Mutate(m, "record")
    /\ UNCHANGED <<promptDrains, mutationKind, endpoints, drains, received,
                   tries, incidents, toggled>>

\* The handler returns, and its task or its reply says success.
RecordMutation(m) ==
    /\ mutations[m].pc = "record"
    /\ Mutate(m, "success")
    /\ UNCHANGED <<promptDrains, mutationKind, endpoints, outbox, drains,
                   freshRows, received, tries, incidents, toggled>>

\* The handler throws or dies anywhere; the task runs again or is dead.
MutationFails(m) ==
    /\ mutations[m].pc \in {"start", "insert", "record"}
    /\ mutationKind[m] # "test"
    /\ mutations' = [mutations EXCEPT ![m] =
         IF @.emissions < MaxEmissions
         THEN [pc |-> "start", emissions |-> @.emissions + 1, targets |-> {}]
         ELSE [@ EXCEPT !.pc = "dead"]]
    /\ UNCHANGED <<promptDrains, mutationKind, endpoints, outbox, drains,
                   freshRows, received, tries, incidents, toggled>>

\* The dashboard tests an endpoint: a row in processing, without a lease.
BeginTest(m, e) ==
    /\ mutationKind[m] = "test"
    /\ mutations[m].pc = "start"
    /\ endpoints[e] # "deleted"
    /\ PutRow(<<m, e, 0>>, [status |-> "processing", attempts |-> 1,
                            due |-> FALSE, lease |-> OutboxLease])
    /\ mutations' = [mutations EXCEPT ![m].pc = "testing", ![m].targets = {e}]
    /\ UNCHANGED <<promptDrains, mutationKind, endpoints, drains, received,
                   tries, incidents, toggled>>

\* Its outcome is recorded with the reply, unless the process dies.
EndTest(m) ==
    /\ mutations[m].pc = "testing"
    /\ \/ \E ok \in BOOLEAN, e \in mutations[m].targets :
            LET d == <<m, e, 0>> IN
            /\ received' = IF ok THEN received \cup {d} ELSE received
            /\ IF endpoints[e] = "deleted" THEN UNCHANGED <<outbox, freshRows>>
               ELSE PutRow(d, [outbox[d] EXCEPT
                               !.status = IF ok THEN "success" ELSE "failed"])
            /\ Mutate(m, "success")
       \/ Mutate(m, "dead") /\ UNCHANGED <<outbox, freshRows, received>>
    /\ UNCHANGED <<promptDrains, mutationKind, endpoints, drains, tries, incidents, toggled>>

-----------------------------------------------------------------------------
(* A drain: processWebhookOutbox.                                          *)

\* A test has no lease_expires_at.
Leased(d) == mutationKind[d[1]] # "test" \/ tries[d] > 0

\* Fault: a delivery in processing is taken from whoever runs it.
RowDueAnyTime(d) ==
    \/ outbox[d].status \in {"pending", "retry"} /\ outbox[d].due
    \/ outbox[d].status = "processing" /\ Leased(d)

RowDue(d) ==
    \/ outbox[d].status \in {"pending", "retry"} /\ outbox[d].due
    \/ outbox[d].status = "processing" /\ outbox[d].lease = 0 /\ Leased(d)

\* At most DrainLimit rows that are due, in no order.
SelectDeliveries(r) ==
    /\ drains[r].pc = "idle"
    /\ \E S \in SUBSET {d \in Deliveries : RowDue(d)} :
         /\ S # {}
         /\ \/ Cardinality(S) = DrainLimit
            \/ Cardinality(S) < DrainLimit /\ S = {d \in Deliveries : RowDue(d)}
         /\ drains' = [drains EXCEPT ![r] =
                         [IdleDrain EXCEPT !.pc = "batch", !.selected = S]]
         /\ freshRows' = [freshRows EXCEPT ![r] = S]
    /\ UNCHANGED <<promptDrains, mutationVars, endpoints, outbox, received,
                   tries, incidents, toggled>>

\* The rest of the batch, or the end of the drain.
NextOfBatch(r, selected) ==
    IF selected = {} THEN IdleDrain
    ELSE [IdleDrain EXCEPT !.pc = "batch", !.selected = selected, !.age = drains[r].age]

\* Fault: the count of attempts starts over at every claim.
CountedAnew(n) == 1

Counted(n) == IF n < CountLimit THEN n + 1 ELSE n

\* Fault: the lease counts from the claim, and the batch's age is added to it.
LeaseAndAge(r) == OutboxLease + drains[r].age

LeaseLeft(r) == OutboxLease - drains[r].age

\* The compare-and-set.  The lease counts from the time the drain began.
ClaimDelivery(r, d) ==
    LET attempts == Counted(outbox[d].attempts) IN
    /\ drains[r].pc = "batch"
    /\ d \in drains[r].selected \cap freshRows[r]
    /\ PutRow(d, [status |-> "processing", attempts |-> attempts, due |-> FALSE,
                  lease |-> LeaseLeft(r)])
    /\ drains' = [drains EXCEPT ![r].pc = "endpoint", ![r].delivery = d,
                                ![r].selected = @ \ {d}, ![r].attempts = attempts]
    /\ tries' = [tries EXCEPT ![d] = Counted(@)]
    /\ UNCHANGED <<promptDrains, mutationVars, endpoints, received, incidents, toggled>>

SkipDelivery(r, d) ==
    /\ drains[r].pc = "batch"
    /\ d \in drains[r].selected \ freshRows[r]
    /\ drains' = [drains EXCEPT ![r] = NextOfBatch(r, drains[r].selected \ {d})]
    /\ UNCHANGED <<promptDrains, mutationVars, endpoints, outbox, freshRows,
                   received, tries, incidents, toggled>>

\* Fault: only a missing endpoint is an error.
ErrorIfMissing(r) == endpoints[drains[r].delivery[2]] = "deleted"

\* A missing or disabled endpoint is an error of the delivery.
EndpointError(r) == endpoints[drains[r].delivery[2]] # "enabled"

\* The drain reads the endpoint: what becomes of it later is not seen.
CheckEndpoint(r) ==
    /\ drains[r].pc = "endpoint"
    /\ drains' = [drains EXCEPT
           ![r].pc = IF endpoints[drains[r].delivery[2]] = "enabled" THEN "post" ELSE "finish",
           ![r].error = EndpointError(r)]
    /\ UNCHANGED <<promptDrains, mutationVars, endpoints, outbox, freshRows,
                   received, tries, incidents, toggled>>

\* The POST: the receiver answers 2xx, or refuses, or its answer is lost on
\* the way.
PostDelivery(r) ==
    /\ drains[r].pc = "post"
    /\ \E got, error \in BOOLEAN :
         /\ got \/ error
         /\ received' = IF got THEN received \cup {drains[r].delivery} ELSE received
         /\ drains' = [drains EXCEPT ![r].pc = "finish", ![r].error = error]
    /\ UNCHANGED <<promptDrains, mutationVars, endpoints, outbox, freshRows,
                   tries, incidents, toggled>>

\* Fault: one delivery more.
ExhaustedOneLate(r) == drains[r].attempts > MaxDeliveries

\* Fault: one delivery short.
ExhaustedOneEarly(r) == drains[r].attempts + 1 >= MaxDeliveries

Exhausted(r) == drains[r].attempts >= MaxDeliveries

\* The outcome goes to the row of that identity, if there is one.
FinishDelivery(r) ==
    LET d == drains[r].delivery IN
    /\ drains[r].pc = "finish"
    /\ IF outbox[d].status = "none" THEN UNCHANGED <<outbox, freshRows>>
       ELSE PutRow(d, [outbox[d] EXCEPT
              !.status = IF ~drains[r].error THEN "success"
                         ELSE IF Exhausted(r) THEN "dead" ELSE "retry",
              !.due = FALSE, !.lease = 0])
    /\ drains' = [drains EXCEPT ![r] = NextOfBatch(r, drains[r].selected)]
    /\ UNCHANGED <<promptDrains, mutationVars, endpoints, received, tries, incidents, toggled>>

\* A drain dies, or the insert of its evidence throws and ends the batch.
DrainDies(r) ==
    /\ drains[r].pc # "idle"
    /\ Incident
    /\ drains' = [drains EXCEPT ![r] = IdleDrain]
    /\ UNCHANGED <<promptDrains, mutationVars, endpoints, outbox, freshRows,
                   received, tries, toggled>>

-----------------------------------------------------------------------------
(* Operators, endpoints, time.                                             *)

\* retryWebhookDelivery.
ReplayDelivery(d) ==
    /\ Incident
    /\ outbox[d].status \in {"dead", "failed", "retry"}
    /\ PutRow(d, PendingRow)
    /\ tries' = [tries EXCEPT ![d] = 0]
    /\ UNCHANGED <<promptDrains, mutationVars, endpoints, drains, received,
                   toggled>>

\* An endpoint is switched off, switched on again, or deleted with its rows.
ToggleEndpoint(e) ==
    /\ Incident
    /\ toggled' = toggled \cup {e}
    /\ endpoints[e] # "deleted"
    /\ \E s \in {"enabled", "disabled", "deleted"} \ {endpoints[e]} :
         /\ endpoints' = [endpoints EXCEPT ![e] = s]
         /\ IF s = "deleted"
            THEN PutRows([d \in {d \in Deliveries : d[2] = e} |-> NoDeliveryRow])
            ELSE UNCHANGED <<outbox, freshRows>>
    /\ UNCHANGED <<promptDrains, mutationVars, drains, received, tries>>

\* next_attempt_at of a row in retry is past.
RetryDue(d) ==
    /\ outbox[d].status = "retry"
    /\ ~outbox[d].due
    /\ outbox' = [outbox EXCEPT ![d].due = TRUE]
    /\ UNCHANGED <<promptDrains, mutationVars, endpoints, drains, freshRows,
                   received, tries, incidents, toggled>>

OutboxTick ==
    /\ \/ \E d \in Deliveries : outbox[d].lease > 0 /\ Leased(d)
       \/ \E r \in Drains : drains[r].pc # "idle" /\ drains[r].age < OutboxLease
    /\ promptDrains =>
         \A r \in Drains : drains[r].pc # "idle" => drains[r].age + 1 < OutboxLease
    /\ outbox' = [d \in Deliveries |->
         IF outbox[d].lease > 0 /\ Leased(d)
         THEN [outbox[d] EXCEPT !.lease = @ - 1] ELSE outbox[d]]
    /\ drains' = [r \in Drains |->
         IF drains[r].pc = "idle" \/ drains[r].age = OutboxLease THEN drains[r]
         ELSE [drains[r] EXCEPT !.age = @ + 1]]
    /\ UNCHANGED <<promptDrains, mutationVars, endpoints, freshRows, received,
                   tries, incidents, toggled>>

Drain(r) ==
    \/ \E d \in Deliveries : ClaimDelivery(r, d) \/ SkipDelivery(r, d)
    \/ CheckEndpoint(r) \/ PostDelivery(r) \/ FinishDelivery(r)

Emit(m) ==
    \/ ReadEndpoints(m) \/ InsertDeliveries(m) \/ RecordMutation(m)
    \/ MutationFails(m) \/ EndTest(m)
    \/ \E e \in Endpoints : BeginTest(m, e)

\* Nothing is due, nobody is at work.
OutboxDrained ==
    /\ \A m \in Mutations : mutations[m].pc \in {"success", "dead", "start"}
    /\ \A d \in Deliveries :
         outbox[d].status \in {"none", "success", "dead", "failed"} \/ ~Leased(d)
    /\ \A r \in Drains : drains[r].pc = "idle"
    /\ UNCHANGED outboxVars

OutboxNext ==
    \/ \E m \in Mutations : Emit(m)
    \/ \E r \in Drains : SelectDeliveries(r) \/ Drain(r) \/ DrainDies(r)
    \/ \E d \in Deliveries : ReplayDelivery(d) \/ RetryDue(d)
    \/ \E e \in Endpoints : ToggleEndpoint(e)
    \/ OutboxTick
    \/ OutboxDrained

OutboxSpec == OutboxInit /\ [][OutboxNext]_outboxVars

\* Clocks advance, the cron fires, and a drain that does not die goes on.
OutboxFairness ==
    /\ WF_outboxVars(OutboxTick)
    /\ WF_outboxVars(\E d \in Deliveries : RetryDue(d))
    /\ \A r \in Drains :
         WF_outboxVars(Drain(r)) /\ WF_outboxVars(SelectDeliveries(r))

OutboxFairSpec == OutboxSpec /\ OutboxFairness

-----------------------------------------------------------------------------
(* What the outbox promises.                                               *)

EventOf(m) == {d \in Deliveries : d[1] = m}

\* apps/docs/content/docs/cloud/webhooks.mdx: "FishMem queues a delivery after
\* a successful mutation".  A mutation that says success has a row for every
\* endpoint that was enabled all the time, whichever attempts died.
SuccessIsAnnounced ==
    \A m \in Mutations, e \in Endpoints \ toggled :
        /\ mutations[m].pc = "success" /\ mutationKind[m] # "test"
        /\ endpoints[e] = "enabled"
        => \E d \in EventOf(m) : d[2] = e /\ outbox[d].status # "none"

\* webhooks.mdx: "Replaying the same `Idempotency-Key` therefore cannot create
\* a second delivery row for the same endpoint", of inferred adds.
OneRowPerAdd ==
    \A m \in Mutations, e \in Endpoints : mutationKind[m] = "inferred" =>
        Cardinality({d \in EventOf(m) : d[2] = e /\ outbox[d].status # "none"}) <= 1

\* webhooks.mdx: "Any `2xx` response succeeds": a delivery that succeeded is
\* not sent again and not given up, until its endpoint is deleted.  Holds for
\* drains that end within their leases.
DeliveredIsFinal ==
    [][\A d \in Deliveries :
         promptDrains /\ outbox[d].status = "success" =>
            outbox'[d].status \in {"success", "none"}]_outboxVars

\* The recorded outcome is what happened.  A delivery that says success was
\* accepted by its receiver.  One that is given up, by drains that end within
\* their leases, was tried as often as promised since it was queued or replayed:
\* "After the fifth failure the delivery is marked `dead`", and not before.
OutcomeIsTrue ==
    \A d \in Deliveries :
        /\ outbox[d].status = "success" => d \in received
        /\ promptDrains /\ outbox[d].status = "dead" => tries[d] >= MaxDeliveries

\* webhooks.mdx: a delivery "is retried up to five total attempts".  A claim
\* counts as an attempt and the count is compared when its outcome is recorded, so
\* a claim may be one too many for every drain that died over one.  Of drains that
\* end within their leases, it is no more than that.
AttemptsAreBounded ==
    \A d \in Deliveries :
        promptDrains => outbox[d].attempts <= MaxDeliveries + incidents

\* Every queued delivery is delivered or given up, unless its endpoint was
\* deleted, or it is a test whose request died.
DeliveriesSettle ==
    \A d \in Deliveries :
        <>[](\/ outbox[d].status \in {"none", "success", "dead", "failed"}
             \/ ~Leased(d))
=============================================================================
