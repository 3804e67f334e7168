--------------------------- MODULE MCWebhookOutbox ---------------------------
(* Instances of WebhookOutbox for TLC.                                      *)
EXTENDS WebhookOutbox, TLC

CONSTANTS m1, e1, r1, r2

OneMutation == {m1}
OneEndpoint == {e1}
TwoDrains == {r1, r2}

\* The initial states.  Drains that outlive their leases meet mutations that are
\* in their last attempt, as they are after earlier ones died at once.
MCInit ==
    /\ promptDrains \in PromptDrains
    /\ LET emissions == IF promptDrains THEN 1 ELSE MaxEmissions
       IN  mutations = [m \in Mutations |->
             [pc |-> "start", emissions |-> emissions, targets |-> {}]]
    /\ mutationKind \in [Mutations -> MutationKinds]
    /\ endpoints = [e \in Endpoints |-> "enabled"]
    /\ outbox = [d \in Deliveries |-> NoDeliveryRow]
    /\ drains = [r \in Drains |-> IdleDrain]
    /\ freshRows = [r \in Drains |-> {}]
    /\ received = {}
    /\ tries = [d \in Deliveries |-> 0]
    /\ incidents = 0
    /\ toggled = {}

MCFairSpec == MCInit /\ [][OutboxNext]_outboxVars /\ OutboxFairness
=============================================================================
