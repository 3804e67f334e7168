-------------------------- MODULE BeliefReconciler --------------------------
(***************************************************************************)
(* The view of BeliefReconciler                                            *)
(* (packages/fishmem/src/core/belief-reconciler.ts): what the evidence     *)
(* rows of one slot, a subject and an attribute of one owner, say about    *)
(* its value.  Rows that apply to the same context form a cluster, the     *)
(* rows of a cluster that claim the same value a candidate; a candidate is *)
(* supported if enough independent keys, from enough contexts, with enough *)
(* weight stand behind it.                                                 *)
(*                                                                         *)
(* A row is a record                                                       *)
(*   [source, applicability, key, value, context, weight,                  *)
(*    observedAt, validFrom, validTo].                                     *)
(* An applicability is its kind and key; its window is part of the row's   *)
(* validity.  Weights are integers (tenths, in the code fractions of 1).   *)
(* Left out: reason codes, the audit detail and the normalisation of text. *)
(***************************************************************************)
EXTENDS Integers, FiniteSets, FiniteSetsExt

CONSTANTS
    MinimumEvidence,    \* the policy; the support is SupportOf[1]/SupportOf[2]
    MinimumContexts,
    SupportOf,
    MinimumLead,
    Global,             \* the applicability that fits everywhere
    NoWinner

ASSUME PolicyAssumption ==
    /\ MinimumEvidence \in Nat \ {0}
    /\ MinimumContexts \in Nat \ {0}
    /\ SupportOf \in (Nat \ {0}) \X (Nat \ {0})
    /\ SupportOf[1] <= SupportOf[2]
    /\ MinimumLead \in Nat

EvidenceActiveAt(r, t) == r.validFrom <= t /\ t < r.validTo

Claims(rows, t, k) == {r.value : r \in {q \in rows : q.key = k /\ EvidenceActiveAt(q, t)}}

\* Fault: a key is never in conflict with itself.
NoConflictingKeys(rows, t) == {}

\* The keys that claim two values at t.
ConflictingEvidenceKeys(rows, t) ==
    {k \in {r.key : r \in rows} : Cardinality(Claims(rows, t, k)) > 1}

\* The rows of a cluster that count at t.
Counted(rows, t) ==
    {r \in rows : EvidenceActiveAt(r, t)
                    /\ r.key \notin ConflictingEvidenceKeys(rows, t)}

\* Fault: every echo counts.
EachRow(counted) == {{r} : r \in counted}

\* Echoes of one key are one piece of evidence.
Independent(counted) ==
    {{r \in counted : r.key = k} : k \in {r.key : r \in counted}}

\* The weight of a piece is that of its heaviest echo, its context that of
\* the first one.
Weight(echoes) == Max({r.weight : r \in echoes})

FirstContext(echoes) ==
    (CHOOSE r \in echoes : \A q \in echoes : r.observedAt <= q.observedAt).context

-----------------------------------------------------------------------------

\* candidateFromEvidence: the candidate for value v in a cluster.
Candidate(cluster, t, v) ==
    LET rows == {r \in cluster : r.value = v}
        evidence == Independent({r \in Counted(cluster, t) : r.value = v}) IN
    [ value           |-> v,
      score           |-> MapThenSumSet(Weight, evidence),
      evidenceCount   |-> Cardinality(evidence),
      contextCount    |-> Cardinality({FirstContext(e) : e \in evidence}),
      firstObservedAt |-> Min({r.observedAt : r \in rows}) ]

Candidates(cluster, t) ==
    {Candidate(cluster, t, v) : v \in {r.value : r \in cluster}}

ActiveCandidates(cluster, t) ==
    {c \in Candidates(cluster, t) : c.evidenceCount > 0}

\* compareCandidates; what is equal in all three is ordered by a hash.
Precedes(c, d) ==
    \/ c.score > d.score
    \/ c.score = d.score /\ c.evidenceCount > d.evidenceCount
    \/ /\ c.score = d.score
       /\ c.evidenceCount = d.evidenceCount
       /\ c.firstObservedAt <= d.firstObservedAt

Best(candidates) ==
    CHOOSE c \in candidates : \A d \in candidates : Precedes(c, d)

\* The policy, for the leader of a cluster's active candidates.
MeetsPolicy(leader, active) ==
    LET total == MapThenSumSet(LAMBDA c : c.score, active)
        rivals == {c.score : c \in active \ {leader}} IN
    /\ leader.evidenceCount >= MinimumEvidence
    /\ leader.contextCount >= MinimumContexts
    /\ leader.score * SupportOf[2] >= SupportOf[1] * total
    /\ leader.score - Max(rivals \cup {0}) >= MinimumLead

\* evaluateCluster: the supported candidate, if there is one.
ClusterWinner(cluster, t) ==
    LET active == ActiveCandidates(cluster, t) IN
    IF active # {} /\ MeetsPolicy(Best(active), active)
    THEN Best(active) ELSE NoWinner

-----------------------------------------------------------------------------

Cluster(rows, a) == {r \in rows : r.applicability = a}

\* view: the winner for a requested applicability.  An active candidate of
\* the requested context keeps the global winner out.
ViewWinner(rows, requested, t) ==
    LET contextual == Cluster(rows, requested) IN
    IF requested = Global \/ ClusterWinner(contextual, t) # NoWinner
       \/ ActiveCandidates(contextual, t) # {}
    THEN ClusterWinner(contextual, t)
    ELSE ClusterWinner(Cluster(rows, Global), t)

\* Is the winner the one of the global cluster, for want of a contextual one?
FallsBack(rows, requested, t) ==
    /\ requested # Global
    /\ ClusterWinner(Cluster(rows, requested), t) = NoWinner
    /\ ViewWinner(rows, requested, t) # NoWinner
=============================================================================
