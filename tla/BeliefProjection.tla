-------------------------- MODULE BeliefProjection --------------------------
(***************************************************************************)
(* How the evidence behind beliefs follows the records it is about         *)
(* (packages/fishmem/src/memory.ts and core/belief-reconciler.ts).  An add *)
(* freezes a hint on each record it infers and projects the hints into     *)
(* evidence rows after that; a rebuild clears the rows and projects all    *)
(* hints again; a mutation changes the record first and cleans up its row  *)
(* second.  Rows and records share no transaction and no lock.             *)
(*                                                                         *)
(* One owner, one subject and attribute; every record is a preference, is  *)
(* inferred by one add, and has one row at most, since a row's id is a     *)
(* hash of its cluster and its source.  A mutation reads and writes the    *)
(* record in one step (RecordMutations has the two).  The projection of an *)
(* add is inline; a deferred one takes the same steps and its operation    *)
(* stays pending.  Left out: the kill switch and the allowlist, the        *)
(* structural sidecar, the purge of a namespace, and markProjectionReady.  *)
(***************************************************************************)
EXTENDS BeliefReconciler, Sequences, SequencesExt

CONSTANTS
    Sources,    \* the records, by their ids
    Adds,       \* calls of Memory.add
    BatchOf,    \* the records each add infers, in order
    HintSets,   \* the hints that the extraction may freeze on the records
    Rebuilds,   \* calls of rebuildBeliefs
    Mutations,  \* calls of update, delete, purge and invalidate
    Mutable,    \* bound: the records they are made on, for each of HintSets
    Undated,    \* a fact without a date of its own
    MaxTime,    \* bound: the times at which anything is created or ends
    MaxFaults   \* bound: failures and crashes in a behaviour

Times == 0 .. MaxTime
Never == MaxTime + 1
Absent == -1

\* An add that infers nothing projects nothing, and is none of Adds; weights are
\* not negative (observe refuses those).
ASSUME ProjectionAssumption ==
    /\ MaxTime \in Nat
    /\ MaxFaults \in Nat
    /\ IsFiniteSet(Sources)
    /\ Adds \cap Rebuilds = {}
    /\ BatchOf \in [Adds -> Seq(Sources) \ {<< >>}]
    /\ Mutable \in [HintSets -> SUBSET Sources]
    /\ \A a, b \in Adds : a # b => ToSet(BatchOf[a]) \cap ToSet(BatchOf[b]) = {}
    /\ \A hints \in HintSets : \A s \in Sources :
         /\ DOMAIN hints[s] = {"applicability", "key", "value", "context",
                               "weight", "eventDate"}
         /\ hints[s].weight \in Nat

Projectors == Adds \cup Rebuilds

VARIABLES
    now,        \* the time of the last add
    hints,      \* the hint of each record: what an extraction makes of it
    memories,   \* the records
    evidence,   \* the row of each record: its validTo, or Absent
    projectors, \* adds and rebuilds: where they are, the records still to do
    mutations,  \* mutations: where they are, what they do
    faults      \* failures and crashes so far

vars == <<now, hints, memories, evidence, projectors, mutations, faults>>

NoRecord == [status |-> "none", hint |-> FALSE, createdAt |-> 0, validTo |-> Never]

Projecting == {"list", "read", "observe", "put", "recheck", "remove",
               "invalidate", "wipe"}

TypeOK ==
    /\ now \in Times
    /\ faults \in 0 .. MaxFaults
    /\ hints \in HintSets
    /\ memories \in [Sources -> [status : {"none", "live", "forgotten", "purged"},
                                 hint : BOOLEAN, createdAt : Times,
                                 validTo : Times \cup {Never}]]
    /\ evidence \in [Sources -> Times \cup {Never, Absent}]
    /\ \A p \in Projectors :
         /\ projectors[p].pc \in {"idle", "done", "failed", "crashed"} \cup Projecting
         /\ projectors[p].seen \in Times \cup {Never}
         /\ projectors[p].pc \in Projecting \ {"list", "wipe"}
              => projectors[p].todo # << >>
    /\ mutations \in [Mutations -> [pc : {"idle", "clean", "done", "pending", "crashed"},
                                    kind : {"update", "delete", "purge", "invalidate"},
                                    source : Sources \cup {Absent},
                                    validTo : Times \cup {Never}]]

Init ==
    /\ now = 0
    /\ hints \in HintSets
    /\ memories = [s \in Sources |-> NoRecord]
    /\ evidence = [s \in Sources |-> Absent]
    /\ projectors = [p \in Projectors |->
                       [pc |-> "idle", todo |-> << >>, seen |-> Never]]
    /\ faults = 0
    /\ mutations = [m \in Mutations |-> [pc |-> "idle", kind |-> "update",
                                         source |-> Absent, validTo |-> Never]]

\* The record carries a belief hint; a tombstone keeps its own.
Hinted(s) == memories[s].status \in {"live", "forgotten"} /\ memories[s].hint

ValidFrom(s) ==
    IF hints[s].eventDate = Undated THEN memories[s].createdAt
    ELSE hints[s].eventDate

\* The evidence row of s, if it ends at validTo.
Row(s, validTo) ==
    [ source        |-> s,
      applicability |-> hints[s].applicability,
      key           |-> hints[s].key,
      value         |-> hints[s].value,
      context       |-> hints[s].context,
      weight        |-> hints[s].weight,
      observedAt    |-> memories[s].createdAt,
      validFrom     |-> ValidFrom(s),
      validTo       |-> validTo ]

ListSlot == {Row(s, evidence[s]) : s \in {r \in Sources : evidence[r] # Absent}}

-----------------------------------------------------------------------------
(* projectBeliefSources, for an add and for a rebuild.                     *)

At(p, pc) == projectors[p].pc = pc
Subject(p) == Head(projectors[p].todo)
Goto(p, pc) == projectors' = [projectors EXCEPT ![p].pc = pc]
Leave(p, pc) ==
    projectors' = [projectors EXCEPT ![p] = [pc |-> pc, todo |-> << >>, seen |-> Never]]

\* Fault: there is always a next source.
AdvanceBlindly(p) ==
    projectors' = [projectors EXCEPT ![p] =
        [pc |-> "read", todo |-> Tail(projectors[p].todo), seen |-> Never]]

\* On to the next source, or back to the caller.
Advance(p) ==
    LET rest == Tail(projectors[p].todo) IN
    projectors' = [projectors EXCEPT ![p] =
        [pc |-> IF rest = << >> THEN "done" ELSE "read", todo |-> rest, seen |-> Never]]

\* An exception: an add keeps its records and reports the projection as
\* pending; a rebuild clears what it has done.
Throw(p) == Leave(p, IF p \in Adds THEN "failed" ELSE "wipe")

\* createRecord of every record of the plan, under the time of the operation.
SaveRecords(a) ==
    /\ At(a, "idle")
    /\ now' \in now .. MaxTime
    /\ memories' = [s \in Sources |->
         IF s \in ToSet(BatchOf[a])
         THEN [status |-> "live", hint |-> TRUE, createdAt |-> now', validTo |-> Never]
         ELSE memories[s]]
    /\ projectors' = [projectors EXCEPT ![a].pc = "read", ![a].todo = BatchOf[a]]
    /\ UNCHANGED <<hints, evidence, mutations, faults>>

\* The retry of an add that died.  createRecord refuses a record that was
\* updated, does not look at tombstones and validity, and creates what was
\* purged once more, as it was planned.
RetryAdd(a) ==
    LET purged == {s \in ToSet(BatchOf[a]) : memories[s].status = "purged"} IN
    /\ At(a, "crashed")
    /\ \A s \in ToSet(BatchOf[a]) \ purged : memories[s].hint
    /\ memories' = [s \in Sources |->
         IF s \in purged
         THEN [memories[s] EXCEPT !.status = "live", !.hint = TRUE, !.validTo = Never]
         ELSE memories[s]]
    /\ projectors' = [projectors EXCEPT ![a].pc = "read", ![a].todo = BatchOf[a]]
    /\ UNCHANGED <<now, hints, evidence, mutations, faults>>

\* rebuildBeliefs begins with an empty slot.
ClearEvidence(p) ==
    /\ p \in Rebuilds
    /\ At(p, "idle")
    /\ evidence' = [s \in Sources |-> Absent]
    /\ Goto(p, "list")
    /\ UNCHANGED <<now, hints, memories, mutations, faults>>

\* Fault: records that are no longer valid are not listed.
CurrentSources ==
    {s \in Sources : memories[s].status = "live" /\ memories[s].hint
                        /\ memories[s].validTo = Never}

\* listMemories shows no tombstones; a record without a hint is passed over.
HintedSources == {s \in Sources : memories[s].status = "live" /\ memories[s].hint}

\* Oldest first; what is as old is ordered by id.
InOrder(todo) ==
    \A i, j \in DOMAIN todo : i < j =>
        memories[todo[i]].createdAt <= memories[todo[j]].createdAt

ListRecords(p) ==
    /\ At(p, "list")
    /\ \E todo \in SetToSeqs(HintedSources) :
         /\ InOrder(todo)
         /\ projectors' = [projectors EXCEPT
                ![p] = [pc |-> IF todo = << >> THEN "done" ELSE "read",
                        todo |-> todo, seen |-> Never]]
    /\ UNCHANGED <<now, hints, memories, evidence, mutations, faults>>

\* The record as the projection will describe it; no hint, no evidence.
ReadSource(p) ==
    LET s == Subject(p) IN
    /\ At(p, "read")
    /\ IF Hinted(s)
       THEN projectors' = [projectors EXCEPT ![p].pc = "observe",
                                             ![p].seen = memories[s].validTo]
       ELSE Advance(p)
    /\ UNCHANGED <<now, hints, memories, evidence, mutations, faults>>

\* Another row of the cluster claims another value under the same key.
ConflictingEcho(s) ==
    \E r \in Cluster(ListSlot, hints[s].applicability) :
        /\ r.key = hints[s].key
        /\ r.value # hints[s].value
        /\ EvidenceActiveAt(r, memories[s].createdAt)

\* observe: refuses an empty validity and a conflicting echo.
Observe(p) ==
    LET s == Subject(p) IN
    /\ At(p, "observe")
    /\ IF projectors[p].seen <= ValidFrom(s) \/ ConflictingEcho(s)
       THEN Throw(p) ELSE Goto(p, "put")
    /\ UNCHANGED <<now, hints, memories, evidence, mutations, faults>>

Projected(p) == [evidence EXCEPT ![Subject(p)] = projectors[p].seen]

PutEvidence(p) ==
    /\ At(p, "put")
    /\ evidence' = Projected(p)
    /\ projectors' = [projectors EXCEPT ![p].pc = "recheck", ![p].seen = Never]
    /\ UNCHANGED <<now, hints, memories, mutations, faults>>

\* Fault: the record is as it was.
CurrentAnyway(s) == TRUE

\* Does the record still carry the hint, and is it no tombstone?
StillCurrent(s) == Hinted(s) /\ memories[s].status # "forgotten"

\* The record is looked at again.
Recheck(p) ==
    LET s == Subject(p) IN
    /\ At(p, "recheck")
    /\ \/ /\ ~StillCurrent(s)
          /\ Goto(p, "remove")
       \/ /\ StillCurrent(s) /\ memories[s].validTo # Never
          /\ projectors' = [projectors EXCEPT ![p].pc = "invalidate",
                                              ![p].seen = memories[s].validTo]
       \/ /\ StillCurrent(s) /\ memories[s].validTo = Never
          /\ Advance(p)
    /\ UNCHANGED <<now, hints, memories, evidence, mutations, faults>>

\* invalidateSource: only ever to an earlier end.
Shortened(s, validTo) ==
    IF evidence[s] = Absent THEN Absent ELSE Min({evidence[s], validTo})

\* The row as the second look at the record leaves it.
Corrected(p) ==
    [evidence EXCEPT ![Subject(p)] =
        IF At(p, "remove") THEN Absent
        ELSE Shortened(Subject(p), projectors[p].seen)]

CorrectEvidence(p) ==
    /\ \/ At(p, "remove")
       \/ At(p, "invalidate")
    /\ evidence' = Corrected(p)
    /\ Advance(p)
    /\ UNCHANGED <<now, hints, memories, mutations, faults>>

\* The catch block of rebuildBeliefs.
WipeEvidence(p) ==
    /\ At(p, "wipe")
    /\ evidence' = [s \in Sources |-> Absent]
    /\ Goto(p, "failed")
    /\ UNCHANGED <<now, hints, memories, mutations, faults>>

Fault == faults < MaxFaults /\ faults' = faults + 1

\* A store call of the projection throws, before or after its effect.
StepThrows(p) ==
    /\ Fault
    /\ projectors[p].pc \in Projecting \ {"list", "wipe"}
    /\ Throw(p)
    /\ \/ UNCHANGED evidence
       \/ At(p, "put") /\ evidence' = Projected(p)
       \/ /\ projectors[p].pc \in {"remove", "invalidate"}
          /\ evidence' = Corrected(p)
    /\ UNCHANGED <<now, hints, memories, mutations>>

\* The process dies; or a rebuild cannot list the records, or not clear the
\* slot in its catch block, which leaves the same.
Crash(p) ==
    /\ Fault
    /\ projectors[p].pc \in Projecting
    /\ Leave(p, "crashed")
    /\ UNCHANGED <<now, hints, memories, evidence, mutations>>

-----------------------------------------------------------------------------
(* Mutations: the record first, its evidence second.                       *)

\* What each kind makes of the record it finds.
Mutated(s, kind, validTo) ==
    CASE kind = "update"     -> [memories[s] EXCEPT !.hint = FALSE]
      [] kind = "delete"     -> [memories[s] EXCEPT !.status = "forgotten"]
      [] kind = "purge"      -> [memories[s] EXCEPT !.status = "purged"]
      [] kind = "invalidate" -> [memories[s] EXCEPT !.validTo = validTo]

MutateRecord(m, s, kind, validTo) ==
    /\ mutations[m].pc = "idle"
    /\ memories[s].status = "live" \/ (kind = "purge" /\ memories[s].status = "forgotten")
    /\ (validTo = Never) = (kind # "invalidate")
    /\ memories' = [memories EXCEPT ![s] = Mutated(s, kind, validTo)]
    /\ mutations' = [mutations EXCEPT ![m] =
         [pc |-> "clean", kind |-> kind, source |-> s, validTo |-> validTo]]
    /\ UNCHANGED <<now, hints, evidence, projectors, faults>>

\* removeBeliefEvidence or invalidateBeliefEvidence; an error is swallowed
\* and reported as a derived projection that is pending.
CleanEvidence(m) ==
    LET s == mutations[m].source
        Finish(pc) == mutations' = [mutations EXCEPT ![m].pc = pc] IN
    /\ mutations[m].pc = "clean"
    /\ \/ /\ evidence' = [evidence EXCEPT ![s] =
               IF mutations[m].kind = "invalidate"
               THEN Shortened(s, mutations[m].validTo) ELSE Absent]
          /\ Finish("done")
          /\ UNCHANGED faults
       \/ Finish("pending") /\ Fault /\ UNCHANGED evidence
       \/ Finish("crashed") /\ Fault /\ UNCHANGED evidence
    /\ UNCHANGED <<now, hints, memories, projectors>>

Next ==
    \/ \E a \in Adds : SaveRecords(a) \/ RetryAdd(a)
    \/ \E p \in Projectors :
         \/ ClearEvidence(p) \/ ListRecords(p)
         \/ ReadSource(p) \/ Observe(p) \/ PutEvidence(p) \/ Recheck(p)
         \/ CorrectEvidence(p) \/ WipeEvidence(p) \/ StepThrows(p) \/ Crash(p)
    \/ \E m \in Mutations :
         \/ \E s \in Mutable[hints], kind \in {"update", "delete", "purge", "invalidate"},
               validTo \in Times \cup {Never} : MutateRecord(m, s, kind, validTo)
         \/ CleanEvidence(m)

Spec == Init /\ [][Next]_vars

-----------------------------------------------------------------------------
(* Properties.                                                             *)

\* Nobody is between a change of s and what must follow it, or died or gave
\* up there.
Settled(s) ==
    /\ \A m \in Mutations :
         mutations[m].source = s => mutations[m].pc \in {"idle", "done"}
    /\ \A a \in Adds : s \in ToSet(BatchOf[a]) => At(a, "idle") \/ At(a, "done")
    /\ \A p \in Rebuilds :
         /\ projectors[p].pc \notin {"wipe", "crashed"}
         /\ projectors[p].pc \in {"recheck", "remove", "invalidate"} => Subject(p) # s

\* The record says what its hint says.
Stands(s) == memories[s].status = "live" /\ memories[s].hint

\* "Canonical mutation is authoritative": once a mutation has cleaned up, no
\* projection, late, repeated or part of a rebuild, brings back evidence of
\* what the record no longer says, or lets it outlive the record's validity.
CanonicalMutationWins ==
    \A s \in Sources : Settled(s) /\ evidence[s] # Absent =>
        Stands(s) /\ evidence[s] <= memories[s].validTo

\* An add that reported its projection ready has the evidence of each record
\* that stands, whatever was rebuilt since, unless a rebuild failed or is
\* under way.  (A purge may still clean up a record that a retry created again.)
NothingIsLost ==
    \A a \in Adds : At(a, "done") /\ (\A p \in Rebuilds : At(p, "idle") \/ At(p, "done"))
        => \A s \in ToSet(BatchOf[a]) : Stands(s) =>
             \/ evidence[s] # Absent
             \/ \E m \in Mutations : mutations[m].source = s /\ mutations[m].kind = "purge"

Applicabilities == {hints[s].applicability : s \in Sources}

\* The records that stand behind a value in a context at a time.
Supporters(a, v, t) ==
    {s \in Sources : /\ Stands(s)
                     /\ hints[s].applicability = a /\ hints[s].value = v
                     /\ ValidFrom(s) <= t /\ t < memories[s].validTo}

Disputed(a, v, t) ==
    {r.key : r \in {q \in Cluster(ListSlot, a) : q.value # v /\ EvidenceActiveAt(q, t)}}

\* A supported belief is backed by records: at least as many independent
\* keys and contexts as the policy asks for are those of records that hold
\* its value at that time, not counting a key that another value is claimed
\* under.  However the rows came to be there.
WinnerIsEarned ==
    (\A s \in Sources : Settled(s)) =>
        \A a \in Applicabilities, t \in Times :
            LET winner == ClusterWinner(Cluster(ListSlot, a), t)
                backing == {s \in Supporters(a, winner.value, t) :
                              hints[s].key \notin Disputed(a, winner.value, t)} IN
            winner # NoWinner =>
                /\ Cardinality({hints[s].key : s \in backing}) >= MinimumEvidence
                /\ Cardinality({hints[s].context : s \in backing}) >= MinimumContexts

\* "Conflicts remain visible; they do not [...] fall back to a global value
\* while contextual evidence is unresolved."
ConflictIsNotHidden ==
    \A a \in Applicabilities, t \in Times :
        FallsBack(ListSlot, a, t) =>
            \A r \in Cluster(ListSlot, a) : ~EvidenceActiveAt(r, t)
=============================================================================
