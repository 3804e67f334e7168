---------------------- MODULE BeliefProjectionProofs ----------------------
(***************************************************************************)
(* Proofs about BeliefProjection, for any records, adds, rebuilds and      *)
(* mutations, any number of failures and any policy.                       *)
(***************************************************************************)
EXTENDS BeliefProjection, FiniteSetTheorems, TLAPS

AtWork == {"read", "observe", "put", "recheck", "remove", "invalidate"}

\* A projector looks twice at the row it has put.
PutAlready == {"recheck", "remove", "invalidate"}

\* A projector has something to do while it is at work, and an add does it for
\* its own records, which are created when it begins.
ProjectorsHold ==
    /\ projectors \in [Projectors -> [pc : {"idle", "done", "failed", "crashed"} \cup Projecting,
                                      todo : Seq(Sources), seen : Times \cup {Never}]]
    /\ \A p \in Projectors : projectors[p].pc \in AtWork <=> projectors[p].todo # << >>
    /\ \A a \in Adds :
         /\ projectors[a].pc \notin {"list", "wipe"}
         /\ ToSet(projectors[a].todo) \subseteq ToSet(BatchOf[a])
         /\ \A s \in ToSet(BatchOf[a]) : memories[s].status = "none" <=> At(a, "idle")

\* Only records that were created are projected, mutated or have a row.
RecordsKnown ==
    /\ \A p \in Projectors : \A s \in ToSet(projectors[p].todo) : memories[s].status # "none"
    /\ \A s \in Sources : evidence[s] # Absent => memories[s].status # "none"
    /\ \A m \in Mutations : mutations[m].pc # "idle" =>
         mutations[m].source \in Sources /\ memories[mutations[m].source].status # "none"

Owes(m, s) == mutations[m].source = s /\ mutations[m].pc \in {"clean", "pending", "crashed"}

\* A row that should not be there: a mutation has yet to remove it, a projector
\* to look again, or somebody died or gave up before.
WillRemove(s) ==
    \/ \E m \in Mutations : Owes(m, s) /\ mutations[m].kind # "invalidate"
    \/ \E p \in Projectors : projectors[p].pc \in {"recheck", "remove"} /\ Subject(p) = s
    \/ \E a \in Adds : s \in ToSet(BatchOf[a]) /\ projectors[a].pc \in {"failed", "crashed"}
    \/ \E p \in Rebuilds : projectors[p].pc \in {"wipe", "crashed"}

\* What a projector has not put yet.
Left(p) ==
    IF projectors[p].pc \in PutAlready THEN ToSet(Tail(projectors[p].todo))
    ELSE ToSet(projectors[p].todo)

\* An add that was tried again has not come to the record yet.
WillProject(s) == \E a \in Adds : s \in Left(a)

\* A row that ends too late: somebody has yet to shorten it.
WillShorten(s) ==
    \/ \E m \in Mutations : /\ Owes(m, s) /\ mutations[m].kind = "invalidate"
                            /\ mutations[m].validTo <= memories[s].validTo
    \/ \E p \in Projectors : /\ At(p, "invalidate") /\ Subject(p) = s
                             /\ projectors[p].seen <= memories[s].validTo

RowIsOwed(s) ==
    evidence[s] # Absent =>
        /\ ~Hinted(s) => WillRemove(s)
        /\ ~Stands(s) => WillRemove(s) \/ WillProject(s)
        /\ evidence[s] > memories[s].validTo =>
             WillRemove(s) \/ WillProject(s) \/ WillShorten(s)

RowsAreOwed == \A s \in Sources : RowIsOwed(s)

Purges(m, s) ==
    mutations[m].pc # "idle" /\ mutations[m].source = s /\ mutations[m].kind = "purge"

PurgeOf(s) == \E m \in Mutations : Purges(m, s)

\* What was updated or deleted does not stand again unless it was purged, and
\* created again by a retry.
GoneForGood ==
    /\ \A s \in Sources : memories[s].status = "purged" => PurgeOf(s)
    /\ \A m \in Mutations :
         mutations[m].pc # "idle" /\ mutations[m].kind \in {"update", "delete"} =>
           ~Stands(mutations[m].source) \/ PurgeOf(mutations[m].source)
    /\ \A p \in Projectors : At(p, "remove") => ~Stands(Subject(p)) \/ PurgeOf(Subject(p))

\* A rebuild puts the row again, or failed and says so.
WillRebuild(s) ==
    \E p \in Rebuilds : projectors[p].pc \in {"list", "wipe", "failed", "crashed"} \/ s \in Left(p)

IsKept(s) == Stands(s) => evidence[s] # Absent \/ PurgeOf(s) \/ WillRebuild(s)

RowsAreKept ==
    \A a \in Adds : projectors[a].pc \in AtWork \cup {"done"} =>
        \A s \in ToSet(BatchOf[a]) \ Left(a) : IsKept(s)

ProjectionInv ==
    /\ TypeOK /\ ProjectorsHold /\ RecordsKnown /\ RowsAreOwed /\ GoneForGood /\ RowsAreKept
-----------------------------------------------------------------------------
(* Sequences, sets and projectors.                                         *)

Locals == [pc : {"idle", "done", "failed", "crashed"} \cup Projecting,
           todo : Seq(Sources), seen : Times \cup {Never}]

\* The first of a sequence and the rest of it are all of it.
LEMMA HeadAndTail ==
    ASSUME NEW q \in Seq(Sources), q # << >>
    PROVE  /\ Head(q) \in Sources /\ Tail(q) \in Seq(Sources)
           /\ ToSet(q) = {Head(q)} \cup ToSet(Tail(q))
<1>1. Len(q) \in Nat /\ Len(q) >= 1 /\ DOMAIN q = 1..Len(q)
  OBVIOUS
<1>2. Head(q) = q[1] /\ Head(q) \in Sources /\ Tail(q) \in Seq(Sources)
  BY <1>1
<1>3. DOMAIN Tail(q) = 1..(Len(q) - 1) /\ \A i \in 1..(Len(q) - 1) : Tail(q)[i] = q[i + 1]
  BY <1>1
<1>4. ASSUME NEW x \in ToSet(q)
      PROVE  x \in {Head(q)} \cup ToSet(Tail(q))
  <2>1. PICK i \in 1..Len(q) : x = q[i]
    BY <1>1, <1>4 DEF ToSet
  <2>2. CASE i = 1
    BY <1>2, <2>1, <2>2
  <2>3. CASE i # 1
    <3>1. i - 1 \in 1..(Len(q) - 1) /\ Tail(q)[i - 1] = x
      BY <1>1, <1>3, <2>1, <2>3
    <3> QED
      BY <1>3, <3>1 DEF ToSet
  <2> QED
    BY <2>2, <2>3
<1>5. ASSUME NEW x \in {Head(q)} \cup ToSet(Tail(q))
      PROVE  x \in ToSet(q)
  <2>1. CASE x = Head(q)
    BY <1>1, <1>2, <2>1 DEF ToSet
  <2>2. CASE x \in ToSet(Tail(q))
    <3>1. PICK i \in 1..(Len(q) - 1) : x = q[i + 1]
      BY <1>3, <2>2 DEF ToSet
    <3>2. i + 1 \in 1..Len(q)
      BY <1>1, <3>1
    <3> QED
      BY <1>1, <3>1, <3>2 DEF ToSet
  <2> QED
    BY <1>5, <2>1, <2>2
<1> QED
  BY <1>2, <1>4, <1>5

\* What is in a sequence of records.
LEMMA ToSetParts ==
    /\ ToSet(<< >>) = {}
    /\ \A q \in Seq(Sources) : ToSet(q) \subseteq Sources
BY DEF ToSet

\* The earlier of two times.
LEMMA MinOfTwo ==
    ASSUME NEW i \in Int, NEW j \in Int
    PROVE  Min({i, j}) \in {i, j} /\ Min({i, j}) <= i /\ Min({i, j}) <= j
<1>1. \E x \in {i, j} : \A y \in {i, j} : x <= y
  OBVIOUS
<1> QED
  BY <1>1 DEF Min

\* Only this projector moves.
OnlyProjector(p) ==
    /\ \A q \in Projectors : q # p => projectors'[q] = projectors[q]
    /\ projectors' \in [Projectors -> Locals]

\* The projectors, by their types.
LEMMA ProjectorTypes ==
    ASSUME ProjectorsHold
    PROVE  projectors \in [Projectors -> Locals]
BY DEF ProjectorsHold, Locals

\* A projector goes to a step, with the records it has.
LEMMA GotoEffect ==
    ASSUME ProjectorsHold, NEW p \in Projectors, NEW pc \in {"failed"} \cup Projecting, Goto(p, pc)
    PROVE  /\ OnlyProjector(p) /\ projectors'[p].pc = pc
           /\ projectors'[p].todo = projectors[p].todo
           /\ projectors'[p].seen = projectors[p].seen
<1>1. projectors \in [Projectors -> Locals] /\ projectors[p] \in Locals
  BY ProjectorTypes
<1> DEFINE new == [projectors[p] EXCEPT !.pc = pc]
<1>2. /\ new \in Locals /\ new.pc = pc /\ new.todo = projectors[p].todo
      /\ new.seen = projectors[p].seen
  BY <1>1 DEF Locals
<1>3. projectors' = [projectors EXCEPT ![p] = new]
  BY DEF Goto
<1> HIDE DEF new
<1> QED
  BY <1>1, <1>2, <1>3 DEF OnlyProjector

\* A projector goes to a step with the end of validity it saw.
LEMMA SeesEffect ==
    ASSUME ProjectorsHold, NEW p \in Projectors, NEW pc \in Projecting,
           NEW v \in Times \cup {Never},
           projectors' = [projectors EXCEPT ![p].pc = pc, ![p].seen = v]
    PROVE  /\ OnlyProjector(p) /\ projectors'[p].pc = pc
           /\ projectors'[p].todo = projectors[p].todo /\ projectors'[p].seen = v
<1>1. projectors \in [Projectors -> Locals] /\ projectors[p] \in Locals
  BY ProjectorTypes
<1> DEFINE new == [projectors[p] EXCEPT !.pc = pc, !.seen = v]
<1>2. new \in Locals /\ new.pc = pc /\ new.todo = projectors[p].todo /\ new.seen = v
  BY <1>1 DEF Locals
<1>3. projectors' = [projectors EXCEPT ![p] = new]
  BY <1>1 DEF Locals
<1> HIDE DEF new
<1> QED
  BY <1>1, <1>2, <1>3 DEF OnlyProjector

\* An add takes the records it has planned.
LEMMA TakesEffect ==
    ASSUME ProjectorsHold, NEW a \in Adds,
           projectors' = [projectors EXCEPT ![a].pc = "read", ![a].todo = BatchOf[a]]
    PROVE  /\ OnlyProjector(a) /\ projectors'[a].pc = "read"
           /\ projectors'[a].todo = BatchOf[a]
<1>1. a \in Projectors /\ projectors \in [Projectors -> Locals] /\ projectors[a] \in Locals
  BY ProjectorTypes DEF Projectors
<1>2. BatchOf[a] \in Seq(Sources)
  BY ProjectionAssumption
<1> DEFINE new == [projectors[a] EXCEPT !.pc = "read", !.todo = BatchOf[a]]
<1>3. new \in Locals /\ new.pc = "read" /\ new.todo = BatchOf[a]
  BY <1>1, <1>2 DEF Locals, Projecting
<1>4. projectors' = [projectors EXCEPT ![a] = new]
  BY <1>1 DEF Locals
<1> HIDE DEF new
<1> QED
  BY <1>1, <1>3, <1>4 DEF OnlyProjector

\* A projector stops.
LEMMA LeaveEffect ==
    ASSUME ProjectorsHold, NEW p \in Projectors,
           NEW pc \in {"failed", "crashed", "wipe"}, Leave(p, pc)
    PROVE  OnlyProjector(p) /\ projectors'[p].pc = pc /\ projectors'[p].todo = << >>
<1>1. projectors \in [Projectors -> Locals]
  BY ProjectorTypes
<1> DEFINE new == [pc |-> pc, todo |-> << >>, seen |-> Never]
<1>2. << >> \in Seq(Sources)
  OBVIOUS
<1>3. new \in Locals /\ new.pc = pc /\ new.todo = << >>
  BY <1>2 DEF Locals, Projecting
<1>4. projectors' = [projectors EXCEPT ![p] = new]
  BY DEF Leave
<1> HIDE DEF new
<1> QED
  BY <1>1, <1>3, <1>4 DEF OnlyProjector

\* On to the next record, or done.
LEMMA AdvanceEffect ==
    ASSUME ProjectorsHold, NEW p \in Projectors, projectors[p].todo # << >>, Advance(p)
    PROVE  /\ OnlyProjector(p) /\ projectors'[p].todo = Tail(projectors[p].todo)
           /\ \/ projectors'[p].pc = "done" /\ projectors'[p].todo = << >>
              \/ projectors'[p].pc = "read" /\ projectors'[p].todo # << >>
<1>1. projectors \in [Projectors -> Locals] /\ projectors[p] \in Locals
  BY ProjectorTypes
<1> DEFINE rest == Tail(projectors[p].todo)
           new == [pc |-> IF rest = << >> THEN "done" ELSE "read", todo |-> rest, seen |-> Never]
<1>2. rest \in Seq(Sources)
  BY <1>1, HeadAndTail DEF Locals
<1>3. projectors' = [projectors EXCEPT ![p] = new]
  BY DEF Advance
<1> HIDE DEF rest
<1>4. new \in Locals /\ new.todo = rest /\ new.pc = IF rest = << >> THEN "done" ELSE "read"
  BY <1>2 DEF Locals, Projecting
<1> HIDE DEF new
<1>5. OnlyProjector(p) /\ projectors'[p] = new
  BY <1>1, <1>3, <1>4 DEF OnlyProjector
<1> QED
  BY <1>4, <1>5 DEF rest
-----------------------------------------------------------------------------
(* What each action does.                                                  *)

Records == [status : {"none", "live", "forgotten", "purged"}, hint : BOOLEAN,
            createdAt : Times, validTo : Times \cup {Never}]

Ends == Times \cup {Never}

MutationLocals == [pc : {"idle", "clean", "done", "pending", "crashed"},
                   kind : {"update", "delete", "purge", "invalidate"},
                   source : Sources \cup {Absent}, validTo : Ends]

\* The types of all but the projectors.
RestTypes ==
    /\ now \in Times /\ faults \in 0 .. MaxFaults /\ hints \in HintSets
    /\ memories \in [Sources -> Records] /\ evidence \in [Sources -> Ends \cup {Absent}]
    /\ mutations \in [Mutations -> MutationLocals]

\* The types, with those of the projectors apart.
LEMMA TypeParts ==
    ASSUME ProjectorsHold
    PROVE  TypeOK <=> RestTypes
<1>1. \A p \in Projectors :
        /\ projectors[p].pc \in {"idle", "done", "failed", "crashed"} \cup Projecting
        /\ projectors[p].seen \in Times \cup {Never}
        /\ projectors[p].pc \in Projecting \ {"list", "wipe"} => projectors[p].todo # << >>
  <2>1. Projecting \ {"list", "wipe"} = AtWork
    BY DEF Projecting, AtWork
  <2> QED
    BY <2>1 DEF ProjectorsHold
<1> QED
  BY <1>1 DEF TypeOK, RestTypes, Records, Ends, MutationLocals

\* Nothing but the projectors and the rows changes.
RecordsStay == UNCHANGED <<now, hints, memories, mutations>>

\* Only this row changes, or this record, or this mutation.
OnlyRow(s, end) ==
    /\ evidence' \in [Sources -> Ends \cup {Absent}] /\ evidence'[s] = end
    /\ \A t \in Sources : t # s => evidence'[t] = evidence[t]

OnlyRecord(s) ==
    /\ memories' \in [Sources -> Records]
    /\ \A t \in Sources : t # s => memories'[t] = memories[t]

OnlyMutation(m) ==
    /\ mutations' \in [Mutations -> MutationLocals]
    /\ \A n \in Mutations : n # m => mutations'[n] = mutations[n]

\* A projector that is at work has a record it is at.
LEMMA SubjectParts ==
    ASSUME ProjectorsHold, NEW p \in Projectors, projectors[p].pc \in AtWork
    PROVE  /\ projectors[p].todo # << >> /\ projectors[p].todo \in Seq(Sources)
           /\ Subject(p) \in Sources /\ Subject(p) \in ToSet(projectors[p].todo)
           /\ ToSet(projectors[p].todo) =
                {Subject(p)} \cup ToSet(Tail(projectors[p].todo))
<1>1. projectors[p].todo # << >> /\ projectors[p].todo \in Seq(Sources)
  BY DEF ProjectorsHold
<1> QED
  BY <1>1, HeadAndTail DEF Subject

\* How two ends compare.
LEMMA EndsCompare ==
    /\ \A x \in Ends : x \in Int /\ x # Absent /\ x <= Never
    /\ \A x, y \in Ends : x > y <=> ~(x <= y)
    /\ \A x, y, z \in Ends : x <= y /\ y <= z => x <= z
<1>1. \A x \in Ends : x \in Int /\ x # Absent /\ x <= Never
  BY ProjectionAssumption DEF Ends, Times, Never, Absent
<1> QED
  BY <1>1

\* The end of a row that is shortened.
LEMMA ShortenedEffect ==
    ASSUME RestTypes, NEW s \in Sources, NEW v \in Ends
    PROVE  /\ Shortened(s, v) \in Ends \cup {Absent}
           /\ Shortened(s, v) = Absent <=> evidence[s] = Absent
           /\ Shortened(s, v) # Absent =>
                Shortened(s, v) <= v /\ Shortened(s, v) <= evidence[s]
<1>1. /\ evidence[s] \in Ends \cup {Absent} /\ Ends \subseteq Int
      /\ \A e \in Ends : e # Absent
  BY ProjectionAssumption DEF RestTypes, Ends, Times, Never, Absent
<1>2. CASE evidence[s] = Absent
  BY <1>2 DEF Shortened
<1>3. CASE evidence[s] # Absent
  <2>1. /\ Min({evidence[s], v}) \in {evidence[s], v}
        /\ Min({evidence[s], v}) <= evidence[s] /\ Min({evidence[s], v}) <= v
    BY <1>1, <1>3, MinOfTwo
  <2> QED
    BY <1>1, <1>3, <2>1 DEF Shortened
<1> QED
  BY <1>2, <1>3

\* An add creates its records.
LEMMA SaveRecordsEffect ==
    ASSUME RestTypes, ProjectorsHold, NEW a \in Adds, SaveRecords(a)
    PROVE  /\ OnlyProjector(a) /\ At(a, "idle") /\ projectors'[a].pc = "read"
           /\ projectors'[a].todo = BatchOf[a]
           /\ memories' \in [Sources -> Records] /\ now' \in Times
           /\ \A s \in Sources : IF s \in ToSet(BatchOf[a])
                THEN /\ memories'[s].status = "live" /\ memories'[s].hint
                     /\ memories'[s].validTo = Never
                ELSE memories'[s] = memories[s]
           /\ UNCHANGED <<hints, evidence, mutations, faults>>
<1>1. OnlyProjector(a) /\ projectors'[a].pc = "read" /\ projectors'[a].todo = BatchOf[a]
  BY TakesEffect DEF SaveRecords
<1>2. now' \in Times
  BY ProjectionAssumption DEF SaveRecords, RestTypes, Times
<1> DEFINE new == [status |-> "live", hint |-> TRUE, createdAt |-> now', validTo |-> Never]
<1>3. new \in Records /\ new.status = "live" /\ new.hint /\ new.validTo = Never
  BY <1>2 DEF Records
<1>4. memories' = [s \in Sources |-> IF s \in ToSet(BatchOf[a]) THEN new ELSE memories[s]]
  BY DEF SaveRecords
<1> HIDE DEF new
<1>5. memories \in [Sources -> Records]
  BY DEF RestTypes
<1> QED
  BY <1>1, <1>2, <1>3, <1>4, <1>5 DEF SaveRecords

\* An add that died creates again what was purged.
LEMMA RetryAddEffect ==
    ASSUME RestTypes, ProjectorsHold, NEW a \in Adds, RetryAdd(a)
    PROVE  /\ OnlyProjector(a) /\ At(a, "crashed") /\ projectors'[a].pc = "read"
           /\ projectors'[a].todo = BatchOf[a]
           /\ memories' \in [Sources -> Records]
           /\ \A s \in Sources :
                IF s \in ToSet(BatchOf[a]) /\ memories[s].status = "purged"
                THEN /\ memories'[s].status = "live" /\ memories'[s].hint
                     /\ memories'[s].validTo = Never
                ELSE memories'[s] = memories[s]
           /\ \A s \in ToSet(BatchOf[a]) : memories[s].status # "purged" => memories[s].hint
           /\ UNCHANGED <<now, hints, evidence, mutations, faults>>
<1>1. OnlyProjector(a) /\ projectors'[a].pc = "read" /\ projectors'[a].todo = BatchOf[a]
  BY TakesEffect DEF RetryAdd
<1> DEFINE purged == {s \in ToSet(BatchOf[a]) : memories[s].status = "purged"}
           again(s) == [memories[s] EXCEPT !.status = "live", !.hint = TRUE, !.validTo = Never]
<1>2. memories \in [Sources -> Records]
  BY DEF RestTypes
<1>3. \A s \in Sources : /\ again(s) \in Records /\ again(s).status = "live" /\ again(s).hint
                         /\ again(s).validTo = Never
  BY <1>2 DEF Records, Ends
<1>4. memories' = [s \in Sources |-> IF s \in purged THEN again(s) ELSE memories[s]]
  BY DEF RetryAdd
<1>5. \A s \in ToSet(BatchOf[a]) : memories[s].status # "purged" => memories[s].hint
  BY DEF RetryAdd
<1> HIDE DEF again
<1> QED
  BY <1>1, <1>2, <1>3, <1>4, <1>5 DEF RetryAdd

\* A rebuild empties the slot.
LEMMA ClearEvidenceEffect ==
    ASSUME ProjectorsHold, NEW p \in Projectors, ClearEvidence(p)
    PROVE  /\ OnlyProjector(p) /\ p \in Rebuilds /\ At(p, "idle") /\ projectors'[p].pc = "list"
           /\ projectors'[p].todo = projectors[p].todo
           /\ evidence' = [s \in Sources |-> Absent]
           /\ RecordsStay /\ faults' = faults
BY GotoEffect DEF ClearEvidence, RecordsStay, Projecting

\* A rebuild that failed empties it again.
LEMMA WipeEvidenceEffect ==
    ASSUME ProjectorsHold, NEW p \in Projectors, WipeEvidence(p)
    PROVE  /\ OnlyProjector(p) /\ At(p, "wipe") /\ projectors'[p].pc = "failed"
           /\ projectors'[p].todo = projectors[p].todo
           /\ evidence' = [s \in Sources |-> Absent]
           /\ RecordsStay /\ faults' = faults
BY GotoEffect DEF WipeEvidence, RecordsStay

\* A sequence of a set as long as the set has all of it.
LEMMA AllListed ==
    ASSUME NEW S, IsFiniteSet(S), NEW q \in SetToSeqs(S)
    PROVE  q \in Seq(S) /\ ToSet(q) = S
<1> DEFINE n == Cardinality(S)
<1>1. n \in Nat /\ IsFiniteSet(1..n) /\ Cardinality(1..n) = n
  BY FS_CardinalityType, FS_Interval
<1>2. q \in [1..n -> S] /\ \A i, j \in 1..n : i # j => q[i] # q[j]
  BY DEF SetToSeqs
<1>3. q \in Injection(1..n, S)
  BY <1>2 DEF Injection, IsInjective
<1>4. q \in Surjection(1..n, S)
  BY <1>1, <1>3, FS_Injection
<1>5. \A x \in S : \E i \in 1..n : q[i] = x
  BY <1>4 DEF Surjection
<1> HIDE DEF n
<1> QED
  BY <1>1, <1>2, <1>5 DEF ToSet

\* A rebuild takes the records that carry a hint.
LEMMA ListRecordsEffect ==
    ASSUME ProjectorsHold, NEW p \in Projectors, ListRecords(p)
    PROVE  /\ OnlyProjector(p) /\ At(p, "list")
           /\ ToSet(projectors'[p].todo) = HintedSources
           /\ \/ projectors'[p].pc = "done" /\ projectors'[p].todo = << >>
              \/ projectors'[p].pc = "read" /\ projectors'[p].todo # << >>
           /\ RecordsStay /\ UNCHANGED <<evidence, faults>>
<1>1. PICK todo \in SetToSeqs(HintedSources) :
        projectors' = [projectors EXCEPT
            ![p] = [pc |-> IF todo = << >> THEN "done" ELSE "read", todo |-> todo, seen |-> Never]]
  BY DEF ListRecords
<1>2. HintedSources \subseteq Sources /\ IsFiniteSet(HintedSources)
  BY ProjectionAssumption, FS_Subset DEF HintedSources
<1>3. todo \in Seq(Sources) /\ ToSet(todo) = HintedSources
  BY <1>2, AllListed
<1> DEFINE new == [pc |-> IF todo = << >> THEN "done" ELSE "read", todo |-> todo, seen |-> Never]
<1>4. new \in Locals /\ new.todo = todo /\ new.pc = IF todo = << >> THEN "done" ELSE "read"
  BY <1>3 DEF Locals, Projecting
<1>5. projectors \in [Projectors -> Locals]
  BY ProjectorTypes
<1> HIDE DEF new
<1>6. OnlyProjector(p) /\ projectors'[p] = new
  BY <1>1, <1>4, <1>5 DEF OnlyProjector, new
<1> QED
  BY <1>3, <1>4, <1>6 DEF ListRecords, RecordsStay

\* A projector is done with its record, or gives up.
Advanced(p) ==
    /\ projectors'[p].todo = Tail(projectors[p].todo)
    /\ \/ projectors'[p].pc = "done" /\ projectors'[p].todo = << >>
       \/ projectors'[p].pc = "read" /\ projectors'[p].todo # << >>

GaveUp(p) ==
    /\ projectors'[p].todo = << >>
    /\ projectors'[p].pc = IF p \in Adds THEN "failed" ELSE "wipe"

\* Or goes to the next step with it.
MovesTo(p, pc) == projectors'[p].pc = pc /\ projectors'[p].todo = projectors[p].todo

\* A projector reads a record.
LEMMA ReadSourceEffect ==
    ASSUME RestTypes, ProjectorsHold, NEW p \in Projectors, ReadSource(p)
    PROVE  /\ OnlyProjector(p) /\ At(p, "read") /\ RecordsStay /\ UNCHANGED <<evidence, faults>>
           /\ \/ Hinted(Subject(p)) /\ MovesTo(p, "observe")
              \/ ~Hinted(Subject(p)) /\ Advanced(p)
<1>1. At(p, "read") /\ RecordsStay /\ UNCHANGED <<evidence, faults>>
  BY DEF ReadSource, RecordsStay
<1>2. projectors[p].todo # << >> /\ Subject(p) \in Sources
  BY <1>1, SubjectParts DEF At, AtWork
<1>3. CASE Hinted(Subject(p))
  <2>1. memories[Subject(p)].validTo \in Times \cup {Never}
    BY <1>2 DEF RestTypes, Records
  <2>2. projectors' = [projectors EXCEPT ![p].pc = "observe",
                                         ![p].seen = memories[Subject(p)].validTo]
    BY <1>3 DEF ReadSource
  <2> QED
    BY <1>1, <1>3, <2>1, <2>2, SeesEffect DEF MovesTo, Projecting
<1>4. CASE ~Hinted(Subject(p))
  BY <1>1, <1>2, <1>4, AdvanceEffect DEF ReadSource, Advanced
<1> QED
  BY <1>3, <1>4

\* A projector gives up.
LEMMA ThrowEffect ==
    ASSUME ProjectorsHold, NEW p \in Projectors, Throw(p)
    PROVE  OnlyProjector(p) /\ GaveUp(p)
BY LeaveEffect DEF Throw, GaveUp

\* An observation is refused or made.
LEMMA ObserveEffect ==
    ASSUME ProjectorsHold, NEW p \in Projectors, Observe(p)
    PROVE  /\ OnlyProjector(p) /\ At(p, "observe") /\ RecordsStay
           /\ UNCHANGED <<evidence, faults>>
           /\ GaveUp(p) \/ MovesTo(p, "put")
<1>1. At(p, "observe") /\ RecordsStay /\ UNCHANGED <<evidence, faults>>
  BY DEF Observe, RecordsStay
<1>2. Throw(p) \/ Goto(p, "put")
  BY DEF Observe
<1> QED
  BY <1>1, <1>2, ThrowEffect, GotoEffect DEF MovesTo, Projecting

\* A row is put.
LEMMA PutEvidenceEffect ==
    ASSUME RestTypes, ProjectorsHold, NEW p \in Projectors, PutEvidence(p)
    PROVE  /\ OnlyProjector(p) /\ At(p, "put") /\ RecordsStay /\ faults' = faults
           /\ MovesTo(p, "recheck")
           /\ \E e \in Ends : e # Absent /\ OnlyRow(Subject(p), e)
<1>1. At(p, "put") /\ RecordsStay /\ faults' = faults /\ Never \in Times \cup {Never}
  BY DEF PutEvidence, RecordsStay
<1>2. Subject(p) \in Sources /\ projectors[p].seen \in Ends
  BY <1>1, SubjectParts, ProjectorTypes DEF At, AtWork, Locals, Ends
<1>3. projectors[p].seen # Absent
  BY <1>2, ProjectionAssumption DEF Ends, Times, Never, Absent
<1>4. OnlyRow(Subject(p), projectors[p].seen)
  BY <1>2 DEF PutEvidence, Projected, OnlyRow, RestTypes
<1>5. projectors' = [projectors EXCEPT ![p].pc = "recheck", ![p].seen = Never]
  BY DEF PutEvidence
<1> QED
  BY <1>1, <1>2, <1>3, <1>4, <1>5, SeesEffect DEF MovesTo, Projecting

\* The record is looked at once more.
LEMMA RecheckEffect ==
    ASSUME RestTypes, ProjectorsHold, NEW p \in Projectors, Recheck(p)
    PROVE  /\ OnlyProjector(p) /\ At(p, "recheck") /\ RecordsStay /\ UNCHANGED <<evidence, faults>>
           /\ \/ ~StillCurrent(Subject(p)) /\ MovesTo(p, "remove")
              \/ /\ StillCurrent(Subject(p)) /\ MovesTo(p, "invalidate")
                 /\ projectors'[p].seen = memories[Subject(p)].validTo
              \/ /\ StillCurrent(Subject(p)) /\ Advanced(p)
                 /\ memories[Subject(p)].validTo = Never
<1>1. At(p, "recheck") /\ RecordsStay /\ UNCHANGED <<evidence, faults>>
  BY DEF Recheck, RecordsStay
<1>2. projectors[p].todo # << >> /\ Subject(p) \in Sources
  BY <1>1, SubjectParts DEF At, AtWork
<1>3. memories[Subject(p)].validTo \in Times \cup {Never}
  BY <1>2 DEF RestTypes, Records
<1>4. CASE ~StillCurrent(Subject(p)) /\ Goto(p, "remove")
  BY <1>1, <1>4, GotoEffect DEF MovesTo, Projecting
<1>5. CASE /\ StillCurrent(Subject(p))
           /\ projectors' = [projectors EXCEPT ![p].pc = "invalidate",
                                               ![p].seen = memories[Subject(p)].validTo]
  BY <1>1, <1>3, <1>5, SeesEffect DEF MovesTo, Projecting
<1>6. CASE /\ StillCurrent(Subject(p)) /\ Advance(p)
           /\ memories[Subject(p)].validTo = Never
  BY <1>1, <1>2, <1>6, AdvanceEffect DEF Advanced
<1> QED
  BY <1>4, <1>5, <1>6 DEF Recheck

\* The row that is corrected, and no other.
LEMMA CorrectedEffect ==
    ASSUME RestTypes, ProjectorsHold, NEW p \in Projectors,
           projectors[p].pc \in {"remove", "invalidate"}, evidence' = Corrected(p)
    PROVE  OnlyRow(Subject(p), IF At(p, "remove") THEN Absent
                               ELSE Shortened(Subject(p), projectors[p].seen))
<1>1. Subject(p) \in Sources /\ projectors[p].seen \in Ends
  BY SubjectParts, ProjectorTypes DEF AtWork, Locals, Ends
<1>2. Shortened(Subject(p), projectors[p].seen) \in Ends \cup {Absent}
  BY <1>1, ShortenedEffect
<1> QED
  BY <1>1, <1>2 DEF Corrected, OnlyRow, RestTypes

\* The row is removed or shortened.
LEMMA CorrectEvidenceEffect ==
    ASSUME RestTypes, ProjectorsHold, NEW p \in Projectors, CorrectEvidence(p)
    PROVE  /\ OnlyProjector(p) /\ RecordsStay /\ faults' = faults
           /\ projectors[p].pc \in {"remove", "invalidate"} /\ Advanced(p)
           /\ OnlyRow(Subject(p), IF At(p, "remove") THEN Absent
                                  ELSE Shortened(Subject(p), projectors[p].seen))
<1>1. projectors[p].pc \in {"remove", "invalidate"} /\ RecordsStay /\ faults' = faults
  BY DEF CorrectEvidence, RecordsStay, At
<1>2. projectors[p].todo # << >>
  BY <1>1, SubjectParts DEF AtWork
<1> QED
  BY <1>1, <1>2, AdvanceEffect, CorrectedEffect DEF CorrectEvidence, Advanced

\* Faults are bounded.
LEMMA FaultEffect ==
    ASSUME RestTypes, Fault
    PROVE  faults' \in 0 .. MaxFaults
BY ProjectionAssumption DEF RestTypes, Fault

\* A store call throws, before or after its effect.
LEMMA StepThrowsEffect ==
    ASSUME RestTypes, ProjectorsHold, NEW p \in Projectors, StepThrows(p)
    PROVE  /\ OnlyProjector(p) /\ RecordsStay /\ faults' \in 0 .. MaxFaults
           /\ projectors[p].pc \in AtWork /\ GaveUp(p)
           /\ \E e \in Ends \cup {Absent} :
                /\ OnlyRow(Subject(p), e)
                /\ e = Absent => At(p, "remove") \/ evidence[Subject(p)] = Absent
<1>1. projectors[p].pc \in AtWork /\ RecordsStay /\ faults' \in 0 .. MaxFaults
  BY FaultEffect DEF StepThrows, RecordsStay, Projecting, AtWork
<1>2. OnlyProjector(p) /\ GaveUp(p)
  BY ThrowEffect DEF StepThrows
<1>3. Subject(p) \in Sources /\ projectors[p].seen \in Ends
  BY <1>1, SubjectParts, ProjectorTypes DEF Locals, Ends
<1>4. CASE UNCHANGED evidence
  BY <1>1, <1>2, <1>3, <1>4 DEF RestTypes, OnlyRow
<1>5. CASE evidence' = Projected(p)
  <2>1. OnlyRow(Subject(p), projectors[p].seen) /\ projectors[p].seen # Absent
    BY <1>3, <1>5, EndsCompare DEF Projected, OnlyRow, RestTypes
  <2> QED
    BY <1>1, <1>2, <1>3, <2>1
<1>6. CASE projectors[p].pc \in {"remove", "invalidate"} /\ evidence' = Corrected(p)
  <2> DEFINE e == IF At(p, "remove") THEN Absent ELSE Shortened(Subject(p), projectors[p].seen)
  <2>1. /\ OnlyRow(Subject(p), e) /\ e \in Ends \cup {Absent}
        /\ e = Absent => At(p, "remove") \/ evidence[Subject(p)] = Absent
    BY <1>3, <1>6, CorrectedEffect, ShortenedEffect
  <2> QED
    BY <1>1, <1>2, <2>1
<1> QED
  BY <1>4, <1>5, <1>6 DEF StepThrows

\* The process of a projector dies.
LEMMA CrashEffect ==
    ASSUME RestTypes, ProjectorsHold, NEW p \in Projectors, Crash(p)
    PROVE  /\ OnlyProjector(p) /\ RecordsStay /\ faults' \in 0 .. MaxFaults /\ evidence' = evidence
           /\ projectors[p].pc \in Projecting
           /\ projectors'[p].pc = "crashed" /\ projectors'[p].todo = << >>
BY LeaveEffect, FaultEffect DEF Crash, RecordsStay

\* What each kind of mutation does to the record.
MutatedAs(s, kind, validTo) ==
    /\ memories'[s].status = CASE kind = "delete" -> "forgotten"
                               [] kind = "purge" -> "purged"
                               [] OTHER -> memories[s].status
    /\ memories'[s].hint = (memories[s].hint /\ kind # "update")
    /\ memories'[s].validTo = IF kind = "invalidate" THEN validTo ELSE memories[s].validTo

Kinds == {"update", "delete", "purge", "invalidate"}

\* A mutation changes its record.
LEMMA MutateRecordEffect ==
    ASSUME RestTypes, NEW m \in Mutations, NEW s \in Mutable[hints], NEW kind \in Kinds,
           NEW validTo \in Times \cup {Never}, MutateRecord(m, s, kind, validTo)
    PROVE  /\ s \in Sources /\ OnlyMutation(m) /\ OnlyRecord(s) /\ MutatedAs(s, kind, validTo)
           /\ memories[s].status = "live" \/ (kind = "purge" /\ memories[s].status = "forgotten")
           /\ mutations[m].pc = "idle"
           /\ mutations'[m] = [pc |-> "clean", kind |-> kind, source |-> s, validTo |-> validTo]
           /\ UNCHANGED <<now, hints, evidence, projectors, faults>>
<1>1. s \in Sources
  BY ProjectionAssumption DEF RestTypes
<1>2. memories \in [Sources -> Records] /\ memories[s] \in Records
  BY <1>1 DEF RestTypes
<1> DEFINE new == Mutated(s, kind, validTo)
<1>3. /\ new \in Records
      /\ new.status = CASE kind = "delete" -> "forgotten"
                        [] kind = "purge" -> "purged"
                        [] OTHER -> memories[s].status
      /\ new.hint = (memories[s].hint /\ kind # "update")
      /\ new.validTo = IF kind = "invalidate" THEN validTo ELSE memories[s].validTo
  <2>1. CASE kind = "update"
    BY <1>2, <2>1 DEF Mutated, Records
  <2>2. CASE kind = "delete"
    BY <1>2, <2>2 DEF Mutated, Records
  <2>3. CASE kind = "purge"
    BY <1>2, <2>3 DEF Mutated, Records
  <2>4. CASE kind = "invalidate"
    BY <1>2, <2>4 DEF Mutated, Records
  <2> QED
    BY <2>1, <2>2, <2>3, <2>4 DEF Kinds
<1>4. memories' = [memories EXCEPT ![s] = new]
  BY DEF MutateRecord
<1> HIDE DEF new
<1>5. OnlyRecord(s) /\ MutatedAs(s, kind, validTo)
  BY <1>1, <1>2, <1>3, <1>4 DEF OnlyRecord, MutatedAs
<1> DEFINE local == [pc |-> "clean", kind |-> kind, source |-> s, validTo |-> validTo]
<1>6. local \in MutationLocals
  BY <1>1 DEF MutationLocals, Kinds, Ends
<1>7. mutations' = [mutations EXCEPT ![m] = local] /\ mutations \in [Mutations -> MutationLocals]
  BY DEF MutateRecord, RestTypes
<1>8. OnlyMutation(m) /\ mutations'[m] = local
  BY <1>6, <1>7 DEF OnlyMutation
<1> QED
  BY <1>1, <1>5, <1>8 DEF MutateRecord

\* A mutation cleans up behind itself, or fails to.
LEMMA CleanEvidenceEffect ==
    ASSUME RestTypes, RecordsKnown, NEW m \in Mutations, CleanEvidence(m)
    PROVE  /\ OnlyMutation(m) /\ mutations[m].pc = "clean" /\ mutations[m].source \in Sources
           /\ mutations'[m].kind = mutations[m].kind
           /\ mutations'[m].source = mutations[m].source
           /\ mutations'[m].validTo = mutations[m].validTo
           /\ \/ /\ mutations'[m].pc = "done"
                 /\ OnlyRow(mutations[m].source,
                            IF mutations[m].kind = "invalidate"
                            THEN Shortened(mutations[m].source, mutations[m].validTo)
                            ELSE Absent)
              \/ mutations'[m].pc \in {"pending", "crashed"} /\ evidence' = evidence
           /\ faults' \in 0 .. MaxFaults
           /\ UNCHANGED <<now, hints, memories, projectors>>
<1>1. mutations[m].pc = "clean" /\ mutations[m].source \in Sources
  BY DEF CleanEvidence, RecordsKnown
<1>2. mutations \in [Mutations -> MutationLocals] /\ mutations[m] \in MutationLocals
  BY DEF RestTypes
<1>3. ASSUME NEW pc \in {"done", "pending", "crashed"},
             mutations' = [mutations EXCEPT ![m].pc = pc]
      PROVE  /\ OnlyMutation(m) /\ mutations'[m].pc = pc
             /\ mutations'[m].kind = mutations[m].kind
             /\ mutations'[m].source = mutations[m].source
             /\ mutations'[m].validTo = mutations[m].validTo
  <2> DEFINE new == [mutations[m] EXCEPT !.pc = pc]
  <2>1. /\ new \in MutationLocals /\ new.pc = pc /\ new.kind = mutations[m].kind
        /\ new.source = mutations[m].source /\ new.validTo = mutations[m].validTo
    BY <1>2 DEF MutationLocals
  <2>2. mutations' = [mutations EXCEPT ![m] = new]
    BY <1>3
  <2> HIDE DEF new
  <2> QED
    BY <1>2, <2>1, <2>2 DEF OnlyMutation
<1> DEFINE end == IF mutations[m].kind = "invalidate"
                  THEN Shortened(mutations[m].source, mutations[m].validTo) ELSE Absent
<1>4. end \in Ends \cup {Absent}
  BY <1>1, <1>2, ShortenedEffect DEF MutationLocals
<1>5. CASE /\ evidence' = [evidence EXCEPT ![mutations[m].source] = end]
           /\ mutations' = [mutations EXCEPT ![m].pc = "done"] /\ faults' = faults
  <2> HIDE DEF end
  <2>1. OnlyRow(mutations[m].source, end)
    BY <1>1, <1>4, <1>5 DEF OnlyRow, RestTypes
  <2>2. faults' \in 0 .. MaxFaults
    BY <1>5 DEF RestTypes
  <2>3. UNCHANGED <<now, hints, memories, projectors>>
    BY DEF CleanEvidence
  <2> QED
    BY <1>1, <1>3, <1>5, <2>1, <2>2, <2>3 DEF end
<1>6. CASE /\ \E pc \in {"pending", "crashed"} : mutations' = [mutations EXCEPT ![m].pc = pc]
           /\ Fault /\ UNCHANGED evidence
  <2>1. UNCHANGED <<now, hints, memories, projectors>>
    BY DEF CleanEvidence
  <2> QED
    BY <1>1, <1>3, <1>6, <2>1, FaultEffect
<1> QED
  BY <1>5, <1>6 DEF CleanEvidence
-----------------------------------------------------------------------------
(* Types, and what is known of records.                                    *)

\* The parts of the invariant.
LEMMA InvParts ==
    ASSUME ProjectionInv
    PROVE  RestTypes /\ ProjectorsHold /\ RecordsKnown /\ RowsAreOwed /\ GoneForGood /\ RowsAreKept
BY TypeParts DEF ProjectionInv

\* The records of two adds, and the calls of adds and rebuilds, are apart.
LEMMA AddsApart ==
    /\ \A a, b \in Adds : a # b => ToSet(BatchOf[a]) \cap ToSet(BatchOf[b]) = {}
    /\ \A a \in Adds : a \in Projectors /\ a \notin Rebuilds
    /\ \A a \in Adds : /\ BatchOf[a] \in Seq(Sources) /\ BatchOf[a] # << >>
                       /\ ToSet(BatchOf[a]) \subseteq Sources
    /\ \A p \in Projectors : p \in Adds \/ p \in Rebuilds
<1>1. \A a \in Adds : BatchOf[a] \in Seq(Sources) /\ BatchOf[a] # << >>
  BY ProjectionAssumption
<1>2. \A a \in Adds : ToSet(BatchOf[a]) \subseteq Sources
  BY <1>1, ToSetParts
<1> QED
  BY <1>1, <1>2, ProjectionAssumption DEF Projectors

\* What it takes for projectors to hold.
LEMMA HoldsIf ==
    ASSUME projectors' \in [Projectors -> Locals],
           \A p \in Projectors : projectors'[p].pc \in AtWork <=> projectors'[p].todo # << >>,
           \A a \in Adds : /\ projectors'[a].pc \notin {"list", "wipe"}
                           /\ ToSet(projectors'[a].todo) \subseteq ToSet(BatchOf[a]),
           \A a \in Adds : \A s \in ToSet(BatchOf[a]) :
               memories'[s].status = "none" <=> projectors'[a].pc = "idle"
    PROVE  ProjectorsHold'
BY DEF ProjectorsHold, At, Locals

\* Projectors hold if the one that moves does.
LEMMA HoldsStill ==
    ASSUME ProjectorsHold, NEW p \in Projectors, OnlyProjector(p), memories' = memories,
           projectors'[p].pc \in AtWork <=> projectors'[p].todo # << >>,
           ToSet(projectors'[p].todo) \subseteq ToSet(projectors[p].todo) \/ p \notin Adds,
           p \in Adds => /\ projectors'[p].pc \notin {"list", "wipe", "idle"}
                         /\ projectors[p].pc # "idle"
    PROVE  ProjectorsHold'
<1>1. projectors' \in [Projectors -> Locals]
  BY DEF OnlyProjector
<1>2. \A q \in Projectors : projectors'[q].pc \in AtWork <=> projectors'[q].todo # << >>
  BY DEF OnlyProjector, ProjectorsHold
<1>3. ASSUME NEW a \in Adds
      PROVE  /\ projectors'[a].pc \notin {"list", "wipe"}
             /\ ToSet(projectors'[a].todo) \subseteq ToSet(BatchOf[a])
             /\ projectors'[a].pc = "idle" <=> projectors[a].pc = "idle"
  <2>1. /\ a \in Projectors /\ projectors[a].pc \notin {"list", "wipe"}
        /\ ToSet(projectors[a].todo) \subseteq ToSet(BatchOf[a])
    BY DEF ProjectorsHold, Projectors
  <2>2. CASE a = p
    BY <2>1, <2>2
  <2>3. CASE a # p
    BY <2>1, <2>3 DEF OnlyProjector
  <2> QED
    BY <2>2, <2>3
<1>4. \A a \in Adds : \A s \in ToSet(BatchOf[a]) :
        memories'[s].status = "none" <=> projectors'[a].pc = "idle"
  BY <1>3 DEF ProjectorsHold, At
<1> QED
  BY <1>1, <1>2, <1>3, <1>4, HoldsIf

\* A projector moves on, is done with a record, or gives up.
LEMMA MovesKeep ==
    ASSUME ProjectorsHold, NEW p \in Projectors, OnlyProjector(p), memories' = memories,
           projectors[p].pc \in AtWork,
           (\E pc \in AtWork : MovesTo(p, pc)) \/ Advanced(p) \/ GaveUp(p)
    PROVE  ProjectorsHold' /\ ToSet(projectors'[p].todo) \subseteq ToSet(projectors[p].todo)
<1>1. projectors[p].todo # << >> /\ ToSet(projectors[p].todo) =
                {Subject(p)} \cup ToSet(Tail(projectors[p].todo))
  BY SubjectParts
<1>2. ToSet(projectors'[p].todo) \subseteq ToSet(projectors[p].todo)
  BY <1>1, ToSetParts DEF MovesTo, Advanced, GaveUp
<1>3. projectors'[p].pc \in AtWork <=> projectors'[p].todo # << >>
  BY <1>1 DEF MovesTo, Advanced, GaveUp, AtWork
<1>4. /\ p \in Adds => projectors'[p].pc \notin {"list", "wipe", "idle"}
      /\ projectors[p].pc # "idle"
  BY DEF MovesTo, Advanced, GaveUp, AtWork
<1> QED
  BY <1>2, <1>3, <1>4, HoldsStill

\* Every step keeps the projectors.
LEMMA ProjectorsStep ==
    ASSUME ProjectionInv, Next
    PROVE  ProjectorsHold'
<1> USE InvParts
<1>1. ASSUME NEW a \in Adds, SaveRecords(a) \/ RetryAdd(a)
      PROVE  ProjectorsHold'
  <2>1. /\ OnlyProjector(a) /\ projectors'[a].pc = "read" /\ projectors'[a].todo = BatchOf[a]
        /\ projectors[a].pc \in {"idle", "crashed"}
        /\ \A s \in Sources \ ToSet(BatchOf[a]) : memories'[s] = memories[s]
    BY <1>1, SaveRecordsEffect, RetryAddEffect DEF At
  <2>2. \A s \in ToSet(BatchOf[a]) : memories'[s].status # "none"
    <3>1. CASE SaveRecords(a)
      BY <3>1, AddsApart, SaveRecordsEffect
    <3>2. CASE RetryAdd(a)
      <4>1. \A s \in ToSet(BatchOf[a]) : memories[s].status # "none"
        BY <3>2, RetryAddEffect DEF ProjectorsHold, At
      <4> QED
        BY <3>2, <4>1, AddsApart, RetryAddEffect
    <3> QED
      BY <1>1, <3>1, <3>2
  <2>3. \A b \in Adds : b # a => \A s \in ToSet(BatchOf[b]) : memories'[s] = memories[s]
    BY <2>1, AddsApart
  <2>4. projectors' \in [Projectors -> Locals] /\ projectors'[a].pc \in AtWork
    BY <2>1 DEF OnlyProjector, AtWork
  <2>5. \A b \in Adds : b # a => projectors'[b] = projectors[b]
    BY <2>1, AddsApart DEF OnlyProjector
  <2>6. \A p \in Projectors : projectors'[p].pc \in AtWork <=> projectors'[p].todo # << >>
    BY <2>1, <2>4, AddsApart DEF OnlyProjector, ProjectorsHold
  <2>7. \A b \in Adds :
          /\ projectors'[b].pc \notin {"list", "wipe"}
          /\ ToSet(projectors'[b].todo) \subseteq ToSet(BatchOf[b])
          /\ \A s \in ToSet(BatchOf[b]) :
               memories'[s].status = "none" <=> projectors'[b].pc = "idle"
    <3>1. ASSUME NEW b \in Adds, b # a
          PROVE  /\ projectors'[b].pc \notin {"list", "wipe"}
                 /\ ToSet(projectors'[b].todo) \subseteq ToSet(BatchOf[b])
                 /\ \A s \in ToSet(BatchOf[b]) :
                      memories'[s].status = "none" <=> projectors'[b].pc = "idle"
      BY <2>3, <2>5, <3>1 DEF ProjectorsHold, At
    <3>2. /\ projectors'[a].pc \notin {"list", "wipe"}
          /\ ToSet(projectors'[a].todo) \subseteq ToSet(BatchOf[a])
          /\ \A s \in ToSet(BatchOf[a]) :
               memories'[s].status = "none" <=> projectors'[a].pc = "idle"
      BY <2>1, <2>2
    <3> QED
      BY <3>1, <3>2
  <2> QED
    BY <2>4, <2>6, <2>7, HoldsIf
<1>2. ASSUME NEW p \in Projectors, ClearEvidence(p)
      PROVE  ProjectorsHold'
  <2>1. /\ p \notin Adds /\ OnlyProjector(p) /\ memories' = memories /\ projectors[p].pc = "idle"
        /\ projectors'[p].pc = "list" /\ projectors'[p].todo = projectors[p].todo
    BY <1>2, ClearEvidenceEffect, AddsApart DEF RecordsStay, At
  <2>2. projectors'[p].todo = << >>
    BY <2>1 DEF ProjectorsHold, AtWork
  <2> QED
    BY <2>1, <2>2, HoldsStill DEF AtWork
<1>3. ASSUME NEW p \in Projectors, ListRecords(p)
      PROVE  ProjectorsHold'
  <2>1. p \notin Adds
    BY <1>3, ListRecordsEffect DEF ProjectorsHold, At
  <2>2. projectors'[p].pc \in AtWork <=> projectors'[p].todo # << >>
    BY <1>3, ListRecordsEffect DEF AtWork
  <2> QED
    BY <1>3, <2>1, <2>2, ListRecordsEffect, HoldsStill DEF RecordsStay
<1>4. ASSUME NEW p \in Projectors, ReadSource(p) \/ Observe(p) \/ PutEvidence(p)
      PROVE  ProjectorsHold'
  <2>1. /\ OnlyProjector(p) /\ memories' = memories /\ projectors[p].pc \in AtWork
        /\ (\E pc \in {"observe", "put", "recheck"} : MovesTo(p, pc)) \/ Advanced(p) \/ GaveUp(p)
    BY <1>4, ReadSourceEffect, ObserveEffect, PutEvidenceEffect DEF RecordsStay, At, AtWork
  <2>2. {"observe", "put", "recheck"} \subseteq AtWork
    BY DEF AtWork
  <2> QED
    BY <2>1, <2>2, MovesKeep
<1>5. ASSUME NEW p \in Projectors, Recheck(p) \/ CorrectEvidence(p) \/ StepThrows(p)
      PROVE  ProjectorsHold'
  <2>1. /\ OnlyProjector(p) /\ memories' = memories /\ projectors[p].pc \in AtWork
        /\ (\E pc \in {"remove", "invalidate"} : MovesTo(p, pc)) \/ Advanced(p) \/ GaveUp(p)
    BY <1>5, RecheckEffect, CorrectEvidenceEffect, StepThrowsEffect DEF RecordsStay, At, AtWork
  <2>2. {"remove", "invalidate"} \subseteq AtWork
    BY DEF AtWork
  <2> QED
    BY <2>1, <2>2, MovesKeep
<1>6. ASSUME NEW p \in Projectors, WipeEvidence(p)
      PROVE  ProjectorsHold'
  BY <1>6, WipeEvidenceEffect, HoldsStill DEF RecordsStay, At, AtWork, ProjectorsHold
<1>7. ASSUME NEW p \in Projectors, Crash(p)
      PROVE  ProjectorsHold'
  <2>1. ToSet(projectors'[p].todo) \subseteq ToSet(projectors[p].todo)
    BY <1>7, CrashEffect, ToSetParts
  <2> QED
    BY <1>7, <2>1, CrashEffect, HoldsStill DEF RecordsStay, AtWork, Projecting
<1>8. ASSUME NEW m \in Mutations, NEW s \in Mutable[hints], NEW kind \in Kinds,
             NEW validTo \in Times \cup {Never}, MutateRecord(m, s, kind, validTo)
      PROVE  ProjectorsHold'
  <2>1. /\ projectors' = projectors
        /\ \A t \in Sources : memories'[t].status = "none" <=> memories[t].status = "none"
    BY <1>8, MutateRecordEffect DEF OnlyRecord, MutatedAs
  <2>2. \A a \in Adds : ToSet(BatchOf[a]) \subseteq Sources
    BY AddsApart
  <2> QED
    <3>1. \A a \in Adds : \A t \in ToSet(BatchOf[a]) :
            memories'[t].status = "none" <=> projectors'[a].pc = "idle"
      BY <2>1, <2>2 DEF ProjectorsHold, At
    <3>2. \A a \in Adds : projectors'[a] = projectors[a]
      BY <2>1
    <3>3. \A a \in Adds : /\ projectors'[a].pc \notin {"list", "wipe"}
                           /\ ToSet(projectors'[a].todo) \subseteq ToSet(BatchOf[a])
      BY <3>2 DEF ProjectorsHold
    <3>4. projectors' \in [Projectors -> Locals]
      BY <2>1, ProjectorTypes
    <3>5. \A p \in Projectors : projectors'[p].pc \in AtWork <=> projectors'[p].todo # << >>
      BY <2>1 DEF ProjectorsHold
    <3> QED
      BY <3>1, <3>3, <3>4, <3>5, HoldsIf
<1>9. ASSUME NEW m \in Mutations, CleanEvidence(m)
      PROVE  ProjectorsHold'
  <2>1. projectors' = projectors /\ memories' = memories
    BY <1>9, CleanEvidenceEffect
  <2> QED
    BY <2>1 DEF ProjectorsHold, At
<1> QED
  BY <1>1, <1>2, <1>3, <1>4, <1>5, <1>6, <1>7, <1>8, <1>9 DEF Next, Kinds

\* Every step keeps the other types.
LEMMA TypesStep ==
    ASSUME ProjectionInv, Next
    PROVE  RestTypes'
<1> USE InvParts
<1>1. ASSUME NEW a \in Adds, SaveRecords(a)
      PROVE  RestTypes'
  BY <1>1, SaveRecordsEffect DEF RestTypes
<1>2. ASSUME NEW a \in Adds, RetryAdd(a)
      PROVE  RestTypes'
  BY <1>2, RetryAddEffect DEF RestTypes
<1>3. \A e \in Ends : e # Absent
  BY ProjectionAssumption DEF Ends, Times, Never, Absent
<1>4. ASSUME RecordsStay, faults' \in 0 .. MaxFaults,
             evidence' \in [Sources -> Ends \cup {Absent}]
      PROVE  RestTypes'
  BY <1>4 DEF RecordsStay, RestTypes
<1>5. faults \in 0 .. MaxFaults /\ evidence \in [Sources -> Ends \cup {Absent}]
      /\ [s \in Sources |-> Absent] \in [Sources -> Ends \cup {Absent}]
  BY DEF RestTypes
<1>6. ASSUME NEW p \in Projectors, ClearEvidence(p) \/ WipeEvidence(p)
      PROVE  RestTypes'
  BY <1>4, <1>5, <1>6, ClearEvidenceEffect, WipeEvidenceEffect
<1>7. ASSUME NEW p \in Projectors, ListRecords(p) \/ ReadSource(p) \/ Observe(p) \/ Recheck(p)
      PROVE  RestTypes'
  BY <1>4, <1>5, <1>7, ListRecordsEffect, ReadSourceEffect, ObserveEffect, RecheckEffect
<1>8. ASSUME NEW p \in Projectors, PutEvidence(p) \/ CorrectEvidence(p) \/ StepThrows(p) \/ Crash(p)
      PROVE  RestTypes'
  BY <1>4, <1>5, <1>8, PutEvidenceEffect, CorrectEvidenceEffect, StepThrowsEffect, CrashEffect
     DEF OnlyRow
<1>9. ASSUME NEW m \in Mutations, NEW s \in Mutable[hints], NEW kind \in Kinds,
             NEW validTo \in Times \cup {Never}, MutateRecord(m, s, kind, validTo)
      PROVE  RestTypes'
  BY <1>9, MutateRecordEffect DEF OnlyMutation, OnlyRecord, RestTypes
<1>10. ASSUME NEW m \in Mutations, CleanEvidence(m)
      PROVE  RestTypes'
  BY <1>10, CleanEvidenceEffect DEF OnlyMutation, OnlyRow, RestTypes
<1> QED
  BY <1>1, <1>2, <1>6, <1>7, <1>8, <1>9, <1>10 DEF Next, Kinds

\* A record that was created stays created, and a row appears for one only.
LEMMA KnownStill ==
    ASSUME ProjectionInv, NEW p \in Projectors, OnlyProjector(p), mutations' = mutations,
           \A s \in Sources : memories[s].status # "none" => memories'[s].status # "none",
           \A s \in ToSet(projectors'[p].todo) : s \in Sources /\ memories'[s].status # "none",
           \A s \in Sources : evidence'[s] # Absent => memories'[s].status # "none"
    PROVE  RecordsKnown'
<1> USE InvParts
<1>1. \A q \in Projectors : \A s \in ToSet(projectors'[q].todo) : memories'[s].status # "none"
  <2>1. \A q \in Projectors : ToSet(projectors[q].todo) \subseteq Sources
    BY ProjectorTypes, ToSetParts DEF Locals
  <2> QED
    BY <2>1 DEF RecordsKnown, OnlyProjector
<1>2. \A m \in Mutations : mutations'[m].pc # "idle" =>
        mutations'[m].source \in Sources /\ memories'[mutations'[m].source].status # "none"
  BY DEF RecordsKnown
<1> QED
  BY <1>1, <1>2 DEF RecordsKnown

\* Every step keeps to records that were created.
LEMMA RecordsStep ==
    ASSUME ProjectionInv, Next
    PROVE  RecordsKnown'
<1> USE InvParts
<1>0. /\ \A q \in Projectors : ToSet(projectors[q].todo) \subseteq Sources
      /\ \A q \in Projectors : \A s \in ToSet(projectors[q].todo) : memories[s].status # "none"
      /\ \A s \in Sources : evidence[s] # Absent => memories[s].status # "none"
  BY ProjectorTypes, ToSetParts DEF Locals, RecordsKnown
<1>1. ASSUME NEW a \in Adds, SaveRecords(a)
      PROVE  RecordsKnown'
  <2>1. /\ OnlyProjector(a) /\ mutations' = mutations /\ evidence' = evidence /\ a \in Projectors
        /\ projectors'[a].todo = BatchOf[a] /\ ToSet(BatchOf[a]) \subseteq Sources
    BY <1>1, SaveRecordsEffect, AddsApart
  <2>2. \A s \in Sources : IF s \in ToSet(BatchOf[a]) THEN memories'[s].status = "live"
                           ELSE memories'[s] = memories[s]
    BY <1>1, SaveRecordsEffect
  <2> QED
    BY <1>0, <2>1, <2>2, KnownStill
<1>2. ASSUME NEW a \in Adds, RetryAdd(a)
      PROVE  RecordsKnown'
  <2>1. /\ OnlyProjector(a) /\ mutations' = mutations /\ evidence' = evidence /\ a \in Projectors
        /\ projectors'[a].todo = BatchOf[a] /\ ToSet(BatchOf[a]) \subseteq Sources
    BY <1>2, RetryAddEffect, AddsApart
  <2>2. \A s \in Sources : memories'[s].status = "live" \/ memories'[s] = memories[s]
    BY <1>2, RetryAddEffect
  <2>3. \A s \in ToSet(BatchOf[a]) : memories[s].status # "none"
    BY <1>2, RetryAddEffect DEF ProjectorsHold, At
  <2> QED
    BY <1>0, <2>1, <2>2, <2>3, KnownStill
<1>3. ASSUME NEW p \in Projectors, ClearEvidence(p) \/ WipeEvidence(p)
      PROVE  RecordsKnown'
  <2>1. /\ OnlyProjector(p) /\ RecordsStay /\ projectors'[p].todo = projectors[p].todo
        /\ \A s \in Sources : evidence'[s] = Absent
    BY <1>3, ClearEvidenceEffect, WipeEvidenceEffect
  <2> QED
    BY <1>0, <2>1, KnownStill DEF RecordsStay
<1>4. ASSUME NEW p \in Projectors, ListRecords(p)
      PROVE  RecordsKnown'
  <2>1. /\ OnlyProjector(p) /\ RecordsStay /\ evidence' = evidence
        /\ ToSet(projectors'[p].todo) = HintedSources
    BY <1>4, ListRecordsEffect
  <2> QED
    BY <1>0, <2>1, KnownStill DEF RecordsStay, HintedSources
<1>5. ASSUME NEW p \in Projectors, ReadSource(p) \/ Observe(p) \/ Recheck(p)
      PROVE  RecordsKnown'
  <2>1. /\ OnlyProjector(p) /\ RecordsStay /\ evidence' = evidence /\ projectors[p].pc \in AtWork
        /\ (\E pc \in AtWork : MovesTo(p, pc)) \/ Advanced(p) \/ GaveUp(p)
    BY <1>5, ReadSourceEffect, ObserveEffect, RecheckEffect DEF At, AtWork
  <2>2. ToSet(projectors'[p].todo) \subseteq ToSet(projectors[p].todo)
    BY <2>1, MovesKeep DEF RecordsStay
  <2> QED
    BY <1>0, <2>1, <2>2, KnownStill DEF RecordsStay
<1>6. ASSUME NEW p \in Projectors, PutEvidence(p) \/ CorrectEvidence(p) \/ StepThrows(p)
      PROVE  RecordsKnown'
  <2>1. /\ OnlyProjector(p) /\ RecordsStay /\ projectors[p].pc \in AtWork
        /\ (\E pc \in AtWork : MovesTo(p, pc)) \/ Advanced(p) \/ GaveUp(p)
        /\ \A s \in Sources : s # Subject(p) => evidence'[s] = evidence[s]
    BY <1>6, PutEvidenceEffect, CorrectEvidenceEffect, StepThrowsEffect DEF At, AtWork, OnlyRow
  <2>2. ToSet(projectors'[p].todo) \subseteq ToSet(projectors[p].todo)
    BY <2>1, MovesKeep DEF RecordsStay
  <2>3. Subject(p) \in ToSet(projectors[p].todo)
    BY <2>1, SubjectParts
  <2> QED
    BY <1>0, <2>1, <2>2, <2>3, KnownStill DEF RecordsStay
<1>7. ASSUME NEW p \in Projectors, Crash(p)
      PROVE  RecordsKnown'
  <2>1. /\ OnlyProjector(p) /\ RecordsStay /\ evidence' = evidence
        /\ ToSet(projectors'[p].todo) = {}
    BY <1>7, CrashEffect, ToSetParts
  <2> QED
    BY <1>0, <2>1, KnownStill DEF RecordsStay
<1>8. ASSUME NEW m \in Mutations, NEW s \in Mutable[hints], NEW kind \in Kinds,
             NEW validTo \in Times \cup {Never}, MutateRecord(m, s, kind, validTo)
      PROVE  RecordsKnown'
  <2>1. /\ projectors' = projectors /\ evidence' = evidence /\ OnlyMutation(m) /\ s \in Sources
        /\ memories[s].status # "none"
        /\ mutations'[m] = [pc |-> "clean", kind |-> kind, source |-> s, validTo |-> validTo]
    BY <1>8, MutateRecordEffect
  <2>2. \A t \in Sources : memories[t].status # "none" => memories'[t].status # "none"
    BY <1>8, MutateRecordEffect DEF OnlyRecord, MutatedAs
  <2> QED
    BY <1>0, <2>1, <2>2 DEF RecordsKnown, OnlyMutation
<1>9. ASSUME NEW m \in Mutations, CleanEvidence(m)
      PROVE  RecordsKnown'
  <2>1. /\ projectors' = projectors /\ memories' = memories /\ OnlyMutation(m)
        /\ mutations'[m].source = mutations[m].source /\ mutations[m].pc = "clean"
        /\ mutations[m].source \in Sources
    BY <1>9, CleanEvidenceEffect
  <2>2. \A s \in Sources : evidence'[s] # Absent => memories[s].status # "none"
    <3>1. memories[mutations[m].source].status # "none"
      BY <2>1 DEF RecordsKnown
    <3>2. \A s \in Sources : s # mutations[m].source => evidence'[s] = evidence[s]
      BY <1>9, CleanEvidenceEffect DEF OnlyRow
    <3> QED
      BY <1>0, <3>1, <3>2
  <2> QED
    BY <1>0, <2>1, <2>2 DEF RecordsKnown, OnlyMutation
<1> QED
  BY <1>1, <1>2, <1>3, <1>4, <1>5, <1>6, <1>7, <1>8, <1>9 DEF Next, Kinds
-----------------------------------------------------------------------------
(* A row that should not be there, or not for so long, is owed a cleanup.  *)

\* The second look asks whether the record stands.
LEMMA CurrentStands ==
    ASSUME NEW s \in Sources
    PROVE  StillCurrent(s) <=> Stands(s)
BY DEF StillCurrent, Stands, Hinted

\* What is left to a projector that moves on.
LEMMA LeftParts ==
    ASSUME ProjectorsHold, NEW p \in Projectors, projectors[p].pc \in AtWork
    PROVE  /\ Left(p) \subseteq ToSet(projectors[p].todo)
           /\ ToSet(projectors[p].todo) = {Subject(p)} \cup Left(p)
           /\ Advanced(p) => Left(p)' = ToSet(Tail(projectors[p].todo))
           /\ Advanced(p) => Left(p) = Left(p)' \/ Left(p) = {Subject(p)} \cup Left(p)'
           /\ Advanced(p) /\ projectors[p].pc \in PutAlready => Left(p)' = Left(p)
           /\ \A pc \in AtWork : MovesTo(p, pc) =>
                /\ Left(p)' = IF pc \in PutAlready THEN ToSet(Tail(projectors[p].todo))
                              ELSE ToSet(projectors[p].todo)
                /\ Subject(p)' = Subject(p)
           /\ projectors[p].pc \notin PutAlready => Left(p) = ToSet(projectors[p].todo)
           /\ projectors[p].pc \in PutAlready => Left(p) = ToSet(Tail(projectors[p].todo))
<1>1. ToSet(projectors[p].todo) = {Subject(p)} \cup ToSet(Tail(projectors[p].todo))
  BY SubjectParts
<1>2. "done" \notin PutAlready /\ "read" \notin PutAlready
  BY DEF PutAlready
<1>3. ASSUME Advanced(p)
      PROVE  Left(p)' = ToSet(Tail(projectors[p].todo))
  BY <1>2, <1>3 DEF Advanced, Left
<1>4. ASSUME NEW pc \in AtWork, MovesTo(p, pc)
      PROVE  /\ Left(p)' = IF pc \in PutAlready THEN ToSet(Tail(projectors[p].todo))
                           ELSE ToSet(projectors[p].todo)
             /\ Subject(p)' = Subject(p)
  BY <1>4 DEF MovesTo, Left, Subject
<1> QED
  BY <1>1, <1>3, <1>4 DEF Left

\* Who owes a record a cleanup, but the projector that moves, still does.
LEMMA OthersOwe ==
    ASSUME NEW p \in Projectors, OnlyProjector(p), mutations' = mutations, NEW s \in Sources
    PROVE  /\ WillRemove(s) =>
                \/ WillRemove(s)'
                \/ projectors[p].pc \in {"recheck", "remove"} /\ Subject(p) = s
                \/ /\ p \in Adds /\ s \in ToSet(BatchOf[p])
                   /\ projectors[p].pc \in {"failed", "crashed"}
                \/ p \in Rebuilds /\ projectors[p].pc \in {"wipe", "crashed"}
           /\ WillProject(s) => WillProject(s)' \/ (p \in Adds /\ s \in Left(p))
           /\ memories'[s].validTo = memories[s].validTo /\ WillShorten(s) =>
                \/ WillShorten(s)'
                \/ /\ At(p, "invalidate") /\ Subject(p) = s
                   /\ projectors[p].seen <= memories[s].validTo
<1>1. \A q \in Projectors : q # p => projectors'[q] = projectors[q]
  BY DEF OnlyProjector
<1>2. \A q \in Projectors : q # p => /\ Subject(q)' = Subject(q) /\ Left(q)' = Left(q)
                                     /\ \A pc : At(q, pc)' = At(q, pc)
  BY <1>1 DEF Subject, Left, At
<1>3. \A m \in Mutations : Owes(m, s)' = Owes(m, s)
  BY DEF Owes
<1>4. Adds \subseteq Projectors /\ Rebuilds \subseteq Projectors
  BY DEF Projectors
<1>5. ASSUME WillRemove(s)
      PROVE  \/ WillRemove(s)'
             \/ projectors[p].pc \in {"recheck", "remove"} /\ Subject(p) = s
             \/ p \in Adds /\ s \in ToSet(BatchOf[p]) /\ projectors[p].pc \in {"failed", "crashed"}
             \/ p \in Rebuilds /\ projectors[p].pc \in {"wipe", "crashed"}
  BY <1>1, <1>2, <1>3, <1>4, <1>5 DEF WillRemove
<1>6. ASSUME WillProject(s)
      PROVE  WillProject(s)' \/ (p \in Adds /\ s \in Left(p))
  BY <1>2, <1>4, <1>6 DEF WillProject
<1>7. ASSUME memories'[s].validTo = memories[s].validTo, WillShorten(s)
      PROVE  \/ WillShorten(s)'
             \/ /\ At(p, "invalidate") /\ Subject(p) = s
                /\ projectors[p].seen <= memories[s].validTo
  BY <1>1, <1>2, <1>3, <1>7 DEF WillShorten
<1> QED
  BY <1>5, <1>6, <1>7

\* And so do all but the mutation that moves.
LEMMA OtherMutationsOwe ==
    ASSUME NEW m \in Mutations, OnlyMutation(m), projectors' = projectors, NEW s \in Sources
    PROVE  /\ WillRemove(s) => WillRemove(s)' \/ (Owes(m, s) /\ mutations[m].kind # "invalidate")
           /\ WillProject(s) => WillProject(s)'
           /\ memories'[s].validTo = memories[s].validTo /\ WillShorten(s) =>
                \/ WillShorten(s)'
                \/ /\ Owes(m, s) /\ mutations[m].kind = "invalidate"
                   /\ mutations[m].validTo <= memories[s].validTo
<1>1. \A n \in Mutations : n # m => mutations'[n] = mutations[n]
  BY DEF OnlyMutation
<1>2. \A n \in Mutations : n # m => Owes(n, s)' = Owes(n, s)
  BY <1>1 DEF Owes
<1>3. \A q \in Projectors : /\ Subject(q)' = Subject(q) /\ Left(q)' = Left(q)
                            /\ \A pc : At(q, pc)' = At(q, pc)
  BY DEF Subject, Left, At
<1>4. Adds \subseteq Projectors /\ Rebuilds \subseteq Projectors
  BY DEF Projectors
<1>5. ASSUME WillRemove(s)
      PROVE  WillRemove(s)' \/ (Owes(m, s) /\ mutations[m].kind # "invalidate")
  BY <1>1, <1>2, <1>3, <1>5 DEF WillRemove
<1>6. ASSUME WillProject(s)
      PROVE  WillProject(s)'
  BY <1>3, <1>4, <1>6 DEF WillProject
<1>7. ASSUME memories'[s].validTo = memories[s].validTo, WillShorten(s)
      PROVE  \/ WillShorten(s)'
             \/ /\ Owes(m, s) /\ mutations[m].kind = "invalidate"
                /\ mutations[m].validTo <= memories[s].validTo
  BY <1>1, <1>2, <1>3, <1>7 DEF WillShorten
<1> QED
  BY <1>5, <1>6, <1>7

\* A record that did not change stands as it did.
LEMMA SameRecord ==
    ASSUME NEW s \in Sources, memories'[s] = memories[s]
    PROVE  Hinted(s)' = Hinted(s) /\ Stands(s)' = Stands(s)
BY DEF Hinted, Stands

\* Somebody who gave up or died owes all that was left.
LEMMA GaveUpOwes ==
    ASSUME ProjectorsHold, NEW p \in Projectors, OnlyProjector(p), mutations' = mutations,
           memories' = memories, projectors[p].pc \in Projecting,
           GaveUp(p) \/ projectors'[p].pc = "crashed", NEW s \in Sources,
           evidence'[s] = evidence[s] \/ (projectors[p].pc \in AtWork /\ s = Subject(p)),
           RowIsOwed(s)
    PROVE  RowIsOwed(s)'
<1>1. CASE p \in Rebuilds
  <2>1. projectors'[p].pc \in {"wipe", "crashed"}
    BY <1>1, AddsApart DEF GaveUp
  <2>2. WillRemove(s)'
    BY <1>1, <2>1 DEF WillRemove
  <2> QED
    BY <2>2 DEF RowIsOwed
<1>2. CASE p \in Adds
  <2>1. projectors'[p].pc \in {"failed", "crashed"}
    BY <1>2 DEF GaveUp
  <2>2. s \in ToSet(BatchOf[p]) => WillRemove(s)'
    BY <1>2, <2>1 DEF WillRemove
  <2>3. projectors[p].pc \in AtWork /\ ToSet(projectors[p].todo) \subseteq ToSet(BatchOf[p])
    BY <1>2 DEF ProjectorsHold, Projecting, AtWork
  <2>4. Subject(p) \in ToSet(BatchOf[p]) /\ Left(p) \subseteq ToSet(BatchOf[p])
    BY <2>3, LeftParts, SubjectParts
  <2>5. CASE s \in ToSet(BatchOf[p])
    BY <2>2, <2>5 DEF RowIsOwed
  <2>6. CASE s \notin ToSet(BatchOf[p])
    <3>1. evidence'[s] = evidence[s] /\ memories'[s].validTo = memories[s].validTo
      BY <2>4, <2>6
    <3>2. Hinted(s)' = Hinted(s) /\ Stands(s)' = Stands(s)
      BY SameRecord
    <3>3. /\ WillRemove(s) => WillRemove(s)'
          /\ WillProject(s) => WillProject(s)'
          /\ WillShorten(s) => WillShorten(s)'
      BY <1>2, <2>3, <2>4, <2>6, <3>1, OthersOwe, AddsApart DEF AtWork
    <3> QED
      BY <3>1, <3>2, <3>3 DEF RowIsOwed
  <2> QED
    BY <2>5, <2>6
<1> QED
  BY <1>1, <1>2, AddsApart

\* Every step leaves somebody who owes the row what it needs.
LEMMA OwedStep ==
    ASSUME ProjectionInv, Next, NEW s \in Sources
    PROVE  RowIsOwed(s)'
<1>0. /\ RestTypes /\ ProjectorsHold /\ RecordsKnown /\ RowIsOwed(s)
  BY InvParts DEF RowsAreOwed
<1>1. ASSUME NEW a \in Adds, SaveRecords(a)
      PROVE  RowIsOwed(s)'
  <2>1. /\ OnlyProjector(a) /\ projectors[a].pc = "idle"
        /\ evidence' = evidence /\ mutations' = mutations
    BY <1>0, <1>1, SaveRecordsEffect DEF At
  <2>2. CASE s \in ToSet(BatchOf[a])
    BY <1>0, <2>1, <2>2 DEF RowIsOwed, ProjectorsHold, RecordsKnown, At
  <2>3. CASE s \notin ToSet(BatchOf[a])
    <3>1. memories'[s] = memories[s]
      BY <1>0, <1>1, <2>3, SaveRecordsEffect
    <3>2. Hinted(s)' = Hinted(s) /\ Stands(s)' = Stands(s)
      BY <3>1, SameRecord
    <3>3. Left(a) = {}
      BY <1>0, <2>1, AddsApart, ToSetParts DEF ProjectorsHold, AtWork, Left, PutAlready
    <3>4. /\ WillRemove(s) => WillRemove(s)'
          /\ WillProject(s) => WillProject(s)'
          /\ WillShorten(s) => WillShorten(s)'
      BY <2>1, <3>1, <3>3, OthersOwe, AddsApart DEF At
    <3> QED
      BY <1>0, <2>1, <3>1, <3>2, <3>4 DEF RowIsOwed
  <2> QED
    BY <2>2, <2>3
<1>2. ASSUME NEW a \in Adds, RetryAdd(a)
      PROVE  RowIsOwed(s)'
  <2>1. /\ OnlyProjector(a) /\ projectors[a].pc = "crashed" /\ evidence' = evidence
        /\ mutations' = mutations /\ projectors'[a].pc = "read" /\ projectors'[a].todo = BatchOf[a]
    BY <1>0, <1>2, RetryAddEffect DEF At
  <2>2. CASE s \in ToSet(BatchOf[a])
    <3>1. Left(a)' = ToSet(BatchOf[a])
      BY <2>1 DEF Left, PutAlready
    <3>2. WillProject(s)'
      BY <2>2, <3>1 DEF WillProject
    <3>3. memories[s].status # "none"
      BY <1>0, <2>1, <2>2 DEF ProjectorsHold, At
    <3>4. Hinted(s)'
      <4>1. memories[s].status \in {"live", "forgotten", "purged"}
        BY <1>0, <3>3 DEF RestTypes, Records
      <4>2. CASE memories[s].status = "purged"
        BY <1>0, <1>2, <2>2, <4>2, RetryAddEffect DEF Hinted
      <4>3. CASE memories[s].status # "purged"
        BY <1>0, <1>2, <2>2, <4>1, <4>3, RetryAddEffect DEF Hinted
      <4> QED
        BY <4>2, <4>3
    <3> QED
      BY <3>2, <3>4 DEF RowIsOwed
  <2>3. CASE s \notin ToSet(BatchOf[a])
    <3>1. memories'[s] = memories[s]
      BY <1>0, <1>2, <2>3, RetryAddEffect
    <3>2. Hinted(s)' = Hinted(s) /\ Stands(s)' = Stands(s)
      BY <3>1, SameRecord
    <3>3. Left(a) = {}
      BY <1>0, <2>1, AddsApart, ToSetParts DEF ProjectorsHold, AtWork, Left, PutAlready
    <3>4. /\ WillRemove(s) => WillRemove(s)'
          /\ WillProject(s) => WillProject(s)'
          /\ WillShorten(s) => WillShorten(s)'
      BY <2>1, <2>3, <3>1, <3>3, OthersOwe, AddsApart DEF At
    <3> QED
      BY <1>0, <2>1, <3>1, <3>2, <3>4 DEF RowIsOwed
  <2> QED
    BY <2>2, <2>3
<1>3. ASSUME NEW p \in Projectors, ClearEvidence(p) \/ WipeEvidence(p)
      PROVE  RowIsOwed(s)'
  BY <1>0, <1>3, ClearEvidenceEffect, WipeEvidenceEffect DEF RowIsOwed
<1>4. ASSUME NEW p \in Projectors, ListRecords(p)
      PROVE  RowIsOwed(s)'
  <2>1. /\ OnlyProjector(p) /\ projectors[p].pc = "list" /\ evidence' = evidence
        /\ memories' = memories /\ mutations' = mutations
    BY <1>0, <1>4, ListRecordsEffect DEF At, RecordsStay
  <2>2. p \notin Adds
    BY <1>0, <2>1 DEF ProjectorsHold
  <2>3. /\ WillRemove(s) => WillRemove(s)'
        /\ WillProject(s) => WillProject(s)'
        /\ WillShorten(s) => WillShorten(s)'
    BY <2>1, <2>2, OthersOwe DEF At
  <2> QED
    BY <1>0, <2>1, <2>3, SameRecord DEF RowIsOwed
<1>5. ASSUME NEW p \in Projectors, ReadSource(p)
      PROVE  RowIsOwed(s)'
  <2>1. /\ OnlyProjector(p) /\ projectors[p].pc = "read" /\ evidence' = evidence
        /\ memories' = memories /\ mutations' = mutations
        /\ MovesTo(p, "observe") \/ (~Hinted(Subject(p)) /\ Advanced(p))
    BY <1>0, <1>5, ReadSourceEffect DEF At, RecordsStay
  <2>2. projectors[p].pc \in AtWork /\ "observe" \in AtWork
    BY <2>1 DEF AtWork
  <2>3. /\ WillRemove(s) => WillRemove(s)'
        /\ WillProject(s) => WillProject(s)' \/ (p \in Adds /\ s \in Left(p))
        /\ WillShorten(s) => WillShorten(s)'
    BY <2>1, OthersOwe DEF At
  <2>4. s \in Left(p) => s \in Left(p)' \/ ~Hinted(s)
    BY <1>0, <2>1, <2>2, LeftParts DEF PutAlready
  <2>5. p \in Adds /\ s \in Left(p)' => WillProject(s)'
    BY DEF WillProject
  <2> QED
    BY <1>0, <2>1, <2>3, <2>4, <2>5, SameRecord DEF RowIsOwed
<1>6. ASSUME NEW p \in Projectors, Observe(p)
      PROVE  RowIsOwed(s)'
  <2>1. /\ OnlyProjector(p) /\ projectors[p].pc = "observe" /\ evidence' = evidence
        /\ memories' = memories /\ mutations' = mutations
        /\ MovesTo(p, "put") \/ GaveUp(p)
    BY <1>0, <1>6, ObserveEffect DEF At, RecordsStay
  <2>2. projectors[p].pc \in AtWork /\ projectors[p].pc \in Projecting /\ "put" \in AtWork
    BY <2>1 DEF AtWork, Projecting
  <2>3. CASE GaveUp(p)
    BY <1>0, <2>1, <2>2, <2>3, GaveUpOwes
  <2>4. CASE MovesTo(p, "put")
    <3>1. Left(p)' = Left(p)
      BY <1>0, <2>1, <2>2, <2>4, LeftParts DEF PutAlready
    <3>2. /\ WillRemove(s) => WillRemove(s)'
          /\ WillProject(s) => WillProject(s)'
          /\ WillShorten(s) => WillShorten(s)'
      BY <2>1, <3>1, OthersOwe DEF At, WillProject
    <3> QED
      BY <1>0, <2>1, <3>2, SameRecord DEF RowIsOwed
  <2> QED
    BY <2>1, <2>3, <2>4
<1>7. ASSUME NEW p \in Projectors, PutEvidence(p)
      PROVE  RowIsOwed(s)'
  <2>1. /\ OnlyProjector(p) /\ projectors[p].pc = "put" /\ MovesTo(p, "recheck")
        /\ memories' = memories /\ mutations' = mutations
        /\ s # Subject(p) => evidence'[s] = evidence[s]
    BY <1>0, <1>7, PutEvidenceEffect DEF At, RecordsStay, OnlyRow
  <2>2. projectors[p].pc \in AtWork /\ "recheck" \in AtWork
    BY <2>1 DEF AtWork
  <2>3. CASE s = Subject(p)
    <3>1. projectors'[p].pc = "recheck" /\ Subject(p)' = s
      BY <1>0, <2>1, <2>2, <2>3, LeftParts DEF MovesTo
    <3>2. WillRemove(s)'
      BY <3>1 DEF WillRemove
    <3> QED
      BY <3>2 DEF RowIsOwed
  <2>4. CASE s # Subject(p)
    <3>1. s \in Left(p) => s \in Left(p)'
      <4>1. Left(p)' = ToSet(Tail(projectors[p].todo))
        BY <1>0, <2>1, <2>2, LeftParts DEF PutAlready
      <4>2. ToSet(projectors[p].todo) = {Subject(p)} \cup ToSet(Tail(projectors[p].todo))
        BY <1>0, <2>2, SubjectParts
      <4>3. Left(p) \subseteq ToSet(projectors[p].todo)
        BY <1>0, <2>2, LeftParts
      <4> QED
        BY <2>4, <4>1, <4>2, <4>3
    <3>2. /\ WillRemove(s) => WillRemove(s)'
          /\ WillProject(s) => WillProject(s)'
          /\ WillShorten(s) => WillShorten(s)'
      BY <2>1, <3>1, OthersOwe DEF At, WillProject
    <3> QED
      BY <1>0, <2>1, <2>4, <3>2, SameRecord DEF RowIsOwed
  <2> QED
    BY <2>3, <2>4
<1>8. ASSUME NEW p \in Projectors, Recheck(p)
      PROVE  RowIsOwed(s)'
  <2>1. /\ OnlyProjector(p) /\ projectors[p].pc = "recheck" /\ evidence' = evidence
        /\ memories' = memories /\ mutations' = mutations
        /\ \/ MovesTo(p, "remove")
           \/ /\ StillCurrent(Subject(p)) /\ MovesTo(p, "invalidate")
              /\ projectors'[p].seen = memories[Subject(p)].validTo
           \/ /\ StillCurrent(Subject(p)) /\ Advanced(p)
              /\ memories[Subject(p)].validTo = Never
    BY <1>0, <1>8, RecheckEffect DEF At, RecordsStay
  <2>2. projectors[p].pc \in AtWork /\ {"remove", "invalidate"} \subseteq AtWork
    BY <2>1 DEF AtWork
  <2>3. Left(p)' = Left(p)
    BY <1>0, <2>1, <2>2, LeftParts DEF PutAlready
  <2>4. /\ WillRemove(s) => WillRemove(s)' \/ s = Subject(p)
        /\ WillProject(s) => WillProject(s)'
        /\ WillShorten(s) => WillShorten(s)'
    BY <2>1, <2>3, OthersOwe DEF At, WillProject
  <2>5. Hinted(s)' = Hinted(s) /\ Stands(s)' = Stands(s)
    BY <2>1, SameRecord
  <2>6. CASE s # Subject(p)
    BY <1>0, <2>1, <2>4, <2>5, <2>6 DEF RowIsOwed
  <2>7. CASE s = Subject(p) /\ MovesTo(p, "remove")
    <3>1. projectors'[p].pc = "remove" /\ Subject(p)' = s
      BY <1>0, <2>2, <2>7, LeftParts DEF MovesTo
    <3>2. WillRemove(s)'
      BY <3>1 DEF WillRemove
    <3> QED
      BY <3>2 DEF RowIsOwed
  <2>8. CASE s = Subject(p) /\ StillCurrent(s)
    <3>1. Stands(s)' /\ Hinted(s)'
      BY <2>5, <2>8, CurrentStands DEF StillCurrent
    <3>2. memories'[s].validTo \in Ends
      BY <1>0, <2>1 DEF RestTypes, Records, Ends
    <3>3. CASE MovesTo(p, "invalidate") /\ projectors'[p].seen = memories[s].validTo
      <4>1. Subject(p)' = s /\ At(p, "invalidate")'
        BY <1>0, <2>2, <2>8, <3>3, LeftParts DEF MovesTo, At
      <4>2. projectors'[p].seen <= memories'[s].validTo
        BY <2>1, <3>2, <3>3, EndsCompare
      <4>3. WillShorten(s)'
        BY <4>1, <4>2 DEF WillShorten
      <4> QED
        BY <3>1, <4>3 DEF RowIsOwed
    <3>4. CASE memories[s].validTo = Never
      <4>1. evidence'[s] # Absent => evidence'[s] \in Ends
        BY <1>0, <2>1 DEF RestTypes
      <4>2. evidence'[s] # Absent => ~(evidence'[s] > memories'[s].validTo)
        BY <2>1, <2>8, <3>2, <3>4, <4>1, EndsCompare
      <4> QED
        BY <3>1, <4>2 DEF RowIsOwed
    <3> QED
      BY <2>1, <2>7, <2>8, <3>3, <3>4
  <2> QED
    BY <2>1, <2>6, <2>7, <2>8
<1>9. ASSUME NEW p \in Projectors, CorrectEvidence(p)
      PROVE  RowIsOwed(s)'
  <2>1. /\ OnlyProjector(p) /\ projectors[p].pc \in {"remove", "invalidate"} /\ Advanced(p)
        /\ memories' = memories /\ mutations' = mutations
        /\ OnlyRow(Subject(p), IF At(p, "remove") THEN Absent
                               ELSE Shortened(Subject(p), projectors[p].seen))
    BY <1>0, <1>9, CorrectEvidenceEffect DEF RecordsStay
  <2>2. projectors[p].pc \in AtWork
    BY <2>1 DEF AtWork
  <2>3. Left(p)' = Left(p)
    BY <1>0, <2>1, <2>2, LeftParts DEF PutAlready
  <2>4. /\ WillRemove(s) => WillRemove(s)' \/ (s = Subject(p) /\ At(p, "remove"))
        /\ WillProject(s) => WillProject(s)'
        /\ WillShorten(s) => \/ WillShorten(s)'
                             \/ /\ s = Subject(p) /\ At(p, "invalidate")
                                /\ projectors[p].seen <= memories[s].validTo
    BY <2>1, <2>3, OthersOwe DEF At, WillProject
  <2>5. Hinted(s)' = Hinted(s) /\ Stands(s)' = Stands(s)
    BY <2>1, SameRecord
  <2>6. CASE s # Subject(p)
    BY <1>0, <2>1, <2>4, <2>5, <2>6 DEF RowIsOwed, OnlyRow
  <2>7. CASE s = Subject(p) /\ At(p, "remove")
    BY <2>1, <2>7 DEF RowIsOwed, OnlyRow
  <2>8. CASE s = Subject(p) /\ ~At(p, "remove")
    <3>1. projectors[p].seen \in Ends /\ memories[s].validTo \in Ends
      BY <1>0, ProjectorTypes DEF Locals, Ends, RestTypes, Records
    <3>2. /\ evidence'[s] = Shortened(s, projectors[p].seen)
          /\ evidence'[s] \in Ends \cup {Absent} /\ evidence[s] \in Ends \cup {Absent}
      BY <1>0, <2>1, <2>8 DEF OnlyRow, RestTypes
    <3>3. evidence'[s] # Absent => /\ evidence[s] # Absent /\ evidence'[s] <= evidence[s]
                                   /\ evidence'[s] <= projectors[p].seen
      BY <1>0, <3>1, <3>2, ShortenedEffect
    <3>4. evidence'[s] # Absent /\ evidence'[s] > memories[s].validTo =>
            /\ evidence[s] > memories[s].validTo
            /\ ~(projectors[p].seen <= memories[s].validTo)
      BY <3>1, <3>2, <3>3, EndsCompare
    <3> QED
      BY <1>0, <2>1, <2>4, <2>5, <2>8, <3>3, <3>4 DEF RowIsOwed
  <2> QED
    BY <2>6, <2>7, <2>8
<1>10. ASSUME NEW p \in Projectors, StepThrows(p)
      PROVE  RowIsOwed(s)'
  <2>1. /\ OnlyProjector(p) /\ projectors[p].pc \in AtWork /\ GaveUp(p)
        /\ memories' = memories /\ mutations' = mutations
        /\ s # Subject(p) => evidence'[s] = evidence[s]
    BY <1>0, <1>10, StepThrowsEffect DEF RecordsStay, OnlyRow
  <2>2. projectors[p].pc \in Projecting
    BY <2>1 DEF AtWork, Projecting
  <2> QED
    BY <1>0, <2>1, <2>2, GaveUpOwes
<1>11. ASSUME NEW p \in Projectors, Crash(p)
      PROVE  RowIsOwed(s)'
  BY <1>0, <1>11, CrashEffect, GaveUpOwes DEF RecordsStay
<1>12. ASSUME NEW m \in Mutations, NEW t \in Mutable[hints], NEW kind \in Kinds,
              NEW validTo \in Times \cup {Never}, MutateRecord(m, t, kind, validTo)
      PROVE  RowIsOwed(s)'
  <2>1. /\ t \in Sources /\ OnlyMutation(m) /\ OnlyRecord(t) /\ MutatedAs(t, kind, validTo)
        /\ mutations[m].pc = "idle" /\ evidence' = evidence /\ projectors' = projectors
        /\ mutations'[m] = [pc |-> "clean", kind |-> kind, source |-> t, validTo |-> validTo]
    BY <1>0, <1>12, MutateRecordEffect
  <2>2. /\ WillRemove(s) => WillRemove(s)'
        /\ WillProject(s) => WillProject(s)'
        /\ memories'[s].validTo = memories[s].validTo /\ WillShorten(s) => WillShorten(s)'
    BY <2>1, OtherMutationsOwe DEF Owes
  <2>3. CASE s # t
    <3>1. memories'[s] = memories[s]
      BY <2>1, <2>3 DEF OnlyRecord
    <3> QED
      BY <1>0, <2>1, <2>2, <3>1, SameRecord DEF RowIsOwed
  <2>4. CASE s = t /\ kind # "invalidate"
    <3>1. Owes(m, s)' /\ mutations'[m].kind # "invalidate"
      BY <2>1, <2>4 DEF Owes
    <3>2. WillRemove(s)'
      BY <3>1 DEF WillRemove
    <3> QED
      BY <3>2 DEF RowIsOwed
  <2>5. CASE s = t /\ kind = "invalidate"
    <3>1. /\ memories'[s].status = memories[s].status /\ memories'[s].hint = memories[s].hint
          /\ memories'[s].validTo = validTo /\ validTo \in Ends
      BY <1>0, <2>1, <2>5 DEF MutatedAs, RestTypes, Records, Ends
    <3>2. Hinted(s)' = Hinted(s) /\ Stands(s)' = Stands(s)
      BY <3>1 DEF Hinted, Stands
    <3>3. /\ Owes(m, s)' /\ mutations'[m].kind = "invalidate"
          /\ mutations'[m].validTo <= memories'[s].validTo
      <4>1. validTo <= memories'[s].validTo
        BY <3>1, EndsCompare
      <4> QED
        BY <2>1, <2>5, <4>1 DEF Owes
    <3>4. WillShorten(s)'
      BY <3>3 DEF WillShorten
    <3> QED
      BY <1>0, <2>1, <2>2, <3>2, <3>4 DEF RowIsOwed
  <2> QED
    BY <2>3, <2>4, <2>5
<1>13. ASSUME NEW m \in Mutations, CleanEvidence(m)
      PROVE  RowIsOwed(s)'
  <2>1. /\ OnlyMutation(m) /\ mutations[m].pc = "clean" /\ mutations[m].source \in Sources
        /\ mutations'[m].kind = mutations[m].kind /\ mutations'[m].source = mutations[m].source
        /\ mutations'[m].validTo = mutations[m].validTo
        /\ memories' = memories /\ projectors' = projectors
    BY <1>0, <1>13, CleanEvidenceEffect
  <2>2. /\ WillRemove(s) => WillRemove(s)' \/ (Owes(m, s) /\ mutations[m].kind # "invalidate")
        /\ WillProject(s) => WillProject(s)'
        /\ WillShorten(s) => \/ WillShorten(s)'
                             \/ /\ Owes(m, s) /\ mutations[m].kind = "invalidate"
                                /\ mutations[m].validTo <= memories[s].validTo
    BY <2>1, OtherMutationsOwe
  <2>3. Hinted(s)' = Hinted(s) /\ Stands(s)' = Stands(s)
    BY <2>1, SameRecord
  <2>4. CASE s # mutations[m].source
    <3>1. evidence'[s] = evidence[s] /\ ~Owes(m, s)
      BY <1>0, <1>13, <2>4, CleanEvidenceEffect DEF OnlyRow, Owes
    <3> QED
      BY <1>0, <2>1, <2>2, <2>3, <3>1 DEF RowIsOwed
  <2>5. CASE s = mutations[m].source /\ mutations'[m].pc \in {"pending", "crashed"}
    <3>1. evidence' = evidence
      BY <1>0, <1>13, <2>5, CleanEvidenceEffect
    <3>2. Owes(m, s)'
      BY <2>1, <2>5 DEF Owes
    <3>3. WillRemove(s) => WillRemove(s)'
      BY <2>1, <2>2, <3>2 DEF WillRemove
    <3>4. WillShorten(s) => WillShorten(s)'
      BY <2>1, <2>2, <3>2 DEF WillShorten
    <3> QED
      BY <1>0, <2>1, <2>2, <2>3, <3>1, <3>3, <3>4 DEF RowIsOwed
  <2>6. CASE s = mutations[m].source /\ mutations'[m].pc = "done"
    <3>1. OnlyRow(s, IF mutations[m].kind = "invalidate"
                     THEN Shortened(s, mutations[m].validTo) ELSE Absent)
      BY <1>0, <1>13, <2>6, CleanEvidenceEffect
    <3>2. CASE mutations[m].kind # "invalidate"
      BY <3>1, <3>2 DEF OnlyRow, RowIsOwed
    <3>3. CASE mutations[m].kind = "invalidate"
      <4>1. mutations[m].validTo \in Ends /\ memories[s].validTo \in Ends
        BY <1>0 DEF MutationLocals, RestTypes, Records, Ends
      <4>2. /\ evidence'[s] = Shortened(s, mutations[m].validTo)
            /\ evidence'[s] \in Ends \cup {Absent} /\ evidence[s] \in Ends \cup {Absent}
        BY <1>0, <3>1, <3>3 DEF OnlyRow, RestTypes
      <4>3. evidence'[s] # Absent => /\ evidence[s] # Absent /\ evidence'[s] <= evidence[s]
                                     /\ evidence'[s] <= mutations[m].validTo
        BY <1>0, <4>1, <4>2, ShortenedEffect
      <4>4. evidence'[s] # Absent /\ evidence'[s] > memories[s].validTo =>
              /\ evidence[s] > memories[s].validTo
              /\ ~(mutations[m].validTo <= memories[s].validTo)
        BY <4>1, <4>2, <4>3, EndsCompare
      <4> QED
        BY <1>0, <2>1, <2>2, <2>3, <3>3, <4>3, <4>4 DEF RowIsOwed
    <3> QED
      BY <3>2, <3>3
  <2> QED
    BY <1>0, <1>13, <2>4, <2>5, <2>6, CleanEvidenceEffect
<1> QED
  BY <1>1, <1>2, <1>3, <1>4, <1>5, <1>6, <1>7, <1>8, <1>9, <1>10, <1>11, <1>12, <1>13
     DEF Next, Kinds
-----------------------------------------------------------------------------
(* What was updated or deleted stays so, unless it was purged.             *)

ProjectorActs(p) ==
    \/ ClearEvidence(p) \/ ListRecords(p)
    \/ ReadSource(p) \/ Observe(p) \/ PutEvidence(p) \/ Recheck(p)
    \/ CorrectEvidence(p) \/ WipeEvidence(p) \/ StepThrows(p) \/ Crash(p)

\* A projector leaves records and mutations alone, and removes a row only of
\* what it saw to stand no longer.
LEMMA ProjectorActsEffect ==
    ASSUME RestTypes, ProjectorsHold, NEW p \in Projectors, ProjectorActs(p)
    PROVE  /\ OnlyProjector(p) /\ RecordsStay
           /\ projectors'[p].pc = "remove" =>
                At(p, "recheck") /\ ~StillCurrent(Subject(p)) /\ MovesTo(p, "remove")
<1>1. CASE ClearEvidence(p) \/ WipeEvidence(p) \/ ListRecords(p) \/ Crash(p)
  BY <1>1, ClearEvidenceEffect, WipeEvidenceEffect, ListRecordsEffect, CrashEffect
<1>2. CASE ReadSource(p) \/ Observe(p) \/ PutEvidence(p)
  BY <1>2, ReadSourceEffect, ObserveEffect, PutEvidenceEffect DEF MovesTo, Advanced, GaveUp
<1>3. CASE Recheck(p)
  BY <1>3, RecheckEffect DEF MovesTo, Advanced
<1>4. CASE CorrectEvidence(p) \/ StepThrows(p)
  BY <1>4, CorrectEvidenceEffect, StepThrowsEffect DEF Advanced, GaveUp
<1> QED
  BY <1>1, <1>2, <1>3, <1>4 DEF ProjectorActs

\* Every step is one of an add that begins, of a projector or of a mutation.
LEMMA StepIsOneOf ==
    ASSUME Next,
           NEW P,
           \A a \in Adds : SaveRecords(a) \/ RetryAdd(a) => P,
           \A p \in Projectors : ProjectorActs(p) => P,
           \A m \in Mutations, s \in Mutable[hints], kind \in Kinds,
              validTo \in Times \cup {Never} : MutateRecord(m, s, kind, validTo) => P,
           \A m \in Mutations : CleanEvidence(m) => P
    PROVE  P
BY DEF Next, ProjectorActs, Kinds

\* A purge is not forgotten.
LEMMA PurgeStays ==
    ASSUME ProjectionInv, Next, NEW s
    PROVE  PurgeOf(s) => PurgeOf(s)'
<1> USE InvParts
<1>1. ASSUME mutations' = mutations
      PROVE  PurgeOf(s) => PurgeOf(s)'
  BY <1>1 DEF PurgeOf, Purges
<1>2. ASSUME NEW a \in Adds, SaveRecords(a) \/ RetryAdd(a)
      PROVE  PurgeOf(s) => PurgeOf(s)'
  BY <1>1, <1>2, SaveRecordsEffect, RetryAddEffect
<1>3. ASSUME NEW p \in Projectors, ProjectorActs(p)
      PROVE  PurgeOf(s) => PurgeOf(s)'
  BY <1>1, <1>3, ProjectorActsEffect DEF RecordsStay
<1>4. ASSUME NEW m \in Mutations, OnlyMutation(m),
             Purges(m, s) => Purges(m, s)'
      PROVE  PurgeOf(s) => PurgeOf(s)'
  BY <1>4 DEF OnlyMutation, PurgeOf, Purges
<1>5. ASSUME NEW m \in Mutations, NEW t \in Mutable[hints], NEW kind \in Kinds,
             NEW validTo \in Times \cup {Never}, MutateRecord(m, t, kind, validTo)
      PROVE  PurgeOf(s) => PurgeOf(s)'
  BY <1>4, <1>5, MutateRecordEffect DEF Purges
<1>6. ASSUME NEW m \in Mutations, CleanEvidence(m)
      PROVE  PurgeOf(s) => PurgeOf(s)'
  BY <1>4, <1>6, CleanEvidenceEffect DEF Purges
<1> QED
  BY <1>2, <1>3, <1>5, <1>6, StepIsOneOf

\* Nothing that was created stands again but what was purged.
LEMMA GoneStays ==
    ASSUME ProjectionInv, Next, NEW s \in Sources, memories[s].status # "none"
    PROVE  ~Stands(s) => ~Stands(s)' \/ PurgeOf(s)
<1> USE InvParts
<1>1. ASSUME NEW a \in Adds, SaveRecords(a)
      PROVE  ~Stands(s) => ~Stands(s)'
  <2>1. s \notin ToSet(BatchOf[a])
    BY <1>1, SaveRecordsEffect DEF ProjectorsHold
  <2> QED
    BY <1>1, <2>1, SaveRecordsEffect, SameRecord
<1>2. ASSUME NEW a \in Adds, RetryAdd(a)
      PROVE  ~Stands(s) => ~Stands(s)' \/ PurgeOf(s)
  <2>1. CASE memories[s].status = "purged"
    BY <2>1 DEF GoneForGood
  <2>2. CASE memories[s].status # "purged"
    BY <1>2, <2>2, RetryAddEffect, SameRecord
  <2> QED
    BY <2>1, <2>2
<1>3. ASSUME NEW p \in Projectors, ProjectorActs(p)
      PROVE  ~Stands(s) => ~Stands(s)'
  BY <1>3, ProjectorActsEffect, SameRecord DEF RecordsStay
<1>4. ASSUME NEW m \in Mutations, NEW t \in Mutable[hints], NEW kind \in Kinds,
             NEW validTo \in Times \cup {Never}, MutateRecord(m, t, kind, validTo)
      PROVE  ~Stands(s) => ~Stands(s)'
  <2>0. /\ MutatedAs(t, kind, validTo) /\ OnlyRecord(t)
        /\ memories[t].status = "live" \/ (kind = "purge" /\ memories[t].status = "forgotten")
    BY <1>4, MutateRecordEffect
  <2>1. CASE s = t
    <3>1. memories'[s].status = "live" => memories[s].status = "live"
      BY <2>0, <2>1 DEF MutatedAs
    <3>2. memories'[s].hint => memories[s].hint
      BY <2>0, <2>1 DEF MutatedAs
    <3> QED
      BY <3>1, <3>2 DEF Stands
  <2>2. CASE s # t
    BY <2>0, <2>2, SameRecord DEF OnlyRecord
  <2> QED
    BY <2>1, <2>2
<1>5. ASSUME NEW m \in Mutations, CleanEvidence(m)
      PROVE  ~Stands(s) => ~Stands(s)'
  BY <1>5, CleanEvidenceEffect, SameRecord
<1> QED
  BY <1>1, <1>2, <1>3, <1>4, <1>5, StepIsOneOf

\* No step brings a record back unless it was purged.
LEMMA GoneStep ==
    ASSUME ProjectionInv, Next
    PROVE  GoneForGood'
<1> USE InvParts
<1> DEFINE Gone(s) == ~Stands(s) \/ PurgeOf(s)
<1>0. ASSUME NEW s \in Sources, memories[s].status # "none", Gone(s)
      PROVE  Gone(s)'
  BY <1>0, GoneStays, PurgeStays
<1>a. \A p \in Projectors : At(p, "remove") =>
        Subject(p) \in Sources /\ memories[Subject(p)].status # "none" /\ Gone(Subject(p))
  BY SubjectParts DEF At, AtWork, RecordsKnown, GoneForGood
<1>b. \A m \in Mutations : mutations[m].pc # "idle" =>
        /\ mutations[m].source \in Sources /\ memories[mutations[m].source].status # "none"
        /\ mutations[m].kind \in {"update", "delete"} => Gone(mutations[m].source)
  BY DEF RecordsKnown, GoneForGood
<1> HIDE DEF Gone
<1>1. ASSUME NEW s \in Sources, memories'[s].status = "purged"
      PROVE  PurgeOf(s)'
  <2>1. CASE memories[s].status = "purged"
    BY <2>1, PurgeStays DEF GoneForGood
  <2>2. CASE memories[s].status # "purged"
    <3>1. ASSUME NEW m \in Mutations, NEW t \in Mutable[hints], NEW kind \in Kinds,
                 NEW validTo \in Times \cup {Never}, MutateRecord(m, t, kind, validTo)
          PROVE  PurgeOf(s)'
      <4>0. /\ MutatedAs(t, kind, validTo) /\ OnlyRecord(t)
            /\ mutations'[m] = [pc |-> "clean", kind |-> kind, source |-> t, validTo |-> validTo]
        BY <3>1, MutateRecordEffect
      <4>1. s = t /\ kind = "purge"
        BY <1>1, <2>2, <4>0 DEF OnlyRecord, MutatedAs
      <4>2. Purges(m, s)'
        BY <4>0, <4>1 DEF Purges
      <4> QED
        BY <4>2 DEF PurgeOf
    <3>2. \A a \in Adds : ~(SaveRecords(a) \/ RetryAdd(a))
      BY <1>1, <2>2, SaveRecordsEffect, RetryAddEffect
    <3>3. \A p \in Projectors : ~ProjectorActs(p)
      BY <1>1, <2>2, ProjectorActsEffect DEF RecordsStay
    <3>4. \A m \in Mutations : ~CleanEvidence(m)
      BY <1>1, <2>2, CleanEvidenceEffect
    <3> QED
      BY <3>1, <3>2, <3>3, <3>4, StepIsOneOf
  <2> QED
    BY <2>1, <2>2
<1>2. ASSUME NEW n \in Mutations, mutations'[n].pc # "idle",
             mutations'[n].kind \in {"update", "delete"}, NEW s, s = mutations'[n].source
      PROVE  Gone(s)'
  <2>1. ASSUME mutations'[n] = mutations[n]
        PROVE  Gone(s)'
    BY <1>0, <1>2, <1>b, <2>1
  <2>2. ASSUME NEW a \in Adds, SaveRecords(a) \/ RetryAdd(a)
        PROVE  Gone(s)'
    BY <2>1, <2>2, SaveRecordsEffect, RetryAddEffect
  <2>3. ASSUME NEW p \in Projectors, ProjectorActs(p)
        PROVE  Gone(s)'
    BY <2>1, <2>3, ProjectorActsEffect DEF RecordsStay
  <2>4. ASSUME NEW m \in Mutations, NEW t \in Mutable[hints], NEW kind \in Kinds,
               NEW validTo \in Times \cup {Never}, MutateRecord(m, t, kind, validTo)
        PROVE  Gone(s)'
    <3>0. /\ MutatedAs(t, kind, validTo) /\ OnlyMutation(m)
          /\ mutations'[m] = [pc |-> "clean", kind |-> kind, source |-> t, validTo |-> validTo]
      BY <2>4, MutateRecordEffect
    <3>1. CASE n # m
      BY <2>1, <3>0, <3>1 DEF OnlyMutation
    <3>2. CASE n = m
      <4>1. s = t /\ kind \in {"update", "delete"}
        BY <1>2, <3>0, <3>2
      <4>2. ~Stands(t)'
        BY <3>0, <4>1 DEF MutatedAs, Stands
      <4> QED
        BY <4>1, <4>2 DEF Gone
    <3> QED
      BY <3>1, <3>2
  <2>5. ASSUME NEW m \in Mutations, CleanEvidence(m)
        PROVE  Gone(s)'
    <3>0. /\ OnlyMutation(m) /\ mutations[m].pc = "clean"
          /\ mutations'[m].kind = mutations[m].kind /\ mutations'[m].source = mutations[m].source
      BY <2>5, CleanEvidenceEffect
    <3>1. CASE n # m
      BY <2>1, <3>0, <3>1 DEF OnlyMutation
    <3>2. CASE n = m
      BY <1>0, <1>2, <1>b, <3>0, <3>2
    <3> QED
      BY <3>1, <3>2
  <2> QED
    BY <2>2, <2>3, <2>4, <2>5, StepIsOneOf
<1>3. ASSUME NEW q \in Projectors, projectors'[q].pc = "remove"
      PROVE  Gone(Subject(q))'
  <2>1. ASSUME projectors'[q] = projectors[q]
        PROVE  Gone(Subject(q))'
    <3>1. Subject(q)' = Subject(q) /\ At(q, "remove")
      BY <1>3, <2>1 DEF Subject, At
    <3> QED
      BY <1>0, <1>a, <3>1
  <2>2. ASSUME NEW a \in Adds, SaveRecords(a) \/ RetryAdd(a)
        PROVE  Gone(Subject(q))'
    BY <1>3, <2>1, <2>2, SaveRecordsEffect, RetryAddEffect DEF OnlyProjector
  <2>3. ASSUME NEW p \in Projectors, ProjectorActs(p)
        PROVE  Gone(Subject(q))'
    <3>1. CASE q # p
      BY <2>1, <2>3, <3>1, ProjectorActsEffect DEF OnlyProjector
    <3>2. CASE q = p
      <4>1. /\ At(p, "recheck") /\ ~StillCurrent(Subject(p)) /\ MovesTo(p, "remove")
            /\ memories' = memories
        BY <1>3, <2>3, <3>2, ProjectorActsEffect DEF RecordsStay
      <4>2. Subject(p) \in Sources /\ Subject(p)' = Subject(p)
        BY <4>1, SubjectParts, LeftParts DEF At, AtWork
      <4>3. ~Stands(Subject(p))'
        BY <4>1, <4>2, CurrentStands, SameRecord DEF Stands
      <4> QED
        BY <3>2, <4>3 DEF Gone
    <3> QED
      BY <3>1, <3>2
  <2>4. ASSUME NEW m \in Mutations, NEW t \in Mutable[hints], NEW kind \in Kinds,
               NEW validTo \in Times \cup {Never}, MutateRecord(m, t, kind, validTo)
        PROVE  Gone(Subject(q))'
    BY <2>1, <2>4, MutateRecordEffect
  <2>5. ASSUME NEW m \in Mutations, CleanEvidence(m)
        PROVE  Gone(Subject(q))'
    BY <2>1, <2>5, CleanEvidenceEffect
  <2> QED
    BY <2>2, <2>3, <2>4, <2>5, StepIsOneOf
<1>4. \A n \in Mutations :
        mutations'[n].pc # "idle" /\ mutations'[n].kind \in {"update", "delete"} =>
          (~Stands(mutations[n].source))' \/ PurgeOf(mutations[n].source)'
  <2>1. ASSUME NEW n \in Mutations, mutations'[n].pc # "idle",
               mutations'[n].kind \in {"update", "delete"}
        PROVE  (~Stands(mutations[n].source))' \/ PurgeOf(mutations[n].source)'
    <3>1. \A s : s = mutations'[n].source => Gone(s)'
      BY <1>2, <2>1
    <3> QED
      BY <3>1 DEF Gone, Stands, PurgeOf, Purges
  <2> QED
    BY <2>1
<1>5. \A q \in Projectors : At(q, "remove")' => ~Stands(Subject(q))' \/ PurgeOf(Subject(q))'
  BY <1>3 DEF Gone, At
<1> QED
  BY <1>1, <1>4, <1>5 DEF GoneForGood
-----------------------------------------------------------------------------
(* A row that was put is kept, or somebody answers for its loss.           *)

\* The projector does not change what rebuilds have to do.
LEMMA RebuildStays ==
    ASSUME NEW p \in Projectors, OnlyProjector(p), NEW s \in Sources
    PROVE  WillRebuild(s) =>
             \/ WillRebuild(s)'
             \/ /\ p \in Rebuilds
                /\ \/ projectors[p].pc \in {"list", "wipe", "failed", "crashed"}
                   \/ s \in Left(p)
<1>1. \A q \in Rebuilds : q # p => projectors'[q] = projectors[q] /\ Left(q)' = Left(q)
  BY DEF OnlyProjector, Projectors, Left
<1> QED
  BY <1>1 DEF WillRebuild

\* A rebuild that starts over or gives up answers for every row.
LEMMA RebuildAnswers ==
    ASSUME NEW p \in Rebuilds, NEW s \in Sources,
           projectors'[p].pc \in {"list", "wipe", "failed", "crashed"} \/ s \in Left(p)'
    PROVE  IsKept(s)'
BY DEF IsKept, WillRebuild

\* A row is kept if nothing about it changes but the projector.
LEMMA RowStays ==
    ASSUME ProjectionInv, Next, NEW p \in Projectors, OnlyProjector(p), NEW s \in Sources,
           memories'[s] = memories[s], evidence[s] # Absent => evidence'[s] # Absent,
           p \in Rebuilds =>
             /\ projectors[p].pc \notin {"list", "wipe", "failed", "crashed"}
             /\ s \in Left(p) => s \in Left(p)' \/ ~Stands(s) \/ evidence'[s] # Absent,
           IsKept(s)
    PROVE  IsKept(s)'
<1>1. PurgeOf(s) => PurgeOf(s)'
  BY PurgeStays
<1>2. Stands(s)' = Stands(s)
  BY SameRecord
<1>3. p \in Rebuilds /\ s \in Left(p)' => WillRebuild(s)'
  BY DEF WillRebuild
<1> QED
  BY <1>1, <1>2, <1>3, RebuildStays DEF IsKept

\* No step of a projector loses a row.
LEMMA ProjectorKeeps ==
    ASSUME ProjectionInv, Next, NEW p \in Projectors, ProjectorActs(p), NEW s \in Sources
    PROVE  /\ IsKept(s) => IsKept(s)'
           /\ p \in Adds /\ projectors'[p].pc \in AtWork \cup {"done"} =>
                /\ projectors[p].pc \in AtWork
                /\ s \in Left(p) => s \in Left(p)' \/ IsKept(s)'
<1> USE InvParts
<1>0. OnlyProjector(p) /\ memories' = memories /\ Stands(s)' = Stands(s)
  BY ProjectorActsEffect, SameRecord DEF RecordsStay
<1>1. CASE ClearEvidence(p) \/ WipeEvidence(p)
  <2>1. p \in Rebuilds /\ projectors'[p].pc \in {"list", "failed"}
    BY <1>1, ClearEvidenceEffect, WipeEvidenceEffect, AddsApart DEF ProjectorsHold, At
  <2> QED
    BY <2>1, RebuildAnswers, AddsApart
<1>2. CASE ListRecords(p)
  <2>1. /\ p \in Rebuilds /\ evidence' = evidence /\ ToSet(projectors'[p].todo) = HintedSources
        /\ projectors'[p].pc \in {"done", "read"}
    BY <1>2, ListRecordsEffect, AddsApart DEF ProjectorsHold, At
  <2>2. Stands(s) => s \in Left(p)'
    BY <2>1 DEF Stands, HintedSources, Left, PutAlready
  <2>3. IsKept(s)'
    BY <1>0, <2>1, <2>2 DEF IsKept, WillRebuild
  <2> QED
    BY <2>1, <2>3, AddsApart
<1>3. CASE ReadSource(p)
  <2>1. /\ projectors[p].pc = "read" /\ evidence' = evidence
        /\ \/ MovesTo(p, "observe")
           \/ ~Hinted(Subject(p)) /\ Advanced(p)
    BY <1>3, ReadSourceEffect DEF At
  <2>2. projectors[p].pc \in AtWork /\ "observe" \in AtWork
    BY <2>1 DEF AtWork
  <2>3. s \in Left(p) => s \in Left(p)' \/ ~Stands(s)
    <3>1. CASE MovesTo(p, "observe")
      BY <2>1, <2>2, <3>1, LeftParts DEF PutAlready
    <3>2. CASE ~Hinted(Subject(p)) /\ Advanced(p)
      BY <2>1, <2>2, <3>2, LeftParts DEF Stands, Hinted
    <3> QED
      BY <2>1, <3>1, <3>2
  <2>4. ~Stands(s) => IsKept(s)'
    BY <1>0 DEF IsKept
  <2>5. IsKept(s) => IsKept(s)'
    BY <1>0, <2>1, <2>3, RowStays
  <2> QED
    BY <2>2, <2>3, <2>4, <2>5
<1>4. CASE Observe(p)
  <2>1. /\ projectors[p].pc = "observe" /\ evidence' = evidence
        /\ MovesTo(p, "put") \/ GaveUp(p)
    BY <1>4, ObserveEffect DEF At
  <2>2. projectors[p].pc \in AtWork /\ "put" \in AtWork
    BY <2>1 DEF AtWork
  <2>3. CASE MovesTo(p, "put")
    <3>1. Left(p)' = Left(p)
      BY <2>1, <2>2, <2>3, LeftParts DEF PutAlready
    <3> QED
      BY <1>0, <2>1, <2>2, <3>1, RowStays
  <2>4. CASE GaveUp(p)
    <3>1. CASE p \in Rebuilds
      BY <2>4, <3>1, RebuildAnswers, AddsApart DEF GaveUp
    <3>2. CASE p \in Adds
      BY <1>0, <2>1, <2>4, <3>2, RowStays, AddsApart DEF GaveUp, AtWork
    <3> QED
      BY <3>1, <3>2, AddsApart
  <2> QED
    BY <2>1, <2>3, <2>4
<1>5. CASE PutEvidence(p)
  <2>1. /\ projectors[p].pc = "put" /\ MovesTo(p, "recheck")
        /\ evidence'[Subject(p)] # Absent
        /\ s # Subject(p) => evidence'[s] = evidence[s]
    BY <1>5, PutEvidenceEffect DEF At, OnlyRow
  <2>2. projectors[p].pc \in AtWork /\ "recheck" \in AtWork /\ Subject(p) \in Sources
    BY <2>1, SubjectParts DEF AtWork
  <2>3. CASE s = Subject(p)
    BY <2>1, <2>2, <2>3 DEF IsKept
  <2>4. CASE s # Subject(p)
    <3>1. s \in Left(p) => s \in Left(p)'
      <4>1. Left(p)' = ToSet(Tail(projectors[p].todo))
        BY <2>1, <2>2, LeftParts DEF PutAlready
      <4>2. ToSet(projectors[p].todo) = {Subject(p)} \cup ToSet(Tail(projectors[p].todo))
        BY <2>2, SubjectParts
      <4>3. Left(p) \subseteq ToSet(projectors[p].todo)
        BY <2>2, LeftParts
      <4> QED
        BY <2>4, <4>1, <4>2, <4>3
    <3> QED
      BY <1>0, <2>1, <2>2, <2>4, <3>1, RowStays
  <2> QED
    BY <2>3, <2>4
<1>6. CASE Recheck(p)
  <2>1. /\ projectors[p].pc = "recheck" /\ evidence' = evidence
        /\ MovesTo(p, "remove") \/ MovesTo(p, "invalidate") \/ Advanced(p)
    BY <1>6, RecheckEffect DEF At
  <2>2. projectors[p].pc \in AtWork /\ {"remove", "invalidate"} \subseteq AtWork
    BY <2>1 DEF AtWork
  <2>3. Left(p)' = Left(p)
    BY <2>1, <2>2, LeftParts DEF PutAlready
  <2> QED
    BY <1>0, <2>1, <2>2, <2>3, RowStays
<1>7. ASSUME At(p, "remove"), s = Subject(p), IsKept(s)
      PROVE  IsKept(s)'
  <2>1. ~Stands(s) \/ PurgeOf(s)
    BY <1>7 DEF GoneForGood
  <2> QED
    BY <1>0, <2>1, PurgeStays DEF IsKept
<1>8. CASE CorrectEvidence(p)
  <2>1. /\ projectors[p].pc \in {"remove", "invalidate"} /\ Advanced(p)
        /\ OnlyRow(Subject(p), IF At(p, "remove") THEN Absent
                               ELSE Shortened(Subject(p), projectors[p].seen))
    BY <1>8, CorrectEvidenceEffect
  <2>2. projectors[p].pc \in AtWork
    BY <2>1 DEF AtWork
  <2>3. Left(p)' = Left(p)
    BY <2>1, <2>2, LeftParts DEF PutAlready
  <2>4. Subject(p) \in Sources /\ projectors[p].seen \in Ends
    BY <2>2, SubjectParts, ProjectorTypes DEF Locals, Ends
  <2>5. evidence[s] # Absent => evidence'[s] # Absent \/ (At(p, "remove") /\ s = Subject(p))
    BY <2>1, <2>4, ShortenedEffect DEF OnlyRow
  <2>6. IsKept(s) => IsKept(s)'
    BY <1>0, <1>7, <2>1, <2>3, <2>5, RowStays
  <2> QED
    BY <2>2, <2>3, <2>6
<1>9. CASE StepThrows(p)
  <2>1. /\ projectors[p].pc \in AtWork /\ GaveUp(p)
        /\ evidence[s] # Absent => evidence'[s] # Absent \/ (At(p, "remove") /\ s = Subject(p))
    BY <1>9, StepThrowsEffect DEF OnlyRow
  <2>2. CASE p \in Rebuilds
    BY <2>1, <2>2, RebuildAnswers, AddsApart DEF GaveUp
  <2>3. CASE p \in Adds
    <3>1. IsKept(s) => IsKept(s)'
      BY <1>0, <1>7, <2>1, <2>3, RowStays, AddsApart
    <3> QED
      BY <2>1, <2>3, <3>1 DEF GaveUp, AtWork
  <2> QED
    BY <2>2, <2>3, AddsApart
<1>10. CASE Crash(p)
  <2>1. projectors'[p].pc = "crashed" /\ evidence' = evidence
    BY <1>10, CrashEffect
  <2>2. CASE p \in Rebuilds
    BY <2>1, <2>2, RebuildAnswers, AddsApart
  <2>3. CASE p \in Adds
    BY <1>0, <2>1, <2>3, RowStays, AddsApart DEF AtWork
  <2> QED
    BY <2>2, <2>3, AddsApart
<1> QED
  BY <1>1, <1>2, <1>3, <1>4, <1>5, <1>6, <1>8, <1>9, <1>10 DEF ProjectorActs

\* No step takes the row of a record that was created, and nobody answers for it.
LEMMA KeptStays ==
    ASSUME ProjectionInv, Next, NEW s \in Sources, memories[s].status # "none", IsKept(s)
    PROVE  IsKept(s)'
<1> USE InvParts
<1>1. PurgeOf(s) => PurgeOf(s)'
  BY PurgeStays
<1>2. Stands(s)' => Stands(s) \/ PurgeOf(s)
  BY GoneStays
<1>3. ASSUME NEW a \in Adds, SaveRecords(a) \/ RetryAdd(a)
      PROVE  IsKept(s)'
  <2>1. OnlyProjector(a) /\ evidence' = evidence /\ a \in Projectors /\ a \notin Rebuilds
    BY <1>3, SaveRecordsEffect, RetryAddEffect, AddsApart
  <2>2. WillRebuild(s) => WillRebuild(s)'
    BY <2>1, RebuildStays
  <2> QED
    BY <1>1, <1>2, <2>1, <2>2 DEF IsKept
<1>4. ASSUME projectors' = projectors
      PROVE  WillRebuild(s) => WillRebuild(s)'
  BY <1>4 DEF WillRebuild, Left
<1>5. ASSUME NEW m \in Mutations, NEW t \in Mutable[hints], NEW kind \in Kinds,
             NEW validTo \in Times \cup {Never}, MutateRecord(m, t, kind, validTo)
      PROVE  IsKept(s)'
  <2>1. projectors' = projectors /\ evidence' = evidence
    BY <1>5, MutateRecordEffect
  <2> QED
    BY <1>1, <1>2, <1>4, <2>1 DEF IsKept
<1>6. ASSUME NEW m \in Mutations, CleanEvidence(m)
      PROVE  IsKept(s)'
  <2>1. /\ projectors' = projectors /\ mutations[m].pc = "clean" /\ mutations[m].source \in Sources
        /\ \/ evidence' = evidence
           \/ OnlyRow(mutations[m].source,
                      IF mutations[m].kind = "invalidate"
                      THEN Shortened(mutations[m].source, mutations[m].validTo) ELSE Absent)
    BY <1>6, CleanEvidenceEffect
  <2>2. mutations[m].validTo \in Ends /\ mutations[m].kind \in Kinds
    BY DEF RestTypes, MutationLocals, Kinds
  <2>3. evidence[s] # Absent => \/ evidence'[s] # Absent
                                \/ s = mutations[m].source /\ mutations[m].kind # "invalidate"
    BY <2>1, <2>2, ShortenedEffect DEF OnlyRow
  <2>4. CASE s = mutations[m].source /\ mutations[m].kind # "invalidate"
    <3>1. ~Stands(s) \/ PurgeOf(s)
      BY <2>1, <2>2, <2>4 DEF GoneForGood, Kinds, PurgeOf, Purges
    <3> QED
      BY <1>1, <1>2, <3>1 DEF IsKept
  <2> QED
    BY <1>1, <1>2, <1>4, <2>1, <2>3, <2>4 DEF IsKept
<1> QED
  BY <1>3, <1>5, <1>6, ProjectorKeeps, StepIsOneOf

\* Every step keeps the rows.
LEMMA KeptStep ==
    ASSUME ProjectionInv, Next
    PROVE  RowsAreKept'
<1> USE InvParts
<1> SUFFICES ASSUME NEW a \in Adds, projectors'[a].pc \in AtWork \cup {"done"},
                    NEW s \in ToSet(BatchOf[a]), s \notin Left(a)'
             PROVE  IsKept(s)'
  BY DEF RowsAreKept
<1>0. s \in Sources /\ a \in Projectors
  BY AddsApart
<1>1. ASSUME projectors[a].pc \in AtWork \cup {"done"}, s \notin Left(a)
      PROVE  IsKept(s)'
  <2>1. memories[s].status # "none" /\ IsKept(s)
    BY <1>1 DEF RowsAreKept, ProjectorsHold, At, AtWork
  <2> QED
    BY <1>0, <2>1, KeptStays
<1>2. ASSUME projectors'[a] = projectors[a]
      PROVE  IsKept(s)'
  BY <1>1, <1>2 DEF Left
<1>3. ASSUME NEW b \in Adds, SaveRecords(b) \/ RetryAdd(b)
      PROVE  IsKept(s)'
  <2>1. /\ OnlyProjector(b) /\ projectors'[b].pc = "read" /\ projectors'[b].todo = BatchOf[b]
    BY <1>3, SaveRecordsEffect, RetryAddEffect
  <2>2. a # b
    BY <2>1 DEF Left, PutAlready
  <2> QED
    BY <1>0, <1>2, <2>1, <2>2 DEF OnlyProjector
<1>4. ASSUME NEW p \in Projectors, ProjectorActs(p)
      PROVE  IsKept(s)'
  <2>1. CASE p # a
    BY <1>0, <1>2, <1>4, <2>1, ProjectorActsEffect DEF OnlyProjector
  <2>2. CASE p = a
    BY <1>0, <1>1, <1>4, <2>2, ProjectorKeeps
  <2> QED
    BY <2>1, <2>2
<1>5. ASSUME NEW m \in Mutations, NEW t \in Mutable[hints], NEW kind \in Kinds,
             NEW validTo \in Times \cup {Never}, MutateRecord(m, t, kind, validTo)
      PROVE  IsKept(s)'
  BY <1>2, <1>5, MutateRecordEffect
<1>6. ASSUME NEW m \in Mutations, CleanEvidence(m)
      PROVE  IsKept(s)'
  BY <1>2, <1>6, CleanEvidenceEffect
<1> QED
  BY <1>3, <1>4, <1>5, <1>6, StepIsOneOf
-----------------------------------------------------------------------------
(* The theorems.                                                           *)

\* The invariant holds at first.
LEMMA InitHolds ==
    ASSUME Init
    PROVE  ProjectionInv
<1>2. projectors = [p \in Projectors |-> [pc |-> "idle", todo |-> << >>, seen |-> Never]]
  BY DEF Init
<1>3. /\ \A p \in Projectors : projectors[p].pc = "idle" /\ projectors[p].todo = << >>
      /\ \A p \in Projectors : Left(p) = {} /\ ToSet(projectors[p].todo) = {}
  BY <1>2, ToSetParts DEF Left, PutAlready
<1>4. \A s \in Sources : memories[s].status = "none" /\ evidence[s] = Absent
  BY DEF Init, NoRecord
<1>5. \A m \in Mutations : mutations[m].pc = "idle"
  BY DEF Init
<1>6. RestTypes
  <2>1. now = 0 /\ 0 \in Times /\ faults = 0 /\ 0 \in 0 .. MaxFaults /\ hints \in HintSets
    BY ProjectionAssumption DEF Init, Times
  <2>2. memories = [s \in Sources |-> NoRecord] /\ NoRecord \in Records
    BY <2>1 DEF Init, NoRecord, Records
  <2>3. evidence = [s \in Sources |-> Absent]
    BY DEF Init
  <2> DEFINE idle == [pc |-> "idle", kind |-> "update", source |-> Absent, validTo |-> Never]
  <2>4. mutations = [m \in Mutations |-> idle] /\ idle \in MutationLocals
    BY DEF Init, MutationLocals, Ends
  <2> HIDE DEF idle
  <2> QED
    BY <2>1, <2>2, <2>3, <2>4 DEF RestTypes
<1>7. ProjectorsHold
  <2> DEFINE idle == [pc |-> "idle", todo |-> << >>, seen |-> Never]
  <2>1. idle \in Locals
    BY DEF Locals
  <2>2. projectors \in [Projectors -> Locals]
    <3> HIDE DEF idle
    <3> QED
      BY <1>2, <2>1 DEF idle
  <2>3. \A a \in Adds : \A s \in ToSet(BatchOf[a]) : memories[s].status = "none"
    BY <1>4, AddsApart
  <2> QED
    BY <1>3, <2>2, <2>3, AddsApart DEF ProjectorsHold, Locals, At, AtWork
<1>8. RecordsKnown
  BY <1>3, <1>4, <1>5 DEF RecordsKnown
<1>9. RowsAreOwed
  BY <1>4 DEF RowsAreOwed, RowIsOwed
<1>10. GoneForGood
  BY <1>3, <1>4, <1>5 DEF GoneForGood, At
<1>11. RowsAreKept
  BY <1>3, AddsApart DEF RowsAreKept, AtWork
<1> QED
  BY <1>6, <1>7, <1>8, <1>9, <1>10, <1>11, TypeParts DEF ProjectionInv

\* It is about the variables of the model.
LEMMA StutterHolds ==
    ASSUME ProjectionInv, UNCHANGED vars
    PROVE  ProjectionInv'
<1>1. /\ TypeOK' /\ ProjectorsHold' /\ RecordsKnown'
  BY DEF ProjectionInv, vars, TypeOK, ProjectorsHold, RecordsKnown, At
<1>2. RowsAreOwed'
  BY DEF ProjectionInv, vars, RowsAreOwed, RowIsOwed, WillRemove, WillProject, WillShorten, Hinted,
         Stands, Owes, Subject, At, Left
<1>3. GoneForGood'
  BY DEF ProjectionInv, vars, GoneForGood, Stands, PurgeOf, Purges, At, Subject
<1>4. RowsAreKept'
  BY DEF ProjectionInv, vars, RowsAreKept, IsKept, Stands, PurgeOf, Purges, WillRebuild, Left
<1> QED
  BY <1>1, <1>2, <1>3, <1>4 DEF ProjectionInv

\* Every step keeps it.
LEMMA StepHolds ==
    ASSUME ProjectionInv, Next
    PROVE  ProjectionInv'
<1>1. RestTypes' /\ ProjectorsHold'
  BY TypesStep, ProjectorsStep
<1>2. TypeOK'
  <2>1. \A p \in Projectors :
          /\ projectors'[p].pc \in {"idle", "done", "failed", "crashed"} \cup Projecting
          /\ projectors'[p].seen \in Times \cup {Never}
          /\ projectors'[p].pc \in Projecting \ {"list", "wipe"} => projectors'[p].todo # << >>
    <3>1. Projecting \ {"list", "wipe"} = AtWork
      BY DEF Projecting, AtWork
    <3> QED
      BY <1>1, <3>1 DEF ProjectorsHold
  <2> QED
    BY <1>1, <2>1 DEF TypeOK, RestTypes, Records, Ends, MutationLocals
<1> QED
  BY <1>1, <1>2, RecordsStep, OwedStep, GoneStep, KeptStep DEF ProjectionInv, RowsAreOwed

\* Whatever dies, fails or overlaps: a row that should not be there, or should
\* end earlier, is one that a mutation or a projector has yet to look at, or
\* gave up on, and a row that was put is not lost without a trace.
THEOREM ProjectionInvariant == Spec => []ProjectionInv
<1>1. ProjectionInv /\ [Next]_vars => ProjectionInv'
  BY StepHolds, StutterHolds
<1> QED
  BY <1>1, InitHolds, PTL DEF Spec

\* Adds, rebuilds and mutations are where their types say.
THEOREM TypeCorrect == Spec => []TypeOK
BY ProjectionInvariant, PTL DEF ProjectionInv

\* Once all who changed a record or projected it are done, its row says only
\* what the record still says, and does not outlive it ("Canonical mutation is
\* authoritative").
THEOREM MutationsWin == Spec => []CanonicalMutationWins
<1>1. ASSUME ProjectionInv
      PROVE  CanonicalMutationWins
  <2> SUFFICES ASSUME NEW s \in Sources, Settled(s), evidence[s] # Absent
               PROVE  Stands(s) /\ evidence[s] <= memories[s].validTo
    BY DEF CanonicalMutationWins
  <2>1. RestTypes /\ ProjectorsHold /\ RecordsKnown /\ RowIsOwed(s)
    BY <1>1, InvParts DEF RowsAreOwed
  <2>2. \A m \in Mutations : ~Owes(m, s)
    BY DEF Settled, Owes
  <2>3. ASSUME NEW a \in Adds, s \in ToSet(BatchOf[a])
        PROVE  projectors[a].pc \in {"idle", "done"}
    BY <2>3 DEF Settled, At
  <2>4. ASSUME NEW p \in Projectors, projectors[p].pc \in PutAlready
        PROVE  Subject(p) # s
    <3>1. Subject(p) \in ToSet(projectors[p].todo)
      BY <2>1, <2>4, SubjectParts DEF PutAlready, AtWork
    <3>2. CASE p \in Adds
      BY <2>1, <2>3, <2>4, <3>1, <3>2 DEF ProjectorsHold, PutAlready
    <3>3. CASE p \in Rebuilds
      BY <2>4, <3>3 DEF Settled, PutAlready
    <3> QED
      BY <3>2, <3>3, AddsApart
  <2>5. ~WillRemove(s)
    BY <2>2, <2>3, <2>4 DEF WillRemove, Settled, PutAlready
  <2>6. ~WillProject(s)
    <3>1. ASSUME NEW a \in Adds, s \in Left(a)
          PROVE  FALSE
      <4>1. a \in Projectors /\ projectors[a].todo \in Seq(Sources)
        BY <2>1, AddsApart DEF ProjectorsHold
      <4>2. projectors[a].todo # << >>
        <5> SUFFICES ASSUME projectors[a].todo = << >>
                     PROVE  FALSE
          OBVIOUS
        <5>1. projectors[a].pc \notin PutAlready
          BY <2>1, <4>1 DEF ProjectorsHold, PutAlready, AtWork
        <5> QED
          BY <3>1, <5>1, ToSetParts DEF Left
      <4>3. projectors[a].pc \in AtWork
        BY <2>1, <4>1, <4>2 DEF ProjectorsHold
      <4>4. s \in ToSet(BatchOf[a])
        BY <2>1, <3>1, <4>1, <4>3, LeftParts DEF ProjectorsHold
      <4> QED
        BY <2>3, <4>3, <4>4 DEF AtWork
    <3> QED
      BY <3>1 DEF WillProject
  <2>7. ~WillShorten(s)
    BY <2>2, <2>4 DEF WillShorten, At, PutAlready
  <2>8. evidence[s] \in Ends /\ memories[s].validTo \in Ends
    BY <2>1 DEF RestTypes, Records, Ends
  <2> QED
    BY <2>1, <2>5, <2>6, <2>7, <2>8, EndsCompare DEF RowIsOwed
<1> QED
  BY <1>1, ProjectionInvariant, PTL

\* What an add reported as projected has its rows for as long as the record
\* stands and no rebuild is under way or failed.
THEOREM NothingGetsLost == Spec => []NothingIsLost
<1>1. ASSUME ProjectionInv
      PROVE  NothingIsLost
  <2> SUFFICES ASSUME NEW a \in Adds, At(a, "done"),
                      \A p \in Rebuilds : At(p, "idle") \/ At(p, "done"),
                      NEW s \in ToSet(BatchOf[a]), Stands(s)
               PROVE  \/ evidence[s] # Absent
                      \/ \E m \in Mutations : mutations[m].source = s /\ mutations[m].kind = "purge"
    BY DEF NothingIsLost
  <2>1. ProjectorsHold /\ RowsAreKept
    BY <1>1, InvParts
  <2>2. \A p \in Projectors : projectors[p].pc \in {"idle", "done"} => Left(p) = {}
    BY <2>1, ToSetParts DEF ProjectorsHold, Left, PutAlready, AtWork
  <2>3. s \notin Left(a) /\ projectors[a].pc = "done"
    BY <2>2, AddsApart DEF At
  <2>4. ~WillRebuild(s)
    BY <2>2 DEF WillRebuild, At, Projectors
  <2>5. IsKept(s)
    BY <2>1, <2>3 DEF RowsAreKept
  <2> QED
    BY <2>4, <2>5 DEF IsKept, PurgeOf, Purges
<1> QED
  BY <1>1, ProjectionInvariant, PTL

-----------------------------------------------------------------------------
(* What a winner rests on.  The library's induction theorems take an       *)
(* operator, so least counterexamples are used in their place.             *)

\* A set of numbers has a least one.
LEMMA LeastNumber ==
    ASSUME NEW N \in SUBSET Nat, N # {}
    PROVE  \E n \in N : \A m \in N : n <= m
<1>1. PICK n \in N : \A m \in N : <<m, n>> \notin OpToRel(<, Nat)
  BY NatLessThanWellFounded, WFMin
<1>2. \A m \in N : ~(m < n)
  BY <1>1 DEF OpToRel
<1> QED
  BY <1>2

\* A finite set of sets has one with the fewest elements.
LEMMA SmallestSet ==
    ASSUME NEW S, IsFiniteSet(S), NEW B \in SUBSET (SUBSET S), B # {}
    PROVE  \E T \in B : \A U \in B : Cardinality(T) <= Cardinality(U)
<1> DEFINE Sizes == {Cardinality(T) : T \in B}
<1>1. \A T \in B : Cardinality(T) \in Nat
  BY FS_Subset, FS_CardinalityType
<1>2. Sizes \in SUBSET Nat /\ Sizes # {}
  BY <1>1
<1>3. PICK n \in Sizes : \A m \in Sizes : n <= m
  <2> HIDE DEF Sizes
  <2> QED
    BY <1>2, LeastNumber
<1>4. PICK T \in B : n = Cardinality(T)
  BY <1>3
<1> QED
  BY <1>3, <1>4

\* One element fewer.
LEMMA OneFewer ==
    ASSUME NEW S, IsFiniteSet(S), NEW x \in S
    PROVE  /\ IsFiniteSet(S \ {x})
           /\ Cardinality(S \ {x}) \in Nat /\ Cardinality(S) \in Nat
           /\ Cardinality(S \ {x}) + 1 = Cardinality(S)
<1>1. IsFiniteSet(S \ {x}) /\ Cardinality(S \ {x}) = Cardinality(S) - 1
  BY FS_RemoveElement
<1>2. Cardinality(S \ {x}) \in Nat /\ Cardinality(S) \in Nat
  BY <1>1, FS_CardinalityType
<1> QED
  BY <1>1, <1>2

\* A finite set that is ordered has a first element.
LEMMA FirstOf ==
    ASSUME NEW S, IsFiniteSet(S), S # {}, NEW R,
           \A x, y \in S : <<x, y>> \in R \/ <<y, x>> \in R,
           \A x, y, z \in S : <<x, y>> \in R /\ <<y, z>> \in R => <<x, z>> \in R
    PROVE  \E x \in S : \A y \in S : <<x, y>> \in R
<1> DEFINE Has(T) == \E x \in T : \A y \in T : <<x, y>> \in R
           Bad == {T \in SUBSET S : T # {} /\ ~Has(T)}
<1> SUFFICES ASSUME Bad # {} PROVE FALSE
  OBVIOUS
<1>1. PICK T \in Bad : \A U \in Bad : Cardinality(T) <= Cardinality(U)
  <2> HIDE DEF Bad
  <2>1. Bad \in SUBSET (SUBSET S)
    BY DEF Bad
  <2> QED
    BY <2>1, SmallestSet
<1>2. T \in SUBSET S /\ T # {} /\ ~Has(T)
  BY <1>1
<1>3. PICK x \in T : TRUE
  BY <1>2
<1>4. IsFiniteSet(T)
  BY <1>2, FS_Subset
<1>5. T \ {x} \notin Bad
  <2>1. ~(Cardinality(T) <= Cardinality(T \ {x}))
    <3> HIDE DEF Bad
    <3>1. /\ Cardinality(T \ {x}) \in Nat /\ Cardinality(T) \in Nat
          /\ Cardinality(T \ {x}) + 1 = Cardinality(T)
      BY <1>3, <1>4, OneFewer
    <3> QED
      BY <3>1
  <2> HIDE DEF Bad
  <2> QED
    BY <1>1, <2>1
<1>6. <<x, x>> \in R
  BY <1>2, <1>3
<1>7. CASE T = {x}
  BY <1>2, <1>6, <1>7
<1>8. CASE T # {x}
  <2>1. T \ {x} # {} /\ T \ {x} \in SUBSET S
    <3> HIDE DEF Bad, Has
    <3> QED
      BY <1>2, <1>3, <1>8
  <2>2. PICK b \in T \ {x} : \A y \in T \ {x} : <<b, y>> \in R
    BY <1>5, <2>1
  <2>3. x \in S /\ b \in S
    BY <1>2, <1>3, <2>2
  <2>4. CASE <<b, x>> \in R
    BY <1>2, <2>2, <2>4
  <2>5. CASE <<x, b>> \in R
    <3>1. \A y \in T : <<x, y>> \in R
      BY <1>2, <1>6, <2>2, <2>3, <2>5
    <3> QED
      BY <1>2, <1>3, <3>1
  <2> QED
    BY <2>3, <2>4, <2>5
<1> QED
  BY <1>7, <1>8

\* Max is the greatest of a finite set of numbers.
LEMMA GreatestNumber ==
    ASSUME NEW N \in SUBSET Nat, IsFiniteSet(N), N # {}
    PROVE  Max(N) \in N
<1> DEFINE R == {p \in N \X N : p[1] >= p[2]}
<1>1. /\ \A x, y \in N : <<x, y>> \in R \/ <<y, x>> \in R
      /\ \A x, y, z \in N : <<x, y>> \in R /\ <<y, z>> \in R => <<x, z>> \in R
  OBVIOUS
<1>2. \E x \in N : \A y \in N : <<x, y>> \in R
  <2> HIDE DEF R
  <2> QED
    BY <1>1, FirstOf
<1> QED
  BY <1>2 DEF Max

-----------------------------------------------------------------------------
(* Scores are sums: the folds of candidateFromEvidence.                    *)

Pick(s) == CHOOSE x \in s : TRUE

SumStep(f, s) == IF s = {} THEN 0 ELSE Weight(Pick(s)) + f[s \ {Pick(s)}]

Sum(S) == CHOOSE f : f = [s \in SUBSET S |-> SumStep(f, s)]

\* f has the sums of the subsets of S that have at most n elements.
SumsUpTo(f, S, n) ==
    \A s \in SUBSET S : Cardinality(s) <= n => f[s] = SumStep(f, s)

\* The sum of weights is the value at S of a recursive function.
LEMMA SumIsSum ==
    ASSUME NEW S
    PROVE  MapThenSumSet(Weight, S) = Sum(S)[S]
BY DEF MapThenSumSet, MapThenFoldSet, Sum, SumStep, Pick

\* A sum is of all but one element, and that one.
LEMMA SumUnfolds ==
    ASSUME NEW S, IsFiniteSet(S)
    PROVE  \A s \in SUBSET S : Sum(S)[s] = SumStep(Sum(S), s)
<1>1. \A s \in SUBSET S : s # {} =>
        /\ Pick(s) \in s /\ s \ {Pick(s)} \in SUBSET S
        /\ Cardinality(s \ {Pick(s)}) \in Nat /\ Cardinality(s) \in Nat
        /\ Cardinality(s \ {Pick(s)}) + 1 = Cardinality(s)
  <2> SUFFICES ASSUME NEW s \in SUBSET S, s # {}
               PROVE  /\ Pick(s) \in s /\ s \ {Pick(s)} \in SUBSET S
                      /\ Cardinality(s \ {Pick(s)}) \in Nat /\ Cardinality(s) \in Nat
                      /\ Cardinality(s \ {Pick(s)}) + 1 = Cardinality(s)
    OBVIOUS
  <2>1. Pick(s) \in s /\ IsFiniteSet(s)
    BY FS_Subset DEF Pick
  <2> QED
    BY <2>1, OneFewer
<1>2. \A n \in Nat : \E f : SumsUpTo(f, S, n)
  <2> DEFINE Missing == {n \in Nat : \A f : ~SumsUpTo(f, S, n)}
  <2> SUFFICES ASSUME Missing # {} PROVE FALSE
    OBVIOUS
  <2>1. PICK n \in Missing : \A m \in Missing : n <= m
    <3>1. Missing \in SUBSET Nat
      OBVIOUS
    <3> HIDE DEF Missing
    <3> QED
      BY <3>1, LeastNumber
  <2>2. n \in Nat /\ \A f : ~SumsUpTo(f, S, n)
    BY <2>1
  <2>3. CASE n = 0
    <3>1. ASSUME NEW s \in SUBSET S, Cardinality(s) <= 0, s # {}
          PROVE  FALSE
      <4> HIDE DEF Missing
      <4>1. /\ Cardinality(s \ {Pick(s)}) \in Nat /\ Cardinality(s) \in Nat
            /\ Cardinality(s \ {Pick(s)}) + 1 = Cardinality(s)
        BY <1>1, <3>1
      <4> QED
        BY <3>1, <4>1
    <3>2. \A s \in SUBSET S : Cardinality(s) <= 0 =>
            [r \in SUBSET S |-> 0][s] = SumStep([r \in SUBSET S |-> 0], s)
      BY <3>1 DEF SumStep
    <3> QED
      BY <2>2, <2>3, <3>2 DEF SumsUpTo
  <2>4. CASE n # 0
    <3>1. n - 1 \in Nat /\ n - 1 \notin Missing
      BY <2>1, <2>2, <2>4
    <3>2. PICK g : SumsUpTo(g, S, n - 1)
      BY <3>1
    <3> DEFINE f == [s \in SUBSET S |-> SumStep(g, s)]
    <3>3. \A s \in SUBSET S : Cardinality(s) <= n - 1 => f[s] = g[s]
      BY <3>2 DEF SumsUpTo
    <3>4. ASSUME NEW s \in SUBSET S, Cardinality(s) <= n
          PROVE  f[s] = SumStep(f, s)
      <4>1. f[s] = SumStep(g, s)
        OBVIOUS
      <4>2. CASE s = {}
        BY <4>1, <4>2 DEF SumStep
      <4>3. CASE s # {}
        <5> DEFINE r == s \ {Pick(s)}
        <5>1. r \in SUBSET S /\ Cardinality(r) <= n - 1
          BY <1>1, <2>2, <3>4, <4>3
        <5>2. f[r] = g[r]
          BY <3>3, <5>1
        <5> HIDE DEF f
        <5> QED
          BY <4>1, <4>3, <5>2 DEF SumStep
      <4> QED
        BY <4>2, <4>3
    <3> HIDE DEF f
    <3> QED
      BY <2>2, <3>4 DEF SumsUpTo
  <2> QED
    BY <2>3, <2>4
<1>3. PICK f : SumsUpTo(f, S, Cardinality(S))
  BY <1>2, FS_CardinalityType
<1>4. \A s \in SUBSET S : f[s] = SumStep(f, s)
  <2>1. \A s \in SUBSET S : Cardinality(s) <= Cardinality(S)
    BY FS_Subset
  <2> QED
    BY <1>3, <2>1 DEF SumsUpTo
<1> DEFINE h == [s \in SUBSET S |-> f[s]]
<1>5. \A s \in SUBSET S : f[s] = SumStep(h, s)
  <2> SUFFICES ASSUME NEW s \in SUBSET S
               PROVE  f[s] = SumStep(h, s)
    OBVIOUS
  <2>1. s # {} => h[s \ {Pick(s)}] = f[s \ {Pick(s)}]
    BY <1>1
  <2> HIDE DEF h
  <2> QED
    BY <1>4, <2>1 DEF SumStep
<1>6. h = [s \in SUBSET S |-> SumStep(h, s)]
  <2>1. h = [s \in SUBSET S |-> f[s]]
    OBVIOUS
  <2> HIDE DEF h
  <2> QED
    BY <1>5, <2>1
<1>7. Sum(S) = [s \in SUBSET S |-> SumStep(Sum(S), s)]
  <2> HIDE DEF h
  <2> QED
    BY <1>6 DEF Sum
<1> QED
  BY <1>7

\* A sum of numbers is a number.
LEMMA SumIsNumber ==
    ASSUME NEW S, IsFiniteSet(S), \A e \in S : Weight(e) \in Nat
    PROVE  MapThenSumSet(Weight, S) \in Nat
<1> DEFINE Bad == {s \in SUBSET S : Sum(S)[s] \notin Nat}
<1>1. Bad = {}
  <2> SUFFICES ASSUME Bad # {} PROVE FALSE
    OBVIOUS
  <2>1. PICK s \in Bad : \A r \in Bad : Cardinality(s) <= Cardinality(r)
    <3>1. Bad \in SUBSET (SUBSET S)
      OBVIOUS
    <3> HIDE DEF Bad
    <3> QED
      BY <3>1, SmallestSet
  <2>2. s \in SUBSET S /\ Sum(S)[s] \notin Nat /\ IsFiniteSet(s)
    BY <2>1, FS_Subset
  <2>3. Sum(S)[s] = SumStep(Sum(S), s)
    BY <2>2, SumUnfolds
  <2>4. s # {} /\ Pick(s) \in s
    BY <2>2, <2>3 DEF SumStep, Pick
  <2>5. s \ {Pick(s)} \in SUBSET S /\ Weight(Pick(s)) \in Nat
    BY <2>2, <2>4
  <2>6. Sum(S)[s] = Weight(Pick(s)) + Sum(S)[s \ {Pick(s)}]
    BY <2>3, <2>4 DEF SumStep
  <2>7. s \ {Pick(s)} \in Bad
    BY <2>2, <2>5, <2>6
  <2>8. ~(Cardinality(s) <= Cardinality(s \ {Pick(s)}))
    <3>1. /\ Cardinality(s \ {Pick(s)}) \in Nat /\ Cardinality(s) \in Nat
          /\ Cardinality(s \ {Pick(s)}) + 1 = Cardinality(s)
      BY <2>2, <2>4, OneFewer
    <3> QED
      BY <3>1
  <2> HIDE DEF Bad
  <2> QED
    BY <2>1, <2>7, <2>8
<1>2. S \notin Bad
  BY <1>1
<1> QED
  BY <1>2, SumIsSum
-----------------------------------------------------------------------------
(* Candidates of a cluster, and the best of them.                          *)

\* Finitely many rows, with what is summed and compared.
IsEvidence(rows) ==
    IsFiniteSet(rows) /\ \A r \in rows : r.weight \in Nat /\ r.observedAt \in Nat

\* What a function makes of a finite set has no more elements.
LEMMA ImageIsFinite ==
    ASSUME NEW S, IsFiniteSet(S), NEW f, DOMAIN f = S
    PROVE  /\ IsFiniteSet({f[x] : x \in S})
           /\ Cardinality({f[x] : x \in S}) <= Cardinality(S)
<1> DEFINE T == {f[x] : x \in S}
           g == [x \in S |-> f[x]]
<1>1. g \in Surjection(S, T)
  BY DEF Surjection
<1> HIDE DEF g, T
<1>2. IsFiniteSet(T) /\ Cardinality(T) <= Cardinality(S)
  BY <1>1, FS_Surjection
<1> QED
  BY <1>2 DEF T

\* Independent pieces are as many as keys, and each has a row.
LEMMA IndependentParts ==
    ASSUME NEW C, IsFiniteSet(C)
    PROVE  /\ IsFiniteSet({r.key : r \in C})
           /\ IsFiniteSet(Independent(C))
           /\ Cardinality(Independent(C)) <= Cardinality({r.key : r \in C})
           /\ \A e \in Independent(C) : e # {} /\ e \subseteq C
<1> DEFINE K == {r.key : r \in C}
           f == [r \in C |-> r.key]
           g == [k \in K |-> {r \in C : r.key = k}]
<1>1. K = {f[r] : r \in C} /\ DOMAIN f = C
  OBVIOUS
<1>2. IsFiniteSet(K)
  <2> HIDE DEF f, K
  <2> QED
    BY <1>1, ImageIsFinite
<1>3. Independent(C) = {g[k] : k \in K} /\ DOMAIN g = K
  BY DEF Independent
<1>4. IsFiniteSet(Independent(C)) /\ Cardinality(Independent(C)) <= Cardinality(K)
  <2> HIDE DEF g, K
  <2> QED
    BY <1>2, <1>3, ImageIsFinite
<1>5. \A e \in Independent(C) : e # {} /\ e \subseteq C
  BY DEF Independent
<1> QED
  BY <1>2, <1>4, <1>5

\* The heaviest echo of a piece has a weight.
LEMMA WeightIsNumber ==
    ASSUME NEW C, IsEvidence(C), NEW e, e # {}, e \subseteq C
    PROVE  Weight(e) \in Nat
<1> DEFINE f == [r \in e |-> r.weight]
           N == {f[r] : r \in e}
<1>1. IsFiniteSet(e)
  BY FS_Subset DEF IsEvidence
<1>2. IsFiniteSet(N)
  <2>1. DOMAIN f = e
    OBVIOUS
  <2> HIDE DEF f
  <2> QED
    BY <1>1, <2>1, ImageIsFinite
<1>3. N \in SUBSET Nat /\ N # {}
  BY DEF IsEvidence
<1>4. {r.weight : r \in e} = N
  OBVIOUS
<1>5. Max(N) \in N
  <2> HIDE DEF N
  <2> QED
    BY <1>2, <1>3, GreatestNumber
<1> QED
  <2> HIDE DEF N
  <2> QED
    BY <1>3, <1>4, <1>5 DEF Weight

\* What counts for a value.
Counting(rows, t, v) == {r \in Counted(rows, t) : r.value = v}

\* It is rows of the cluster.
LEMMA CountedParts ==
    ASSUME NEW rows, NEW t, IsEvidence(rows), NEW v
    PROVE  IsEvidence(Counting(rows, t, v)) /\ Counting(rows, t, v) \subseteq rows
<1>1. Counting(rows, t, v) \subseteq rows
  BY DEF Counting, Counted
<1>2. IsFiniteSet(Counting(rows, t, v))
  BY <1>1, FS_Subset DEF IsEvidence
<1> QED
  BY <1>1, <1>2 DEF IsEvidence

\* What candidates are compared by are numbers.
LEMMA CandidateTypes ==
    ASSUME NEW rows, NEW t, IsEvidence(rows), NEW v \in {r.value : r \in rows}
    PROVE  /\ Candidate(rows, t, v).score \in Nat
           /\ Candidate(rows, t, v).evidenceCount \in Nat
           /\ Candidate(rows, t, v).firstObservedAt \in Nat
<1> DEFINE C == Counting(rows, t, v)
           N == {r.observedAt : r \in {r \in rows : r.value = v}}
<1>1. IsEvidence(C)
  BY CountedParts
<1> HIDE DEF C
<1>2. /\ IsFiniteSet(Independent(C))
      /\ \A e \in Independent(C) : e # {} /\ e \subseteq C
  BY <1>1, IndependentParts DEF IsEvidence
<1>3. MapThenSumSet(Weight, Independent(C)) \in Nat
  <2>1. \A e \in Independent(C) : Weight(e) \in Nat
    BY <1>1, <1>2, WeightIsNumber
  <2> QED
    BY <1>2, <2>1, SumIsNumber
<1>4. Cardinality(Independent(C)) \in Nat
  BY <1>2, FS_CardinalityType
<1>5. N \in SUBSET Nat /\ N # {}
  BY DEF IsEvidence
<1>6. Min(N) \in Nat
  <2> HIDE DEF N
  <2>1. \E n \in N : \A m \in N : n <= m
    BY <1>5, LeastNumber
  <2> QED
    BY <1>5, <2>1 DEF Min
<1>7. /\ Candidate(rows, t, v).score = MapThenSumSet(Weight, Independent(C))
      /\ Candidate(rows, t, v).evidenceCount = Cardinality(Independent(C))
      /\ Candidate(rows, t, v).firstObservedAt = Min(N)
  BY DEF Candidate, C, Counting
<1> QED
  BY <1>3, <1>4, <1>6, <1>7

\* compareCandidates orders the active candidates, so one of them is the best.
LEMMA BestIsActive ==
    ASSUME NEW rows, NEW t, IsEvidence(rows), ActiveCandidates(rows, t) # {}
    PROVE  Best(ActiveCandidates(rows, t)) \in ActiveCandidates(rows, t)
<1> DEFINE A == ActiveCandidates(rows, t)
           R == {p \in A \X A : Precedes(p[1], p[2])}
           V == {r.value : r \in rows}
           f == [r \in rows |-> r.value]
           g == [v \in V |-> Candidate(rows, t, v)]
<1>1. IsFiniteSet(V)
  <2>1. V = {f[r] : r \in rows} /\ DOMAIN f = rows
    OBVIOUS
  <2> HIDE DEF V, f
  <2> QED
    BY <2>1, ImageIsFinite DEF IsEvidence
<1>2. IsFiniteSet(A)
  <2>1. Candidates(rows, t) = {g[v] : v \in V} /\ DOMAIN g = V
    BY DEF Candidates
  <2>2. IsFiniteSet(Candidates(rows, t))
    <3> HIDE DEF V, g
    <3> QED
      BY <1>1, <2>1, ImageIsFinite
  <2>3. A \subseteq Candidates(rows, t)
    BY DEF ActiveCandidates
  <2> QED
    BY <2>2, <2>3, FS_Subset
<1>3. \A c \in A : c.score \in Nat /\ c.evidenceCount \in Nat /\ c.firstObservedAt \in Nat
  <2> SUFFICES ASSUME NEW c \in A
               PROVE  c.score \in Nat /\ c.evidenceCount \in Nat /\ c.firstObservedAt \in Nat
    OBVIOUS
  <2>1. PICK v \in V : c = Candidate(rows, t, v)
    BY DEF ActiveCandidates, Candidates
  <2> QED
    BY <2>1, CandidateTypes
<1>4. /\ \A c, d \in A : Precedes(c, d) \/ Precedes(d, c)
      /\ \A c, d, e \in A : Precedes(c, d) /\ Precedes(d, e) => Precedes(c, e)
  <2> HIDE DEF A
  <2> QED
    BY <1>3 DEF Precedes
<1>5. \E c \in A : \A d \in A : <<c, d>> \in R
  <2>1. /\ \A c, d \in A : <<c, d>> \in R \/ <<d, c>> \in R
        /\ \A c, d, e \in A : <<c, d>> \in R /\ <<d, e>> \in R => <<c, e>> \in R
    <3> HIDE DEF A
    <3> QED
      BY <1>4
  <2> HIDE DEF A, R
  <2>2. A # {}
    BY DEF A
  <2> QED
    BY <1>2, <2>1, <2>2, FirstOf
<1>6. \E c \in A : \A d \in A : Precedes(c, d)
  <2> HIDE DEF A
  <2> QED
    BY <1>5
<1> QED
  BY <1>6 DEF Best

\* The first echo of a piece is one of it.
LEMMA FirstContextIsOne ==
    ASSUME NEW C, IsEvidence(C), NEW e, e # {}, e \subseteq C
    PROVE  \E r \in e : FirstContext(e) = r.context
<1> DEFINE N == {r.observedAt : r \in e}
<1>1. N \in SUBSET Nat /\ N # {}
  BY DEF IsEvidence
<1>2. \E n \in N : \A m \in N : n <= m
  <2> HIDE DEF N
  <2> QED
    BY <1>1, LeastNumber
<1>3. \E r \in e : \A q \in e : r.observedAt <= q.observedAt
  BY <1>2
<1> QED
  BY <1>3 DEF FirstContext

\* A key that counts makes no other claim.
LEMMA CountedClaimsOne ==
    ASSUME NEW rows, NEW t, IsFiniteSet(rows), NEW r \in Counted(rows, t),
           NEW q \in rows, EvidenceActiveAt(q, t), q.key = r.key
    PROVE  q.value = r.value
<1> DEFINE S == Claims(rows, t, r.key)
           V == {s.value : s \in rows}
           f == [s \in rows |-> s.value]
<1>1. r \in rows /\ EvidenceActiveAt(r, t) /\ ~(Cardinality(S) > 1)
  BY DEF Counted, ConflictingEvidenceKeys
<1>2. r.value \in S /\ q.value \in S /\ S \subseteq V
  BY <1>1 DEF Claims
<1> HIDE DEF S
<1>3. IsFiniteSet(S)
  <2>1. V = {f[s] : s \in rows} /\ DOMAIN f = rows
    OBVIOUS
  <2> HIDE DEF V, f
  <2>2. IsFiniteSet(V)
    BY <2>1, ImageIsFinite
  <2> QED
    BY <1>2, <2>2, FS_Subset
<1>4. Cardinality(S) \in Nat /\ Cardinality(S) # 0
  BY <1>2, <1>3, FS_CardinalityType, FS_EmptySet
<1>5. Cardinality(S) = 1
  BY <1>1, <1>4
<1>6. PICK v : S = {v}
  BY <1>3, <1>5, FS_Singleton
<1> QED
  BY <1>2, <1>6

\* A winner is a candidate of the cluster that has what the policy asks for.
LEMMA WinnerParts ==
    ASSUME NEW rows, NEW t, IsEvidence(rows), ClusterWinner(rows, t) # NoWinner
    PROVE  LET v == ClusterWinner(rows, t).value
               C == Counting(rows, t, v)
           IN  /\ Cardinality(Independent(C)) >= MinimumEvidence
               /\ Cardinality({FirstContext(e) : e \in Independent(C)}) >= MinimumContexts
<1> DEFINE A == ActiveCandidates(rows, t)
<1>1. A # {} /\ MeetsPolicy(Best(A), A) /\ ClusterWinner(rows, t) = Best(A)
  BY DEF ClusterWinner
<1>2. Best(A) \in A
  BY <1>1, BestIsActive
<1> HIDE DEF A
<1>3. Best(A).evidenceCount >= MinimumEvidence /\ Best(A).contextCount >= MinimumContexts
  BY <1>1 DEF MeetsPolicy
<1>4. PICK v \in {r.value : r \in rows} : Best(A) = Candidate(rows, t, v)
  BY <1>2 DEF A, ActiveCandidates, Candidates
<1> DEFINE C == Counting(rows, t, v)
<1>5. /\ Candidate(rows, t, v).value = v
      /\ Candidate(rows, t, v).evidenceCount = Cardinality(Independent(C))
      /\ Candidate(rows, t, v).contextCount =
           Cardinality({FirstContext(e) : e \in Independent(C)})
  BY DEF Candidate, Counting
<1> QED
  BY <1>1, <1>3, <1>4, <1>5

\* What holds of few holds of more.
LEMMA MoreHaveMore ==
    ASSUME NEW S, NEW T, IsFiniteSet(T), S \subseteq T, NEW n \in Nat, Cardinality(S) >= n
    PROVE  Cardinality(T) >= n
<1>1. IsFiniteSet(S) /\ Cardinality(S) <= Cardinality(T)
  BY FS_Subset
<1> QED
  BY <1>1, FS_CardinalityType

\* The rows of the slot are finitely many, with weights and times.
LEMMA SlotIsEvidence ==
    ASSUME TypeOK, NEW a
    PROVE  IsEvidence(Cluster(ListSlot, a))
<1> DEFINE f == [s \in Sources |-> Row(s, evidence[s])]
           F == {f[s] : s \in Sources}
<1>1. IsFiniteSet(F)
  <2>1. DOMAIN f = Sources
    OBVIOUS
  <2> HIDE DEF f
  <2> QED
    BY <2>1, ImageIsFinite, ProjectionAssumption
<1>2. Cluster(ListSlot, a) \subseteq F
  BY DEF Cluster, ListSlot
<1>3. IsFiniteSet(Cluster(ListSlot, a))
  <2> HIDE DEF F
  <2> QED
    BY <1>1, <1>2, FS_Subset
<1>4. \A r \in Cluster(ListSlot, a) : r.weight \in Nat /\ r.observedAt \in Nat
  <2> SUFFICES ASSUME NEW r \in Cluster(ListSlot, a)
               PROVE  r.weight \in Nat /\ r.observedAt \in Nat
    OBVIOUS
  <2>1. PICK s \in Sources : r = Row(s, evidence[s])
    BY DEF Cluster, ListSlot
  <2>2. r.weight = hints[s].weight /\ r.observedAt = memories[s].createdAt
    BY <2>1 DEF Row
  <2>3. memories[s].createdAt \in Nat
    BY ProjectionAssumption DEF TypeOK, Times
  <2>4. hints[s].weight \in Nat
    BY ProjectionAssumption DEF TypeOK
  <2> QED
    BY <2>2, <2>3, <2>4
<1> QED
  BY <1>3, <1>4 DEF IsEvidence

\* The keys and contexts that count for the winner are those of records that
\* stand and hold its value.
LEMMA WinnerIsBacked == TypeOK /\ CanonicalMutationWins => WinnerIsEarned
<1> SUFFICES ASSUME TypeOK, CanonicalMutationWins, \A s \in Sources : Settled(s),
                    NEW a \in Applicabilities, NEW t \in Times,
                    ClusterWinner(Cluster(ListSlot, a), t) # NoWinner
             PROVE  LET v == ClusterWinner(Cluster(ListSlot, a), t).value
                        backing == {s \in Supporters(a, v, t) : hints[s].key \notin Disputed(a, v, t)}
                    IN  /\ Cardinality({hints[s].key : s \in backing}) >= MinimumEvidence
                        /\ Cardinality({hints[s].context : s \in backing}) >= MinimumContexts
  BY DEF WinnerIsEarned
<1> DEFINE rows == Cluster(ListSlot, a)
           v == ClusterWinner(rows, t).value
           C == Counting(rows, t, v)
           backing == {s \in Supporters(a, v, t) : hints[s].key \notin Disputed(a, v, t)}
           keys == {hints[s].key : s \in backing}
           contexts == {hints[s].context : s \in backing}
<1>1. IsEvidence(rows)
  BY SlotIsEvidence
<1>2. /\ Cardinality(Independent(C)) >= MinimumEvidence
      /\ Cardinality({FirstContext(e) : e \in Independent(C)}) >= MinimumContexts
  <2> HIDE DEF rows
  <2> QED
    BY <1>1, WinnerParts DEF rows
<1>3. ASSUME NEW r \in C
      PROVE  \E s \in backing : r.key = hints[s].key /\ r.context = hints[s].context
  <2>1. /\ r \in Counted(rows, t) /\ r.value = v
        /\ r \in rows /\ EvidenceActiveAt(r, t)
    <3> HIDE DEF v, rows
    <3> QED
      BY DEF C, Counting, Counted
  <2>2. PICK s \in Sources : evidence[s] # Absent /\ r = Row(s, evidence[s])
    BY <2>1 DEF Cluster, ListSlot
  <2> HIDE DEF v
  <2>3. Stands(s) /\ evidence[s] <= memories[s].validTo
    BY <2>2 DEF CanonicalMutationWins
  <2>4. ValidFrom(s) <= t /\ t < memories[s].validTo
    <3>1. ValidFrom(s) <= t /\ t < evidence[s]
      BY <2>1, <2>2 DEF EvidenceActiveAt, Row
    <3>2. evidence[s] \in Int /\ memories[s].validTo \in Int /\ t \in Int
      BY <2>2, ProjectionAssumption DEF TypeOK, Times, Never, Absent
    <3> QED
      BY <2>3, <3>1, <3>2
  <2>5. hints[s].applicability = a /\ hints[s].value = v
    BY <2>1, <2>2 DEF Cluster, Row
  <2>6. s \in Supporters(a, v, t)
    BY <2>3, <2>4, <2>5 DEF Supporters
  <2>7. hints[s].key \notin Disputed(a, v, t)
    <3> SUFFICES ASSUME hints[s].key \in Disputed(a, v, t) PROVE FALSE
      OBVIOUS
    <3>1. PICK q \in rows : q.value # v /\ EvidenceActiveAt(q, t) /\ q.key = hints[s].key
      BY DEF Disputed
    <3>2. q.key = r.key
      BY <2>2, <3>1 DEF Row
    <3> HIDE DEF rows
    <3> QED
      BY <1>1, <2>1, <3>1, <3>2, CountedClaimsOne DEF IsEvidence
  <2> QED
    BY <2>2, <2>6, <2>7 DEF Row
<1>4. IsFiniteSet(backing)
  <2>1. backing \subseteq Sources
    BY DEF Supporters
  <2> HIDE DEF backing
  <2> QED
    BY <2>1, FS_Subset, ProjectionAssumption
<1>5. IsFiniteSet(keys) /\ IsFiniteSet(contexts)
  <2> DEFINE f == [s \in backing |-> hints[s].key]
             g == [s \in backing |-> hints[s].context]
  <2>1. /\ keys = {f[s] : s \in backing} /\ DOMAIN f = backing
        /\ contexts = {g[s] : s \in backing} /\ DOMAIN g = backing
    <3> HIDE DEF backing
    <3> QED
      OBVIOUS
  <2> HIDE DEF backing, f, g, keys, contexts
  <2> QED
    BY <1>4, <2>1, ImageIsFinite
<1>6. IsEvidence(C)
  <2> HIDE DEF rows, v
  <2> QED
    BY <1>1, CountedParts
<1>7. {r.key : r \in C} \subseteq keys
  <2> HIDE DEF C, backing
  <2> QED
    BY <1>3
<1>8. {FirstContext(e) : e \in Independent(C)} \subseteq contexts
  <2> HIDE DEF C, backing
  <2> SUFFICES ASSUME NEW e \in Independent(C)
               PROVE  FirstContext(e) \in contexts
    OBVIOUS
  <2>1. e # {} /\ e \subseteq C
    BY <1>6, IndependentParts DEF IsEvidence
  <2>2. PICK r \in e : FirstContext(e) = r.context
    BY <1>6, <2>1, FirstContextIsOne
  <2> QED
    BY <1>3, <2>1, <2>2
<1>9. Cardinality({r.key : r \in C}) >= MinimumEvidence
  <2> HIDE DEF C
  <2>1. /\ IsFiniteSet({r.key : r \in C}) /\ IsFiniteSet(Independent(C))
        /\ Cardinality(Independent(C)) <= Cardinality({r.key : r \in C})
    BY <1>6, IndependentParts DEF IsEvidence
  <2>2. Cardinality(Independent(C)) \in Nat /\ Cardinality({r.key : r \in C}) \in Nat
    BY <2>1, FS_CardinalityType
  <2> QED
    BY <1>2, <2>1, <2>2, PolicyAssumption
<1> HIDE DEF C, keys, contexts
<1>10. Cardinality(keys) >= MinimumEvidence /\ Cardinality(contexts) >= MinimumContexts
  BY <1>2, <1>5, <1>7, <1>8, <1>9, MoreHaveMore, PolicyAssumption
<1> QED
  BY <1>10 DEF keys, contexts

\* A supported value is backed by as many independent keys and contexts as the
\* policy asks for, of records that stand and hold it, once everybody who
\* changed or projected a record is done.
THEOREM WinnersAreEarned == Spec => []WinnerIsEarned
<1>1. TypeOK /\ CanonicalMutationWins => WinnerIsEarned
  BY WinnerIsBacked
<1> QED
  BY <1>1, TypeCorrect, MutationsWin, PTL
============================================================================
