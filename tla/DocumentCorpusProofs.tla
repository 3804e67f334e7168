------------------------- MODULE DocumentCorpusProofs -------------------------
(***************************************************************************)
(* Proofs about DocumentCorpus, for any versions, batches, keys and calls: *)
(* what holds however calls overlap, and what holds of calls that do not,  *)
(* if a key is retried before another key is used.                         *)
(***************************************************************************)
EXTENDS DocumentCorpus, TLAPS

Trying == InTry \cup {"fail"}
OpOf(c) == docOps[DocKeyOf[c]]

\* The head names a stored version.
HeadIsStored == head # NoHead => head.version \in Versions /\ Stored(head.version)

\* Who is between claim and outcome runs the pending operation of its key, alone.
OpsInHand ==
    /\ \A c \in DocCalls : docCalls[c].pc \in Trying =>
         /\ OpOf(c).status = "pending"
         /\ \A d \in DocCalls : DocKeyOf[d] = DocKeyOf[c] /\ docCalls[d].pc \in Trying => d = c

\* An operation that was claimed has a time, and one that was not has nothing.
OpsBegun ==
    /\ docNow # 0
    /\ \A k \in DocKeys :
         /\ docOps[k].status # "none" => docOps[k].at # 0
         /\ docOps[k].status = "none" => docOps[k].at = 0 /\ ~docOps[k].plan.made
         /\ ~docOps[k].plan.made => docOps[k].plan.documents = {}
         /\ docOps[k].status = "committed" => docOps[k].plan.made
         /\ commands[k].kind = "rebuild" => docOps[k].status = "none"
    /\ \A c \in DocCalls : docCalls[c].pc = "claim" => docCalls[c].at # 0

\* Each kind of command has its steps, and all but the first follow a plan.
Apart(c) ==
    /\ docCalls[c].pc \in IngestSteps \ {"complete"} => DocKind(c) = "ingest"
    /\ docCalls[c].pc \in DeleteSteps \ {"complete"} => DocKind(c) = "delete"
    /\ docCalls[c].pc \in RebuildSteps <=>
         DocKind(c) = "rebuild" /\ docCalls[c].pc \in DocRunning
    /\ docCalls[c].pc \in InTry \ {"head", "current", "plan", "freeze"} => PlanOf(c).made
    /\ docCalls[c].pc \in {"head", "current", "plan", "freeze"} => ~PlanOf(c).made
    /\ docCalls[c].pc \in {"original", "verify", "commit"} => docCalls[c].rowAt # 0
    /\ docCalls[c].pc \notin {"project", "reproject", "fail"} => docCalls[c].batch = 1

StepsApart == \A c \in DocCalls : Apart(c)

AnyInv == DocTypeOK /\ HeadIsStored /\ OpsInHand /\ OpsBegun /\ StepsApart

-----------------------------------------------------------------------------
(* Calls that do not overlap.                                              *)

OneAtATime ==
    \A c, d \in DocCalls :
        docCalls[c].pc \in DocRunning /\ docCalls[d].pc \in DocRunning => c = d

\* Who runs has the key used last.  Who is about to claim an operation has the
\* newest time, and another key only for an operation that is new or over.
LatestCalls ==
    \A c \in DocCalls :
        /\ docCalls[c].pc \in Trying \cup RebuildSteps => latest = DocKeyOf[c]
        /\ docCalls[c].pc = "claim" =>
             /\ docCalls[c].at = docNow
             /\ latest = DocKeyOf[c] \/ OpOf(c).status \in {"none", "committed"}

\* The key used last has the newest operation.
LatestOps ==
    /\ \A k \in DocKeys : docOps[k].at <= docNow
    /\ head.at <= docNow
    /\ latest \in DocKeys /\ docOps[latest].status # "none" =>
         /\ \A k \in DocKeys : docOps[k].at <= docOps[latest].at
         /\ head.at <= docOps[latest].at

\* The head is still what an ingest read, until it has its plan.
ReadsStand ==
    \A c \in DocCalls :
        docCalls[c].pc \in {"current", "plan"} => docCalls[c].current = head.version

\* A stored version has its original, put before its row.
OriginalsKept ==
    /\ \A v \in Versions : Stored(v) => v \in originals
    /\ \A c \in DocCalls :
         docCalls[c].pc \in {"verify", "commit"} => VersionOf(c) \in originals

NoneStored == \A v \in Versions : ~Stored(v)

\* A delete froze what was stored, and removes all of it or nothing.
DeletePlans ==
    \A k \in DocKeys : commands[k].kind = "delete" /\ latest = k /\ docOps[k].plan.made =>
        /\ commands[k].version \in docOps[k].plan.documents
        /\ NoneStored \/ \A v \in Versions : Stored(v) <=> v \in docOps[k].plan.documents
        /\ docOps[k].status = "committed" => NoneStored

\* It removes rows, originals and chunks in this order.
DeleteCalls ==
    \A c \in DocCalls :
        /\ docCalls[c].pc = "purge" => \A v \in Versions : Stored(v) <=> v \in docCalls[c].rows
        /\ \/ docCalls[c].pc \in {"erase", "forget"}
           \/ docCalls[c].pc = "complete" /\ DocKind(c) = "delete"
           => NoneStored
        /\ \/ docCalls[c].pc = "forget"
           \/ docCalls[c].pc = "complete" /\ DocKind(c) = "delete"
           => originals \cap FrozenVersions(c) = {}
        /\ docCalls[c].pc = "complete" /\ DocKind(c) = "delete" =>
             \A chunk \in chunkIndex : chunk[1] \notin FrozenVersions(c)

\* Chunks that have no row are owed by a delete.
LeftChunks ==
    /\ \A chunk \in chunkIndex : Stored(chunk[1]) \/ DeleteOwes(chunk[1])
    /\ \A c \in DocCalls : docCalls[c].pc = "reproject" => Stored(VersionOf(c))

\* Originals that have no row are owed by a delete, or an ingest.
LeftOriginals == \A v \in originals : Stored(v) \/ DeleteOwes(v) \/ IngestOwes(v)

Indexed(v) == ChunksOf(v) \subseteq chunkIndex

\* An ingest that committed its version made it current, then indexes it.
InOrder(c) ==
    /\ \/ docCalls[c].pc \in {"project", "clean"}
       \/ docCalls[c].pc = "complete" /\ DocKind(c) = "ingest"
       => head = [version |-> VersionOf(c), at |-> OpOf(c).at]
    /\ docCalls[c].pc \in {"project", "clean"} => PlanOf(c).created
    /\ docCalls[c].pc = "project" =>
         \A i \in 1..Batches : i < docCalls[c].batch => <<VersionOf(c), i>> \in chunkIndex
    /\ \/ docCalls[c].pc = "clean"
       \/ docCalls[c].pc = "complete" /\ DocKind(c) = "ingest" /\ PlanOf(c).created
       => Indexed(VersionOf(c))

IngestsInOrder == \A c \in DocCalls : InOrder(c)

\* Chunks that the current version lacks are owed by an ingest of it, and by
\* another one than the last if the last has nothing to index.
GapIsOwed ==
    head # NoHead /\ ~Indexed(head.version) =>
        /\ IngestOwes(head.version)
        /\ \A k \in DocKeys :
             /\ commands[k].kind = "ingest" /\ latest = k /\ Unfinished(k)
             /\ ~docOps[k].plan.made \/ ~docOps[k].plan.created
             => \E j \in DocKeys \ {k} : IngestOf(j, head.version) /\ Unfinished(j)

\* An ingest that has nothing to index found its version current.
UnmovedIsCurrent ==
    \A k \in DocKeys :
        /\ commands[k].kind = "ingest" /\ latest = k /\ Unfinished(k)
        /\ docOps[k].plan.made /\ ~docOps[k].plan.created
        => head.version = commands[k].version

\* An ingest that is newer than all other operations, and committed, is the head.
NewestHolds ==
    \A k \in DocKeys :
        /\ commands[k].kind = "ingest" /\ docOps[k].status = "committed"
        /\ \A j \in DocKeys \ {k} : docOps[j].at < docOps[k].at
        => head = [version |-> commands[k].version, at |-> docOps[k].at]

SerialInv ==
    docSerial =>
        /\ OneAtATime /\ LatestCalls /\ LatestOps /\ OriginalsKept /\ DeletePlans /\ DeleteCalls
        /\ LeftChunks /\ LeftOriginals /\ IngestsInOrder /\ GapIsOwed
        /\ UnmovedIsCurrent /\ NewestHolds /\ ReadsStand
-----------------------------------------------------------------------------
(* What each action does to its caller, its operation and the corpus.      *)

\* Nothing but the caller and its operation changes.
OthersKept(c) ==
    /\ docSerial' = docSerial /\ commands' = commands
    /\ \A d \in DocCalls \ {c} : docCalls'[d] = docCalls[d]
    /\ \A k \in DocKeys \ {DocKeyOf[c]} : docOps'[k] = docOps[k]

TimeKept == docNow' = docNow /\ latest' = latest
OpsKept == docOps' = docOps
CorpusKept == docs' = docs /\ head' = head /\ originals' = originals /\ chunkIndex' = chunkIndex

\* The caller moves to a step.
Moves(c, pc) ==
    /\ docCalls'[c].pc = pc
    /\ docCalls'[c].at = docCalls[c].at
    /\ docCalls'[c].rowAt = docCalls[c].rowAt
    /\ docCalls'[c].batch = docCalls[c].batch
    /\ docCalls'[c].rows = docCalls[c].rows

\* The caller returns.
Returns(c, pc) ==
    /\ docCalls'[c].pc = pc
    /\ docCalls'[c].at = 0 /\ docCalls'[c].rowAt = 0
    /\ docCalls'[c].batch = 1 /\ docCalls'[c].rows = {}

\* The operation is settled, or claimed.
OpIs(c, status) ==
    /\ docOps'[DocKeyOf[c]].status = status
    /\ docOps'[DocKeyOf[c]].at = OpOf(c).at
    /\ docOps'[DocKeyOf[c]].plan = OpOf(c).plan

\* A call arrives.
LEMMA ArriveDocEffect ==
    ASSUME DocTypeOK, NEW c \in DocCalls, ArriveDoc(c)
    PROVE  /\ docCalls[c].pc = "idle" /\ MayCall(c) /\ OthersKept(c) /\ OpsKept /\ CorpusKept
           /\ docNow' \in {docNow, docNow + 1}
           /\ docCalls'[c].at = docNow'
           /\ docCalls'[c].rowAt = docCalls[c].rowAt
           /\ docCalls'[c].batch = docCalls[c].batch
           /\ docCalls'[c].rows = docCalls[c].rows
           /\ DocKind(c) = "rebuild" => docCalls'[c].pc = "read" /\ latest' = DocKeyOf[c]
           /\ DocKind(c) # "rebuild" => docCalls'[c].pc = "claim" /\ latest' = latest
  BY CorpusAssumption
     DEF ArriveDoc, DocTypeOK, corpus, OthersKept, OpsKept, CorpusKept, DocAt, DocPlans

\* A claim that takes the operation on: a new one, or one that failed or that
\* nobody is at work on.
Claims(c) ==
    /\ latest' = DocKeyOf[c]
    /\ Moves(c, IF DocKind(c) = "ingest" THEN IF OpOf(c).plan.made THEN "load" ELSE "head"
                 ELSE IF OpOf(c).plan.made THEN "address" ELSE "freeze")
    /\ docOps'[DocKeyOf[c]].status = "pending"
    /\ docOps'[DocKeyOf[c]].plan = OpOf(c).plan
    /\ docOps'[DocKeyOf[c]].vector = OpOf(c).vector
    /\ \/ /\ OpOf(c).status = "none"
          /\ docOps'[DocKeyOf[c]].at = docCalls[c].at
       \/ /\ OpOf(c).status \in {"failed", "pending"}
          /\ OpOf(c).status = "pending" => ~InHand(DocKeyOf[c])
          /\ docOps'[DocKeyOf[c]].at = OpOf(c).at

\* The try block begins where the plan leaves it.
LEMMA ResumeEffect ==
    ASSUME DocTypeOK, NEW c \in DocCalls, NEW plan, Resume(c, plan),
           DocKind(c) # "rebuild", plan.made = OpOf(c).plan.made
    PROVE  /\ latest' = DocKeyOf[c]
           /\ \A d \in DocCalls \ {c} : docCalls'[d] = docCalls[d]
           /\ Moves(c, IF DocKind(c) = "ingest" THEN IF OpOf(c).plan.made THEN "load" ELSE "head"
                        ELSE IF OpOf(c).plan.made THEN "address" ELSE "freeze")
  <1>1. DocKind(c) \in {"ingest", "delete"}
    BY CorpusAssumption DEF DocKind, DocTypeOK, DocKinds
  <1>2. OpOf(c).plan.made \in BOOLEAN
    BY CorpusAssumption DEF DocTypeOK, DocPlans, OpOf
  <1>3. CASE OpOf(c).plan.made
    <2>1. CASE DocKind(c) = "ingest"
      BY <1>1, <1>2, <1>3, <2>1 DEF Resume, DocTypeOK, Moves, DocGoto
    <2>2. CASE DocKind(c) = "delete"
      BY <1>1, <1>2, <1>3, <2>2 DEF Resume, DocTypeOK, Moves, DocGoto
    <2> QED
      BY <1>1, <2>1, <2>2
  <1>4. CASE ~OpOf(c).plan.made
    <2>1. CASE DocKind(c) = "ingest"
      BY <1>1, <1>2, <1>4, <2>1 DEF Resume, DocTypeOK, Moves, DocGoto
    <2>2. CASE DocKind(c) = "delete"
      BY <1>1, <1>2, <1>4, <2>2 DEF Resume, DocTypeOK, Moves, DocGoto
    <2> QED
      BY <1>1, <2>1, <2>2
  <1> QED
    BY <1>2, <1>3, <1>4

\* The call takes the operation on, or returns.
LEMMA ClaimDocEffect ==
    ASSUME DocTypeOK, NEW c \in DocCalls, ClaimDoc(c), DocKind(c) # "rebuild",
           OpOf(c).status = "none" => ~OpOf(c).plan.made
    PROVE  /\ docCalls[c].pc = "claim" /\ OthersKept(c) /\ CorpusKept /\ docNow' = docNow
           /\ \/ /\ OpsKept /\ latest' = latest
                 /\ Returns(c, "ok") \/ Returns(c, "refused")
              \/ Claims(c)
  <1> DEFINE k == DocKeyOf[c]
  <1>1. /\ k \in DocKeys
        /\ docOps \in [DocKeys -> [status : {"none", "pending", "committed", "failed"},
                                   at : Nat, plan : DocPlans, vector : BOOLEAN]]
    BY CorpusAssumption DEF DocTypeOK
  <1>2. /\ docCalls[c].pc = "claim" /\ CorpusKept /\ docNow' = docNow
        /\ docSerial' = docSerial /\ commands' = commands
    BY DEF ClaimDoc, DocAt, CorpusKept, corpus
  <1>3. ASSUME docOps[k].status = "none", Resume(c, NoDocPlan),
               docOps' = [docOps EXCEPT ![k].status = "pending", ![k].at = docCalls[c].at]
        PROVE  Claims(c) /\ OthersKept(c)
    <2> DEFINE op == [docOps[k] EXCEPT !.status = "pending", !.at = docCalls[c].at]
    <2>1. docOps' = [docOps EXCEPT ![k] = op]
      BY <1>1, <1>3
    <2>2. /\ op.status = "pending" /\ op.at = docCalls[c].at
          /\ op.plan = docOps[k].plan /\ op.vector = docOps[k].vector
      BY <1>1
    <2> HIDE DEF op
    <2>3. docOps'[k] = op /\ \A j \in DocKeys \ {k} : docOps'[j] = docOps[j]
      BY <1>1, <2>1
    <2>4. NoDocPlan.made = FALSE /\ OpOf(c).plan.made = FALSE
      BY <1>1, <1>3 DEF NoDocPlan, OpOf, DocPlans
    <2> QED
      BY <1>2, <1>3, <2>2, <2>3, <2>4, ResumeEffect DEF Claims, OthersKept, OpOf
  <1>4. ASSUME docOps[k].status = "failed" \/ (docOps[k].status = "pending" /\ ~InHand(k)),
               docOps' = [docOps EXCEPT ![k].status = "pending"], Resume(c, docOps[k].plan)
        PROVE  Claims(c) /\ OthersKept(c)
    <2>1. /\ docOps'[k].status = "pending" /\ docOps'[k].at = docOps[k].at
          /\ docOps'[k].plan = docOps[k].plan /\ docOps'[k].vector = docOps[k].vector
          /\ \A j \in DocKeys \ {k} : docOps'[j] = docOps[j]
      BY <1>1, <1>4
    <2> QED
      BY <1>2, <1>4, <2>1, ResumeEffect DEF Claims, OthersKept, OpOf
  <1>5. ASSUME DocReturn(c, "ok") \/ DocReturn(c, "refused"), UNCHANGED <<docOps, latest>>
        PROVE  /\ OthersKept(c) /\ OpsKept /\ latest' = latest
               /\ Returns(c, "ok") \/ Returns(c, "refused")
    BY <1>2, <1>5 DEF DocTypeOK, OthersKept, OpsKept, Returns, DocReturn, NewDocCall
  <1>6. \/ /\ docOps[k].status = "none" /\ Resume(c, NoDocPlan)
           /\ docOps' = [docOps EXCEPT ![k].status = "pending", ![k].at = docCalls[c].at]
        \/ /\ docOps[k].status = "failed" \/ (docOps[k].status = "pending" /\ ~InHand(k))
           /\ docOps' = [docOps EXCEPT ![k].status = "pending"] /\ Resume(c, docOps[k].plan)
        \/ /\ DocReturn(c, "ok") \/ DocReturn(c, "refused")
           /\ UNCHANGED <<docOps, latest>>
    BY DEF ClaimDoc
  <1> HIDE DEF k
  <1> QED
    BY <1>2, <1>3, <1>4, <1>5, <1>6

\* An ingest decides what it will do.
LEMMA PlanIngestEffect ==
    ASSUME DocTypeOK, NEW c \in DocCalls, PlanIngest(c)
    PROVE  /\ docCalls[c].pc = "plan" /\ OthersKept(c) /\ TimeKept /\ CorpusKept
           /\ Moves(c, "load")
           /\ docOps'[DocKeyOf[c]].status = OpOf(c).status
           /\ docOps'[DocKeyOf[c]].at = OpOf(c).at
           /\ docOps'[DocKeyOf[c]].plan.made
           /\ docOps'[DocKeyOf[c]].plan.created <=> docCalls[c].current # VersionOf(c)
           /\ docOps'[DocKeyOf[c]].plan.previous = docCalls[c].current
           /\ docOps'[DocKeyOf[c]].plan.documents = {}
           /\ docOps'[DocKeyOf[c]].vector = OpOf(c).vector
  <1> DEFINE k == DocKeyOf[c]
             plan == [made |-> TRUE, created |-> docCalls[c].current # VersionOf(c),
                      previous |-> docCalls[c].current, documents |-> {}]
  <1>1. /\ k \in DocKeys
        /\ docOps \in [DocKeys -> [status : {"none", "pending", "committed", "failed"},
                                   at : Nat, plan : DocPlans, vector : BOOLEAN]]
    BY CorpusAssumption DEF DocTypeOK
  <1>2. docOps' = [docOps EXCEPT ![k].plan = plan]
    BY DEF PlanIngest
  <1>3. /\ plan.made = TRUE /\ plan.created = (docCalls[c].current # VersionOf(c))
        /\ plan.previous = docCalls[c].current /\ plan.documents = {}
    OBVIOUS
  <1> HIDE DEF plan
  <1>4. /\ docOps'[k].status = docOps[k].status /\ docOps'[k].at = docOps[k].at
        /\ docOps'[k].vector = docOps[k].vector /\ docOps'[k].plan = plan
    BY <1>1, <1>2
  <1>5. \A j \in DocKeys \ {k} : docOps'[j] = docOps[j]
    BY <1>1, <1>2
  <1>6. /\ docCalls[c].pc = "plan" /\ OthersKept(c) /\ TimeKept /\ CorpusKept
        /\ Moves(c, "load")
    BY <1>5
       DEF PlanIngest, DocTypeOK, docWorld, corpus, OthersKept, TimeKept, CorpusKept, Moves,
           DocAt, DocGoto
  <1>7. docOps'[k].plan.created <=> docCalls[c].current # VersionOf(c)
    BY <1>3, <1>4
  <1> QED
    BY <1>3, <1>4, <1>6, <1>7 DEF OpOf

\* An ingest takes the row's time.
LEMMA LoadSourceEffect ==
    ASSUME DocTypeOK, NEW c \in DocCalls, LoadSource(c)
    PROVE  /\ docCalls[c].pc = "load" /\ OthersKept(c) /\ TimeKept /\ CorpusKept /\ OpsKept
           /\ docCalls'[c].pc = "original"
           /\ docCalls'[c].at = docCalls[c].at
           /\ docCalls'[c].rowAt = IF Stored(VersionOf(c)) THEN docs[VersionOf(c)] ELSE OpOf(c).at
           /\ docCalls'[c].batch = docCalls[c].batch
           /\ docCalls'[c].rows = docCalls[c].rows
  BY CorpusAssumption
     DEF LoadSource, DocTypeOK, docWorld, corpus, OthersKept, TimeKept, OpsKept, CorpusKept,
         OpOf, DocAt, DocPlans

\* An original is put.
LEMMA PutOriginalEffect ==
    ASSUME DocTypeOK, NEW c \in DocCalls, PutOriginal(c)
    PROVE  /\ docCalls[c].pc = "original" /\ OthersKept(c) /\ TimeKept /\ OpsKept
           /\ docs' = docs /\ head' = head /\ chunkIndex' = chunkIndex
           /\ originals' = originals \cup {VersionOf(c)}
           /\ Moves(c, "verify")
  BY CorpusAssumption
     DEF PutOriginal, DocTypeOK, docWorld, OthersKept, TimeKept, OpsKept, Moves, DocAt,
         DocGoto, DocPlans

\* A version that another ingest stored meanwhile is a collision.
LEMMA VerifyVersionEffect ==
    ASSUME DocTypeOK, NEW c \in DocCalls, VerifyVersion(c)
    PROVE  /\ docCalls[c].pc = "verify" /\ OthersKept(c) /\ TimeKept /\ OpsKept /\ CorpusKept
           /\ Moves(c, "fail") \/ Moves(c, "commit")
  BY CorpusAssumption
     DEF VerifyVersion, DocTypeOK, docWorld, corpus, OthersKept, TimeKept, OpsKept,
         CorpusKept, Moves, DocAt, DocGoto, DocPlans

\* A version is stored, and the head moves unless it is newer.
LEMMA CommitVersionEffect ==
    ASSUME DocTypeOK, NEW c \in DocCalls, CommitVersion(c)
    PROVE  /\ docCalls[c].pc = "commit" /\ OthersKept(c) /\ TimeKept /\ OpsKept
           /\ originals' = originals /\ chunkIndex' = chunkIndex
           /\ docs' \in [Versions -> Nat]
           /\ \A v \in Versions \ {VersionOf(c)} : docs'[v] = docs[v]
           /\ docs'[VersionOf(c)] =
                IF Stored(VersionOf(c)) THEN docs[VersionOf(c)] ELSE docCalls[c].rowAt
           /\ head' = IF head = NoHead \/ head.at <= OpOf(c).at
                        THEN [version |-> VersionOf(c), at |-> OpOf(c).at] ELSE head
           /\ Moves(c, IF PlanOf(c).created THEN "project" ELSE "complete")
  <1> DEFINE v == VersionOf(c)
             at == IF Stored(v) THEN docs[v] ELSE docCalls[c].rowAt
  <1>1. v \in Versions /\ docs \in [Versions -> Nat] /\ at \in Nat
    BY CorpusAssumption DEF DocTypeOK, VersionOf
  <1>2. docs' = [docs EXCEPT ![v] = at]
    BY DEF CommitVersion
  <1> HIDE DEF at
  <1>3. docs' \in [Versions -> Nat] /\ docs'[v] = at /\ \A w \in Versions \ {v} : docs'[w] = docs[w]
    BY <1>1, <1>2
  <1>4. /\ docCalls[c].pc = "commit" /\ OthersKept(c) /\ TimeKept /\ OpsKept
        /\ originals' = originals /\ chunkIndex' = chunkIndex
        /\ head' = IF head = NoHead \/ head.at <= OpOf(c).at
                     THEN [version |-> v, at |-> OpOf(c).at] ELSE head
    BY DEF CommitVersion, DocTypeOK, docWorld, OthersKept, TimeKept, OpsKept, OpOf,
           HeadAfter, DocAt, DocGoto
  <1>5. Moves(c, IF PlanOf(c).created THEN "project" ELSE "complete")
    BY DEF CommitVersion, DocTypeOK, Moves, DocGoto
  <1> QED
    BY <1>3, <1>4, <1>5 DEF at

\* A batch is indexed.
LEMMA ProjectChunksEffect ==
    ASSUME DocTypeOK, NEW c \in DocCalls, ProjectChunks(c)
    PROVE  /\ docCalls[c].pc = "project" /\ OthersKept(c) /\ TimeKept /\ OpsKept
           /\ docs' = docs /\ head' = head /\ originals' = originals
           /\ chunkIndex' = chunkIndex \cup {<<VersionOf(c), docCalls[c].batch>>}
           /\ docCalls'[c].at = docCalls[c].at
           /\ docCalls'[c].rowAt = docCalls[c].rowAt
           /\ docCalls'[c].rows = docCalls[c].rows
           /\ \/ /\ docCalls[c].batch < Batches
                 /\ docCalls'[c].pc = docCalls[c].pc
                 /\ docCalls'[c].batch = docCalls[c].batch + 1
              \/ /\ docCalls[c].batch = Batches
                 /\ docCalls'[c].pc = "clean"
                 /\ docCalls'[c].batch = 1
  BY CorpusAssumption
     DEF ProjectChunks, DocTypeOK, docWorld, OthersKept, TimeKept, OpsKept, DocAt, DocPlans,
         AfterBatch

\* Of the replaced version at most the chunks go.
LEMMA CleanPreviousEffect ==
    ASSUME DocTypeOK, NEW c \in DocCalls, CleanPrevious(c)
    PROVE  /\ docCalls[c].pc = "clean" /\ OthersKept(c) /\ TimeKept /\ OpsKept
           /\ docs' = docs /\ head' = head /\ originals' = originals
           /\ chunkIndex' \subseteq chunkIndex
           /\ \A chunk \in chunkIndex \ chunkIndex' : chunk[1] # VersionOf(c)
           /\ Moves(c, "complete")
  BY CorpusAssumption
     DEF CleanPrevious, DocTypeOK, docWorld, OthersKept, TimeKept, OpsKept, Moves, DocAt,
         DocGoto, DocPlans, Replaced, ChunksOf

\* An operation is committed.
LEMMA CompleteDocEffect ==
    ASSUME DocTypeOK, NEW c \in DocCalls, CompleteDoc(c)
    PROVE  /\ docCalls[c].pc = "complete" /\ OthersKept(c) /\ TimeKept /\ CorpusKept
           /\ OpIs(c, "committed") /\ Returns(c, "ok")
           /\ docOps'[DocKeyOf[c]].vector = TRUE
  <1> DEFINE k == DocKeyOf[c]
             op == [docOps[k] EXCEPT !.status = "committed", !.vector = TRUE]
  <1>1. /\ k \in DocKeys
        /\ docOps \in [DocKeys -> [status : {"none", "pending", "committed", "failed"},
                                   at : Nat, plan : DocPlans, vector : BOOLEAN]]
    BY CorpusAssumption DEF DocTypeOK
  <1>2. docOps' = [docOps EXCEPT ![k] = op]
    BY <1>1 DEF CompleteDoc
  <1>3. /\ op.status = "committed" /\ op.at = docOps[k].at
        /\ op.plan = docOps[k].plan /\ op.vector = TRUE
    BY <1>1
  <1> HIDE DEF op
  <1>4. OpIs(c, "committed") /\ docOps'[DocKeyOf[c]].vector = TRUE
    BY <1>1, <1>2, <1>3 DEF OpIs, OpOf
  <1>5. \A j \in DocKeys \ {k} : docOps'[j] = docOps[j]
    BY <1>1, <1>2
  <1> QED
    BY <1>4, <1>5
       DEF CompleteDoc, DocTypeOK, docWorld, corpus, OthersKept, TimeKept, CorpusKept,
           Returns, DocAt, DocReturn, NewDocCall

\* A delete freezes what is stored, or its version is not found.
LEMMA PlanDeleteEffect ==
    ASSUME DocTypeOK, NEW c \in DocCalls, PlanDelete(c)
    PROVE  /\ docCalls[c].pc = "freeze" /\ OthersKept(c) /\ TimeKept /\ CorpusKept
           /\ \/ ~Stored(VersionOf(c)) /\ OpsKept /\ Moves(c, "fail")
              \/ /\ Stored(VersionOf(c)) /\ Moves(c, "address")
                 /\ docOps'[DocKeyOf[c]].status = OpOf(c).status
                 /\ docOps'[DocKeyOf[c]].at = OpOf(c).at
                 /\ docOps'[DocKeyOf[c]].vector = OpOf(c).vector
                 /\ docOps'[DocKeyOf[c]].plan.made
                 /\ docOps'[DocKeyOf[c]].plan.created = FALSE
                 /\ docOps'[DocKeyOf[c]].plan.previous = NoVersion
                 /\ docOps'[DocKeyOf[c]].plan.documents = {v \in Versions : Stored(v)}
  <1> DEFINE k == DocKeyOf[c]
             plan == [NoDocPlan EXCEPT !.made = TRUE, !.documents = {v \in Versions : Stored(v)}]
  <1>1. /\ k \in DocKeys
        /\ docOps \in [DocKeys -> [status : {"none", "pending", "committed", "failed"},
                                   at : Nat, plan : DocPlans, vector : BOOLEAN]]
    BY CorpusAssumption DEF DocTypeOK
  <1>2. CASE ~Stored(VersionOf(c))
    BY <1>2
       DEF PlanDelete, DocTypeOK, docWorld, corpus, OthersKept, TimeKept, OpsKept,
           CorpusKept, Moves, DocAt, DocGoto
  <1>3. CASE Stored(VersionOf(c))
    <2>1. docOps' = [docOps EXCEPT ![k].plan = plan]
      BY <1>3 DEF PlanDelete
    <2>2. /\ plan.made = TRUE /\ plan.created = FALSE
          /\ plan.previous = NoVersion /\ plan.documents = {v \in Versions : Stored(v)}
      BY DEF NoDocPlan
    <2> HIDE DEF plan
    <2>3. /\ docOps'[k].status = docOps[k].status /\ docOps'[k].at = docOps[k].at
          /\ docOps'[k].vector = docOps[k].vector /\ docOps'[k].plan = plan
      BY <1>1, <2>1
    <2>4. \A j \in DocKeys \ {k} : docOps'[j] = docOps[j]
      BY <1>1, <2>1
    <2>5. /\ docCalls[c].pc = "freeze" /\ OthersKept(c) /\ TimeKept /\ CorpusKept
          /\ Moves(c, "address")
      BY <1>3, <2>4
         DEF PlanDelete, DocTypeOK, docWorld, corpus, OthersKept, TimeKept, CorpusKept,
             Moves, DocAt, DocGoto
    <2> QED
      BY <1>3, <2>2, <2>3, <2>5 DEF OpOf
  <1> QED
    BY <1>2, <1>3

\* A delete selects what is stored.
LEMMA SelectVersionsEffect ==
    ASSUME DocTypeOK, NEW c \in DocCalls, SelectVersions(c)
    PROVE  /\ docCalls[c].pc = "select" /\ OthersKept(c) /\ TimeKept /\ CorpusKept /\ OpsKept
           /\ docCalls'[c].pc = "purge"
           /\ docCalls'[c].at = docCalls[c].at
           /\ docCalls'[c].rowAt = docCalls[c].rowAt
           /\ docCalls'[c].batch = docCalls[c].batch
           /\ docCalls'[c].rows = {v \in Versions : Stored(v)}
  BY CorpusAssumption
     DEF SelectVersions, DocTypeOK, docWorld, corpus, OthersKept, TimeKept, OpsKept,
         CorpusKept, DocAt, DocPlans

\* A step that reads, and only moves the caller on.
Looks(c) ==
    \/ ReadHead(c) \/ ReadCurrent(c) \/ AddressVersion(c)
    \/ ReadForRebuild(c) \/ HydrateOriginal(c) \/ ListChunks(c)

\* Where it moves to.
LEMMA LooksEffect ==
    ASSUME DocTypeOK, NEW c \in DocCalls, Looks(c)
    PROVE  /\ OthersKept(c) /\ TimeKept /\ CorpusKept /\ OpsKept
           /\ \/ /\ docCalls[c].pc = "head" /\ docCalls'[c].current = head.version
                 /\ Moves(c, "current") \/ Moves(c, "plan")
              \/ /\ docCalls[c].pc = "current" /\ Moves(c, "plan")
                 /\ docCalls'[c].current = IF Stored(docCalls[c].current)
                                           THEN docCalls[c].current ELSE NoVersion
              \/ /\ docCalls[c].pc = "address"
                 /\ \/ Stored(VersionOf(c)) /\ Moves(c, "select")
                    \/ ~Stored(VersionOf(c)) /\ Moves(c, "erase")
              \/ docCalls[c].pc = "read" /\ (Moves(c, "hydrate") \/ Returns(c, "failed"))
              \/ docCalls[c].pc = "hydrate" /\ (Moves(c, "chunks") \/ Returns(c, "failed"))
              \/ /\ docCalls[c].pc = "chunks"
                 /\ \/ Stored(VersionOf(c)) /\ Moves(c, "reproject")
                    \/ Returns(c, "ok")
  <1> USE CorpusAssumption
      DEF DocTypeOK, docWorld, corpus, OthersKept, TimeKept, OpsKept, CorpusKept, Moves,
          Returns, DocAt, DocGoto, DocReturn, NewDocCall, DocPlans
  <1>1. CASE ReadHead(c)
    BY <1>1 DEF ReadHead
  <1>2. CASE ReadCurrent(c)
    BY <1>2 DEF ReadCurrent
  <1>3. CASE AddressVersion(c)
    BY <1>3 DEF AddressVersion
  <1>4. CASE ReadForRebuild(c)
    BY <1>4 DEF ReadForRebuild
  <1>5. CASE HydrateOriginal(c)
    BY <1>5 DEF HydrateOriginal
  <1>6. CASE ListChunks(c)
    BY <1>6 DEF ListChunks
  <1> QED
    BY <1>1, <1>2, <1>3, <1>4, <1>5, <1>6 DEF Looks

\* The head and the selected rows go.
LEMMA PurgeDocumentEffect ==
    ASSUME DocTypeOK, NEW c \in DocCalls, PurgeDocument(c)
    PROVE  /\ docCalls[c].pc = "purge" /\ OthersKept(c) /\ TimeKept /\ OpsKept
           /\ originals' = originals /\ chunkIndex' = chunkIndex
           /\ head' = NoHead /\ docs' \in [Versions -> Nat]
           /\ \A v \in Versions : docs'[v] = IF v \in docCalls[c].rows THEN 0 ELSE docs[v]
           /\ docCalls'[c].pc = "erase"
           /\ docCalls'[c].at = docCalls[c].at
           /\ docCalls'[c].rowAt = docCalls[c].rowAt
           /\ docCalls'[c].batch = docCalls[c].batch
           /\ docCalls'[c].rows = {}
  BY CorpusAssumption
     DEF PurgeDocument, DocTypeOK, docWorld, OthersKept, TimeKept, OpsKept, DocAt, DocPlans,
         Purged

\* The frozen originals go.
LEMMA DeleteOriginalsEffect ==
    ASSUME DocTypeOK, NEW c \in DocCalls, DeleteOriginals(c)
    PROVE  /\ docCalls[c].pc = "erase" /\ OthersKept(c) /\ TimeKept /\ OpsKept
           /\ docs' = docs /\ head' = head /\ chunkIndex' = chunkIndex
           /\ originals' = originals \ FrozenVersions(c)
           /\ Moves(c, "forget")
  BY CorpusAssumption
     DEF DeleteOriginals, DocTypeOK, docWorld, OthersKept, TimeKept, OpsKept, Moves, DocAt,
         DocGoto, DocPlans

\* The frozen chunks go.
LEMMA DeleteChunkVectorsEffect ==
    ASSUME DocTypeOK, NEW c \in DocCalls, DeleteChunkVectors(c)
    PROVE  /\ docCalls[c].pc = "forget" /\ OthersKept(c) /\ TimeKept /\ OpsKept
           /\ docs' = docs /\ head' = head /\ originals' = originals
           /\ chunkIndex' = {chunk \in chunkIndex : chunk[1] \notin FrozenVersions(c)}
           /\ Moves(c, "complete")
  BY CorpusAssumption
     DEF DeleteChunkVectors, DocTypeOK, docWorld, OthersKept, TimeKept, OpsKept, Moves,
         DocAt, DocGoto, DocPlans, FrozenVersions, PlanOf, ChunksOf, Chunks

\* A batch is indexed again.
LEMMA ReprojectEffect ==
    ASSUME DocTypeOK, NEW c \in DocCalls, Reproject(c)
    PROVE  /\ docCalls[c].pc = "reproject" /\ OthersKept(c) /\ TimeKept /\ OpsKept
           /\ docs' = docs /\ head' = head /\ originals' = originals
           /\ chunkIndex' = chunkIndex \cup {<<VersionOf(c), docCalls[c].batch>>}
           /\ docCalls'[c].at = docCalls[c].at
           /\ docCalls'[c].rowAt = docCalls[c].rowAt
           /\ docCalls'[c].rows = docCalls[c].rows
           /\ \/ /\ docCalls[c].batch < Batches
                 /\ docCalls'[c].pc = docCalls[c].pc
                 /\ docCalls'[c].batch = docCalls[c].batch + 1
              \/ /\ docCalls[c].batch = Batches
                 /\ docCalls'[c].pc = "ok"
                 /\ docCalls'[c].batch = 1
  BY CorpusAssumption
     DEF Reproject, DocTypeOK, docWorld, OthersKept, TimeKept, OpsKept, DocAt, DocPlans,
         AfterBatch

\* A step throws.
LEMMA DocStepThrowsEffect ==
    ASSUME DocTypeOK, NEW c \in DocCalls, DocStepThrows(c)
    PROVE  /\ OthersKept(c) /\ TimeKept /\ CorpusKept /\ OpsKept
           /\ \/ docCalls[c].pc \in InTry /\ Moves(c, "fail")
              \/ docCalls[c].pc \in RebuildSteps /\ Returns(c, "failed")
  BY CorpusAssumption
     DEF DocStepThrows, DocTypeOK, docWorld, corpus, OthersKept, TimeKept, OpsKept,
         CorpusKept, Moves, Returns, DocGoto, DocReturn, NewDocCall, DocPlans

\* A failure is recorded.
LEMMA FailDocEffect ==
    ASSUME DocTypeOK, NEW c \in DocCalls, FailDoc(c)
    PROVE  /\ docCalls[c].pc = "fail" /\ OthersKept(c) /\ TimeKept /\ CorpusKept
           /\ OpIs(c, "failed") /\ Returns(c, "failed")
           /\ docOps'[DocKeyOf[c]].vector = VectorsSettled(c)
  <1> DEFINE k == DocKeyOf[c]
             op == [docOps[k] EXCEPT !.status = "failed", !.vector = VectorsSettled(c)]
  <1>1. /\ k \in DocKeys
        /\ docOps \in [DocKeys -> [status : {"none", "pending", "committed", "failed"},
                                   at : Nat, plan : DocPlans, vector : BOOLEAN]]
    BY CorpusAssumption DEF DocTypeOK
  <1>2. docOps' = [docOps EXCEPT ![k] = op]
    BY <1>1 DEF FailDoc
  <1>3. /\ op.status = "failed" /\ op.at = docOps[k].at
        /\ op.plan = docOps[k].plan /\ op.vector = VectorsSettled(c)
    BY <1>1
  <1> HIDE DEF op
  <1>4. OpIs(c, "failed") /\ docOps'[DocKeyOf[c]].vector = VectorsSettled(c)
    BY <1>1, <1>2, <1>3 DEF OpIs, OpOf
  <1>5. \A j \in DocKeys \ {k} : docOps'[j] = docOps[j]
    BY <1>1, <1>2
  <1> QED
    BY <1>4, <1>5
       DEF FailDoc, DocTypeOK, docWorld, corpus, OthersKept, TimeKept, CorpusKept, Returns,
           DocAt, DocReturn, NewDocCall

\* A process dies.
LEMMA DocCrashEffect ==
    ASSUME DocTypeOK, NEW c \in DocCalls, DocCrash(c)
    PROVE  /\ docCalls[c].pc \in DocRunning
           /\ OthersKept(c) /\ TimeKept /\ CorpusKept /\ OpsKept /\ Returns(c, "died")
  BY CorpusAssumption
     DEF DocCrash, DocTypeOK, docWorld, corpus, OthersKept, TimeKept, OpsKept, CorpusKept,
         Returns, DocReturn, NewDocCall, DocPlans
-----------------------------------------------------------------------------
(* Types.                                                                  *)

Pcs == {"idle"} \cup DocRunning \cup DocReturned
DocLocals == [pc : Pcs, at : Nat, current : Versions \cup {NoVersion}, rowAt : Nat,
              batch : 1..Batches, rows : SUBSET Versions]
Statuses == {"none", "pending", "committed", "failed"}
Operations == [status : Statuses, at : Nat, plan : DocPlans, vector : BOOLEAN]

\* The variables, by their types.
LEMMA TypeParts ==
    ASSUME DocTypeOK
    PROVE  /\ docCalls \in [DocCalls -> DocLocals]
           /\ docOps \in [DocKeys -> Operations]
           /\ docs \in [Versions -> Nat]
           /\ \A c \in DocCalls : /\ DocKeyOf[c] \in DocKeys
                                  /\ VersionOf(c) \in Versions
                                  /\ DocKind(c) \in DocKinds
                                  /\ docCalls[c] \in DocLocals
                                  /\ OpOf(c) \in Operations
                                  /\ PlanOf(c) \in DocPlans
                                  /\ OpOf(c).at \in Nat
           /\ head.version \in Versions \cup {NoVersion} /\ head.at \in Nat
           /\ docNow \in Nat /\ Batches \in Nat \ {0}
  BY CorpusAssumption
     DEF DocTypeOK, DocLocals, Pcs, Operations, Statuses, VersionOf, DocKind, OpOf, PlanOf

\* One assignment to a local variable after the other.
LEMMA LocalsType ==
    ASSUME NEW m \in [DocCalls -> DocLocals], NEW c \in DocCalls
    PROVE  /\ \A p \in Pcs : [m EXCEPT ![c].pc = p] \in [DocCalls -> DocLocals]
           /\ \A t \in Nat : [m EXCEPT ![c].at = t] \in [DocCalls -> DocLocals]
           /\ \A t \in Nat : [m EXCEPT ![c].rowAt = t] \in [DocCalls -> DocLocals]
           /\ \A v \in Versions \cup {NoVersion} :
                [m EXCEPT ![c].current = v] \in [DocCalls -> DocLocals]
           /\ \A b \in 1..Batches : [m EXCEPT ![c].batch = b] \in [DocCalls -> DocLocals]
           /\ \A r \in SUBSET Versions : [m EXCEPT ![c].rows = r] \in [DocCalls -> DocLocals]
           /\ \A l \in DocLocals : [m EXCEPT ![c] = l] \in [DocCalls -> DocLocals]
  BY DEF DocLocals

\* A call that begins is one.
LEMMA NewCallType == \A p \in Pcs : [NewDocCall EXCEPT !.pc = p] \in DocLocals
  BY CorpusAssumption DEF NewDocCall, DocLocals

\* An operation that changes in one field is one.
LEMMA OpsType ==
    ASSUME NEW m \in [DocKeys -> Operations], NEW k \in DocKeys
    PROVE  /\ \A s \in Statuses : [m EXCEPT ![k].status = s] \in [DocKeys -> Operations]
           /\ \A t \in Nat : [m EXCEPT ![k].at = t] \in [DocKeys -> Operations]
           /\ \A p \in DocPlans : [m EXCEPT ![k].plan = p] \in [DocKeys -> Operations]
           /\ \A b \in BOOLEAN : [m EXCEPT ![k].vector = b] \in [DocKeys -> Operations]
  <1> DEFINE op == m[k]
  <1>1. op \in Operations
    OBVIOUS
  <1>2. /\ \A s \in Statuses : [op EXCEPT !.status = s] \in Operations
        /\ \A t \in Nat : [op EXCEPT !.at = t] \in Operations
        /\ \A p \in DocPlans : [op EXCEPT !.plan = p] \in Operations
        /\ \A b \in BOOLEAN : [op EXCEPT !.vector = b] \in Operations
    BY <1>1 DEF Operations
  <1> QED
    BY <1>2

\* Every step assigns typed local variables.
LEMMA CallsStep ==
    ASSUME AnyInv, NEW c \in DocCalls, DocStep(c)
    PROVE  docCalls' \in [DocCalls -> DocLocals]
  <1> USE DEF Pcs, InTry, IngestSteps, DeleteSteps, RebuildSteps, DocRunning, DocReturned
  <1>0. DocTypeOK /\ StepsApart
    BY DEF AnyInv
  <1>a. ASSUME NEW p \in Pcs, DocGoto(c, p) PROVE docCalls' \in [DocCalls -> DocLocals]
    BY <1>a, <1>0, TypeParts, LocalsType DEF DocGoto
  <1>b. ASSUME NEW p \in Pcs, DocReturn(c, p) PROVE docCalls' \in [DocCalls -> DocLocals]
    BY <1>b, <1>0, TypeParts, LocalsType, NewCallType DEF DocReturn
  <1>1. CASE ArriveDoc(c)
    <2>1. PICK t \in {docNow, docNow + 1} : docCalls' = [docCalls EXCEPT ![c].at = t,
                ![c].pc = IF DocKind(c) = "rebuild" THEN "read" ELSE "claim"]
      BY <1>1 DEF ArriveDoc
    <2> DEFINE m == [docCalls EXCEPT ![c].at = t]
    <2>2. t \in Nat /\ docCalls \in [DocCalls -> DocLocals]
      BY <1>0, TypeParts
    <2>3. m \in [DocCalls -> DocLocals]
      BY <2>2, LocalsType
    <2>4. \A p \in Pcs : [m EXCEPT ![c].pc = p] \in [DocCalls -> DocLocals]
      BY <2>3, LocalsType
    <2>5. docCalls' = [m EXCEPT ![c].pc = IF DocKind(c) = "rebuild" THEN "read" ELSE "claim"]
      BY <2>1, <2>2 DEF DocLocals
    <2> HIDE DEF m
    <2> QED
      BY <2>4, <2>5
  <1>2. CASE ClaimDoc(c)
    <2>1. DocKind(c) \in {"ingest", "delete"}
      BY <1>0, <1>2, TypeParts DEF ClaimDoc, DocAt, StepsApart, Apart, DocKinds
    <2>2. ASSUME NEW plan, plan.made \in BOOLEAN, Resume(c, plan)
          PROVE  docCalls' \in [DocCalls -> DocLocals]
      <3>1. \E p \in Pcs : DocGoto(c, p)
        <4>1. CASE DocKind(c) = "ingest"
          BY <2>2, <4>1 DEF Resume
        <4>2. CASE DocKind(c) = "delete"
          BY <2>2, <4>2 DEF Resume
        <4> QED
          BY <2>1, <4>1, <4>2
      <3> QED
        BY <3>1, <1>a
    <2>3. NoDocPlan.made \in BOOLEAN /\ docOps[DocKeyOf[c]].plan.made \in BOOLEAN
      BY <1>0, TypeParts DEF NoDocPlan, OpOf, Operations, DocPlans
    <2>4. \/ Resume(c, NoDocPlan) \/ Resume(c, docOps[DocKeyOf[c]].plan)
          \/ DocReturn(c, "ok") \/ DocReturn(c, "refused")
      BY <1>2 DEF ClaimDoc
    <2> QED
      BY <2>2, <2>3, <2>4, <1>b
  <1>3. CASE PlanIngest(c)
    <2> DEFINE m == [docCalls EXCEPT ![c].pc = "load"]
    <2>1. docCalls \in [DocCalls -> DocLocals]
      BY <1>0, TypeParts
    <2>2. m \in [DocCalls -> DocLocals]
      BY <2>1, LocalsType
    <2>3. docCalls' = [m EXCEPT ![c].current = NoVersion]
      BY <1>3, <2>1 DEF PlanIngest, DocLocals
    <2> HIDE DEF m
    <2> QED
      BY <2>2, <2>3, LocalsType
  <1>4. CASE LoadSource(c)
    <2> DEFINE t == IF Stored(VersionOf(c)) THEN docs[VersionOf(c)] ELSE docOps[DocKeyOf[c]].at
               m == [docCalls EXCEPT ![c].pc = "original"]
    <2>1. docCalls \in [DocCalls -> DocLocals] /\ t \in Nat
      BY <1>0, TypeParts DEF OpOf
    <2>2. m \in [DocCalls -> DocLocals]
      BY <2>1, LocalsType
    <2>3. \A n \in Nat : [m EXCEPT ![c].rowAt = n] \in [DocCalls -> DocLocals]
      BY <2>2, LocalsType
    <2>4. docCalls' = [m EXCEPT ![c].rowAt = t]
      BY <1>4, <2>1 DEF LoadSource, DocLocals
    <2> HIDE DEF t, m
    <2> QED
      BY <2>1, <2>3, <2>4
  <1>5. CASE PutOriginal(c)
    BY <1>0, <1>a, <1>b, <1>5, TypeParts, LocalsType DEF PutOriginal
  <1>6. CASE VerifyVersion(c)
    BY <1>0, <1>a, <1>b, <1>6, TypeParts, LocalsType DEF VerifyVersion
  <1>7. CASE CommitVersion(c)
    BY <1>0, <1>a, <1>b, <1>7, TypeParts, LocalsType DEF CommitVersion
  <1>8. CASE ProjectChunks(c)
    <2>1. /\ docCalls \in [DocCalls -> DocLocals] /\ docCalls[c].batch \in 1..Batches
          /\ Batches \in Nat /\ 1 \in 1..Batches
      BY <1>0, TypeParts DEF DocLocals
    <2>2. CASE docCalls[c].batch < Batches
      <3>1. docCalls[c].batch + 1 \in 1..Batches
        BY <2>1, <2>2
      <3>2. docCalls' = [docCalls EXCEPT ![c].batch = docCalls[c].batch + 1]
        BY <1>8, <2>1, <2>2 DEF ProjectChunks, AfterBatch
      <3> QED
        BY <2>1, <3>1, <3>2, LocalsType
    <2>3. CASE ~(docCalls[c].batch < Batches)
      <3> DEFINE m == [docCalls EXCEPT ![c].batch = 1]
      <3>1. m \in [DocCalls -> DocLocals]
        BY <2>1, LocalsType
      <3>2. \A p \in Pcs : [m EXCEPT ![c].pc = p] \in [DocCalls -> DocLocals]
        BY <3>1, LocalsType
      <3>3. docCalls' = [m EXCEPT ![c].pc = "clean"]
        BY <1>8, <2>1, <2>3 DEF ProjectChunks, AfterBatch, DocLocals
      <3> HIDE DEF m
      <3> QED
        BY <3>2, <3>3
    <2> QED
      BY <2>2, <2>3
  <1>9. CASE CleanPrevious(c)
    BY <1>0, <1>a, <1>b, <1>9, TypeParts, LocalsType DEF CleanPrevious
  <1>10. CASE CompleteDoc(c)
    BY <1>0, <1>a, <1>b, <1>10, TypeParts, LocalsType DEF CompleteDoc
  <1>11. CASE PlanDelete(c)
    BY <1>0, <1>a, <1>b, <1>11, TypeParts, LocalsType DEF PlanDelete
  <1>12. CASE SelectVersions(c)
    BY <1>0, <1>a, <1>b, <1>12, TypeParts, LocalsType DEF SelectVersions
  <1>13. CASE PurgeDocument(c)
    BY <1>0, <1>a, <1>b, <1>13, TypeParts, LocalsType DEF PurgeDocument
  <1>14. CASE DeleteOriginals(c)
    BY <1>0, <1>a, <1>b, <1>14, TypeParts, LocalsType DEF DeleteOriginals
  <1>15. CASE DeleteChunkVectors(c)
    BY <1>0, <1>a, <1>b, <1>15, TypeParts, LocalsType DEF DeleteChunkVectors
  <1>16. CASE Looks(c)
    <2>1. ASSUME NEW p \in Pcs, NEW v \in Versions \cup {NoVersion},
                 docCalls' = [docCalls EXCEPT ![c].pc = p, ![c].current = v]
          PROVE  docCalls' \in [DocCalls -> DocLocals]
      <3> DEFINE m == [docCalls EXCEPT ![c].pc = p]
      <3>1. docCalls \in [DocCalls -> DocLocals]
        BY <1>0, TypeParts
      <3>2. m \in [DocCalls -> DocLocals]
        BY <3>1, LocalsType
      <3>3. docCalls' = [m EXCEPT ![c].current = v]
        BY <2>1, <3>1 DEF DocLocals
      <3> HIDE DEF m
      <3> QED
        BY <3>2, <3>3, LocalsType
    <2>2. head.version \in Versions \cup {NoVersion}
      BY <1>0, TypeParts
    <2>3. CASE ReadHead(c)
      BY <2>1, <2>2, <2>3 DEF ReadHead
    <2>4. CASE ReadCurrent(c)
      <3> DEFINE v == IF Stored(docCalls[c].current) THEN docCalls[c].current ELSE NoVersion
      <3>1. docCalls \in [DocCalls -> DocLocals] /\ v \in Versions \cup {NoVersion}
        BY <1>0, TypeParts DEF DocLocals
      <3>2. docCalls' = [docCalls EXCEPT ![c].pc = "plan", ![c].current = v]
        BY <2>4, <3>1 DEF ReadCurrent, DocLocals
      <3> HIDE DEF v
      <3> QED
        BY <2>1, <3>1, <3>2
    <2>5. CASE AddressVersion(c) \/ ReadForRebuild(c) \/ HydrateOriginal(c) \/ ListChunks(c)
      <3>1. \E p \in Pcs : DocGoto(c, p) \/ DocReturn(c, p)
        BY <2>5 DEF AddressVersion, ReadForRebuild, HydrateOriginal, ListChunks
      <3> QED
        BY <3>1, <1>a, <1>b
    <2> QED
      BY <1>16, <2>3, <2>4, <2>5 DEF Looks
  <1>17. CASE Reproject(c)
    <2>1. /\ docCalls \in [DocCalls -> DocLocals] /\ docCalls[c].batch \in 1..Batches
          /\ Batches \in Nat /\ 1 \in 1..Batches
      BY <1>0, TypeParts DEF DocLocals
    <2>2. CASE docCalls[c].batch < Batches
      <3>1. docCalls[c].batch + 1 \in 1..Batches
        BY <2>1, <2>2
      <3>2. docCalls' = [docCalls EXCEPT ![c].batch = docCalls[c].batch + 1]
        BY <1>17, <2>1, <2>2 DEF Reproject, AfterBatch
      <3> QED
        BY <2>1, <3>1, <3>2, LocalsType
    <2>3. CASE ~(docCalls[c].batch < Batches)
      <3> DEFINE m == [docCalls EXCEPT ![c].batch = 1]
      <3>1. m \in [DocCalls -> DocLocals]
        BY <2>1, LocalsType
      <3>2. \A p \in Pcs : [m EXCEPT ![c].pc = p] \in [DocCalls -> DocLocals]
        BY <3>1, LocalsType
      <3>3. docCalls' = [m EXCEPT ![c].pc = "ok"]
        BY <1>17, <2>1, <2>3 DEF Reproject, AfterBatch, DocLocals
      <3> HIDE DEF m
      <3> QED
        BY <3>2, <3>3
    <2> QED
      BY <2>2, <2>3
  <1>18. CASE DocStepThrows(c)
    BY <1>0, <1>a, <1>b, <1>18, TypeParts, LocalsType DEF DocStepThrows
  <1>19. CASE FailDoc(c)
    BY <1>0, <1>a, <1>b, <1>19, TypeParts, LocalsType DEF FailDoc
  <1>20. CASE DocCrash(c)
    BY <1>0, <1>a, <1>b, <1>20, TypeParts, LocalsType DEF DocCrash
  <1> QED
    BY <1>1, <1>2, <1>3, <1>4, <1>5, <1>6, <1>7, <1>8, <1>9, <1>10, <1>11, <1>12, <1>13,
       <1>14, <1>15, <1>16, <1>17, <1>18, <1>19, <1>20
       DEF DocStep, Looks

\* Every step leaves typed operations.
LEMMA OpsStep ==
    ASSUME AnyInv, NEW c \in DocCalls, DocStep(c)
    PROVE  docOps' \in [DocKeys -> Operations]
  <1>0. DocTypeOK /\ StepsApart
    BY DEF AnyInv
  <1>1. CASE ArriveDoc(c)
    BY <1>0, <1>1, TypeParts, OpsType DEF ArriveDoc, Statuses, DocPlans
  <1>2. CASE ClaimDoc(c)
    <2> DEFINE m == [docOps EXCEPT ![DocKeyOf[c]].status = "pending"]
    <2>1. docOps \in [DocKeys -> Operations] /\ docCalls[c].at \in Nat /\ DocKeyOf[c] \in DocKeys
      BY <1>0, TypeParts DEF DocLocals
    <2>2. m \in [DocKeys -> Operations]
      BY <2>1, OpsType DEF Statuses
    <2>3. \A t \in Nat : [m EXCEPT ![DocKeyOf[c]].at = t] \in [DocKeys -> Operations]
      BY <2>1, <2>2, OpsType
    <2>4. \/ docOps' = docOps \/ docOps' = m
          \/ docOps' = [m EXCEPT ![DocKeyOf[c]].at = docCalls[c].at]
      BY <1>2, <2>1 DEF ClaimDoc, Operations
    <2> HIDE DEF m
    <2> QED
      BY <2>1, <2>2, <2>3, <2>4
  <1>3. CASE PlanIngest(c)
    <2>1. docCalls[c].current \in Versions \cup {NoVersion}
      BY <1>0, TypeParts DEF DocLocals
    <2> QED
      BY <1>0, <1>3, <2>1, TypeParts, OpsType DEF PlanIngest, Statuses, DocPlans
  <1>4. CASE LoadSource(c)
    BY <1>0, <1>4, TypeParts, OpsType DEF LoadSource, Statuses, DocPlans
  <1>5. CASE PutOriginal(c)
    BY <1>0, <1>5, TypeParts, OpsType DEF PutOriginal, Statuses, DocPlans
  <1>6. CASE VerifyVersion(c)
    BY <1>0, <1>6, TypeParts, OpsType DEF VerifyVersion, Statuses, DocPlans
  <1>7. CASE CommitVersion(c)
    BY <1>0, <1>7, TypeParts, OpsType DEF CommitVersion, Statuses, DocPlans
  <1>8. CASE ProjectChunks(c)
    BY <1>0, <1>8, TypeParts, OpsType DEF ProjectChunks, Statuses, DocPlans
  <1>9. CASE CleanPrevious(c)
    BY <1>0, <1>9, TypeParts, OpsType DEF CleanPrevious, Statuses, DocPlans
  <1>10. CASE CompleteDoc(c)
    BY <1>0, <1>10, TypeParts, OpsType DEF CompleteDoc, Statuses, DocPlans
  <1>11. CASE PlanDelete(c)
    <2> DEFINE p == [NoDocPlan EXCEPT !.made = TRUE, !.documents = {v \in Versions : Stored(v)}]
    <2>1. p \in DocPlans
      BY DEF NoDocPlan, DocPlans
    <2>2. docOps' = docOps \/ docOps' = [docOps EXCEPT ![DocKeyOf[c]].plan = p]
      BY <1>11 DEF PlanDelete
    <2> HIDE DEF p
    <2> QED
      BY <1>0, <2>1, <2>2, TypeParts, OpsType
  <1>12. CASE SelectVersions(c)
    BY <1>0, <1>12, TypeParts, OpsType DEF SelectVersions, Statuses, DocPlans, NoDocPlan
  <1>13. CASE PurgeDocument(c)
    BY <1>0, <1>13, TypeParts, OpsType DEF PurgeDocument, Statuses, DocPlans, NoDocPlan
  <1>14. CASE DeleteOriginals(c)
    BY <1>0, <1>14, TypeParts, OpsType DEF DeleteOriginals, Statuses, DocPlans, NoDocPlan
  <1>15. CASE DeleteChunkVectors(c)
    BY <1>0, <1>15, TypeParts, OpsType DEF DeleteChunkVectors, Statuses, DocPlans, NoDocPlan
  <1>16. CASE Looks(c)
    BY <1>0, <1>16, LooksEffect, TypeParts DEF OpsKept
  <1>17. CASE Reproject(c)
    BY <1>0, <1>17, TypeParts, OpsType DEF Reproject, Statuses, DocPlans, NoDocPlan
  <1>18. CASE DocStepThrows(c)
    BY <1>0, <1>18, TypeParts, OpsType DEF DocStepThrows, Statuses, DocPlans, NoDocPlan
  <1>19. CASE FailDoc(c)
    <2>1. DocKind(c) \in {"ingest", "delete"}
      BY <1>0, <1>19, TypeParts
         DEF FailDoc, DocAt, StepsApart, Apart, DocKinds, InTry, IngestSteps, DeleteSteps,
             RebuildSteps, DocRunning
    <2>2. VectorsSettled(c) \in BOOLEAN
      BY <2>1 DEF VectorsSettled
    <2> DEFINE m == [docOps EXCEPT ![DocKeyOf[c]].status = "failed"]
    <2>3. docOps \in [DocKeys -> Operations] /\ DocKeyOf[c] \in DocKeys
      BY <1>0, TypeParts
    <2>4. m \in [DocKeys -> Operations]
      BY <2>3, OpsType DEF Statuses
    <2>5. \A b \in BOOLEAN : [m EXCEPT ![DocKeyOf[c]].vector = b] \in [DocKeys -> Operations]
      BY <2>3, <2>4, OpsType
    <2>6. docOps' = [m EXCEPT ![DocKeyOf[c]].vector = VectorsSettled(c)]
      BY <1>19, <2>3 DEF FailDoc, Operations
    <2> HIDE DEF m
    <2> QED
      BY <2>2, <2>5, <2>6
  <1>20. CASE DocCrash(c)
    BY <1>0, <1>20, TypeParts, OpsType DEF DocCrash, Statuses, DocPlans, NoDocPlan
  <1> QED
    BY <1>1, <1>2, <1>3, <1>4, <1>5, <1>6, <1>7, <1>8, <1>9, <1>10, <1>11, <1>12, <1>13,
       <1>14, <1>15, <1>16, <1>17, <1>18, <1>19, <1>20
       DEF DocStep, Looks

\* Every step leaves a typed corpus.
LEMMA WorldStep ==
    ASSUME AnyInv, NEW c \in DocCalls, DocStep(c)
    PROVE  /\ docSerial' \in BOOLEAN /\ commands' = commands
           /\ docs' \in [Versions -> Nat]
           /\ head' \in [version : Versions \cup {NoVersion}, at : Nat]
           /\ originals' \subseteq Versions /\ chunkIndex' \subseteq Chunks
           /\ docNow' \in Nat /\ latest' \in DocKeys \cup {NoVersion}
  <1>0. DocTypeOK /\ StepsApart
    BY DEF AnyInv
  <1>1. CASE ArriveDoc(c)
    BY <1>0, <1>1, TypeParts, CorpusAssumption DEF ArriveDoc, DocTypeOK, corpus
  <1>2. CASE ClaimDoc(c)
    BY <1>0, <1>2, TypeParts, CorpusAssumption DEF ClaimDoc, DocTypeOK, corpus, Resume
  <1>3. CASE PlanIngest(c)
    BY <1>0, <1>3, PlanIngestEffect, TypeParts, CorpusAssumption
       DEF PlanIngest, DocTypeOK, docWorld, corpus, CorpusKept, TimeKept, OthersKept
  <1>4. CASE LoadSource(c)
    BY <1>0, <1>4, LoadSourceEffect, TypeParts, CorpusAssumption
       DEF LoadSource, DocTypeOK, docWorld, corpus, CorpusKept, TimeKept, OthersKept
  <1>5. CASE PutOriginal(c)
    BY <1>0, <1>5, PutOriginalEffect, TypeParts, CorpusAssumption
       DEF PutOriginal, DocTypeOK, docWorld, TimeKept, OthersKept, VersionOf
  <1>6. CASE VerifyVersion(c)
    BY <1>0, <1>6, VerifyVersionEffect, TypeParts, CorpusAssumption
       DEF VerifyVersion, DocTypeOK, docWorld, corpus, CorpusKept, TimeKept, OthersKept
  <1>7. CASE CommitVersion(c)
    BY <1>0, <1>7, CommitVersionEffect, TypeParts, CorpusAssumption
       DEF CommitVersion, DocTypeOK, docWorld, TimeKept, OthersKept, HeadAfter, VersionOf
  <1>8. CASE ProjectChunks(c)
    BY <1>0, <1>8, ProjectChunksEffect, TypeParts, CorpusAssumption
       DEF ProjectChunks, DocTypeOK, docWorld, TimeKept, OthersKept, VersionOf, Chunks,
           DocLocals
  <1>9. CASE CleanPrevious(c)
    BY <1>0, <1>9, CleanPreviousEffect, TypeParts, CorpusAssumption
       DEF CleanPrevious, DocTypeOK, docWorld, TimeKept, OthersKept
  <1>10. CASE CompleteDoc(c)
    BY <1>0, <1>10, CompleteDocEffect, TypeParts, CorpusAssumption
       DEF CompleteDoc, DocTypeOK, docWorld, corpus, CorpusKept, TimeKept, OthersKept
  <1>11. CASE PlanDelete(c)
    BY <1>0, <1>11, PlanDeleteEffect, TypeParts, CorpusAssumption
       DEF PlanDelete, DocTypeOK, docWorld, corpus, CorpusKept, TimeKept, OthersKept
  <1>12. CASE SelectVersions(c)
    BY <1>0, <1>12, SelectVersionsEffect, TypeParts, CorpusAssumption
       DEF SelectVersions, DocTypeOK, docWorld, corpus, CorpusKept, TimeKept, OthersKept
  <1>13. CASE PurgeDocument(c)
    BY <1>0, <1>13, PurgeDocumentEffect, TypeParts, CorpusAssumption
       DEF PurgeDocument, DocTypeOK, docWorld, TimeKept, OthersKept, Purged, NoHead
  <1>14. CASE DeleteOriginals(c)
    BY <1>0, <1>14, DeleteOriginalsEffect, TypeParts, CorpusAssumption
       DEF DeleteOriginals, DocTypeOK, docWorld, TimeKept, OthersKept
  <1>15. CASE DeleteChunkVectors(c)
    BY <1>0, <1>15, DeleteChunkVectorsEffect, TypeParts, CorpusAssumption
       DEF DeleteChunkVectors, DocTypeOK, docWorld, TimeKept, OthersKept
  <1>16. CASE Looks(c)
    BY <1>0, <1>16, LooksEffect, TypeParts, CorpusAssumption
       DEF DocTypeOK, CorpusKept, TimeKept, OthersKept
  <1>17. CASE Reproject(c)
    BY <1>0, <1>17, ReprojectEffect, TypeParts, CorpusAssumption
       DEF Reproject, DocTypeOK, docWorld, TimeKept, OthersKept, VersionOf, Chunks,
           DocLocals
  <1>18. CASE DocStepThrows(c)
    BY <1>0, <1>18, DocStepThrowsEffect, TypeParts, CorpusAssumption
       DEF DocStepThrows, DocTypeOK, docWorld, corpus, CorpusKept, TimeKept, OthersKept
  <1>19. CASE FailDoc(c)
    BY <1>0, <1>19, FailDocEffect, TypeParts, CorpusAssumption
       DEF FailDoc, DocTypeOK, docWorld, corpus, CorpusKept, TimeKept, OthersKept
  <1>20. CASE DocCrash(c)
    BY <1>0, <1>20, DocCrashEffect, TypeParts, CorpusAssumption
       DEF DocCrash, DocTypeOK, docWorld, corpus, CorpusKept, TimeKept, OthersKept
  <1> QED
    BY <1>1, <1>2, <1>3, <1>4, <1>5, <1>6, <1>7, <1>8, <1>9, <1>10, <1>11, <1>12, <1>13,
       <1>14, <1>15, <1>16, <1>17, <1>18, <1>19, <1>20
       DEF DocStep, Looks

\* Every step keeps the types.
LEMMA TypeStep == ASSUME AnyInv, NEW c \in DocCalls, DocStep(c) PROVE DocTypeOK'
  BY CallsStep, OpsStep, WorldStep
     DEF AnyInv, DocTypeOK, DocLocals, Pcs, Operations, Statuses
-----------------------------------------------------------------------------
(* What holds however calls overlap.                                       *)

\* The steps each kind of command is in, and the operation a claim finds.
LEMMA ClaimEffect ==
    ASSUME AnyInv, NEW c \in DocCalls, ClaimDoc(c)
    PROVE  /\ docCalls[c].pc = "claim" /\ OthersKept(c) /\ CorpusKept /\ docNow' = docNow
           /\ DocKind(c) \in {"ingest", "delete"}
           /\ \/ /\ OpsKept /\ latest' = latest
                 /\ Returns(c, "ok") \/ Returns(c, "refused")
              \/ Claims(c)
  <1>1. docCalls[c].pc = "claim"
    BY DEF ClaimDoc, DocAt
  <1>2. DocKind(c) \in {"ingest", "delete"}
    BY <1>1, TypeParts DEF AnyInv, StepsApart, Apart, DocRunning, RebuildSteps, DocKinds
  <1>3. OpOf(c).status = "none" => ~OpOf(c).plan.made
    BY TypeParts DEF AnyInv, OpsBegun, OpOf
  <1> QED
    BY <1>2, <1>3, ClaimDocEffect DEF AnyInv

\* A call that leaves the try block leaves the others' operations in hand.
LEMMA HandLeft ==
    ASSUME DocTypeOK, OpsInHand, NEW c \in DocCalls, OthersKept(c),
           docCalls[c].pc \in Trying, docCalls'[c].pc \notin Trying
    PROVE  OpsInHand'
  BY TypeParts DEF OpsInHand, OthersKept, OpOf

\* So does one that goes on in it.
LEMMA HandHeld ==
    ASSUME DocTypeOK, OpsInHand, NEW c \in DocCalls, OthersKept(c),
           docCalls[c].pc \in Trying, docOps'[DocKeyOf[c]].status = OpOf(c).status
    PROVE  OpsInHand'
  BY TypeParts DEF OpsInHand, OthersKept, OpOf

\* A call in the try block moves alone.
LEMMA ApartOthers ==
    ASSUME DocTypeOK, OpsInHand, StepsApart, NEW c \in DocCalls, OthersKept(c),
           docCalls[c].pc \in Trying, Apart(c)'
    PROVE  StepsApart'
  BY TypeParts
     DEF StepsApart, Apart, OpsInHand, OthersKept, PlanOf, DocKind, Trying, InTry,
         IngestSteps, DeleteSteps, RebuildSteps

\* Operations that are left alone are as before.
LEMMA BegunKept ==
    ASSUME DocTypeOK, OpsBegun, NEW c \in DocCalls, OthersKept(c), OpsKept, docNow' = docNow,
           docCalls'[c].pc # "claim"
    PROVE  OpsBegun'
  BY TypeParts DEF OpsBegun, OthersKept, OpsKept

\* An operation that was begun goes on with its time.
LEMMA BegunHeld ==
    ASSUME DocTypeOK, OpsBegun, NEW c \in DocCalls, OthersKept(c), docNow' = docNow,
           docCalls'[c].pc # "claim", DocKind(c) # "rebuild",
           docOps'[DocKeyOf[c]].status # "none", docOps'[DocKeyOf[c]].at # 0,
           ~docOps'[DocKeyOf[c]].plan.made => docOps'[DocKeyOf[c]].plan.documents = {},
           docOps'[DocKeyOf[c]].status = "committed" => docOps'[DocKeyOf[c]].plan.made
    PROVE  OpsBegun'
  BY TypeParts DEF OpsBegun, OthersKept, DocKind

\* A step leaves the head on a stored version.
LEMMA HeadStep ==
    ASSUME AnyInv, NEW c \in DocCalls, DocStep(c)
    PROVE  HeadIsStored'
  <1>0. DocTypeOK /\ HeadIsStored /\ OpsInHand /\ OpsBegun /\ StepsApart
    BY DEF AnyInv
  <1>t. /\ docCalls \in [DocCalls -> DocLocals] /\ docOps \in [DocKeys -> Operations]
        /\ docs \in [Versions -> Nat]
        /\ \A d \in DocCalls : DocKeyOf[d] \in DocKeys /\ VersionOf(d) \in Versions
    BY <1>0, TypeParts
  <1>1. CASE ArriveDoc(c)
    BY <1>0, <1>t, <1>1, ArriveDocEffect, CorpusAssumption
       DEF HeadIsStored, Stored, CorpusKept
  <1>2. CASE ClaimDoc(c)
    BY <1>0, <1>t, <1>2, ClaimEffect, CorpusAssumption DEF HeadIsStored, Stored, CorpusKept
  <1>3. CASE PlanIngest(c)
    BY <1>0, <1>t, <1>3, PlanIngestEffect, CorpusAssumption
       DEF HeadIsStored, Stored, CorpusKept
  <1>4. CASE LoadSource(c)
    BY <1>0, <1>t, <1>4, LoadSourceEffect, CorpusAssumption
       DEF HeadIsStored, Stored, CorpusKept
  <1>5. CASE PutOriginal(c)
    BY <1>0, <1>t, <1>5, PutOriginalEffect, CorpusAssumption DEF HeadIsStored, Stored
  <1>6. CASE VerifyVersion(c)
    BY <1>0, <1>t, <1>6, VerifyVersionEffect, CorpusAssumption
       DEF HeadIsStored, Stored, CorpusKept
  <1>7. CASE CommitVersion(c)
    BY <1>0, <1>t, <1>7, CommitVersionEffect, CorpusAssumption
       DEF HeadIsStored, Stored, StepsApart, Apart, NoHead
  <1>8. CASE ProjectChunks(c)
    BY <1>0, <1>t, <1>8, ProjectChunksEffect, CorpusAssumption DEF HeadIsStored, Stored
  <1>9. CASE CleanPrevious(c)
    BY <1>0, <1>t, <1>9, CleanPreviousEffect, CorpusAssumption DEF HeadIsStored, Stored
  <1>10. CASE CompleteDoc(c)
    BY <1>0, <1>t, <1>10, CompleteDocEffect, CorpusAssumption
       DEF HeadIsStored, Stored, CorpusKept
  <1>11. CASE PlanDelete(c)
    BY <1>0, <1>t, <1>11, PlanDeleteEffect, CorpusAssumption
       DEF HeadIsStored, Stored, CorpusKept
  <1>12. CASE SelectVersions(c)
    BY <1>0, <1>t, <1>12, SelectVersionsEffect, CorpusAssumption
       DEF HeadIsStored, Stored, CorpusKept
  <1>13. CASE PurgeDocument(c)
    BY <1>0, <1>t, <1>13, PurgeDocumentEffect, CorpusAssumption
       DEF HeadIsStored, Stored, StepsApart, Apart, NoHead
  <1>14. CASE DeleteOriginals(c)
    BY <1>0, <1>t, <1>14, DeleteOriginalsEffect, CorpusAssumption DEF HeadIsStored, Stored
  <1>15. CASE DeleteChunkVectors(c)
    BY <1>0, <1>t, <1>15, DeleteChunkVectorsEffect, CorpusAssumption
       DEF HeadIsStored, Stored
  <1>16. CASE Looks(c)
    BY <1>0, <1>t, <1>16, LooksEffect, CorpusAssumption
       DEF HeadIsStored, Stored, CorpusKept
  <1>17. CASE Reproject(c)
    BY <1>0, <1>t, <1>17, ReprojectEffect, CorpusAssumption DEF HeadIsStored, Stored
  <1>18. CASE DocStepThrows(c)
    BY <1>0, <1>t, <1>18, DocStepThrowsEffect, CorpusAssumption
       DEF HeadIsStored, Stored, CorpusKept
  <1>19. CASE FailDoc(c)
    BY <1>0, <1>t, <1>19, FailDocEffect, CorpusAssumption
       DEF HeadIsStored, Stored, CorpusKept
  <1>20. CASE DocCrash(c)
    BY <1>0, <1>t, <1>20, DocCrashEffect, CorpusAssumption
       DEF HeadIsStored, Stored, CorpusKept
  <1> QED
    BY <1>1, <1>2, <1>3, <1>4, <1>5, <1>6, <1>7, <1>8, <1>9, <1>10, <1>11, <1>12, <1>13,
       <1>14, <1>15, <1>16, <1>17, <1>18, <1>19, <1>20
       DEF DocStep, Looks

\* A step leaves a pending operation to one call.
LEMMA InHandStep ==
    ASSUME AnyInv, NEW c \in DocCalls, DocStep(c)
    PROVE  OpsInHand'
  <1>0. DocTypeOK /\ HeadIsStored /\ OpsInHand /\ OpsBegun /\ StepsApart
    BY DEF AnyInv
  <1>t. /\ docCalls \in [DocCalls -> DocLocals] /\ docOps \in [DocKeys -> Operations]
        /\ docs \in [Versions -> Nat]
        /\ \A d \in DocCalls : DocKeyOf[d] \in DocKeys /\ VersionOf(d) \in Versions
    BY <1>0, TypeParts
  <1>1. CASE ArriveDoc(c)
    BY <1>0, <1>t, <1>1, ArriveDocEffect
       DEF OpsInHand, OpOf, OthersKept, OpsKept, CorpusKept, Trying, InTry, IngestSteps,
           DeleteSteps
  <1>2. CASE ClaimDoc(c)
    BY <1>0, <1>t, <1>2, ClaimEffect
       DEF OpsInHand, OpOf, InHand, OthersKept, OpsKept, CorpusKept, Moves, Returns, Claims,
           Trying, InTry, IngestSteps, DeleteSteps
  <1>3. CASE PlanIngest(c)
    BY <1>0, <1>t, <1>3, PlanIngestEffect
       DEF OpsInHand, OpOf, OthersKept, TimeKept, CorpusKept, Moves, Trying, InTry,
           IngestSteps, DeleteSteps
  <1>4. CASE LoadSource(c)
    BY <1>0, <1>t, <1>4, LoadSourceEffect
       DEF OpsInHand, OpOf, OthersKept, TimeKept, OpsKept, CorpusKept, Trying, InTry,
           IngestSteps, DeleteSteps
  <1>5. CASE PutOriginal(c)
    BY <1>0, <1>t, <1>5, PutOriginalEffect
       DEF OpsInHand, OpOf, OthersKept, TimeKept, OpsKept, Moves, Trying, InTry,
           IngestSteps, DeleteSteps
  <1>6. CASE VerifyVersion(c)
    BY <1>0, <1>t, <1>6, VerifyVersionEffect
       DEF OpsInHand, OpOf, OthersKept, TimeKept, OpsKept, CorpusKept, Moves, Trying, InTry,
           IngestSteps, DeleteSteps
  <1>7. CASE CommitVersion(c)
    BY <1>0, <1>t, <1>7, CommitVersionEffect
       DEF OpsInHand, OpOf, OthersKept, TimeKept, OpsKept, Moves, Trying, InTry,
           IngestSteps, DeleteSteps
  <1>8. CASE ProjectChunks(c)
    BY <1>0, <1>t, <1>8, ProjectChunksEffect
       DEF OpsInHand, OpOf, OthersKept, TimeKept, OpsKept, Trying, InTry, IngestSteps,
           DeleteSteps
  <1>9. CASE CleanPrevious(c)
    BY <1>0, <1>t, <1>9, CleanPreviousEffect
       DEF OpsInHand, OpOf, OthersKept, TimeKept, OpsKept, Moves, Trying, InTry,
           IngestSteps, DeleteSteps
  <1>10. CASE CompleteDoc(c)
    BY <1>0, <1>10, CompleteDocEffect, HandLeft
       DEF Trying, InTry, IngestSteps, DeleteSteps, Returns
  <1>11. CASE PlanDelete(c)
    BY <1>0, <1>11, PlanDeleteEffect, HandHeld
       DEF Trying, InTry, IngestSteps, DeleteSteps, OpsKept, OpOf
  <1>12. CASE SelectVersions(c)
    BY <1>0, <1>t, <1>12, SelectVersionsEffect
       DEF OpsInHand, OpOf, OthersKept, TimeKept, OpsKept, CorpusKept, Trying, InTry,
           IngestSteps, DeleteSteps
  <1>13. CASE PurgeDocument(c)
    BY <1>0, <1>t, <1>13, PurgeDocumentEffect
       DEF OpsInHand, OpOf, OthersKept, TimeKept, OpsKept, Trying, InTry, IngestSteps,
           DeleteSteps
  <1>14. CASE DeleteOriginals(c)
    BY <1>0, <1>t, <1>14, DeleteOriginalsEffect
       DEF OpsInHand, OpOf, OthersKept, TimeKept, OpsKept, Moves, Trying, InTry,
           IngestSteps, DeleteSteps
  <1>15. CASE DeleteChunkVectors(c)
    BY <1>0, <1>t, <1>15, DeleteChunkVectorsEffect
       DEF OpsInHand, OpOf, OthersKept, TimeKept, OpsKept, Moves, Trying, InTry,
           IngestSteps, DeleteSteps
  <1>16. CASE Looks(c)
    BY <1>0, <1>t, <1>16, LooksEffect
       DEF OpsInHand, OpOf, OthersKept, TimeKept, OpsKept, CorpusKept, Moves, Returns,
           Trying, InTry, IngestSteps, DeleteSteps
  <1>17. CASE Reproject(c)
    BY <1>0, <1>t, <1>17, ReprojectEffect
       DEF OpsInHand, OpOf, OthersKept, TimeKept, OpsKept, Trying, InTry, IngestSteps,
           DeleteSteps
  <1>18. CASE DocStepThrows(c)
    BY <1>0, <1>t, <1>18, DocStepThrowsEffect
       DEF OpsInHand, OpOf, OthersKept, TimeKept, OpsKept, CorpusKept, Moves, Returns,
           Trying, InTry, IngestSteps, DeleteSteps, RebuildSteps
  <1>19. CASE FailDoc(c)
    BY <1>0, <1>t, <1>19, FailDocEffect
       DEF OpsInHand, OpOf, OthersKept, TimeKept, CorpusKept, Returns, OpIs, Trying, InTry,
           IngestSteps, DeleteSteps
  <1>20. CASE DocCrash(c)
    BY <1>0, <1>t, <1>20, DocCrashEffect
       DEF OpsInHand, OpOf, OthersKept, TimeKept, OpsKept, CorpusKept, Returns, Trying,
           InTry, IngestSteps, DeleteSteps, RebuildSteps, DocRunning
  <1> QED
    BY <1>1, <1>2, <1>3, <1>4, <1>5, <1>6, <1>7, <1>8, <1>9, <1>10, <1>11, <1>12, <1>13,
       <1>14, <1>15, <1>16, <1>17, <1>18, <1>19, <1>20
       DEF DocStep, Looks

\* A step leaves claimed operations with a time.
LEMMA BegunStep ==
    ASSUME AnyInv, NEW c \in DocCalls, DocStep(c)
    PROVE  OpsBegun'
  <1>0. DocTypeOK /\ HeadIsStored /\ OpsInHand /\ OpsBegun /\ StepsApart
    BY DEF AnyInv
  <1>t. /\ docCalls \in [DocCalls -> DocLocals] /\ docOps \in [DocKeys -> Operations]
        /\ docs \in [Versions -> Nat]
        /\ \A d \in DocCalls : DocKeyOf[d] \in DocKeys /\ VersionOf(d) \in Versions
    BY <1>0, TypeParts
  <1>1. CASE ArriveDoc(c)
    BY <1>0, <1>t, <1>1, ArriveDocEffect, TypeParts, CorpusAssumption
       DEF OpsBegun, OpsInHand, StepsApart, OpOf, PlanOf, DocKind, Operations, Statuses,
           DocPlans, OthersKept, OpsKept, CorpusKept, Trying, InTry, IngestSteps,
           DeleteSteps
  <1>2. CASE ClaimDoc(c)
    <2>1. /\ ~OpOf(c).plan.made => OpOf(c).plan.documents = {}
          /\ docCalls[c].at # 0 /\ docCalls[c].pc = "claim"
          /\ OpOf(c).status # "none" => OpOf(c).at # 0
      BY <1>0, <1>t, <1>2, ClaimEffect DEF OpsBegun, OpOf
    <2>2. CASE OpsKept
      <3>1. docCalls'[c].pc # "claim"
        BY <1>2, ClaimEffect DEF Returns, Claims, Moves
      <3> QED
        BY <1>0, <2>2, <3>1, <1>2, ClaimEffect, BegunKept
    <2>3. CASE Claims(c)
      <3>1. docCalls'[c].pc # "claim"
        BY <2>3 DEF Claims, Moves
      <3> QED
        BY <1>0, <2>1, <2>3, <3>1, <1>2, ClaimEffect, BegunHeld DEF Claims
    <2> QED
      BY <2>2, <2>3, <1>2, ClaimEffect
  <1>3. CASE PlanIngest(c)
    <2>1. /\ docCalls[c].pc = "plan" /\ OpOf(c).status = "pending" /\ OpOf(c).at # 0
          /\ DocKind(c) # "rebuild"
      BY <1>0, <1>t, <1>3, PlanIngestEffect
         DEF OpsInHand, OpsBegun, StepsApart, Apart, OpOf, Trying, InTry, IngestSteps,
             DeleteSteps, RebuildSteps, DocRunning
    <2>2. PlanOf(c) = OpOf(c).plan
      BY DEF PlanOf, OpOf
    <2> QED
      BY <1>0, <2>1, <1>3, PlanIngestEffect, BegunHeld DEF Moves, TimeKept
  <1>4. CASE LoadSource(c)
    BY <1>0, <1>4, LoadSourceEffect, BegunKept DEF TimeKept
  <1>5. CASE PutOriginal(c)
    BY <1>0, <1>5, PutOriginalEffect, BegunKept DEF Moves, TimeKept
  <1>6. CASE VerifyVersion(c)
    BY <1>0, <1>6, VerifyVersionEffect, BegunKept DEF Moves, TimeKept
  <1>7. CASE CommitVersion(c)
    BY <1>0, <1>7, CommitVersionEffect, BegunKept DEF Moves, TimeKept
  <1>8. CASE ProjectChunks(c)
    BY <1>0, <1>8, ProjectChunksEffect, BegunKept DEF TimeKept
  <1>9. CASE CleanPrevious(c)
    BY <1>0, <1>9, CleanPreviousEffect, BegunKept DEF Moves, TimeKept
  <1>10. CASE CompleteDoc(c)
    <2>1. /\ docCalls[c].pc = "complete" /\ OpOf(c).status = "pending" /\ OpOf(c).at # 0
          /\ DocKind(c) # "rebuild"
      BY <1>0, <1>t, <1>10, CompleteDocEffect
         DEF OpsInHand, OpsBegun, StepsApart, Apart, OpOf, Trying, InTry, IngestSteps,
             DeleteSteps, RebuildSteps, DocRunning
    <2>2. PlanOf(c) = OpOf(c).plan
      BY DEF PlanOf, OpOf
    <2>3. OpOf(c).plan.made
      BY <1>0, <2>1, <2>2
         DEF StepsApart, Apart, InTry, IngestSteps, DeleteSteps, RebuildSteps, DocRunning
    <2> QED
      BY <1>0, <2>1, <2>3, <1>10, CompleteDocEffect, BegunHeld DEF Returns, OpIs, TimeKept
  <1>11. CASE PlanDelete(c)
    <2>1. /\ docCalls[c].pc = "freeze" /\ OpOf(c).status = "pending" /\ OpOf(c).at # 0
          /\ DocKind(c) # "rebuild"
      BY <1>0, <1>t, <1>11, PlanDeleteEffect
         DEF OpsInHand, OpsBegun, StepsApart, Apart, OpOf, Trying, InTry, IngestSteps,
             DeleteSteps, RebuildSteps, DocRunning
    <2>2. PlanOf(c) = OpOf(c).plan
      BY DEF PlanOf, OpOf
    <2>3. CASE OpsKept
      BY <1>0, <2>3, <1>11, PlanDeleteEffect, BegunKept DEF Moves, TimeKept
    <2>4. CASE ~OpsKept
      BY <1>0, <2>1, <2>4, <1>11, PlanDeleteEffect, BegunHeld DEF Moves, TimeKept
    <2> QED
      BY <2>3, <2>4
  <1>12. CASE SelectVersions(c)
    BY <1>0, <1>12, SelectVersionsEffect, BegunKept DEF TimeKept
  <1>13. CASE PurgeDocument(c)
    BY <1>0, <1>13, PurgeDocumentEffect, BegunKept DEF TimeKept
  <1>14. CASE DeleteOriginals(c)
    BY <1>0, <1>14, DeleteOriginalsEffect, BegunKept DEF Moves, TimeKept
  <1>15. CASE DeleteChunkVectors(c)
    BY <1>0, <1>15, DeleteChunkVectorsEffect, BegunKept DEF Moves, TimeKept
  <1>16. CASE Looks(c)
    BY <1>0, <1>16, LooksEffect, BegunKept DEF Moves, Returns, TimeKept
  <1>17. CASE Reproject(c)
    BY <1>0, <1>17, ReprojectEffect, BegunKept DEF TimeKept
  <1>18. CASE DocStepThrows(c)
    BY <1>0, <1>18, DocStepThrowsEffect, BegunKept DEF Moves, Returns, TimeKept
  <1>19. CASE FailDoc(c)
    <2>1. /\ docCalls[c].pc = "fail" /\ OpOf(c).status = "pending" /\ OpOf(c).at # 0
          /\ DocKind(c) # "rebuild"
      BY <1>0, <1>t, <1>19, FailDocEffect
         DEF OpsInHand, OpsBegun, StepsApart, Apart, OpOf, Trying, InTry, IngestSteps,
             DeleteSteps, RebuildSteps, DocRunning
    <2>2. PlanOf(c) = OpOf(c).plan
      BY DEF PlanOf, OpOf
    <2>3. ~OpOf(c).plan.made => OpOf(c).plan.documents = {}
      BY <1>0, <1>t DEF OpsBegun, OpOf
    <2> QED
      BY <1>0, <2>1, <2>3, <1>19, FailDocEffect, BegunHeld DEF Returns, OpIs, TimeKept
  <1>20. CASE DocCrash(c)
    BY <1>0, <1>20, DocCrashEffect, BegunKept DEF Returns, TimeKept
  <1> QED
    BY <1>1, <1>2, <1>3, <1>4, <1>5, <1>6, <1>7, <1>8, <1>9, <1>10, <1>11, <1>12, <1>13,
       <1>14, <1>15, <1>16, <1>17, <1>18, <1>19, <1>20
       DEF DocStep, Looks

\* A step leaves each command in its steps.
LEMMA ApartStep ==
    ASSUME AnyInv, NEW c \in DocCalls, DocStep(c)
    PROVE  StepsApart'
  <1>0. DocTypeOK /\ HeadIsStored /\ OpsInHand /\ OpsBegun /\ StepsApart
    BY DEF AnyInv
  <1>t. /\ docCalls \in [DocCalls -> DocLocals] /\ docOps \in [DocKeys -> Operations]
        /\ docs \in [Versions -> Nat]
        /\ \A d \in DocCalls : DocKeyOf[d] \in DocKeys /\ VersionOf(d) \in Versions
    BY <1>0, TypeParts
  <1>1. CASE ArriveDoc(c)
    BY <1>0, <1>t, <1>1, ArriveDocEffect, TypeParts, CorpusAssumption
       DEF StepsApart, Apart, OpsInHand, OpsBegun, OpOf, PlanOf, DocKind, VersionOf,
           OthersKept, OpsKept, CorpusKept, Trying, InTry, IngestSteps, DeleteSteps,
           RebuildSteps, DocRunning
  <1>2. CASE ClaimDoc(c)
    BY <1>0, <1>t, <1>2, ClaimEffect, TypeParts, CorpusAssumption
       DEF StepsApart, Apart, OpsInHand, OpsBegun, OpOf, PlanOf, DocKind, VersionOf,
           OthersKept, OpsKept, CorpusKept, Moves, Returns, Claims, Trying, InTry,
           IngestSteps, DeleteSteps, RebuildSteps, DocRunning
  <1>3. CASE PlanIngest(c)
    BY <1>0, <1>t, <1>3, PlanIngestEffect, TypeParts, CorpusAssumption
       DEF StepsApart, Apart, OpsInHand, OpsBegun, OpOf, PlanOf, DocKind, VersionOf,
           OthersKept, TimeKept, CorpusKept, Moves, Trying, InTry, IngestSteps, DeleteSteps,
           RebuildSteps, DocRunning
  <1>4. CASE LoadSource(c)
    <2>0. docCalls'[c].rowAt # 0
      BY <1>0, <1>t, <1>4, LoadSourceEffect
         DEF Stored, OpsInHand, OpsBegun, OpOf, Trying, InTry, IngestSteps, DeleteSteps
    <2>1. docCalls[c].pc \in Trying /\ Apart(c) /\ OthersKept(c)
      BY <1>0, <1>4, LoadSourceEffect
         DEF StepsApart, Trying, InTry, IngestSteps, DeleteSteps
    <2>2. Apart(c)'
      BY <2>1, <2>0, <1>4, <1>0, LoadSourceEffect
         DEF Apart, PlanOf, OpOf, DocKind, OthersKept, TimeKept, OpsKept, CorpusKept,
             Trying, InTry, IngestSteps, DeleteSteps, RebuildSteps, DocRunning
    <2> QED
      BY <1>0, <2>1, <2>2, ApartOthers
  <1>5. CASE PutOriginal(c)
    BY <1>0, <1>t, <1>5, PutOriginalEffect, TypeParts, CorpusAssumption
       DEF StepsApart, Apart, OpsInHand, OpsBegun, OpOf, PlanOf, DocKind, VersionOf,
           OthersKept, TimeKept, OpsKept, Moves, Trying, InTry, IngestSteps, DeleteSteps,
           RebuildSteps, DocRunning
  <1>6. CASE VerifyVersion(c)
    BY <1>0, <1>t, <1>6, VerifyVersionEffect, TypeParts, CorpusAssumption
       DEF StepsApart, Apart, OpsInHand, OpsBegun, OpOf, PlanOf, DocKind, VersionOf,
           OthersKept, TimeKept, OpsKept, CorpusKept, Moves, Trying, InTry, IngestSteps,
           DeleteSteps, RebuildSteps, DocRunning
  <1>7. CASE CommitVersion(c)
    BY <1>0, <1>t, <1>7, CommitVersionEffect, TypeParts, CorpusAssumption
       DEF StepsApart, Apart, OpsInHand, OpsBegun, OpOf, PlanOf, DocKind, VersionOf,
           OthersKept, TimeKept, OpsKept, Moves, Trying, InTry, IngestSteps, DeleteSteps,
           RebuildSteps, DocRunning
  <1>8. CASE ProjectChunks(c)
    BY <1>0, <1>t, <1>8, ProjectChunksEffect, TypeParts, CorpusAssumption
       DEF StepsApart, Apart, OpsInHand, OpsBegun, OpOf, PlanOf, DocKind, VersionOf,
           OthersKept, TimeKept, OpsKept, Trying, InTry, IngestSteps, DeleteSteps,
           RebuildSteps, DocRunning
  <1>9. CASE CleanPrevious(c)
    BY <1>0, <1>t, <1>9, CleanPreviousEffect, TypeParts, CorpusAssumption
       DEF StepsApart, Apart, OpsInHand, OpsBegun, OpOf, PlanOf, DocKind, VersionOf,
           OthersKept, TimeKept, OpsKept, Moves, Trying, InTry, IngestSteps, DeleteSteps,
           RebuildSteps, DocRunning
  <1>10. CASE CompleteDoc(c)
    <2>1. docCalls[c].pc \in Trying /\ Apart(c) /\ OthersKept(c)
      BY <1>0, <1>10, CompleteDocEffect
         DEF StepsApart, Trying, InTry, IngestSteps, DeleteSteps
    <2>2. Apart(c)'
      BY <2>1, <1>10, <1>0, CompleteDocEffect
         DEF Apart, PlanOf, OpOf, DocKind, OthersKept, TimeKept, CorpusKept, Returns, OpIs,
             Trying, InTry, IngestSteps, DeleteSteps, RebuildSteps, DocRunning
    <2> QED
      BY <1>0, <2>1, <2>2, ApartOthers
  <1>11. CASE PlanDelete(c)
    <2>1. docCalls[c].pc \in Trying /\ Apart(c) /\ OthersKept(c)
      BY <1>0, <1>11, PlanDeleteEffect
         DEF StepsApart, Trying, InTry, IngestSteps, DeleteSteps
    <2>2. Apart(c)'
      BY <2>1, <1>11, <1>0, PlanDeleteEffect
         DEF Apart, PlanOf, OpOf, DocKind, OthersKept, TimeKept, OpsKept, CorpusKept, Moves,
             Trying, InTry, IngestSteps, DeleteSteps, RebuildSteps, DocRunning
    <2> QED
      BY <1>0, <2>1, <2>2, ApartOthers
  <1>12. CASE SelectVersions(c)
    BY <1>0, <1>t, <1>12, SelectVersionsEffect, TypeParts, CorpusAssumption
       DEF StepsApart, Apart, OpsInHand, OpsBegun, OpOf, PlanOf, DocKind, VersionOf,
           OthersKept, TimeKept, OpsKept, CorpusKept, Trying, InTry, IngestSteps,
           DeleteSteps, RebuildSteps, DocRunning
  <1>13. CASE PurgeDocument(c)
    BY <1>0, <1>t, <1>13, PurgeDocumentEffect, TypeParts, CorpusAssumption
       DEF StepsApart, Apart, OpsInHand, OpsBegun, OpOf, PlanOf, DocKind, VersionOf,
           OthersKept, TimeKept, OpsKept, Trying, InTry, IngestSteps, DeleteSteps,
           RebuildSteps, DocRunning
  <1>14. CASE DeleteOriginals(c)
    BY <1>0, <1>t, <1>14, DeleteOriginalsEffect, TypeParts, CorpusAssumption
       DEF StepsApart, Apart, OpsInHand, OpsBegun, OpOf, PlanOf, DocKind, VersionOf,
           OthersKept, TimeKept, OpsKept, Moves, Trying, InTry, IngestSteps, DeleteSteps,
           RebuildSteps, DocRunning
  <1>15. CASE DeleteChunkVectors(c)
    BY <1>0, <1>t, <1>15, DeleteChunkVectorsEffect, TypeParts, CorpusAssumption
       DEF StepsApart, Apart, OpsInHand, OpsBegun, OpOf, PlanOf, DocKind, VersionOf,
           OthersKept, TimeKept, OpsKept, Moves, Trying, InTry, IngestSteps, DeleteSteps,
           RebuildSteps, DocRunning
  <1>16. CASE Looks(c)
    BY <1>0, <1>t, <1>16, LooksEffect, TypeParts, CorpusAssumption
       DEF StepsApart, Apart, OpsInHand, OpsBegun, OpOf, PlanOf, DocKind, VersionOf,
           OthersKept, TimeKept, OpsKept, CorpusKept, Moves, Returns, Trying, InTry,
           IngestSteps, DeleteSteps, RebuildSteps, DocRunning
  <1>17. CASE Reproject(c)
    BY <1>0, <1>t, <1>17, ReprojectEffect, TypeParts, CorpusAssumption
       DEF StepsApart, Apart, OpsInHand, OpsBegun, OpOf, PlanOf, DocKind, VersionOf,
           OthersKept, TimeKept, OpsKept, Trying, InTry, IngestSteps, DeleteSteps,
           RebuildSteps, DocRunning
  <1>18. CASE DocStepThrows(c)
    BY <1>0, <1>t, <1>18, DocStepThrowsEffect, TypeParts, CorpusAssumption
       DEF StepsApart, Apart, OpsInHand, OpsBegun, OpOf, PlanOf, DocKind, VersionOf,
           OthersKept, TimeKept, OpsKept, CorpusKept, Moves, Returns, Trying, InTry,
           IngestSteps, DeleteSteps, RebuildSteps, DocRunning
  <1>19. CASE FailDoc(c)
    BY <1>0, <1>t, <1>19, FailDocEffect, TypeParts, CorpusAssumption
       DEF StepsApart, Apart, OpsInHand, OpsBegun, OpOf, PlanOf, DocKind, VersionOf,
           OthersKept, TimeKept, CorpusKept, Returns, OpIs, Trying, InTry, IngestSteps,
           DeleteSteps, RebuildSteps, DocRunning
  <1>20. CASE DocCrash(c)
    BY <1>0, <1>t, <1>20, DocCrashEffect, TypeParts, CorpusAssumption
       DEF StepsApart, Apart, OpsInHand, OpsBegun, OpOf, PlanOf, DocKind, VersionOf,
           OthersKept, TimeKept, OpsKept, CorpusKept, Returns, Trying, InTry, IngestSteps,
           DeleteSteps, RebuildSteps, DocRunning
  <1> QED
    BY <1>1, <1>2, <1>3, <1>4, <1>5, <1>6, <1>7, <1>8, <1>9, <1>10, <1>11, <1>12, <1>13,
       <1>14, <1>15, <1>16, <1>17, <1>18, <1>19, <1>20
       DEF DocStep, Looks
\* A step changes one call and its operation.
LEMMA Others ==
    ASSUME AnyInv, NEW c \in DocCalls, DocStep(c)
    PROVE  OthersKept(c)
  <1>1. CASE ArriveDoc(c)
    BY <1>1, ArriveDocEffect DEF AnyInv
  <1>2. CASE ClaimDoc(c)
    BY <1>2, ClaimEffect DEF AnyInv
  <1>3. CASE PlanIngest(c)
    BY <1>3, PlanIngestEffect DEF AnyInv
  <1>4. CASE LoadSource(c)
    BY <1>4, LoadSourceEffect DEF AnyInv
  <1>5. CASE PutOriginal(c)
    BY <1>5, PutOriginalEffect DEF AnyInv
  <1>6. CASE VerifyVersion(c)
    BY <1>6, VerifyVersionEffect DEF AnyInv
  <1>7. CASE CommitVersion(c)
    BY <1>7, CommitVersionEffect DEF AnyInv
  <1>8. CASE ProjectChunks(c)
    BY <1>8, ProjectChunksEffect DEF AnyInv
  <1>9. CASE CleanPrevious(c)
    BY <1>9, CleanPreviousEffect DEF AnyInv
  <1>10. CASE CompleteDoc(c)
    BY <1>10, CompleteDocEffect DEF AnyInv
  <1>11. CASE PlanDelete(c)
    BY <1>11, PlanDeleteEffect DEF AnyInv
  <1>12. CASE SelectVersions(c)
    BY <1>12, SelectVersionsEffect DEF AnyInv
  <1>13. CASE PurgeDocument(c)
    BY <1>13, PurgeDocumentEffect DEF AnyInv
  <1>14. CASE DeleteOriginals(c)
    BY <1>14, DeleteOriginalsEffect DEF AnyInv
  <1>15. CASE DeleteChunkVectors(c)
    BY <1>15, DeleteChunkVectorsEffect DEF AnyInv
  <1>16. CASE Looks(c)
    BY <1>16, LooksEffect DEF AnyInv
  <1>17. CASE Reproject(c)
    BY <1>17, ReprojectEffect DEF AnyInv
  <1>18. CASE DocStepThrows(c)
    BY <1>18, DocStepThrowsEffect DEF AnyInv
  <1>19. CASE FailDoc(c)
    BY <1>19, FailDocEffect DEF AnyInv
  <1>20. CASE DocCrash(c)
    BY <1>20, DocCrashEffect DEF AnyInv
  <1> QED
    BY <1>1, <1>2, <1>3, <1>4, <1>5, <1>6, <1>7, <1>8, <1>9, <1>10, <1>11, <1>12, <1>13,
       <1>14, <1>15, <1>16, <1>17, <1>18, <1>19, <1>20
       DEF DocStep, Looks

\* What holds under any interleaving holds at first.
LEMMA AnyInit == DocInit => AnyInv
  <1> SUFFICES ASSUME DocInit PROVE AnyInv
    OBVIOUS
  <1>1. DocTypeOK
    BY CorpusAssumption
       DEF DocInit, DocTypeOK, NoHead, ChunksOf, Chunks, NoDocOp, NoDocPlan, DocPlans,
           NewDocCall
  <1>2. HeadIsStored /\ OpsInHand
    BY CorpusAssumption
       DEF DocInit, HeadIsStored, Stored, NoHead, OpsInHand, OpOf, NoDocOp, NewDocCall,
           Trying, InTry, IngestSteps, DeleteSteps
  <1>3. OpsBegun /\ StepsApart
    BY DEF DocInit, OpsBegun, StepsApart, Apart, NoDocOp, NoDocPlan, NewDocCall, InTry,
           IngestSteps, DeleteSteps, RebuildSteps, DocRunning
  <1> QED
    BY <1>1, <1>2, <1>3 DEF AnyInv

\* Every step keeps it.
LEMMA AnyStep == AnyInv /\ [DocNext]_docVars => AnyInv'
  <1> SUFFICES ASSUME AnyInv, [DocNext]_docVars PROVE AnyInv'
    OBVIOUS
  <1>1. ASSUME NEW c \in DocCalls, DocStep(c) PROVE AnyInv'
    BY <1>1, TypeStep, HeadStep, InHandStep, BegunStep, ApartStep DEF AnyInv
  <1>2. CASE UNCHANGED docVars
    BY <1>2
       DEF docVars, AnyInv, DocTypeOK, HeadIsStored, Stored, OpsInHand, OpOf, OpsBegun,
           StepsApart, Apart, DocKind, PlanOf
  <1> QED
    BY <1>1, <1>2 DEF DocNext, DocsReturned

-----------------------------------------------------------------------------
(* What holds of calls that do not overlap.                                *)

\* Who takes a step is alone.
LEMMA Alone ==
    ASSUME AnyInv, docSerial, OneAtATime, NEW c \in DocCalls, DocStep(c)
    PROVE  /\ OthersKept(c)
           /\ \A d \in DocCalls \ {c} : docCalls[d].pc \notin DocRunning
           /\ docSerial' /\ OneAtATime'
  <1>0. DocTypeOK
    BY DEF AnyInv
  <1>1. OthersKept(c)
    BY Others
  <1>2. ASSUME ArriveDoc(c)
        PROVE  \A d \in DocCalls \ {c} : docCalls[d].pc \notin DocRunning
    <2>1. MayCall(c)
      BY <1>2 DEF ArriveDoc
    <2> QED
      BY <2>1 DEF MayCall
  <1>3. ASSUME ~ArriveDoc(c)
        PROVE  \A d \in DocCalls \ {c} : docCalls[d].pc \notin DocRunning
    <2>1. docCalls[c].pc \in DocRunning
      BY <1>3
         DEF DocStep, ClaimDoc, PlanIngest, LoadSource, PutOriginal, VerifyVersion,
             CommitVersion, ProjectChunks, CleanPrevious, CompleteDoc, PlanDelete,
             SelectVersions, PurgeDocument, DeleteOriginals, DeleteChunkVectors,
             ReadHead, ReadCurrent, AddressVersion, ReadForRebuild, HydrateOriginal,
             ListChunks, Reproject, DocStepThrows, FailDoc, DocCrash, DocAt, DocRunning,
             InTry, IngestSteps, DeleteSteps, RebuildSteps
    <2> QED
      BY <2>1 DEF OneAtATime
  <1>4. \A d \in DocCalls \ {c} : docCalls[d].pc \notin DocRunning
    BY <1>2, <1>3
  <1> QED
    BY <1>1, <1>4 DEF OneAtATime, OthersKept

\* What the outcomes and the freeze of a delete do to its time and status.
LEMMA CompleteEffect ==
    ASSUME AnyInv, NEW c \in DocCalls, CompleteDoc(c)
    PROVE  /\ docCalls[c].pc = "complete" /\ OthersKept(c) /\ TimeKept /\ CorpusKept
           /\ OpIs(c, "committed") /\ Returns(c, "ok")
  BY CompleteDocEffect DEF AnyInv

\* A call that fails changes its operation only.
LEMMA FailEffect ==
    ASSUME AnyInv, NEW c \in DocCalls, FailDoc(c)
    PROVE  /\ docCalls[c].pc = "fail" /\ OthersKept(c) /\ TimeKept /\ CorpusKept
           /\ OpIs(c, "failed") /\ Returns(c, "failed")
  BY FailDocEffect DEF AnyInv

\* A delete freezes its plan.
LEMMA FreezeEffect ==
    ASSUME AnyInv, NEW c \in DocCalls, PlanDelete(c)
    PROVE  /\ docCalls[c].pc = "freeze" /\ OthersKept(c) /\ TimeKept /\ CorpusKept
           /\ docOps'[DocKeyOf[c]].status = OpOf(c).status
           /\ docOps'[DocKeyOf[c]].at = OpOf(c).at
           /\ \/ Moves(c, "fail") /\ docOps'[DocKeyOf[c]].plan = OpOf(c).plan
              \/ /\ Stored(VersionOf(c)) /\ Moves(c, "address")
                 /\ docOps'[DocKeyOf[c]].plan.made
                 /\ docOps'[DocKeyOf[c]].plan.documents = {v \in Versions : Stored(v)}
  BY PlanDeleteEffect DEF AnyInv, OpsKept, OpOf
\* Who runs has the key used last.
LEMMA LatestCallsStep ==
    ASSUME ~LateRetries, AnyInv, docSerial, OneAtATime, LatestCalls, NEW c \in DocCalls, DocStep(c)
    PROVE  LatestCalls'
  <1>0. DocTypeOK /\ HeadIsStored /\ OpsInHand /\ OpsBegun /\ StepsApart
    BY DEF AnyInv
  <1>a. OthersKept(c) /\ \A d \in DocCalls \ {c} : docCalls[d].pc \notin DocRunning
    BY Alone
  <1>t. /\ docCalls \in [DocCalls -> DocLocals] /\ docOps \in [DocKeys -> Operations]
        /\ docs \in [Versions -> Nat] /\ head.at \in Nat /\ docNow \in Nat
        /\ \A d \in DocCalls : DocKeyOf[d] \in DocKeys /\ VersionOf(d) \in Versions
    BY <1>0, TypeParts
  <1>1. CASE ArriveDoc(c)
    BY <1>0, <1>a, <1>t, <1>1, ArriveDocEffect
       DEF LatestCalls, OpOf, MayCall, DocKind, OthersKept, OpsKept, CorpusKept, Trying,
           InTry, IngestSteps, DeleteSteps, RebuildSteps, DocRunning
  <1>2. CASE ClaimDoc(c)
    BY <1>0, <1>a, <1>t, <1>2, ClaimEffect
       DEF LatestCalls, OpOf, OthersKept, OpsKept, CorpusKept, Moves, Returns, Claims,
           Trying, InTry, IngestSteps, DeleteSteps, RebuildSteps, DocRunning
  <1>3. CASE PlanIngest(c)
    BY <1>0, <1>a, <1>t, <1>3, PlanIngestEffect
       DEF LatestCalls, OpOf, OthersKept, TimeKept, CorpusKept, Moves, Trying, InTry,
           IngestSteps, DeleteSteps, RebuildSteps, DocRunning
  <1>4. CASE LoadSource(c)
    BY <1>0, <1>a, <1>t, <1>4, LoadSourceEffect
       DEF LatestCalls, OpOf, OthersKept, TimeKept, OpsKept, CorpusKept, Trying, InTry,
           IngestSteps, DeleteSteps, RebuildSteps, DocRunning
  <1>5. CASE PutOriginal(c)
    BY <1>0, <1>a, <1>t, <1>5, PutOriginalEffect
       DEF LatestCalls, OpOf, OthersKept, TimeKept, OpsKept, Moves, Trying, InTry,
           IngestSteps, DeleteSteps, RebuildSteps, DocRunning
  <1>6. CASE VerifyVersion(c)
    BY <1>0, <1>a, <1>t, <1>6, VerifyVersionEffect
       DEF LatestCalls, OpOf, OthersKept, TimeKept, OpsKept, CorpusKept, Moves, Trying,
           InTry, IngestSteps, DeleteSteps, RebuildSteps, DocRunning
  <1>7. CASE CommitVersion(c)
    BY <1>0, <1>a, <1>t, <1>7, CommitVersionEffect
       DEF LatestCalls, OpOf, OthersKept, TimeKept, OpsKept, Moves, Trying, InTry,
           IngestSteps, DeleteSteps, RebuildSteps, DocRunning
  <1>8. CASE ProjectChunks(c)
    BY <1>0, <1>a, <1>t, <1>8, ProjectChunksEffect
       DEF LatestCalls, OpOf, OthersKept, TimeKept, OpsKept, Trying, InTry, IngestSteps,
           DeleteSteps, RebuildSteps, DocRunning
  <1>9. CASE CleanPrevious(c)
    BY <1>0, <1>a, <1>t, <1>9, CleanPreviousEffect
       DEF LatestCalls, OpOf, OthersKept, TimeKept, OpsKept, Moves, Trying, InTry,
           IngestSteps, DeleteSteps, RebuildSteps, DocRunning
  <1>10. CASE CompleteDoc(c)
    BY <1>0, <1>a, <1>t, <1>10, CompleteEffect
       DEF LatestCalls, OpOf, OthersKept, TimeKept, CorpusKept, Returns, OpIs, Trying,
           InTry, IngestSteps, DeleteSteps, RebuildSteps, DocRunning
  <1>11. CASE PlanDelete(c)
    BY <1>0, <1>a, <1>t, <1>11, FreezeEffect
       DEF LatestCalls, OpOf, OthersKept, TimeKept, CorpusKept, Moves, Trying, InTry,
           IngestSteps, DeleteSteps, RebuildSteps, DocRunning
  <1>12. CASE SelectVersions(c)
    BY <1>0, <1>a, <1>t, <1>12, SelectVersionsEffect
       DEF LatestCalls, OpOf, OthersKept, TimeKept, OpsKept, CorpusKept, Trying, InTry,
           IngestSteps, DeleteSteps, RebuildSteps, DocRunning
  <1>13. CASE PurgeDocument(c)
    BY <1>0, <1>a, <1>t, <1>13, PurgeDocumentEffect
       DEF LatestCalls, OpOf, OthersKept, TimeKept, OpsKept, Trying, InTry, IngestSteps,
           DeleteSteps, RebuildSteps, DocRunning
  <1>14. CASE DeleteOriginals(c)
    BY <1>0, <1>a, <1>t, <1>14, DeleteOriginalsEffect
       DEF LatestCalls, OpOf, OthersKept, TimeKept, OpsKept, Moves, Trying, InTry,
           IngestSteps, DeleteSteps, RebuildSteps, DocRunning
  <1>15. CASE DeleteChunkVectors(c)
    BY <1>0, <1>a, <1>t, <1>15, DeleteChunkVectorsEffect
       DEF LatestCalls, OpOf, OthersKept, TimeKept, OpsKept, Moves, Trying, InTry,
           IngestSteps, DeleteSteps, RebuildSteps, DocRunning
  <1>16. CASE Looks(c)
    BY <1>0, <1>a, <1>t, <1>16, LooksEffect
       DEF LatestCalls, OpOf, OthersKept, TimeKept, OpsKept, CorpusKept, Moves, Returns,
           Trying, InTry, IngestSteps, DeleteSteps, RebuildSteps, DocRunning
  <1>17. CASE Reproject(c)
    BY <1>0, <1>a, <1>t, <1>17, ReprojectEffect
       DEF LatestCalls, OpOf, OthersKept, TimeKept, OpsKept, Trying, InTry, IngestSteps,
           DeleteSteps, RebuildSteps, DocRunning
  <1>18. CASE DocStepThrows(c)
    BY <1>0, <1>a, <1>t, <1>18, DocStepThrowsEffect
       DEF LatestCalls, OpOf, OthersKept, TimeKept, OpsKept, CorpusKept, Moves, Returns,
           Trying, InTry, IngestSteps, DeleteSteps, RebuildSteps, DocRunning
  <1>19. CASE FailDoc(c)
    BY <1>0, <1>a, <1>t, <1>19, FailEffect
       DEF LatestCalls, OpOf, OthersKept, TimeKept, CorpusKept, Returns, OpIs, Trying,
           InTry, IngestSteps, DeleteSteps, RebuildSteps, DocRunning
  <1>20. CASE DocCrash(c)
    BY <1>0, <1>a, <1>t, <1>20, DocCrashEffect
       DEF LatestCalls, OpOf, OthersKept, TimeKept, OpsKept, CorpusKept, Returns, Trying,
           InTry, IngestSteps, DeleteSteps, RebuildSteps, DocRunning
  <1> QED
    BY <1>1, <1>2, <1>3, <1>4, <1>5, <1>6, <1>7, <1>8, <1>9, <1>10, <1>11, <1>12, <1>13,
       <1>14, <1>15, <1>16, <1>17, <1>18, <1>19, <1>20
       DEF DocStep, Looks

\* Who settles the newest operation leaves it the newest.
LEMMA TimesKept ==
    ASSUME DocTypeOK, LatestOps, NEW c \in DocCalls, OthersKept(c), TimeKept, head' = head,
           docOps'[DocKeyOf[c]].at = OpOf(c).at, latest = DocKeyOf[c], OpOf(c).status # "none"
    PROVE  LatestOps'
  <1>1. DocKeyOf[c] \in DocKeys /\ \A k \in DocKeys : docOps'[k].at = docOps[k].at
    BY TypeParts DEF OthersKept, OpOf
  <1> QED
    BY <1>1 DEF LatestOps, TimeKept, OpOf

\* What an ingest read of the head stands.
LEMMA ReadsStandStep ==
    ASSUME AnyInv, docSerial, OneAtATime, ReadsStand, NEW c \in DocCalls, DocStep(c)
    PROVE  ReadsStand'
  <1>0. DocTypeOK /\ HeadIsStored /\ OpsInHand /\ OpsBegun /\ StepsApart
    BY DEF AnyInv
  <1>a. OthersKept(c) /\ \A d \in DocCalls \ {c} : docCalls[d].pc \notin DocRunning
    BY Alone
  <1>t. /\ docCalls \in [DocCalls -> DocLocals] /\ docOps \in [DocKeys -> Operations]
        /\ docs \in [Versions -> Nat] /\ head.at \in Nat /\ docNow \in Nat
        /\ \A d \in DocCalls : DocKeyOf[d] \in DocKeys /\ VersionOf(d) \in Versions
    BY <1>0, TypeParts
  <1>1. CASE ArriveDoc(c)
    BY <1>0, <1>a, <1>t, <1>1, ArriveDocEffect
       DEF ReadsStand, MayCall, DocKind, OthersKept, OpsKept, CorpusKept, Trying,
           InTry, IngestSteps, DeleteSteps, RebuildSteps, DocRunning
  <1>2. CASE ClaimDoc(c)
    BY <1>0, <1>a, <1>t, <1>2, ClaimEffect
       DEF ReadsStand, OthersKept, OpsKept, CorpusKept, Moves, Returns, Claims,
           Trying, InTry, IngestSteps, DeleteSteps, RebuildSteps, DocRunning
  <1>3. CASE PlanIngest(c)
    BY <1>0, <1>a, <1>t, <1>3, PlanIngestEffect
       DEF ReadsStand, OthersKept, TimeKept, CorpusKept, Moves, Trying, InTry,
           IngestSteps, DeleteSteps, RebuildSteps, DocRunning
  <1>4. CASE LoadSource(c)
    BY <1>0, <1>a, <1>t, <1>4, LoadSourceEffect
       DEF ReadsStand, OthersKept, TimeKept, OpsKept, CorpusKept, Trying, InTry,
           IngestSteps, DeleteSteps, RebuildSteps, DocRunning
  <1>5. CASE PutOriginal(c)
    BY <1>0, <1>a, <1>t, <1>5, PutOriginalEffect
       DEF ReadsStand, OthersKept, TimeKept, OpsKept, Moves, Trying, InTry,
           IngestSteps, DeleteSteps, RebuildSteps, DocRunning
  <1>6. CASE VerifyVersion(c)
    BY <1>0, <1>a, <1>t, <1>6, VerifyVersionEffect
       DEF ReadsStand, OthersKept, TimeKept, OpsKept, CorpusKept, Moves, Trying,
           InTry, IngestSteps, DeleteSteps, RebuildSteps, DocRunning
  <1>7. CASE CommitVersion(c)
    BY <1>0, <1>a, <1>t, <1>7, CommitVersionEffect
       DEF ReadsStand, OthersKept, TimeKept, OpsKept, Moves, Trying, InTry,
           IngestSteps, DeleteSteps, RebuildSteps, DocRunning
  <1>8. CASE ProjectChunks(c)
    BY <1>0, <1>a, <1>t, <1>8, ProjectChunksEffect
       DEF ReadsStand, OthersKept, TimeKept, OpsKept, Trying, InTry, IngestSteps,
           DeleteSteps, RebuildSteps, DocRunning
  <1>9. CASE CleanPrevious(c)
    BY <1>0, <1>a, <1>t, <1>9, CleanPreviousEffect
       DEF ReadsStand, OthersKept, TimeKept, OpsKept, Moves, Trying, InTry,
           IngestSteps, DeleteSteps, RebuildSteps, DocRunning
  <1>10. CASE CompleteDoc(c)
    BY <1>0, <1>a, <1>t, <1>10, CompleteEffect
       DEF ReadsStand, OthersKept, TimeKept, CorpusKept, Returns, OpIs, Trying,
           InTry, IngestSteps, DeleteSteps, RebuildSteps, DocRunning
  <1>11. CASE PlanDelete(c)
    BY <1>0, <1>a, <1>t, <1>11, FreezeEffect
       DEF ReadsStand, OthersKept, TimeKept, CorpusKept, Moves, Trying, InTry,
           IngestSteps, DeleteSteps, RebuildSteps, DocRunning
  <1>12. CASE SelectVersions(c)
    BY <1>0, <1>a, <1>t, <1>12, SelectVersionsEffect
       DEF ReadsStand, OthersKept, TimeKept, OpsKept, CorpusKept, Trying, InTry,
           IngestSteps, DeleteSteps, RebuildSteps, DocRunning
  <1>13. CASE PurgeDocument(c)
    BY <1>0, <1>a, <1>t, <1>13, PurgeDocumentEffect
       DEF ReadsStand, OthersKept, TimeKept, OpsKept, Trying, InTry, IngestSteps,
           DeleteSteps, RebuildSteps, DocRunning
  <1>14. CASE DeleteOriginals(c)
    BY <1>0, <1>a, <1>t, <1>14, DeleteOriginalsEffect
       DEF ReadsStand, OthersKept, TimeKept, OpsKept, Moves, Trying, InTry,
           IngestSteps, DeleteSteps, RebuildSteps, DocRunning
  <1>15. CASE DeleteChunkVectors(c)
    BY <1>0, <1>a, <1>t, <1>15, DeleteChunkVectorsEffect
       DEF ReadsStand, OthersKept, TimeKept, OpsKept, Moves, Trying, InTry,
           IngestSteps, DeleteSteps, RebuildSteps, DocRunning
  <1>16. CASE Looks(c)
    BY <1>0, <1>a, <1>t, <1>16, LooksEffect
       DEF ReadsStand, HeadIsStored, NoHead, OthersKept, CorpusKept, Moves, Returns,
           DocRunning, InTry, IngestSteps
  <1>17. CASE Reproject(c)
    BY <1>0, <1>a, <1>t, <1>17, ReprojectEffect
       DEF ReadsStand, OthersKept, TimeKept, OpsKept, Trying, InTry, IngestSteps,
           DeleteSteps, RebuildSteps, DocRunning
  <1>18. CASE DocStepThrows(c)
    BY <1>0, <1>a, <1>t, <1>18, DocStepThrowsEffect
       DEF ReadsStand, OthersKept, TimeKept, OpsKept, CorpusKept, Moves, Returns,
           Trying, InTry, IngestSteps, DeleteSteps, RebuildSteps, DocRunning
  <1>19. CASE FailDoc(c)
    BY <1>0, <1>a, <1>t, <1>19, FailEffect
       DEF ReadsStand, OthersKept, TimeKept, CorpusKept, Returns, OpIs, Trying,
           InTry, IngestSteps, DeleteSteps, RebuildSteps, DocRunning
  <1>20. CASE DocCrash(c)
    BY <1>0, <1>a, <1>t, <1>20, DocCrashEffect
       DEF ReadsStand, OthersKept, TimeKept, OpsKept, CorpusKept, Returns, Trying,
           InTry, IngestSteps, DeleteSteps, RebuildSteps, DocRunning
  <1> QED
    BY <1>1, <1>2, <1>3, <1>4, <1>5, <1>6, <1>7, <1>8, <1>9, <1>10, <1>11, <1>12, <1>13,
       <1>14, <1>15, <1>16, <1>17, <1>18, <1>19, <1>20
       DEF DocStep, Looks

\* The key used last has the newest operation.
LEMMA LatestOpsStep ==
    ASSUME ~LateRetries, AnyInv, docSerial, OneAtATime, LatestCalls, LatestOps,
           NEW c \in DocCalls, DocStep(c)
    PROVE  LatestOps'
  <1>0. DocTypeOK /\ HeadIsStored /\ OpsInHand /\ OpsBegun /\ StepsApart
    BY DEF AnyInv
  <1>a. OthersKept(c) /\ \A d \in DocCalls \ {c} : docCalls[d].pc \notin DocRunning
    BY Alone
  <1>t. /\ docCalls \in [DocCalls -> DocLocals] /\ docOps \in [DocKeys -> Operations]
        /\ docs \in [Versions -> Nat] /\ head.at \in Nat /\ docNow \in Nat
        /\ \A d \in DocCalls : DocKeyOf[d] \in DocKeys /\ VersionOf(d) \in Versions
    BY <1>0, TypeParts
  <1>1. CASE ArriveDoc(c)
    BY <1>0, <1>a, <1>t, <1>1, ArriveDocEffect
       DEF LatestCalls, LatestOps, OpOf, Operations, DocKind, OpsBegun, OthersKept, OpsKept,
           CorpusKept, Trying, InTry, IngestSteps, DeleteSteps, RebuildSteps, DocRunning
  <1>2. CASE ClaimDoc(c)
    BY <1>0, <1>a, <1>t, <1>2, ClaimEffect, SMTT(60)
       DEF LatestCalls, LatestOps, OpOf, Operations, OthersKept, OpsKept, CorpusKept, Moves,
           Returns, Claims, Trying, InTry, IngestSteps, DeleteSteps, RebuildSteps,
           DocRunning
  <1>3. CASE PlanIngest(c)
    BY <1>0, <1>a, <1>t, <1>3, PlanIngestEffect
       DEF LatestCalls, LatestOps, OpOf, Operations, OthersKept, TimeKept, CorpusKept,
           Moves, Trying, InTry, IngestSteps, DeleteSteps, RebuildSteps, DocRunning
  <1>4. CASE LoadSource(c)
    BY <1>0, <1>a, <1>t, <1>4, LoadSourceEffect
       DEF LatestCalls, LatestOps, OpOf, Operations, OthersKept, TimeKept, OpsKept,
           CorpusKept, Trying, InTry, IngestSteps, DeleteSteps, RebuildSteps, DocRunning
  <1>5. CASE PutOriginal(c)
    BY <1>0, <1>a, <1>t, <1>5, PutOriginalEffect
       DEF LatestCalls, LatestOps, OpOf, Operations, OthersKept, TimeKept, OpsKept, Moves,
           Trying, InTry, IngestSteps, DeleteSteps, RebuildSteps, DocRunning
  <1>6. CASE VerifyVersion(c)
    BY <1>0, <1>a, <1>t, <1>6, VerifyVersionEffect
       DEF LatestCalls, LatestOps, OpOf, Operations, OthersKept, TimeKept, OpsKept,
           CorpusKept, Moves, Trying, InTry, IngestSteps, DeleteSteps, RebuildSteps,
           DocRunning
  <1>7. CASE CommitVersion(c)
    BY <1>0, <1>a, <1>t, <1>7, CommitVersionEffect
       DEF LatestCalls, LatestOps, OpOf, Operations, NoHead, OpsInHand, OthersKept,
           TimeKept, OpsKept, Moves, Trying, InTry, IngestSteps, DeleteSteps, RebuildSteps,
           DocRunning
  <1>8. CASE ProjectChunks(c)
    BY <1>0, <1>a, <1>t, <1>8, ProjectChunksEffect
       DEF LatestCalls, LatestOps, OpOf, Operations, OthersKept, TimeKept, OpsKept, Trying,
           InTry, IngestSteps, DeleteSteps, RebuildSteps, DocRunning
  <1>9. CASE CleanPrevious(c)
    BY <1>0, <1>a, <1>t, <1>9, CleanPreviousEffect
       DEF LatestCalls, LatestOps, OpOf, Operations, OthersKept, TimeKept, OpsKept, Moves,
           Trying, InTry, IngestSteps, DeleteSteps, RebuildSteps, DocRunning
  <1>10. CASE CompleteDoc(c)
    <2>1. /\ docCalls[c].pc \in Trying /\ latest = DocKeyOf[c] /\ OpOf(c).status # "none"
          /\ TimeKept /\ head' = head /\ docOps'[DocKeyOf[c]].at = OpOf(c).at
      BY <1>0, <1>10, CompleteEffect
         DEF OpsInHand, LatestCalls, OpIs, CorpusKept, Trying, InTry, IngestSteps
    <2> QED
      BY <1>a, <1>t, <1>0, <2>1, TimesKept
  <1>11. CASE PlanDelete(c)
    BY <1>0, <1>a, <1>t, <1>11, FreezeEffect, SMTT(60)
       DEF LatestCalls, LatestOps, OpOf, Operations, OthersKept, TimeKept, CorpusKept,
           Moves, Trying, InTry, IngestSteps, DeleteSteps, RebuildSteps, DocRunning
  <1>12. CASE SelectVersions(c)
    BY <1>0, <1>a, <1>t, <1>12, SelectVersionsEffect
       DEF LatestCalls, LatestOps, OpOf, Operations, OthersKept, TimeKept, OpsKept,
           CorpusKept, Trying, InTry, IngestSteps, DeleteSteps, RebuildSteps, DocRunning
  <1>13. CASE PurgeDocument(c)
    BY <1>0, <1>a, <1>t, <1>13, PurgeDocumentEffect
       DEF LatestCalls, LatestOps, OpOf, Operations, NoHead, OthersKept, TimeKept, OpsKept,
           Trying, InTry, IngestSteps, DeleteSteps, RebuildSteps, DocRunning
  <1>14. CASE DeleteOriginals(c)
    BY <1>0, <1>a, <1>t, <1>14, DeleteOriginalsEffect
       DEF LatestCalls, LatestOps, OpOf, Operations, OthersKept, TimeKept, OpsKept, Moves,
           Trying, InTry, IngestSteps, DeleteSteps, RebuildSteps, DocRunning
  <1>15. CASE DeleteChunkVectors(c)
    BY <1>0, <1>a, <1>t, <1>15, DeleteChunkVectorsEffect
       DEF LatestCalls, LatestOps, OpOf, Operations, OthersKept, TimeKept, OpsKept, Moves,
           Trying, InTry, IngestSteps, DeleteSteps, RebuildSteps, DocRunning
  <1>16. CASE Looks(c)
    BY <1>0, <1>a, <1>t, <1>16, LooksEffect
       DEF LatestCalls, LatestOps, OpOf, Operations, OthersKept, TimeKept, OpsKept,
           CorpusKept, Moves, Returns, Trying, InTry, IngestSteps, DeleteSteps,
           RebuildSteps, DocRunning
  <1>17. CASE Reproject(c)
    BY <1>0, <1>a, <1>t, <1>17, ReprojectEffect
       DEF LatestCalls, LatestOps, OpOf, Operations, OthersKept, TimeKept, OpsKept, Trying,
           InTry, IngestSteps, DeleteSteps, RebuildSteps, DocRunning
  <1>18. CASE DocStepThrows(c)
    BY <1>0, <1>a, <1>t, <1>18, DocStepThrowsEffect
       DEF LatestCalls, LatestOps, OpOf, Operations, OthersKept, TimeKept, OpsKept,
           CorpusKept, Moves, Returns, Trying, InTry, IngestSteps, DeleteSteps,
           RebuildSteps, DocRunning
  <1>19. CASE FailDoc(c)
    <2>1. /\ docCalls[c].pc \in Trying /\ latest = DocKeyOf[c] /\ OpOf(c).status # "none"
          /\ TimeKept /\ head' = head /\ docOps'[DocKeyOf[c]].at = OpOf(c).at
      BY <1>0, <1>19, FailEffect
         DEF OpsInHand, LatestCalls, OpIs, CorpusKept, Trying, InTry, IngestSteps
    <2> QED
      BY <1>a, <1>t, <1>0, <2>1, TimesKept
  <1>20. CASE DocCrash(c)
    BY <1>0, <1>a, <1>t, <1>20, DocCrashEffect
       DEF LatestCalls, LatestOps, OpOf, Operations, OthersKept, TimeKept, OpsKept,
           CorpusKept, Returns, Trying, InTry, IngestSteps, DeleteSteps, RebuildSteps,
           DocRunning
  <1> QED
    BY <1>1, <1>2, <1>3, <1>4, <1>5, <1>6, <1>7, <1>8, <1>9, <1>10, <1>11, <1>12, <1>13,
       <1>14, <1>15, <1>16, <1>17, <1>18, <1>19, <1>20
       DEF DocStep, Looks

\* A stored version keeps its original.
LEMMA OriginalsStep ==
    ASSUME ~LateRetries, AnyInv, docSerial, OneAtATime, LatestCalls, DeleteCalls, OriginalsKept,
           NEW c \in DocCalls, DocStep(c)
    PROVE  OriginalsKept'
  <1>0. DocTypeOK /\ HeadIsStored /\ OpsInHand /\ OpsBegun /\ StepsApart
    BY DEF AnyInv
  <1>a. OthersKept(c) /\ \A d \in DocCalls \ {c} : docCalls[d].pc \notin DocRunning
    BY Alone
  <1>t. /\ docCalls \in [DocCalls -> DocLocals] /\ docOps \in [DocKeys -> Operations]
        /\ docs \in [Versions -> Nat] /\ head.at \in Nat /\ docNow \in Nat
        /\ \A d \in DocCalls : DocKeyOf[d] \in DocKeys /\ VersionOf(d) \in Versions
    BY <1>0, TypeParts
  <1>1. CASE ArriveDoc(c)
    BY <1>0, <1>a, <1>t, <1>1, ArriveDocEffect
       DEF OriginalsKept, Stored, VersionOf, OthersKept, OpsKept, CorpusKept, InTry,
           IngestSteps, DeleteSteps, RebuildSteps, DocRunning
  <1>2. CASE ClaimDoc(c)
    BY <1>0, <1>a, <1>t, <1>2, ClaimEffect
       DEF OriginalsKept, Stored, VersionOf, OthersKept, OpsKept, CorpusKept, Moves,
           Returns, Claims, InTry, IngestSteps, DeleteSteps, RebuildSteps, DocRunning
  <1>3. CASE PlanIngest(c)
    BY <1>0, <1>a, <1>t, <1>3, PlanIngestEffect
       DEF OriginalsKept, Stored, VersionOf, OthersKept, TimeKept, CorpusKept, Moves, InTry,
           IngestSteps, DeleteSteps, RebuildSteps, DocRunning
  <1>4. CASE LoadSource(c)
    BY <1>0, <1>a, <1>t, <1>4, LoadSourceEffect
       DEF OriginalsKept, Stored, VersionOf, OthersKept, TimeKept, OpsKept, CorpusKept,
           InTry, IngestSteps, DeleteSteps, RebuildSteps, DocRunning
  <1>5. CASE PutOriginal(c)
    BY <1>0, <1>a, <1>t, <1>5, PutOriginalEffect
       DEF OriginalsKept, Stored, VersionOf, OthersKept, TimeKept, OpsKept, Moves, InTry,
           IngestSteps, DeleteSteps, RebuildSteps, DocRunning
  <1>6. CASE VerifyVersion(c)
    BY <1>0, <1>a, <1>t, <1>6, VerifyVersionEffect
       DEF OriginalsKept, Stored, VersionOf, OthersKept, TimeKept, OpsKept, CorpusKept,
           Moves, InTry, IngestSteps, DeleteSteps, RebuildSteps, DocRunning
  <1>7. CASE CommitVersion(c)
    BY <1>0, <1>a, <1>t, <1>7, CommitVersionEffect
       DEF OriginalsKept, Stored, VersionOf, OthersKept, TimeKept, OpsKept, Moves, InTry,
           IngestSteps, DeleteSteps, RebuildSteps, DocRunning
  <1>8. CASE ProjectChunks(c)
    BY <1>0, <1>a, <1>t, <1>8, ProjectChunksEffect
       DEF OriginalsKept, Stored, VersionOf, OthersKept, TimeKept, OpsKept, InTry,
           IngestSteps, DeleteSteps, RebuildSteps, DocRunning
  <1>9. CASE CleanPrevious(c)
    BY <1>0, <1>a, <1>t, <1>9, CleanPreviousEffect
       DEF OriginalsKept, Stored, VersionOf, OthersKept, TimeKept, OpsKept, Moves, InTry,
           IngestSteps, DeleteSteps, RebuildSteps, DocRunning
  <1>10. CASE CompleteDoc(c)
    BY <1>0, <1>a, <1>t, <1>10, CompleteEffect
       DEF OriginalsKept, Stored, VersionOf, OthersKept, TimeKept, CorpusKept, Returns,
           OpIs, InTry, IngestSteps, DeleteSteps, RebuildSteps, DocRunning
  <1>11. CASE PlanDelete(c)
    BY <1>0, <1>a, <1>t, <1>11, FreezeEffect
       DEF OriginalsKept, Stored, VersionOf, OthersKept, TimeKept, CorpusKept, Moves, InTry,
           IngestSteps, DeleteSteps, RebuildSteps, DocRunning
  <1>12. CASE SelectVersions(c)
    BY <1>0, <1>a, <1>t, <1>12, SelectVersionsEffect
       DEF OriginalsKept, Stored, VersionOf, OthersKept, TimeKept, OpsKept, CorpusKept,
           InTry, IngestSteps, DeleteSteps, RebuildSteps, DocRunning
  <1>13. CASE PurgeDocument(c)
    BY <1>0, <1>a, <1>t, <1>13, PurgeDocumentEffect
       DEF OriginalsKept, Stored, VersionOf, OthersKept, TimeKept, OpsKept, InTry,
           IngestSteps, DeleteSteps, RebuildSteps, DocRunning
  <1>14. CASE DeleteOriginals(c)
    BY <1>0, <1>a, <1>t, <1>14, DeleteOriginalsEffect
       DEF OriginalsKept, Stored, VersionOf, DeleteCalls, NoneStored, OthersKept, TimeKept,
           OpsKept, Moves, InTry, IngestSteps, DeleteSteps, RebuildSteps, DocRunning
  <1>15. CASE DeleteChunkVectors(c)
    BY <1>0, <1>a, <1>t, <1>15, DeleteChunkVectorsEffect
       DEF OriginalsKept, Stored, VersionOf, OthersKept, TimeKept, OpsKept, Moves, InTry,
           IngestSteps, DeleteSteps, RebuildSteps, DocRunning
  <1>16. CASE Looks(c)
    BY <1>0, <1>a, <1>t, <1>16, LooksEffect
       DEF OriginalsKept, Stored, VersionOf, OthersKept, TimeKept, OpsKept, CorpusKept,
           Moves, Returns, InTry, IngestSteps, DeleteSteps, RebuildSteps, DocRunning
  <1>17. CASE Reproject(c)
    BY <1>0, <1>a, <1>t, <1>17, ReprojectEffect
       DEF OriginalsKept, Stored, VersionOf, OthersKept, TimeKept, OpsKept, InTry,
           IngestSteps, DeleteSteps, RebuildSteps, DocRunning
  <1>18. CASE DocStepThrows(c)
    BY <1>0, <1>a, <1>t, <1>18, DocStepThrowsEffect
       DEF OriginalsKept, Stored, VersionOf, OthersKept, TimeKept, OpsKept, CorpusKept,
           Moves, Returns, InTry, IngestSteps, DeleteSteps, RebuildSteps, DocRunning
  <1>19. CASE FailDoc(c)
    BY <1>0, <1>a, <1>t, <1>19, FailEffect
       DEF OriginalsKept, Stored, VersionOf, OthersKept, TimeKept, CorpusKept, Returns,
           OpIs, InTry, IngestSteps, DeleteSteps, RebuildSteps, DocRunning
  <1>20. CASE DocCrash(c)
    BY <1>0, <1>a, <1>t, <1>20, DocCrashEffect
       DEF OriginalsKept, Stored, VersionOf, OthersKept, TimeKept, OpsKept, CorpusKept,
           Returns, InTry, IngestSteps, DeleteSteps, RebuildSteps, DocRunning
  <1> QED
    BY <1>1, <1>2, <1>3, <1>4, <1>5, <1>6, <1>7, <1>8, <1>9, <1>10, <1>11, <1>12, <1>13,
       <1>14, <1>15, <1>16, <1>17, <1>18, <1>19, <1>20
       DEF DocStep, Looks
\* A delete's plan is what was stored until it removed it all.
LEMMA DeletePlansStep ==
    ASSUME ~LateRetries, AnyInv, docSerial, OneAtATime, LatestCalls, DeletePlans, DeleteCalls,
           NEW c \in DocCalls, DocStep(c)
    PROVE  DeletePlans'
  <1>0. DocTypeOK /\ HeadIsStored /\ OpsInHand /\ OpsBegun /\ StepsApart
    BY DEF AnyInv
  <1>a. OthersKept(c) /\ \A d \in DocCalls \ {c} : docCalls[d].pc \notin DocRunning
    BY Alone
  <1>t. /\ docCalls \in [DocCalls -> DocLocals] /\ docOps \in [DocKeys -> Operations]
        /\ docs \in [Versions -> Nat] /\ head.at \in Nat /\ docNow \in Nat
        /\ \A d \in DocCalls : DocKeyOf[d] \in DocKeys /\ VersionOf(d) \in Versions
    BY <1>0, TypeParts
  <1>1. CASE ArriveDoc(c)
    BY <1>0, <1>a, <1>t, <1>1, ArriveDocEffect
       DEF DeletePlans, NoneStored, Stored, OpOf, VersionOf, DocKind, LatestCalls, OpsBegun,
           StepsApart, Apart, OthersKept, OpsKept, CorpusKept, Trying, InTry, IngestSteps,
           DeleteSteps, RebuildSteps, DocRunning
  <1>2. CASE ClaimDoc(c)
    BY <1>0, <1>a, <1>t, <1>2, ClaimEffect
       DEF DeletePlans, NoneStored, Stored, OpOf, VersionOf, DocKind, LatestCalls, OpsBegun,
           StepsApart, Apart, OthersKept, OpsKept, CorpusKept, Moves, Returns, Claims,
           Trying, InTry, IngestSteps, DeleteSteps, RebuildSteps, DocRunning
  <1>3. CASE PlanIngest(c)
    BY <1>0, <1>a, <1>t, <1>3, PlanIngestEffect
       DEF DeletePlans, NoneStored, Stored, OpOf, VersionOf, DocKind, LatestCalls, OpsBegun,
           StepsApart, Apart, OthersKept, TimeKept, CorpusKept, Moves, Trying, InTry,
           IngestSteps, DeleteSteps, RebuildSteps, DocRunning
  <1>4. CASE LoadSource(c)
    BY <1>0, <1>a, <1>t, <1>4, LoadSourceEffect
       DEF DeletePlans, NoneStored, Stored, OpOf, VersionOf, DocKind, LatestCalls, OpsBegun,
           StepsApart, Apart, OthersKept, TimeKept, OpsKept, CorpusKept, Trying, InTry,
           IngestSteps, DeleteSteps, RebuildSteps, DocRunning
  <1>5. CASE PutOriginal(c)
    BY <1>0, <1>a, <1>t, <1>5, PutOriginalEffect
       DEF DeletePlans, NoneStored, Stored, OpOf, VersionOf, DocKind, LatestCalls, OpsBegun,
           StepsApart, Apart, OthersKept, TimeKept, OpsKept, Moves, Trying, InTry,
           IngestSteps, DeleteSteps, RebuildSteps, DocRunning
  <1>6. CASE VerifyVersion(c)
    BY <1>0, <1>a, <1>t, <1>6, VerifyVersionEffect
       DEF DeletePlans, NoneStored, Stored, OpOf, VersionOf, DocKind, LatestCalls, OpsBegun,
           StepsApart, Apart, OthersKept, TimeKept, OpsKept, CorpusKept, Moves, Trying,
           InTry, IngestSteps, DeleteSteps, RebuildSteps, DocRunning
  <1>7. CASE CommitVersion(c)
    BY <1>0, <1>a, <1>t, <1>7, CommitVersionEffect
       DEF DeletePlans, NoneStored, Stored, OpOf, VersionOf, DocKind, LatestCalls, OpsBegun,
           StepsApart, Apart, OthersKept, TimeKept, OpsKept, Moves, Trying, InTry,
           IngestSteps, DeleteSteps, RebuildSteps, DocRunning
  <1>8. CASE ProjectChunks(c)
    BY <1>0, <1>a, <1>t, <1>8, ProjectChunksEffect
       DEF DeletePlans, NoneStored, Stored, OpOf, VersionOf, DocKind, LatestCalls, OpsBegun,
           StepsApart, Apart, OthersKept, TimeKept, OpsKept, Trying, InTry, IngestSteps,
           DeleteSteps, RebuildSteps, DocRunning
  <1>9. CASE CleanPrevious(c)
    BY <1>0, <1>a, <1>t, <1>9, CleanPreviousEffect
       DEF DeletePlans, NoneStored, Stored, OpOf, VersionOf, DocKind, LatestCalls, OpsBegun,
           StepsApart, Apart, OthersKept, TimeKept, OpsKept, Moves, Trying, InTry,
           IngestSteps, DeleteSteps, RebuildSteps, DocRunning
  <1>10. CASE CompleteDoc(c)
    BY <1>0, <1>a, <1>t, <1>10, CompleteEffect
       DEF DeletePlans, NoneStored, Stored, OpOf, VersionOf, DocKind, LatestCalls, OpsBegun,
           StepsApart, Apart, DeleteCalls, OthersKept, TimeKept, CorpusKept, Returns, OpIs,
           Trying, InTry, IngestSteps, DeleteSteps, RebuildSteps, DocRunning
  <1>11. CASE PlanDelete(c)
    BY <1>0, <1>a, <1>t, <1>11, FreezeEffect
       DEF DeletePlans, NoneStored, Stored, OpOf, VersionOf, DocKind, LatestCalls, OpsBegun,
           StepsApart, Apart, OthersKept, TimeKept, CorpusKept, Moves, Trying, InTry,
           IngestSteps, DeleteSteps, RebuildSteps, DocRunning
  <1>12. CASE SelectVersions(c)
    BY <1>0, <1>a, <1>t, <1>12, SelectVersionsEffect
       DEF DeletePlans, NoneStored, Stored, OpOf, VersionOf, DocKind, LatestCalls, OpsBegun,
           StepsApart, Apart, OthersKept, TimeKept, OpsKept, CorpusKept, Trying, InTry,
           IngestSteps, DeleteSteps, RebuildSteps, DocRunning
  <1>13. CASE PurgeDocument(c)
    BY <1>0, <1>a, <1>t, <1>13, PurgeDocumentEffect
       DEF DeletePlans, NoneStored, Stored, OpOf, VersionOf, DocKind, LatestCalls, OpsBegun,
           StepsApart, Apart, DeleteCalls, OthersKept, TimeKept, OpsKept, Trying, InTry,
           IngestSteps, DeleteSteps, RebuildSteps, DocRunning
  <1>14. CASE DeleteOriginals(c)
    BY <1>0, <1>a, <1>t, <1>14, DeleteOriginalsEffect
       DEF DeletePlans, NoneStored, Stored, OpOf, VersionOf, DocKind, LatestCalls, OpsBegun,
           StepsApart, Apart, OthersKept, TimeKept, OpsKept, Moves, Trying, InTry,
           IngestSteps, DeleteSteps, RebuildSteps, DocRunning
  <1>15. CASE DeleteChunkVectors(c)
    BY <1>0, <1>a, <1>t, <1>15, DeleteChunkVectorsEffect
       DEF DeletePlans, NoneStored, Stored, OpOf, VersionOf, DocKind, LatestCalls, OpsBegun,
           StepsApart, Apart, OthersKept, TimeKept, OpsKept, Moves, Trying, InTry,
           IngestSteps, DeleteSteps, RebuildSteps, DocRunning
  <1>16. CASE Looks(c)
    BY <1>0, <1>a, <1>t, <1>16, LooksEffect
       DEF DeletePlans, NoneStored, Stored, OpOf, VersionOf, DocKind, LatestCalls, OpsBegun,
           StepsApart, Apart, OthersKept, TimeKept, OpsKept, CorpusKept, Moves, Returns,
           Trying, InTry, IngestSteps, DeleteSteps, RebuildSteps, DocRunning
  <1>17. CASE Reproject(c)
    BY <1>0, <1>a, <1>t, <1>17, ReprojectEffect
       DEF DeletePlans, NoneStored, Stored, OpOf, VersionOf, DocKind, LatestCalls, OpsBegun,
           StepsApart, Apart, OthersKept, TimeKept, OpsKept, Trying, InTry, IngestSteps,
           DeleteSteps, RebuildSteps, DocRunning
  <1>18. CASE DocStepThrows(c)
    BY <1>0, <1>a, <1>t, <1>18, DocStepThrowsEffect
       DEF DeletePlans, NoneStored, Stored, OpOf, VersionOf, DocKind, LatestCalls, OpsBegun,
           StepsApart, Apart, OthersKept, TimeKept, OpsKept, CorpusKept, Moves, Returns,
           Trying, InTry, IngestSteps, DeleteSteps, RebuildSteps, DocRunning
  <1>19. CASE FailDoc(c)
    BY <1>0, <1>a, <1>t, <1>19, FailEffect
       DEF DeletePlans, NoneStored, Stored, OpOf, VersionOf, DocKind, LatestCalls, OpsBegun,
           StepsApart, Apart, OthersKept, TimeKept, CorpusKept, Returns, OpIs, Trying,
           InTry, IngestSteps, DeleteSteps, RebuildSteps, DocRunning
  <1>20. CASE DocCrash(c)
    BY <1>0, <1>a, <1>t, <1>20, DocCrashEffect
       DEF DeletePlans, NoneStored, Stored, OpOf, VersionOf, DocKind, LatestCalls, OpsBegun,
           StepsApart, Apart, OthersKept, TimeKept, OpsKept, CorpusKept, Returns, Trying,
           InTry, IngestSteps, DeleteSteps, RebuildSteps, DocRunning
  <1> QED
    BY <1>1, <1>2, <1>3, <1>4, <1>5, <1>6, <1>7, <1>8, <1>9, <1>10, <1>11, <1>12, <1>13,
       <1>14, <1>15, <1>16, <1>17, <1>18, <1>19, <1>20
       DEF DocStep, Looks

\* A delete removes its plan in order.
LEMMA DeleteCallsStep ==
    ASSUME ~LateRetries, AnyInv, docSerial, OneAtATime, LatestCalls, DeletePlans, DeleteCalls,
           NEW c \in DocCalls, DocStep(c)
    PROVE  DeleteCalls'
  <1>0. DocTypeOK /\ HeadIsStored /\ OpsInHand /\ OpsBegun /\ StepsApart
    BY DEF AnyInv
  <1>a. OthersKept(c) /\ \A d \in DocCalls \ {c} : docCalls[d].pc \notin DocRunning
    BY Alone
  <1>t. /\ docCalls \in [DocCalls -> DocLocals] /\ docOps \in [DocKeys -> Operations]
        /\ docs \in [Versions -> Nat] /\ head.at \in Nat /\ docNow \in Nat
        /\ \A d \in DocCalls : DocKeyOf[d] \in DocKeys /\ VersionOf(d) \in Versions
    BY <1>0, TypeParts
  <1>1. CASE ArriveDoc(c)
    BY <1>0, <1>a, <1>t, <1>1, ArriveDocEffect
       DEF DeletePlans, DeleteCalls, NoneStored, Stored, OpOf, VersionOf, DocKind,
           LatestCalls, FrozenVersions, PlanOf, StepsApart, Apart, OthersKept, OpsKept,
           CorpusKept, Trying, InTry, IngestSteps, DeleteSteps, RebuildSteps, DocRunning
  <1>2. CASE ClaimDoc(c)
    BY <1>0, <1>a, <1>t, <1>2, ClaimEffect
       DEF DeletePlans, DeleteCalls, NoneStored, Stored, OpOf, VersionOf, DocKind,
           LatestCalls, FrozenVersions, PlanOf, StepsApart, Apart, OthersKept, OpsKept,
           CorpusKept, Moves, Returns, Claims, Trying, InTry, IngestSteps, DeleteSteps,
           RebuildSteps, DocRunning
  <1>3. CASE PlanIngest(c)
    BY <1>0, <1>a, <1>t, <1>3, PlanIngestEffect
       DEF DeletePlans, DeleteCalls, NoneStored, Stored, OpOf, VersionOf, DocKind,
           LatestCalls, FrozenVersions, PlanOf, StepsApart, Apart, OthersKept, TimeKept,
           CorpusKept, Moves, Trying, InTry, IngestSteps, DeleteSteps, RebuildSteps,
           DocRunning
  <1>4. CASE LoadSource(c)
    BY <1>0, <1>a, <1>t, <1>4, LoadSourceEffect
       DEF DeletePlans, DeleteCalls, NoneStored, Stored, OpOf, VersionOf, DocKind,
           LatestCalls, FrozenVersions, PlanOf, StepsApart, Apart, OthersKept, TimeKept,
           OpsKept, CorpusKept, Trying, InTry, IngestSteps, DeleteSteps, RebuildSteps,
           DocRunning
  <1>5. CASE PutOriginal(c)
    BY <1>0, <1>a, <1>t, <1>5, PutOriginalEffect
       DEF DeletePlans, DeleteCalls, NoneStored, Stored, OpOf, VersionOf, DocKind,
           LatestCalls, FrozenVersions, PlanOf, StepsApart, Apart, OthersKept, TimeKept,
           OpsKept, Moves, Trying, InTry, IngestSteps, DeleteSteps, RebuildSteps, DocRunning
  <1>6. CASE VerifyVersion(c)
    BY <1>0, <1>a, <1>t, <1>6, VerifyVersionEffect
       DEF DeletePlans, DeleteCalls, NoneStored, Stored, OpOf, VersionOf, DocKind,
           LatestCalls, FrozenVersions, PlanOf, StepsApart, Apart, OthersKept, TimeKept,
           OpsKept, CorpusKept, Moves, Trying, InTry, IngestSteps, DeleteSteps,
           RebuildSteps, DocRunning
  <1>7. CASE CommitVersion(c)
    BY <1>0, <1>a, <1>t, <1>7, CommitVersionEffect
       DEF DeletePlans, DeleteCalls, NoneStored, Stored, OpOf, VersionOf, DocKind,
           LatestCalls, FrozenVersions, PlanOf, StepsApart, Apart, OthersKept, TimeKept,
           OpsKept, Moves, Trying, InTry, IngestSteps, DeleteSteps, RebuildSteps, DocRunning
  <1>8. CASE ProjectChunks(c)
    BY <1>0, <1>a, <1>t, <1>8, ProjectChunksEffect
       DEF DeletePlans, DeleteCalls, NoneStored, Stored, OpOf, VersionOf, DocKind,
           LatestCalls, FrozenVersions, PlanOf, StepsApart, Apart, OthersKept, TimeKept,
           OpsKept, Trying, InTry, IngestSteps, DeleteSteps, RebuildSteps, DocRunning
  <1>9. CASE CleanPrevious(c)
    BY <1>0, <1>a, <1>t, <1>9, CleanPreviousEffect
       DEF DeletePlans, DeleteCalls, NoneStored, Stored, OpOf, VersionOf, DocKind,
           LatestCalls, FrozenVersions, PlanOf, StepsApart, Apart, OthersKept, TimeKept,
           OpsKept, Moves, Trying, InTry, IngestSteps, DeleteSteps, RebuildSteps, DocRunning
  <1>10. CASE CompleteDoc(c)
    BY <1>0, <1>a, <1>t, <1>10, CompleteEffect
       DEF DeletePlans, DeleteCalls, NoneStored, Stored, OpOf, VersionOf, DocKind,
           LatestCalls, FrozenVersions, PlanOf, StepsApart, Apart, OthersKept, TimeKept,
           CorpusKept, Returns, OpIs, Trying, InTry, IngestSteps, DeleteSteps, RebuildSteps,
           DocRunning
  <1>11. CASE PlanDelete(c)
    BY <1>0, <1>a, <1>t, <1>11, FreezeEffect
       DEF DeletePlans, DeleteCalls, NoneStored, Stored, OpOf, VersionOf, DocKind,
           LatestCalls, FrozenVersions, PlanOf, StepsApart, Apart, OthersKept, TimeKept,
           CorpusKept, Moves, Trying, InTry, IngestSteps, DeleteSteps, RebuildSteps,
           DocRunning
  <1>12. CASE SelectVersions(c)
    BY <1>0, <1>a, <1>t, <1>12, SelectVersionsEffect
       DEF DeletePlans, DeleteCalls, NoneStored, Stored, OpOf, VersionOf, DocKind,
           LatestCalls, FrozenVersions, PlanOf, StepsApart, Apart, OthersKept, TimeKept,
           OpsKept, CorpusKept, Trying, InTry, IngestSteps, DeleteSteps, RebuildSteps,
           DocRunning
  <1>13. CASE PurgeDocument(c)
    BY <1>0, <1>a, <1>t, <1>13, PurgeDocumentEffect
       DEF DeletePlans, DeleteCalls, NoneStored, Stored, OpOf, VersionOf, DocKind,
           LatestCalls, FrozenVersions, PlanOf, StepsApart, Apart, OthersKept, TimeKept,
           OpsKept, Trying, InTry, IngestSteps, DeleteSteps, RebuildSteps, DocRunning
  <1>14. CASE DeleteOriginals(c)
    BY <1>0, <1>a, <1>t, <1>14, DeleteOriginalsEffect
       DEF DeletePlans, DeleteCalls, NoneStored, Stored, OpOf, VersionOf, DocKind,
           LatestCalls, FrozenVersions, PlanOf, StepsApart, Apart, OthersKept, TimeKept,
           OpsKept, Moves, Trying, InTry, IngestSteps, DeleteSteps, RebuildSteps, DocRunning
  <1>15. CASE DeleteChunkVectors(c)
    BY <1>0, <1>a, <1>t, <1>15, DeleteChunkVectorsEffect
       DEF DeletePlans, DeleteCalls, NoneStored, Stored, OpOf, VersionOf, DocKind,
           LatestCalls, FrozenVersions, PlanOf, StepsApart, Apart, OthersKept, TimeKept,
           OpsKept, Moves, Trying, InTry, IngestSteps, DeleteSteps, RebuildSteps, DocRunning
  <1>16. CASE Looks(c)
    BY <1>0, <1>a, <1>t, <1>16, LooksEffect
       DEF DeletePlans, DeleteCalls, NoneStored, Stored, OpOf, VersionOf, DocKind,
           LatestCalls, FrozenVersions, PlanOf, StepsApart, Apart, OthersKept, TimeKept,
           OpsKept, CorpusKept, Moves, Returns, Trying, InTry, IngestSteps, DeleteSteps,
           RebuildSteps, DocRunning
  <1>17. CASE Reproject(c)
    BY <1>0, <1>a, <1>t, <1>17, ReprojectEffect
       DEF DeletePlans, DeleteCalls, NoneStored, Stored, OpOf, VersionOf, DocKind,
           LatestCalls, FrozenVersions, PlanOf, StepsApart, Apart, OthersKept, TimeKept,
           OpsKept, Trying, InTry, IngestSteps, DeleteSteps, RebuildSteps, DocRunning
  <1>18. CASE DocStepThrows(c)
    BY <1>0, <1>a, <1>t, <1>18, DocStepThrowsEffect
       DEF DeletePlans, DeleteCalls, NoneStored, Stored, OpOf, VersionOf, DocKind,
           LatestCalls, FrozenVersions, PlanOf, StepsApart, Apart, OthersKept, TimeKept,
           OpsKept, CorpusKept, Moves, Returns, Trying, InTry, IngestSteps, DeleteSteps,
           RebuildSteps, DocRunning
  <1>19. CASE FailDoc(c)
    BY <1>0, <1>a, <1>t, <1>19, FailEffect
       DEF DeletePlans, DeleteCalls, NoneStored, Stored, OpOf, VersionOf, DocKind,
           LatestCalls, FrozenVersions, PlanOf, StepsApart, Apart, OthersKept, TimeKept,
           CorpusKept, Returns, OpIs, Trying, InTry, IngestSteps, DeleteSteps, RebuildSteps,
           DocRunning
  <1>20. CASE DocCrash(c)
    BY <1>0, <1>a, <1>t, <1>20, DocCrashEffect
       DEF DeletePlans, DeleteCalls, NoneStored, Stored, OpOf, VersionOf, DocKind,
           LatestCalls, FrozenVersions, PlanOf, StepsApart, Apart, OthersKept, TimeKept,
           OpsKept, CorpusKept, Returns, Trying, InTry, IngestSteps, DeleteSteps,
           RebuildSteps, DocRunning
  <1> QED
    BY <1>1, <1>2, <1>3, <1>4, <1>5, <1>6, <1>7, <1>8, <1>9, <1>10, <1>11, <1>12, <1>13,
       <1>14, <1>15, <1>16, <1>17, <1>18, <1>19, <1>20
       DEF DocStep, Looks
\* The head stays where an ingest with nothing to index found it.
LEMMA UnmovedStep ==
    ASSUME ~LateRetries, AnyInv, docSerial, OneAtATime, LatestCalls, UnmovedIsCurrent,
           ReadsStand, NEW c \in DocCalls, DocStep(c)
    PROVE  UnmovedIsCurrent'
  <1>0. DocTypeOK /\ HeadIsStored /\ OpsInHand /\ OpsBegun /\ StepsApart
    BY DEF AnyInv
  <1>a. OthersKept(c) /\ \A d \in DocCalls \ {c} : docCalls[d].pc \notin DocRunning
    BY Alone
  <1>t. /\ docCalls \in [DocCalls -> DocLocals] /\ docOps \in [DocKeys -> Operations]
        /\ docs \in [Versions -> Nat] /\ head.at \in Nat /\ docNow \in Nat
        /\ \A d \in DocCalls : DocKeyOf[d] \in DocKeys /\ VersionOf(d) \in Versions
    BY <1>0, TypeParts
  <1>1. CASE ArriveDoc(c)
    BY <1>0, <1>a, <1>t, <1>1, ArriveDocEffect
       DEF UnmovedIsCurrent, Unfinished, OpOf, VersionOf, DocKind, LatestCalls, PlanOf,
           StepsApart, Apart, OpsBegun, OthersKept, OpsKept, CorpusKept, Trying, InTry,
           IngestSteps, DeleteSteps, RebuildSteps, DocRunning
  <1>2. CASE ClaimDoc(c)
    BY <1>0, <1>a, <1>t, <1>2, ClaimEffect
       DEF UnmovedIsCurrent, Unfinished, OpOf, VersionOf, DocKind, LatestCalls, PlanOf,
           StepsApart, Apart, OpsBegun, OthersKept, OpsKept, CorpusKept, Moves, Returns,
           Claims, Trying, InTry, IngestSteps, DeleteSteps, RebuildSteps, DocRunning
  <1>3. CASE PlanIngest(c)
    BY <1>0, <1>a, <1>t, <1>3, PlanIngestEffect
       DEF UnmovedIsCurrent, ReadsStand, Unfinished, OpOf, VersionOf, DocKind, LatestCalls, PlanOf,
           StepsApart, Apart, OpsBegun, OthersKept, TimeKept, CorpusKept, Moves, Trying,
           InTry, IngestSteps, DeleteSteps, RebuildSteps, DocRunning
  <1>4. CASE LoadSource(c)
    BY <1>0, <1>a, <1>t, <1>4, LoadSourceEffect
       DEF UnmovedIsCurrent, Unfinished, OpOf, VersionOf, DocKind, LatestCalls, PlanOf,
           StepsApart, Apart, OpsBegun, OthersKept, TimeKept, OpsKept, CorpusKept, Trying,
           InTry, IngestSteps, DeleteSteps, RebuildSteps, DocRunning
  <1>5. CASE PutOriginal(c)
    BY <1>0, <1>a, <1>t, <1>5, PutOriginalEffect
       DEF UnmovedIsCurrent, Unfinished, OpOf, VersionOf, DocKind, LatestCalls, PlanOf,
           StepsApart, Apart, OpsBegun, OthersKept, TimeKept, OpsKept, Moves, Trying, InTry,
           IngestSteps, DeleteSteps, RebuildSteps, DocRunning
  <1>6. CASE VerifyVersion(c)
    BY <1>0, <1>a, <1>t, <1>6, VerifyVersionEffect
       DEF UnmovedIsCurrent, Unfinished, OpOf, VersionOf, DocKind, LatestCalls, PlanOf,
           StepsApart, Apart, OpsBegun, OthersKept, TimeKept, OpsKept, CorpusKept, Moves,
           Trying, InTry, IngestSteps, DeleteSteps, RebuildSteps, DocRunning
  <1>7. CASE CommitVersion(c)
    BY <1>0, <1>a, <1>t, <1>7, CommitVersionEffect
       DEF UnmovedIsCurrent, Unfinished, OpOf, VersionOf, DocKind, LatestCalls, PlanOf,
           StepsApart, Apart, OpsBegun, OthersKept, TimeKept, OpsKept, Moves, Trying, InTry,
           IngestSteps, DeleteSteps, RebuildSteps, DocRunning
  <1>8. CASE ProjectChunks(c)
    BY <1>0, <1>a, <1>t, <1>8, ProjectChunksEffect
       DEF UnmovedIsCurrent, Unfinished, OpOf, VersionOf, DocKind, LatestCalls, PlanOf,
           StepsApart, Apart, OpsBegun, OthersKept, TimeKept, OpsKept, Trying, InTry,
           IngestSteps, DeleteSteps, RebuildSteps, DocRunning
  <1>9. CASE CleanPrevious(c)
    BY <1>0, <1>a, <1>t, <1>9, CleanPreviousEffect
       DEF UnmovedIsCurrent, Unfinished, OpOf, VersionOf, DocKind, LatestCalls, PlanOf,
           StepsApart, Apart, OpsBegun, OthersKept, TimeKept, OpsKept, Moves, Trying, InTry,
           IngestSteps, DeleteSteps, RebuildSteps, DocRunning
  <1>10. CASE CompleteDoc(c)
    BY <1>0, <1>a, <1>t, <1>10, CompleteEffect
       DEF UnmovedIsCurrent, Unfinished, OpOf, VersionOf, DocKind, LatestCalls, PlanOf,
           StepsApart, Apart, OpsBegun, OthersKept, TimeKept, CorpusKept, Returns, OpIs,
           Trying, InTry, IngestSteps, DeleteSteps, RebuildSteps, DocRunning
  <1>11. CASE PlanDelete(c)
    BY <1>0, <1>a, <1>t, <1>11, FreezeEffect
       DEF UnmovedIsCurrent, Unfinished, OpOf, VersionOf, DocKind, LatestCalls, PlanOf,
           StepsApart, Apart, OpsBegun, OthersKept, TimeKept, CorpusKept, Moves, Trying,
           InTry, IngestSteps, DeleteSteps, RebuildSteps, DocRunning
  <1>12. CASE SelectVersions(c)
    BY <1>0, <1>a, <1>t, <1>12, SelectVersionsEffect
       DEF UnmovedIsCurrent, Unfinished, OpOf, VersionOf, DocKind, LatestCalls, PlanOf,
           StepsApart, Apart, OpsBegun, OthersKept, TimeKept, OpsKept, CorpusKept, Trying,
           InTry, IngestSteps, DeleteSteps, RebuildSteps, DocRunning
  <1>13. CASE PurgeDocument(c)
    BY <1>0, <1>a, <1>t, <1>13, PurgeDocumentEffect
       DEF UnmovedIsCurrent, Unfinished, OpOf, VersionOf, DocKind, LatestCalls, PlanOf,
           StepsApart, Apart, OpsBegun, OthersKept, TimeKept, OpsKept, Trying, InTry,
           IngestSteps, DeleteSteps, RebuildSteps, DocRunning
  <1>14. CASE DeleteOriginals(c)
    BY <1>0, <1>a, <1>t, <1>14, DeleteOriginalsEffect
       DEF UnmovedIsCurrent, Unfinished, OpOf, VersionOf, DocKind, LatestCalls, PlanOf,
           StepsApart, Apart, OpsBegun, OthersKept, TimeKept, OpsKept, Moves, Trying, InTry,
           IngestSteps, DeleteSteps, RebuildSteps, DocRunning
  <1>15. CASE DeleteChunkVectors(c)
    BY <1>0, <1>a, <1>t, <1>15, DeleteChunkVectorsEffect
       DEF UnmovedIsCurrent, Unfinished, OpOf, VersionOf, DocKind, LatestCalls, PlanOf,
           StepsApart, Apart, OpsBegun, OthersKept, TimeKept, OpsKept, Moves, Trying, InTry,
           IngestSteps, DeleteSteps, RebuildSteps, DocRunning
  <1>16. CASE Looks(c)
    BY <1>0, <1>a, <1>t, <1>16, LooksEffect
       DEF UnmovedIsCurrent, Unfinished, OpOf, VersionOf, DocKind, LatestCalls, PlanOf,
           StepsApart, Apart, OpsBegun, OthersKept, TimeKept, OpsKept, CorpusKept, Moves,
           Returns, Trying, InTry, IngestSteps, DeleteSteps, RebuildSteps, DocRunning
  <1>17. CASE Reproject(c)
    BY <1>0, <1>a, <1>t, <1>17, ReprojectEffect
       DEF UnmovedIsCurrent, Unfinished, OpOf, VersionOf, DocKind, LatestCalls, PlanOf,
           StepsApart, Apart, OpsBegun, OthersKept, TimeKept, OpsKept, Trying, InTry,
           IngestSteps, DeleteSteps, RebuildSteps, DocRunning
  <1>18. CASE DocStepThrows(c)
    BY <1>0, <1>a, <1>t, <1>18, DocStepThrowsEffect
       DEF UnmovedIsCurrent, Unfinished, OpOf, VersionOf, DocKind, LatestCalls, PlanOf,
           StepsApart, Apart, OpsBegun, OthersKept, TimeKept, OpsKept, CorpusKept, Moves,
           Returns, Trying, InTry, IngestSteps, DeleteSteps, RebuildSteps, DocRunning
  <1>19. CASE FailDoc(c)
    BY <1>0, <1>a, <1>t, <1>19, FailEffect
       DEF UnmovedIsCurrent, Unfinished, OpOf, VersionOf, DocKind, LatestCalls, PlanOf,
           StepsApart, Apart, OpsBegun, OpsInHand, OthersKept, TimeKept, CorpusKept,
           Returns, OpIs, Trying, InTry, IngestSteps, DeleteSteps, RebuildSteps, DocRunning
  <1>20. CASE DocCrash(c)
    BY <1>0, <1>a, <1>t, <1>20, DocCrashEffect
       DEF UnmovedIsCurrent, Unfinished, OpOf, VersionOf, DocKind, LatestCalls, PlanOf,
           StepsApart, Apart, OpsBegun, OthersKept, TimeKept, OpsKept, CorpusKept, Returns,
           Trying, InTry, IngestSteps, DeleteSteps, RebuildSteps, DocRunning
  <1> QED
    BY <1>1, <1>2, <1>3, <1>4, <1>5, <1>6, <1>7, <1>8, <1>9, <1>10, <1>11, <1>12, <1>13,
       <1>14, <1>15, <1>16, <1>17, <1>18, <1>19, <1>20
       DEF DocStep, Looks

\* Only the newest operation moves the head.
LEMMA NewestStep ==
    ASSUME ~LateRetries, AnyInv, docSerial, OneAtATime, LatestCalls, LatestOps, IngestsInOrder,
           NewestHolds, NEW c \in DocCalls, DocStep(c)
    PROVE  NewestHolds'
  <1>0. DocTypeOK /\ HeadIsStored /\ OpsInHand /\ OpsBegun /\ StepsApart
    BY DEF AnyInv
  <1>a. OthersKept(c) /\ \A d \in DocCalls \ {c} : docCalls[d].pc \notin DocRunning
    BY Alone
  <1>t. /\ docCalls \in [DocCalls -> DocLocals] /\ docOps \in [DocKeys -> Operations]
        /\ docs \in [Versions -> Nat] /\ head.at \in Nat /\ docNow \in Nat
        /\ \A d \in DocCalls : DocKeyOf[d] \in DocKeys /\ VersionOf(d) \in Versions
    BY <1>0, TypeParts
  <1>1. CASE ArriveDoc(c)
    BY <1>0, <1>a, <1>t, <1>1, ArriveDocEffect
       DEF NewestHolds, OpOf, VersionOf, DocKind, LatestCalls, Operations, OpsInHand,
           OthersKept, OpsKept, CorpusKept, Trying, InTry, IngestSteps, DeleteSteps,
           RebuildSteps, DocRunning
  <1>2. CASE ClaimDoc(c)
    <2>1. /\ commands' = commands /\ head' = head
          /\ docCalls[c].at = docNow /\ \A k \in DocKeys : docOps[k].at <= docNow
      BY <1>a, <1>2, ClaimEffect DEF OthersKept, CorpusKept, LatestCalls, LatestOps
    <2>2. CASE OpsKept
      BY <2>1, <2>2 DEF NewestHolds, OpsKept
    <2>3. CASE Claims(c)
      <3>1. /\ DocKeyOf[c] \in DocKeys /\ docOps'[DocKeyOf[c]].status = "pending"
            /\ docOps'[DocKeyOf[c]].at \in {docNow, docOps[DocKeyOf[c]].at}
            /\ \A k \in DocKeys \ {DocKeyOf[c]} : docOps'[k] = docOps[k]
        BY <1>a, <1>t, <2>1, <2>3 DEF Claims, OthersKept, OpOf
      <3> QED
        BY <1>t, <2>1, <3>1 DEF NewestHolds, Operations
    <2> QED
      BY <1>2, <2>2, <2>3, ClaimEffect
  <1>3. CASE PlanIngest(c)
    <2>1. /\ commands' = commands /\ head' = head
          /\ \A k \in DocKeys : /\ docOps'[k].status = docOps[k].status
                               /\ docOps'[k].at = docOps[k].at
      BY <1>0, <1>a, <1>t, <1>3, PlanIngestEffect DEF OthersKept, CorpusKept, OpOf
    <2> QED
      BY <2>1 DEF NewestHolds
  <1>4. CASE LoadSource(c)
    BY <1>0, <1>a, <1>t, <1>4, LoadSourceEffect
       DEF NewestHolds, OpOf, VersionOf, LatestCalls, Operations, OpsInHand, OthersKept,
           TimeKept, OpsKept, CorpusKept, Trying, InTry, IngestSteps, DeleteSteps,
           RebuildSteps, DocRunning
  <1>5. CASE PutOriginal(c)
    BY <1>0, <1>a, <1>t, <1>5, PutOriginalEffect
       DEF NewestHolds, OpOf, VersionOf, LatestCalls, Operations, OpsInHand, OthersKept,
           TimeKept, OpsKept, Moves, Trying, InTry, IngestSteps, DeleteSteps, RebuildSteps,
           DocRunning
  <1>6. CASE VerifyVersion(c)
    BY <1>0, <1>a, <1>t, <1>6, VerifyVersionEffect
       DEF NewestHolds, OpOf, VersionOf, LatestCalls, Operations, OpsInHand, OthersKept,
           TimeKept, OpsKept, CorpusKept, Moves, Trying, InTry, IngestSteps, DeleteSteps,
           RebuildSteps, DocRunning
  <1>7. CASE CommitVersion(c)
    BY <1>0, <1>a, <1>t, <1>7, CommitVersionEffect, SMTT(60)
       DEF NewestHolds, OpOf, VersionOf, LatestCalls, Operations, OpsInHand, LatestOps,
           OthersKept, TimeKept, OpsKept, Moves, Trying, InTry, IngestSteps, DeleteSteps,
           RebuildSteps, DocRunning
  <1>8. CASE ProjectChunks(c)
    BY <1>0, <1>a, <1>t, <1>8, ProjectChunksEffect
       DEF NewestHolds, OpOf, VersionOf, LatestCalls, Operations, OpsInHand, OthersKept,
           TimeKept, OpsKept, Trying, InTry, IngestSteps, DeleteSteps, RebuildSteps,
           DocRunning
  <1>9. CASE CleanPrevious(c)
    BY <1>0, <1>a, <1>t, <1>9, CleanPreviousEffect
       DEF NewestHolds, OpOf, VersionOf, LatestCalls, Operations, OpsInHand, OthersKept,
           TimeKept, OpsKept, Moves, Trying, InTry, IngestSteps, DeleteSteps, RebuildSteps,
           DocRunning
  <1>10. CASE CompleteDoc(c)
    BY <1>0, <1>a, <1>t, <1>10, CompleteEffect
       DEF NewestHolds, OpOf, VersionOf, DocKind, LatestCalls, Operations, OpsInHand,
           IngestsInOrder, InOrder, OthersKept, TimeKept, CorpusKept, Returns, OpIs, Trying,
           InTry, IngestSteps, DeleteSteps, RebuildSteps, DocRunning
  <1>11. CASE PlanDelete(c)
    BY <1>0, <1>a, <1>t, <1>11, FreezeEffect
       DEF NewestHolds, OpOf, VersionOf, LatestCalls, Operations, OpsInHand, OthersKept,
           TimeKept, CorpusKept, Moves, Trying, InTry, IngestSteps, DeleteSteps,
           RebuildSteps, DocRunning
  <1>12. CASE SelectVersions(c)
    BY <1>0, <1>a, <1>t, <1>12, SelectVersionsEffect
       DEF NewestHolds, OpOf, VersionOf, LatestCalls, Operations, OpsInHand, OthersKept,
           TimeKept, OpsKept, CorpusKept, Trying, InTry, IngestSteps, DeleteSteps,
           RebuildSteps, DocRunning
  <1>13. CASE PurgeDocument(c)
    BY <1>0, <1>a, <1>t, <1>13, PurgeDocumentEffect
       DEF NewestHolds, OpOf, VersionOf, DocKind, LatestCalls, Operations, OpsInHand,
           LatestOps, StepsApart, Apart, OthersKept, TimeKept, OpsKept, Trying, InTry,
           IngestSteps, DeleteSteps, RebuildSteps, DocRunning
  <1>14. CASE DeleteOriginals(c)
    BY <1>0, <1>a, <1>t, <1>14, DeleteOriginalsEffect
       DEF NewestHolds, OpOf, VersionOf, LatestCalls, Operations, OpsInHand, OthersKept,
           TimeKept, OpsKept, Moves, Trying, InTry, IngestSteps, DeleteSteps, RebuildSteps,
           DocRunning
  <1>15. CASE DeleteChunkVectors(c)
    BY <1>0, <1>a, <1>t, <1>15, DeleteChunkVectorsEffect
       DEF NewestHolds, OpOf, VersionOf, LatestCalls, Operations, OpsInHand, OthersKept,
           TimeKept, OpsKept, Moves, Trying, InTry, IngestSteps, DeleteSteps, RebuildSteps,
           DocRunning
  <1>16. CASE Looks(c)
    BY <1>0, <1>a, <1>t, <1>16, LooksEffect
       DEF NewestHolds, OpOf, VersionOf, LatestCalls, Operations, OpsInHand, OthersKept,
           TimeKept, OpsKept, CorpusKept, Moves, Returns, Trying, InTry, IngestSteps,
           DeleteSteps, RebuildSteps, DocRunning
  <1>17. CASE Reproject(c)
    BY <1>0, <1>a, <1>t, <1>17, ReprojectEffect
       DEF NewestHolds, OpOf, VersionOf, LatestCalls, Operations, OpsInHand, OthersKept,
           TimeKept, OpsKept, Trying, InTry, IngestSteps, DeleteSteps, RebuildSteps,
           DocRunning
  <1>18. CASE DocStepThrows(c)
    BY <1>0, <1>a, <1>t, <1>18, DocStepThrowsEffect
       DEF NewestHolds, OpOf, VersionOf, LatestCalls, Operations, OpsInHand, OthersKept,
           TimeKept, OpsKept, CorpusKept, Moves, Returns, Trying, InTry, IngestSteps,
           DeleteSteps, RebuildSteps, DocRunning
  <1>19. CASE FailDoc(c)
    BY <1>0, <1>a, <1>t, <1>19, FailEffect
       DEF NewestHolds, OpOf, VersionOf, LatestCalls, Operations, OpsInHand, OthersKept,
           TimeKept, CorpusKept, Returns, OpIs, Trying, InTry, IngestSteps, DeleteSteps,
           RebuildSteps, DocRunning
  <1>20. CASE DocCrash(c)
    BY <1>0, <1>a, <1>t, <1>20, DocCrashEffect
       DEF NewestHolds, OpOf, VersionOf, LatestCalls, Operations, OpsInHand, OthersKept,
           TimeKept, OpsKept, CorpusKept, Returns, Trying, InTry, IngestSteps, DeleteSteps,
           RebuildSteps, DocRunning
  <1> QED
    BY <1>1, <1>2, <1>3, <1>4, <1>5, <1>6, <1>7, <1>8, <1>9, <1>10, <1>11, <1>12, <1>13,
       <1>14, <1>15, <1>16, <1>17, <1>18, <1>19, <1>20
       DEF DocStep, Looks

\* An ingest stays current and indexes its version.
LEMMA IngestsStep ==
    ASSUME ~LateRetries, AnyInv, docSerial, OneAtATime, LatestCalls, LatestOps, IngestsInOrder,
           NEW c \in DocCalls, DocStep(c)
    PROVE  IngestsInOrder'
  <1>0. DocTypeOK /\ HeadIsStored /\ OpsInHand /\ OpsBegun /\ StepsApart
    BY DEF AnyInv
  <1>a. OthersKept(c) /\ \A d \in DocCalls \ {c} : docCalls[d].pc \notin DocRunning
    BY Alone
  <1>t. /\ docCalls \in [DocCalls -> DocLocals] /\ docOps \in [DocKeys -> Operations]
        /\ docs \in [Versions -> Nat] /\ head.at \in Nat /\ docNow \in Nat
        /\ \A d \in DocCalls : DocKeyOf[d] \in DocKeys /\ VersionOf(d) \in Versions
    BY <1>0, TypeParts
  <1>1. CASE ArriveDoc(c)
    BY <1>0, <1>a, <1>t, <1>1, ArriveDocEffect
       DEF IngestsInOrder, InOrder, Indexed, ChunksOf, OpOf, VersionOf, DocKind,
           LatestCalls, PlanOf, StepsApart, Apart, OpsInHand, OthersKept, OpsKept,
           CorpusKept, Trying, InTry, IngestSteps, DeleteSteps, RebuildSteps, DocRunning
  <1>2. CASE ClaimDoc(c)
    BY <1>0, <1>a, <1>t, <1>2, ClaimEffect
       DEF IngestsInOrder, InOrder, Indexed, ChunksOf, OpOf, VersionOf, DocKind,
           LatestCalls, PlanOf, StepsApart, Apart, OpsInHand, OthersKept, OpsKept,
           CorpusKept, Moves, Returns, Claims, Trying, InTry, IngestSteps, DeleteSteps,
           RebuildSteps, DocRunning
  <1>3. CASE PlanIngest(c)
    BY <1>0, <1>a, <1>t, <1>3, PlanIngestEffect
       DEF IngestsInOrder, InOrder, Indexed, ChunksOf, OpOf, VersionOf, DocKind,
           LatestCalls, PlanOf, StepsApart, Apart, OpsInHand, OthersKept, TimeKept,
           CorpusKept, Moves, Trying, InTry, IngestSteps, DeleteSteps, RebuildSteps,
           DocRunning
  <1>4. CASE LoadSource(c)
    BY <1>0, <1>a, <1>t, <1>4, LoadSourceEffect
       DEF IngestsInOrder, InOrder, Indexed, ChunksOf, OpOf, VersionOf, DocKind,
           LatestCalls, PlanOf, StepsApart, Apart, OpsInHand, OthersKept, TimeKept, OpsKept,
           CorpusKept, Trying, InTry, IngestSteps, DeleteSteps, RebuildSteps, DocRunning
  <1>5. CASE PutOriginal(c)
    BY <1>0, <1>a, <1>t, <1>5, PutOriginalEffect
       DEF IngestsInOrder, InOrder, Indexed, ChunksOf, OpOf, VersionOf, DocKind,
           LatestCalls, PlanOf, StepsApart, Apart, OpsInHand, OthersKept, TimeKept, OpsKept,
           Moves, Trying, InTry, IngestSteps, DeleteSteps, RebuildSteps, DocRunning
  <1>6. CASE VerifyVersion(c)
    BY <1>0, <1>a, <1>t, <1>6, VerifyVersionEffect
       DEF IngestsInOrder, InOrder, Indexed, ChunksOf, OpOf, VersionOf, DocKind,
           LatestCalls, PlanOf, StepsApart, Apart, OpsInHand, OthersKept, TimeKept, OpsKept,
           CorpusKept, Moves, Trying, InTry, IngestSteps, DeleteSteps, RebuildSteps,
           DocRunning
  <1>7. CASE CommitVersion(c)
    BY <1>0, <1>a, <1>t, <1>7, CommitVersionEffect
       DEF IngestsInOrder, InOrder, Indexed, ChunksOf, OpOf, VersionOf, DocKind,
           LatestCalls, PlanOf, StepsApart, Apart, OpsInHand, LatestOps, OthersKept,
           TimeKept, OpsKept, Moves, Trying, InTry, IngestSteps, DeleteSteps, RebuildSteps,
           DocRunning
  <1>8. CASE ProjectChunks(c)
    <2> DEFINE v == VersionOf(c)
               b == docCalls[c].batch
    <2>1. /\ head = [version |-> v, at |-> OpOf(c).at] /\ PlanOf(c).created
          /\ \A i \in 1..Batches : i < b => <<v, i>> \in chunkIndex
          /\ b \in 1..Batches /\ Batches \in Nat
      BY <1>8, <1>t, ProjectChunksEffect, CorpusAssumption
         DEF AnyInv, IngestsInOrder, InOrder, DocLocals
    <2>2. /\ OpsKept /\ head' = head /\ VersionOf(c)' = v /\ docCalls[c].pc = "project"
          /\ chunkIndex' = chunkIndex \cup {<<v, b>>}
          /\ \/ b < Batches /\ docCalls'[c].pc = "project" /\ docCalls'[c].batch = b + 1
             \/ b = Batches /\ docCalls'[c].pc = "clean"
      BY <1>0, <1>8, ProjectChunksEffect DEF OthersKept, VersionOf
    <2>3. \A i \in 1..Batches : i < b + 1 => <<v, i>> \in chunkIndex'
      <3> TAKE i \in 1..Batches
      <3> HAVE i < b + 1
      <3>1. i < b \/ i = b
        BY <2>1
      <3> QED
        BY <2>1, <2>2, <3>1
    <2>4. docCalls'[c].pc = "clean" => Indexed(VersionOf(c))'
      <3>1. ASSUME b = Batches PROVE \A i \in 1..Batches : <<v, i>> \in chunkIndex'
        BY <2>1, <2>3, <3>1
      <3> QED
        BY <2>2, <3>1 DEF Indexed, ChunksOf
    <2>5. /\ OpOf(c)' = OpOf(c) /\ PlanOf(c)' = PlanOf(c)
      BY <2>2 DEF OpsKept, OpOf, PlanOf
    <2>6. \A d \in DocCalls \ {c} : docCalls'[d].pc \notin DocRunning
      BY <1>a DEF OthersKept
    <2> HIDE DEF v, b
    <2>7. InOrder(c)'
      BY <2>1, <2>2, <2>3, <2>4, <2>5 DEF InOrder
    <2>8. ASSUME NEW d \in DocCalls \ {c} PROVE InOrder(d)'
      BY <2>6 DEF InOrder, DocRunning, InTry, IngestSteps
    <2> QED
      BY <2>7, <2>8 DEF IngestsInOrder
  <1>9. CASE CleanPrevious(c)
    BY <1>0, <1>a, <1>t, <1>9, CleanPreviousEffect
       DEF IngestsInOrder, InOrder, Indexed, ChunksOf, OpOf, VersionOf, DocKind,
           LatestCalls, PlanOf, StepsApart, Apart, OpsInHand, OthersKept, TimeKept, OpsKept,
           Moves, Trying, InTry, IngestSteps, DeleteSteps, RebuildSteps, DocRunning
  <1>10. CASE CompleteDoc(c)
    BY <1>0, <1>a, <1>t, <1>10, CompleteEffect
       DEF IngestsInOrder, InOrder, Indexed, ChunksOf, OpOf, VersionOf, DocKind,
           LatestCalls, PlanOf, StepsApart, Apart, OpsInHand, OthersKept, TimeKept,
           CorpusKept, Returns, OpIs, Trying, InTry, IngestSteps, DeleteSteps, RebuildSteps,
           DocRunning
  <1>11. CASE PlanDelete(c)
    BY <1>0, <1>a, <1>t, <1>11, FreezeEffect
       DEF IngestsInOrder, InOrder, Indexed, ChunksOf, OpOf, VersionOf, DocKind,
           LatestCalls, PlanOf, StepsApart, Apart, OpsInHand, OthersKept, TimeKept,
           CorpusKept, Moves, Trying, InTry, IngestSteps, DeleteSteps, RebuildSteps,
           DocRunning
  <1>12. CASE SelectVersions(c)
    BY <1>0, <1>a, <1>t, <1>12, SelectVersionsEffect
       DEF IngestsInOrder, InOrder, Indexed, ChunksOf, OpOf, VersionOf, DocKind,
           LatestCalls, PlanOf, StepsApart, Apart, OpsInHand, OthersKept, TimeKept, OpsKept,
           CorpusKept, Trying, InTry, IngestSteps, DeleteSteps, RebuildSteps, DocRunning
  <1>13. CASE PurgeDocument(c)
    BY <1>0, <1>a, <1>t, <1>13, PurgeDocumentEffect
       DEF IngestsInOrder, InOrder, Indexed, ChunksOf, OpOf, VersionOf, DocKind,
           LatestCalls, PlanOf, StepsApart, Apart, OpsInHand, OthersKept, TimeKept, OpsKept,
           Trying, InTry, IngestSteps, DeleteSteps, RebuildSteps, DocRunning
  <1>14. CASE DeleteOriginals(c)
    BY <1>0, <1>a, <1>t, <1>14, DeleteOriginalsEffect
       DEF IngestsInOrder, InOrder, Indexed, ChunksOf, OpOf, VersionOf, DocKind,
           LatestCalls, PlanOf, StepsApart, Apart, OpsInHand, OthersKept, TimeKept, OpsKept,
           Moves, Trying, InTry, IngestSteps, DeleteSteps, RebuildSteps, DocRunning
  <1>15. CASE DeleteChunkVectors(c)
    BY <1>0, <1>a, <1>t, <1>15, DeleteChunkVectorsEffect
       DEF IngestsInOrder, InOrder, Indexed, ChunksOf, OpOf, VersionOf, DocKind,
           LatestCalls, PlanOf, StepsApart, Apart, OpsInHand, OthersKept, TimeKept, OpsKept,
           Moves, Trying, InTry, IngestSteps, DeleteSteps, RebuildSteps, DocRunning
  <1>16. CASE Looks(c)
    BY <1>0, <1>a, <1>t, <1>16, LooksEffect
       DEF IngestsInOrder, InOrder, Indexed, ChunksOf, OpOf, VersionOf, DocKind,
           LatestCalls, PlanOf, StepsApart, Apart, OpsInHand, OthersKept, TimeKept, OpsKept,
           CorpusKept, Moves, Returns, Trying, InTry, IngestSteps, DeleteSteps,
           RebuildSteps, DocRunning
  <1>17. CASE Reproject(c)
    BY <1>0, <1>a, <1>t, <1>17, ReprojectEffect
       DEF IngestsInOrder, InOrder, Indexed, ChunksOf, OpOf, VersionOf, DocKind,
           LatestCalls, PlanOf, StepsApart, Apart, OpsInHand, OthersKept, TimeKept, OpsKept,
           Trying, InTry, IngestSteps, DeleteSteps, RebuildSteps, DocRunning
  <1>18. CASE DocStepThrows(c)
    BY <1>0, <1>a, <1>t, <1>18, DocStepThrowsEffect
       DEF IngestsInOrder, InOrder, Indexed, ChunksOf, OpOf, VersionOf, DocKind,
           LatestCalls, PlanOf, StepsApart, Apart, OpsInHand, OthersKept, TimeKept, OpsKept,
           CorpusKept, Moves, Returns, Trying, InTry, IngestSteps, DeleteSteps,
           RebuildSteps, DocRunning
  <1>19. CASE FailDoc(c)
    BY <1>0, <1>a, <1>t, <1>19, FailEffect
       DEF IngestsInOrder, InOrder, Indexed, ChunksOf, OpOf, VersionOf, DocKind,
           LatestCalls, PlanOf, StepsApart, Apart, OpsInHand, OthersKept, TimeKept,
           CorpusKept, Returns, OpIs, Trying, InTry, IngestSteps, DeleteSteps, RebuildSteps,
           DocRunning
  <1>20. CASE DocCrash(c)
    BY <1>0, <1>a, <1>t, <1>20, DocCrashEffect
       DEF IngestsInOrder, InOrder, Indexed, ChunksOf, OpOf, VersionOf, DocKind,
           LatestCalls, PlanOf, StepsApart, Apart, OpsInHand, OthersKept, TimeKept, OpsKept,
           CorpusKept, Returns, Trying, InTry, IngestSteps, DeleteSteps, RebuildSteps,
           DocRunning
  <1> QED
    BY <1>1, <1>2, <1>3, <1>4, <1>5, <1>6, <1>7, <1>8, <1>9, <1>10, <1>11, <1>12, <1>13,
       <1>14, <1>15, <1>16, <1>17, <1>18, <1>19, <1>20
       DEF DocStep, Looks

\* Who owes goes on owing while nothing changes its status or its plan.
LEMMA OwesKept ==
    ASSUME OpsKept, commands' = commands, NEW v
    PROVE  (DeleteOwes(v) <=> DeleteOwes(v)') /\ (IngestOwes(v) <=> IngestOwes(v)')
  BY DEF DeleteOwes, IngestOwes, IngestOf, Unfinished, OpsKept

\* What a step takes off an operation, nobody but this operation owed.
LEMMA OwesOthers ==
    ASSUME DocTypeOK, NEW c \in DocCalls, OthersKept(c), NEW v
    PROVE  /\ DeleteOwes(v) =>
                DeleteOwes(v)' \/ (DocKind(c) = "delete" /\ v \in OpOf(c).plan.documents)
           /\ IngestOwes(v) =>
                IngestOwes(v)' \/ (DocKind(c) = "ingest" /\ VersionOf(c) = v)
  BY TypeParts
     DEF DeleteOwes, IngestOwes, IngestOf, Unfinished, OthersKept, DocKind, VersionOf, OpOf

\* What an unfinished operation owes.
LEMMA OwesItself ==
    ASSUME DocTypeOK, NEW c \in DocCalls, Unfinished(DocKeyOf[c])
    PROVE  /\ DocKind(c) = "ingest" => IngestOwes(VersionOf(c))
           /\ DocKind(c) = "delete" => \A v \in OpOf(c).plan.documents : DeleteOwes(v)
  <1>1. DocKeyOf[c] \in DocKeys
    BY TypeParts
  <1>2. DocKind(c) = "ingest" => IngestOf(DocKeyOf[c], VersionOf(c))
    BY <1>1 DEF IngestOf, DocKind, VersionOf, DocTypeOK
  <1> QED
    BY <1>1, <1>2 DEF DeleteOwes, IngestOwes, DocKind, OpOf

\* So does an operation that goes on.
LEMMA OwesHeld ==
    ASSUME DocTypeOK, NEW c \in DocCalls, OthersKept(c), Unfinished(DocKeyOf[c])',
           OpOf(c).plan.documents \subseteq OpOf(c)'.plan.documents, NEW v
    PROVE  /\ DeleteOwes(v) => DeleteOwes(v)'
           /\ IngestOwes(v) => IngestOwes(v)'
  BY TypeParts DEF DeleteOwes, IngestOwes, IngestOf, Unfinished, OthersKept, OpOf

\* A delete at work on its rows froze those that are stored.
LEMMA FrozenIsStored ==
    ASSUME AnyInv, LatestCalls, DeletePlans, NEW c \in DocCalls, docCalls[c].pc = "purge",
           NEW v \in Versions, Stored(v)
    PROVE  DocKind(c) = "delete" /\ Unfinished(DocKeyOf[c]) /\ v \in OpOf(c).plan.documents
  BY TypeParts
     DEF AnyInv, LatestCalls, DeletePlans, NoneStored, StepsApart, Apart, OpsInHand,
         Unfinished, DocKind, OpOf, PlanOf, Trying, InTry, IngestSteps, DeleteSteps

\* The version an ingest has made current is stored.
LEMMA OrderIsStored ==
    ASSUME AnyInv, NEW c \in DocCalls, InOrder(c),
           \/ docCalls[c].pc \in {"project", "clean"}
           \/ docCalls[c].pc = "complete" /\ DocKind(c) = "ingest"
    PROVE  Stored(VersionOf(c)) /\ head # NoHead
  <1>1. head = [version |-> VersionOf(c), at |-> OpOf(c).at] /\ VersionOf(c) # NoVersion
    BY TypeParts, CorpusAssumption DEF AnyInv, InOrder
  <1>2. head # NoHead
    BY <1>1 DEF NoHead
  <1> QED
    BY <1>1, <1>2 DEF AnyInv, HeadIsStored

\* A row that was stored is stored after a commit.
LEMMA CommitStores ==
    ASSUME DocTypeOK, NEW c \in DocCalls, CommitVersion(c), NEW v, Stored(v), v \in Versions
    PROVE  Stored(v)'
  BY CommitVersionEffect DEF Stored

\* What has no row is owed by an operation.
LEMMA LeftOriginalsStep ==
    ASSUME ~LateRetries, AnyInv, docSerial, OneAtATime, LatestCalls, DeletePlans, DeleteCalls,
           IngestsInOrder, LeftOriginals, NEW c \in DocCalls, DocStep(c)
    PROVE  LeftOriginals'
  <1>0. DocTypeOK /\ HeadIsStored /\ OpsInHand /\ OpsBegun /\ StepsApart
    BY DEF AnyInv
  <1>a. OthersKept(c) /\ \A d \in DocCalls \ {c} : docCalls[d].pc \notin DocRunning
    BY Alone
  <1>t. /\ docCalls \in [DocCalls -> DocLocals] /\ docOps \in [DocKeys -> Operations]
        /\ docs \in [Versions -> Nat] /\ head.at \in Nat /\ docNow \in Nat
        /\ \A d \in DocCalls : DocKeyOf[d] \in DocKeys /\ VersionOf(d) \in Versions
    BY <1>0, TypeParts
  <1>1. CASE ArriveDoc(c)
    BY <1>0, <1>a, <1>t, <1>1, ArriveDocEffect
       DEF LeftOriginals, DeleteOwes, IngestOwes, IngestOf, Unfinished, Stored, OpOf,
           VersionOf, DocKind, LatestCalls, StepsApart, Apart, OpsInHand, OpsBegun,
           OthersKept, OpsKept, CorpusKept, Trying, InTry, IngestSteps, DeleteSteps,
           RebuildSteps, DocRunning
  <1>2. CASE ClaimDoc(c)
    BY <1>0, <1>a, <1>t, <1>2, ClaimEffect
       DEF LeftOriginals, DeleteOwes, IngestOwes, IngestOf, Unfinished, Stored, OpOf,
           VersionOf, DocKind, LatestCalls, StepsApart, Apart, OpsInHand, OpsBegun,
           OthersKept, OpsKept, CorpusKept, Moves, Returns, Claims, Trying, InTry,
           IngestSteps, DeleteSteps, RebuildSteps, DocRunning
  <1>3. CASE PlanIngest(c)
    BY <1>0, <1>a, <1>t, <1>3, PlanIngestEffect
       DEF LeftOriginals, DeleteOwes, IngestOwes, IngestOf, Unfinished, Stored, OpOf,
           VersionOf, DocKind, LatestCalls, StepsApart, Apart, OpsInHand, OpsBegun,
           OthersKept, TimeKept, CorpusKept, Moves, Trying, InTry, IngestSteps, DeleteSteps,
           RebuildSteps, DocRunning
  <1>4. CASE LoadSource(c)
    BY <1>0, <1>a, <1>t, <1>4, LoadSourceEffect
       DEF LeftOriginals, DeleteOwes, IngestOwes, IngestOf, Unfinished, Stored, OpOf,
           VersionOf, DocKind, LatestCalls, StepsApart, Apart, OpsInHand, OpsBegun,
           OthersKept, TimeKept, OpsKept, CorpusKept, Trying, InTry, IngestSteps,
           DeleteSteps, RebuildSteps, DocRunning
  <1>5. CASE PutOriginal(c)
    <2>1. /\ OpsKept /\ commands' = commands /\ docs' = docs
          /\ originals' = originals \cup {VersionOf(c)}
      BY <1>0, <1>5, PutOriginalEffect DEF OthersKept
    <2>2. DocKind(c) = "ingest" /\ Unfinished(DocKeyOf[c])
      BY <1>0, <1>5
         DEF PutOriginal, DocAt, StepsApart, Apart, OpsInHand, Unfinished, OpOf, Trying,
             InTry, IngestSteps
    <2>3. IngestOwes(VersionOf(c))
      BY <1>0, <2>2, OwesItself
    <2> QED
      BY <2>1, <2>3, OwesKept DEF LeftOriginals, Stored
  <1>6. CASE VerifyVersion(c)
    BY <1>0, <1>a, <1>t, <1>6, VerifyVersionEffect
       DEF LeftOriginals, DeleteOwes, IngestOwes, IngestOf, Unfinished, Stored, OpOf,
           VersionOf, DocKind, LatestCalls, StepsApart, Apart, OpsInHand, OpsBegun,
           OthersKept, TimeKept, OpsKept, CorpusKept, Moves, Trying, InTry, IngestSteps,
           DeleteSteps, RebuildSteps, DocRunning
  <1>7. CASE CommitVersion(c)
    <2>1. OpsKept /\ commands' = commands /\ originals' = originals /\ originals \subseteq Versions
      BY <1>0, <1>7, CommitVersionEffect DEF OthersKept, DocTypeOK
    <2> QED
      BY <1>0, <1>7, <2>1, OwesKept, CommitStores DEF LeftOriginals
  <1>8. CASE ProjectChunks(c)
    BY <1>0, <1>a, <1>t, <1>8, ProjectChunksEffect
       DEF LeftOriginals, DeleteOwes, IngestOwes, IngestOf, Unfinished, Stored, OpOf,
           VersionOf, DocKind, LatestCalls, StepsApart, Apart, OpsInHand, OpsBegun,
           OthersKept, TimeKept, OpsKept, Trying, InTry, IngestSteps, DeleteSteps,
           RebuildSteps, DocRunning
  <1>9. CASE CleanPrevious(c)
    BY <1>0, <1>a, <1>t, <1>9, CleanPreviousEffect
       DEF LeftOriginals, DeleteOwes, IngestOwes, IngestOf, Unfinished, Stored, OpOf,
           VersionOf, DocKind, LatestCalls, StepsApart, Apart, OpsInHand, OpsBegun,
           OthersKept, TimeKept, OpsKept, Moves, Trying, InTry, IngestSteps, DeleteSteps,
           RebuildSteps, DocRunning
  <1>10. CASE CompleteDoc(c)
    <2>1. docs' = docs /\ originals' = originals /\ docCalls[c].pc = "complete"
      BY <1>10, CompleteEffect DEF CorpusKept
    <2>2. SUFFICES ASSUME NEW v \in originals
                   PROVE  Stored(v) \/ DeleteOwes(v)' \/ IngestOwes(v)'
      BY <2>1 DEF LeftOriginals, Stored
    <2>3. Stored(v) \/ DeleteOwes(v) \/ IngestOwes(v)
      BY DEF LeftOriginals
    <2>4. ~(DocKind(c) = "delete" /\ v \in OpOf(c).plan.documents)
      BY <2>1 DEF DeleteCalls, FrozenVersions, PlanOf, OpOf
    <2>5. DocKind(c) = "ingest" /\ VersionOf(c) = v => Stored(v)
      BY <2>1, OrderIsStored DEF IngestsInOrder
    <2> QED
      BY <1>0, <1>a, <2>3, <2>4, <2>5, OwesOthers
  <1>11. CASE PlanDelete(c)
    <2>1. /\ docs' = docs /\ originals' = originals
          /\ OpOf(c)'.status = "pending"
          /\ OpOf(c).plan.documents \subseteq OpOf(c)'.plan.documents
      BY <1>0, <1>t, <1>11, FreezeEffect
         DEF CorpusKept, OpsInHand, OpsBegun, StepsApart, Apart, OpOf, PlanOf, Trying,
             InTry, DeleteSteps
    <2>2. Unfinished(DocKeyOf[c])'
      BY <2>1 DEF Unfinished, OpOf
    <2> QED
      BY <1>0, <1>a, <2>1, <2>2, OwesHeld DEF LeftOriginals, Stored
  <1>12. CASE SelectVersions(c)
    BY <1>0, <1>a, <1>t, <1>12, SelectVersionsEffect
       DEF LeftOriginals, DeleteOwes, IngestOwes, IngestOf, Unfinished, Stored, OpOf,
           VersionOf, DocKind, LatestCalls, StepsApart, Apart, OpsInHand, OpsBegun,
           OthersKept, TimeKept, OpsKept, CorpusKept, Trying, InTry, IngestSteps,
           DeleteSteps, RebuildSteps, DocRunning
  <1>13. CASE PurgeDocument(c)
    <2>1. /\ OpsKept /\ commands' = commands
          /\ originals' = originals /\ originals \subseteq Versions
          /\ docCalls[c].pc = "purge"
      BY <1>0, <1>13, PurgeDocumentEffect DEF OthersKept, DocTypeOK
    <2>2. ASSUME NEW v \in Versions, Stored(v) PROVE DeleteOwes(v)
      BY <1>0, <2>1, <2>2, FrozenIsStored, OwesItself
    <2> QED
      BY <2>1, <2>2, OwesKept DEF LeftOriginals
  <1>14. CASE DeleteOriginals(c)
    BY <1>0, <1>a, <1>t, <1>14, DeleteOriginalsEffect
       DEF LeftOriginals, DeleteOwes, IngestOwes, IngestOf, Unfinished, Stored, OpOf,
           VersionOf, DocKind, LatestCalls, StepsApart, Apart, OpsInHand, OpsBegun,
           OthersKept, TimeKept, OpsKept, Moves, Trying, InTry, IngestSteps, DeleteSteps,
           RebuildSteps, DocRunning
  <1>15. CASE DeleteChunkVectors(c)
    BY <1>0, <1>a, <1>t, <1>15, DeleteChunkVectorsEffect
       DEF LeftOriginals, DeleteOwes, IngestOwes, IngestOf, Unfinished, Stored, OpOf,
           VersionOf, DocKind, LatestCalls, StepsApart, Apart, OpsInHand, OpsBegun,
           OthersKept, TimeKept, OpsKept, Moves, Trying, InTry, IngestSteps, DeleteSteps,
           RebuildSteps, DocRunning
  <1>16. CASE Looks(c)
    BY <1>0, <1>a, <1>t, <1>16, LooksEffect
       DEF LeftOriginals, DeleteOwes, IngestOwes, IngestOf, Unfinished, Stored, OpOf,
           VersionOf, DocKind, LatestCalls, StepsApart, Apart, OpsInHand, OpsBegun,
           OthersKept, TimeKept, OpsKept, CorpusKept, Moves, Returns, Trying, InTry,
           IngestSteps, DeleteSteps, RebuildSteps, DocRunning
  <1>17. CASE Reproject(c)
    BY <1>0, <1>a, <1>t, <1>17, ReprojectEffect
       DEF LeftOriginals, DeleteOwes, IngestOwes, IngestOf, Unfinished, Stored, OpOf,
           VersionOf, DocKind, LatestCalls, StepsApart, Apart, OpsInHand, OpsBegun,
           OthersKept, TimeKept, OpsKept, Trying, InTry, IngestSteps, DeleteSteps,
           RebuildSteps, DocRunning
  <1>18. CASE DocStepThrows(c)
    BY <1>0, <1>a, <1>t, <1>18, DocStepThrowsEffect
       DEF LeftOriginals, DeleteOwes, IngestOwes, IngestOf, Unfinished, Stored, OpOf,
           VersionOf, DocKind, LatestCalls, StepsApart, Apart, OpsInHand, OpsBegun,
           OthersKept, TimeKept, OpsKept, CorpusKept, Moves, Returns, Trying, InTry,
           IngestSteps, DeleteSteps, RebuildSteps, DocRunning
  <1>19. CASE FailDoc(c)
    BY <1>0, <1>a, <1>t, <1>19, FailEffect
       DEF LeftOriginals, DeleteOwes, IngestOwes, IngestOf, Unfinished, Stored, OpOf,
           VersionOf, DocKind, LatestCalls, StepsApart, Apart, OpsInHand, OpsBegun,
           OthersKept, TimeKept, CorpusKept, Returns, OpIs, Trying, InTry, IngestSteps,
           DeleteSteps, RebuildSteps, DocRunning
  <1>20. CASE DocCrash(c)
    BY <1>0, <1>a, <1>t, <1>20, DocCrashEffect
       DEF LeftOriginals, DeleteOwes, IngestOwes, IngestOf, Unfinished, Stored, OpOf,
           VersionOf, DocKind, LatestCalls, StepsApart, Apart, OpsInHand, OpsBegun,
           OthersKept, TimeKept, OpsKept, CorpusKept, Returns, Trying, InTry, IngestSteps,
           DeleteSteps, RebuildSteps, DocRunning
  <1> QED
    BY <1>1, <1>2, <1>3, <1>4, <1>5, <1>6, <1>7, <1>8, <1>9, <1>10, <1>11, <1>12, <1>13,
       <1>14, <1>15, <1>16, <1>17, <1>18, <1>19, <1>20
       DEF DocStep, Looks

\* Chunks that have no row are owed by a delete.
LEMMA LeftChunksStep ==
    ASSUME ~LateRetries, AnyInv, docSerial, OneAtATime, LatestCalls, DeletePlans, DeleteCalls,
           IngestsInOrder, LeftChunks, NEW c \in DocCalls, DocStep(c)
    PROVE  LeftChunks'
  <1>0. DocTypeOK /\ HeadIsStored /\ OpsInHand /\ OpsBegun /\ StepsApart
    BY DEF AnyInv
  <1>a. OthersKept(c) /\ \A d \in DocCalls \ {c} : docCalls[d].pc \notin DocRunning
    BY Alone
  <1>t. /\ docCalls \in [DocCalls -> DocLocals] /\ docOps \in [DocKeys -> Operations]
        /\ docs \in [Versions -> Nat] /\ head.at \in Nat /\ docNow \in Nat
        /\ \A d \in DocCalls : DocKeyOf[d] \in DocKeys /\ VersionOf(d) \in Versions
    BY <1>0, TypeParts
  <1>c. \A chunk \in chunkIndex : chunk[1] \in Versions
    BY <1>0 DEF DocTypeOK, Chunks
  <1>d. \A d \in DocCalls \ {c} : docCalls'[d].pc # "reproject"
    BY <1>a DEF OthersKept, DocRunning, RebuildSteps
  <1>1. CASE ArriveDoc(c)
    BY <1>0, <1>a, <1>t, <1>1, ArriveDocEffect
       DEF LeftChunks, DeleteOwes, Unfinished, Stored, OpOf, VersionOf, DocKind,
           LatestCalls, StepsApart, Apart, OpsInHand, OpsBegun, OthersKept, OpsKept,
           CorpusKept, Trying, InTry, IngestSteps, DeleteSteps, RebuildSteps, DocRunning
  <1>2. CASE ClaimDoc(c)
    BY <1>0, <1>a, <1>t, <1>2, ClaimEffect
       DEF LeftChunks, DeleteOwes, Unfinished, Stored, OpOf, VersionOf, DocKind,
           LatestCalls, StepsApart, Apart, OpsInHand, OpsBegun, OthersKept, OpsKept,
           CorpusKept, Moves, Returns, Claims, Trying, InTry, IngestSteps, DeleteSteps,
           RebuildSteps, DocRunning
  <1>3. CASE PlanIngest(c)
    BY <1>0, <1>a, <1>t, <1>3, PlanIngestEffect
       DEF LeftChunks, DeleteOwes, Unfinished, Stored, OpOf, VersionOf, DocKind,
           LatestCalls, StepsApart, Apart, OpsInHand, OpsBegun, OthersKept, TimeKept,
           CorpusKept, Moves, Trying, InTry, IngestSteps, DeleteSteps, RebuildSteps,
           DocRunning
  <1>4. CASE LoadSource(c)
    BY <1>0, <1>a, <1>t, <1>4, LoadSourceEffect
       DEF LeftChunks, DeleteOwes, Unfinished, Stored, OpOf, VersionOf, DocKind,
           LatestCalls, StepsApart, Apart, OpsInHand, OpsBegun, OthersKept, TimeKept,
           OpsKept, CorpusKept, Trying, InTry, IngestSteps, DeleteSteps, RebuildSteps,
           DocRunning
  <1>5. CASE PutOriginal(c)
    BY <1>0, <1>a, <1>t, <1>5, PutOriginalEffect
       DEF LeftChunks, DeleteOwes, Unfinished, Stored, OpOf, VersionOf, DocKind,
           LatestCalls, StepsApart, Apart, OpsInHand, OpsBegun, OthersKept, TimeKept,
           OpsKept, Moves, Trying, InTry, IngestSteps, DeleteSteps, RebuildSteps, DocRunning
  <1>6. CASE VerifyVersion(c)
    BY <1>0, <1>a, <1>t, <1>6, VerifyVersionEffect
       DEF LeftChunks, DeleteOwes, Unfinished, Stored, OpOf, VersionOf, DocKind,
           LatestCalls, StepsApart, Apart, OpsInHand, OpsBegun, OthersKept, TimeKept,
           OpsKept, CorpusKept, Moves, Trying, InTry, IngestSteps, DeleteSteps,
           RebuildSteps, DocRunning
  <1>7. CASE CommitVersion(c)
    <2>1. /\ OpsKept /\ commands' = commands /\ chunkIndex' = chunkIndex
          /\ docCalls'[c].pc # "reproject"
      BY <1>0, <1>7, CommitVersionEffect DEF OthersKept, Moves
    <2> QED
      BY <1>0, <1>c, <1>d, <1>7, <2>1, OwesKept, CommitStores DEF LeftChunks
  <1>8. CASE ProjectChunks(c)
    <2>1. /\ OpsKept /\ commands' = commands /\ docs' = docs
          /\ chunkIndex' = chunkIndex \cup {<<VersionOf(c), docCalls[c].batch>>}
          /\ docCalls'[c].pc # "reproject" /\ docCalls[c].pc = "project"
      BY <1>0, <1>8, ProjectChunksEffect DEF OthersKept
    <2>2. Stored(VersionOf(c))
      BY <2>1, OrderIsStored DEF IngestsInOrder
    <2> QED
      BY <1>d, <2>1, <2>2, OwesKept DEF LeftChunks, Stored
  <1>9. CASE CleanPrevious(c)
    BY <1>0, <1>a, <1>t, <1>9, CleanPreviousEffect
       DEF LeftChunks, DeleteOwes, Unfinished, Stored, OpOf, VersionOf, DocKind,
           LatestCalls, StepsApart, Apart, OpsInHand, OpsBegun, OthersKept, TimeKept,
           OpsKept, Moves, Trying, InTry, IngestSteps, DeleteSteps, RebuildSteps, DocRunning
  <1>10. CASE CompleteDoc(c)
    <2>1. /\ docs' = docs /\ chunkIndex' = chunkIndex /\ docCalls[c].pc = "complete"
          /\ docCalls'[c].pc # "reproject"
      BY <1>10, CompleteEffect DEF CorpusKept, Returns
    <2>2. ASSUME NEW chunk \in chunkIndex PROVE Stored(chunk[1]) \/ DeleteOwes(chunk[1])'
      <3>1. Stored(chunk[1]) \/ DeleteOwes(chunk[1])
        BY DEF LeftChunks
      <3>2. ~(DocKind(c) = "delete" /\ chunk[1] \in OpOf(c).plan.documents)
        BY <2>1 DEF DeleteCalls, FrozenVersions, PlanOf, OpOf
      <3> QED
        BY <1>0, <1>a, <3>1, <3>2, OwesOthers
    <2> QED
      BY <1>d, <2>1, <2>2 DEF LeftChunks, Stored
  <1>11. CASE PlanDelete(c)
    <2>1. /\ docs' = docs /\ chunkIndex' = chunkIndex
          /\ OpOf(c)'.status = "pending" /\ docCalls'[c].pc # "reproject"
          /\ OpOf(c).plan.documents \subseteq OpOf(c)'.plan.documents
      BY <1>0, <1>t, <1>11, FreezeEffect
         DEF CorpusKept, OpsInHand, OpsBegun, StepsApart, Apart, OpOf, PlanOf, Moves,
             Trying, InTry, DeleteSteps
    <2>2. Unfinished(DocKeyOf[c])'
      BY <2>1 DEF Unfinished, OpOf
    <2> QED
      BY <1>0, <1>a, <1>d, <2>1, <2>2, OwesHeld DEF LeftChunks, Stored
  <1>12. CASE SelectVersions(c)
    BY <1>0, <1>a, <1>t, <1>12, SelectVersionsEffect
       DEF LeftChunks, DeleteOwes, Unfinished, Stored, OpOf, VersionOf, DocKind,
           LatestCalls, StepsApart, Apart, OpsInHand, OpsBegun, OthersKept, TimeKept,
           OpsKept, CorpusKept, Trying, InTry, IngestSteps, DeleteSteps, RebuildSteps,
           DocRunning
  <1>13. CASE PurgeDocument(c)
    <2>1. /\ OpsKept /\ commands' = commands /\ chunkIndex' = chunkIndex
          /\ docCalls[c].pc = "purge" /\ docCalls'[c].pc # "reproject"
      BY <1>0, <1>13, PurgeDocumentEffect DEF OthersKept
    <2>2. ASSUME NEW v \in Versions, Stored(v) PROVE DeleteOwes(v)
      BY <1>0, <2>1, <2>2, FrozenIsStored, OwesItself
    <2> QED
      BY <1>c, <1>d, <2>1, <2>2, OwesKept DEF LeftChunks
  <1>14. CASE DeleteOriginals(c)
    BY <1>0, <1>a, <1>t, <1>14, DeleteOriginalsEffect
       DEF LeftChunks, DeleteOwes, Unfinished, Stored, OpOf, VersionOf, DocKind,
           LatestCalls, StepsApart, Apart, OpsInHand, OpsBegun, OthersKept, TimeKept,
           OpsKept, Moves, Trying, InTry, IngestSteps, DeleteSteps, RebuildSteps, DocRunning
  <1>15. CASE DeleteChunkVectors(c)
    BY <1>0, <1>a, <1>t, <1>15, DeleteChunkVectorsEffect
       DEF LeftChunks, DeleteOwes, Unfinished, Stored, OpOf, VersionOf, DocKind,
           LatestCalls, StepsApart, Apart, OpsInHand, OpsBegun, OthersKept, TimeKept,
           OpsKept, Moves, Trying, InTry, IngestSteps, DeleteSteps, RebuildSteps, DocRunning
  <1>16. CASE Looks(c)
    BY <1>0, <1>a, <1>t, <1>16, LooksEffect
       DEF LeftChunks, DeleteOwes, Unfinished, Stored, OpOf, VersionOf, DocKind,
           LatestCalls, StepsApart, Apart, OpsInHand, OpsBegun, OthersKept, TimeKept,
           OpsKept, CorpusKept, Moves, Returns, Trying, InTry, IngestSteps, DeleteSteps,
           RebuildSteps, DocRunning
  <1>17. CASE Reproject(c)
    BY <1>0, <1>a, <1>t, <1>17, ReprojectEffect
       DEF LeftChunks, DeleteOwes, Unfinished, Stored, OpOf, VersionOf, DocKind,
           LatestCalls, StepsApart, Apart, OpsInHand, OpsBegun, OthersKept, TimeKept,
           OpsKept, Trying, InTry, IngestSteps, DeleteSteps, RebuildSteps, DocRunning
  <1>18. CASE DocStepThrows(c)
    BY <1>0, <1>a, <1>t, <1>18, DocStepThrowsEffect
       DEF LeftChunks, DeleteOwes, Unfinished, Stored, OpOf, VersionOf, DocKind,
           LatestCalls, StepsApart, Apart, OpsInHand, OpsBegun, OthersKept, TimeKept,
           OpsKept, CorpusKept, Moves, Returns, Trying, InTry, IngestSteps, DeleteSteps,
           RebuildSteps, DocRunning
  <1>19. CASE FailDoc(c)
    BY <1>0, <1>a, <1>t, <1>19, FailEffect
       DEF LeftChunks, DeleteOwes, Unfinished, Stored, OpOf, VersionOf, DocKind,
           LatestCalls, StepsApart, Apart, OpsInHand, OpsBegun, OthersKept, TimeKept,
           CorpusKept, Returns, OpIs, Trying, InTry, IngestSteps, DeleteSteps, RebuildSteps,
           DocRunning
  <1>20. CASE DocCrash(c)
    BY <1>0, <1>a, <1>t, <1>20, DocCrashEffect
       DEF LeftChunks, DeleteOwes, Unfinished, Stored, OpOf, VersionOf, DocKind,
           LatestCalls, StepsApart, Apart, OpsInHand, OpsBegun, OthersKept, TimeKept,
           OpsKept, CorpusKept, Returns, Trying, InTry, IngestSteps, DeleteSteps,
           RebuildSteps, DocRunning
  <1> QED
    BY <1>1, <1>2, <1>3, <1>4, <1>5, <1>6, <1>7, <1>8, <1>9, <1>10, <1>11, <1>12, <1>13,
       <1>14, <1>15, <1>16, <1>17, <1>18, <1>19, <1>20
       DEF DocStep, Looks

\* A gap in the current version is owed by an ingest.
LEMMA GapStep ==
    ASSUME ~LateRetries, AnyInv, docSerial, OneAtATime, LatestCalls, LatestOps, DeleteCalls,
           IngestsInOrder, UnmovedIsCurrent, GapIsOwed, NEW c \in DocCalls, DocStep(c)
    PROVE  GapIsOwed'
  <1>0. DocTypeOK /\ HeadIsStored /\ OpsInHand /\ OpsBegun /\ StepsApart
    BY DEF AnyInv
  <1>a. OthersKept(c) /\ \A d \in DocCalls \ {c} : docCalls[d].pc \notin DocRunning
    BY Alone
  <1>t. /\ docCalls \in [DocCalls -> DocLocals] /\ docOps \in [DocKeys -> Operations]
        /\ docs \in [Versions -> Nat] /\ head.at \in Nat /\ docNow \in Nat
        /\ \A d \in DocCalls : DocKeyOf[d] \in DocKeys /\ VersionOf(d) \in Versions
    BY <1>0, TypeParts
  <1>1. CASE ArriveDoc(c)
    BY <1>0, <1>a, <1>t, <1>1, ArriveDocEffect
       DEF GapIsOwed, IngestOwes, IngestOf, Unfinished, OpOf, VersionOf, DocKind,
           LatestCalls, StepsApart, Apart, OpsInHand, OpsBegun, Indexed, ChunksOf,
           OthersKept, OpsKept, CorpusKept, Trying, InTry, IngestSteps, DeleteSteps,
           RebuildSteps, DocRunning
  <1>2. CASE ClaimDoc(c)
    BY <1>0, <1>a, <1>t, <1>2, ClaimEffect
       DEF GapIsOwed, IngestOwes, IngestOf, Unfinished, OpOf, VersionOf, DocKind,
           LatestCalls, StepsApart, Apart, OpsInHand, OpsBegun, Indexed, ChunksOf,
           OthersKept, OpsKept, CorpusKept, Moves, Returns, Claims, Trying, InTry,
           IngestSteps, DeleteSteps, RebuildSteps, DocRunning
  <1>3. CASE PlanIngest(c)
    <2>1. /\ CorpusKept /\ latest' = latest /\ latest = DocKeyOf[c] /\ commands' = commands
          /\ OpOf(c).status = "pending" /\ ~OpOf(c).plan.made
          /\ docOps'[DocKeyOf[c]].status = "pending"
          /\ DocKeyOf[c] \in DocKeys /\ DocKind(c) = "ingest"
      <3>1. /\ docCalls[c].pc = "plan" /\ CorpusKept /\ latest' = latest /\ commands' = commands
            /\ docOps'[DocKeyOf[c]].status = OpOf(c).status
        BY <1>0, <1>3, PlanIngestEffect DEF OthersKept, TimeKept
      <3>2. OpOf(c).status = "pending" /\ latest = DocKeyOf[c] /\ DocKeyOf[c] \in DocKeys
        BY <1>0, <1>t, <3>1 DEF LatestCalls, OpsInHand, Trying, InTry, IngestSteps
      <3>3. ~OpOf(c).plan.made /\ DocKind(c) = "ingest"
        BY <1>0, <3>1 DEF StepsApart, Apart, OpOf, PlanOf, IngestSteps
      <3> QED
        BY <3>1, <3>2, <3>3
    <2>2. SUFFICES ASSUME head # NoHead, ~Indexed(head.version)
                   PROVE  \E j \in DocKeys \ {DocKeyOf[c]} :
                            IngestOf(j, head.version) /\ Unfinished(j)
      <3>1. ASSUME NEW j \in DocKeys \ {DocKeyOf[c]},
                   IngestOf(j, head.version), Unfinished(j)
            PROVE  IngestOf(j, head.version)' /\ Unfinished(j)'
        BY <1>a, <2>1, <3>1 DEF IngestOf, Unfinished, OthersKept, CorpusKept
      <3> QED
        BY <2>1, <2>2, <3>1 DEF GapIsOwed, IngestOwes, CorpusKept, Indexed
    <2> QED
      BY <2>1, <2>2 DEF GapIsOwed, Unfinished, OpOf, DocKind
  <1>4. CASE LoadSource(c)
    BY <1>0, <1>a, <1>t, <1>4, LoadSourceEffect
       DEF GapIsOwed, IngestOwes, IngestOf, Unfinished, OpOf, VersionOf, DocKind,
           LatestCalls, StepsApart, Apart, OpsInHand, OpsBegun, Indexed, ChunksOf,
           OthersKept, TimeKept, OpsKept, CorpusKept, Trying, InTry, IngestSteps,
           DeleteSteps, RebuildSteps, DocRunning
  <1>5. CASE PutOriginal(c)
    BY <1>0, <1>a, <1>t, <1>5, PutOriginalEffect
       DEF GapIsOwed, IngestOwes, IngestOf, Unfinished, OpOf, VersionOf, DocKind,
           LatestCalls, StepsApart, Apart, OpsInHand, OpsBegun, Indexed, ChunksOf,
           OthersKept, TimeKept, OpsKept, Moves, Trying, InTry, IngestSteps, DeleteSteps,
           RebuildSteps, DocRunning
  <1>6. CASE VerifyVersion(c)
    BY <1>0, <1>a, <1>t, <1>6, VerifyVersionEffect
       DEF GapIsOwed, IngestOwes, IngestOf, Unfinished, OpOf, VersionOf, DocKind,
           LatestCalls, StepsApart, Apart, OpsInHand, OpsBegun, Indexed, ChunksOf,
           OthersKept, TimeKept, OpsKept, CorpusKept, Moves, Trying, InTry, IngestSteps,
           DeleteSteps, RebuildSteps, DocRunning
  <1>7. CASE CommitVersion(c)
    <2>1. /\ OpsKept /\ commands' = commands /\ chunkIndex' = chunkIndex
          /\ latest' = latest /\ latest = DocKeyOf[c] /\ DocKeyOf[c] \in DocKeys
          /\ OpOf(c).status = "pending" /\ OpOf(c).plan.made /\ DocKind(c) = "ingest"
          /\ VersionOf(c)' = VersionOf(c) /\ VersionOf(c) # NoVersion
          /\ docCalls'[c].pc = IF PlanOf(c).created THEN "project" ELSE "complete"
      <3>1. /\ docCalls[c].pc = "commit" /\ OpsKept /\ latest' = latest /\ commands' = commands
            /\ chunkIndex' = chunkIndex
            /\ docCalls'[c].pc = IF PlanOf(c).created THEN "project" ELSE "complete"
        BY <1>0, <1>7, CommitVersionEffect DEF OthersKept, TimeKept, Moves
      <3>2. OpOf(c).status = "pending" /\ latest = DocKeyOf[c] /\ DocKeyOf[c] \in DocKeys
        BY <1>0, <1>t, <3>1 DEF LatestCalls, OpsInHand, Trying, InTry, IngestSteps
      <3>3. OpOf(c).plan.made /\ DocKind(c) = "ingest"
        BY <1>0, <3>1 DEF StepsApart, Apart, OpOf, PlanOf, InTry, IngestSteps
      <3>4. VersionOf(c)' = VersionOf(c) /\ VersionOf(c) # NoVersion
        BY <1>t, <3>1, CorpusAssumption DEF VersionOf
      <3> QED
        BY <3>1, <3>2, <3>3, <3>4
    <2>2. head'.version = VersionOf(c)
      <3>1. InOrder(c)'
        BY IngestsStep DEF IngestsInOrder
      <3>2. DocKind(c)' = "ingest"
        BY <2>1 DEF DocKind
      <3> QED
        BY <2>1, <3>1, <3>2 DEF InOrder
    <2>3. CASE OpOf(c).plan.created
      <3>1. Unfinished(DocKeyOf[c]) /\ IngestOwes(VersionOf(c))
        BY <1>0, <2>1, OwesItself DEF Unfinished, OpOf
      <3> QED
        BY <2>1, <2>2, <2>3, <3>1, OwesKept DEF GapIsOwed, OpsKept, OpOf
    <2>4. CASE ~OpOf(c).plan.created
      <3>1. head.version = VersionOf(c)
        BY <2>1, <2>4 DEF UnmovedIsCurrent, Unfinished, OpOf, DocKind, VersionOf
      <3>2. head # NoHead
        BY <2>1, <3>1 DEF NoHead
      <3>3. head'.version = head.version /\ (Indexed(head.version) => Indexed(head.version)')
        BY <2>1, <2>2, <3>1 DEF Indexed
      <3> QED
        BY <2>1, <3>2, <3>3, OwesKept DEF GapIsOwed, OpsKept, IngestOf, Unfinished
    <2> QED
      BY <2>3, <2>4
  <1>8. CASE ProjectChunks(c)
    BY <1>0, <1>a, <1>t, <1>8, ProjectChunksEffect
       DEF GapIsOwed, IngestOwes, IngestOf, Unfinished, OpOf, VersionOf, DocKind,
           LatestCalls, StepsApart, Apart, OpsInHand, OpsBegun, Indexed, ChunksOf,
           OthersKept, TimeKept, OpsKept, Trying, InTry, IngestSteps, DeleteSteps,
           RebuildSteps, DocRunning
  <1>9. CASE CleanPrevious(c)
    <2>1. /\ head' = head /\ head.version = VersionOf(c) /\ Indexed(VersionOf(c))
          /\ \A chunk \in chunkIndex \ chunkIndex' : chunk[1] # VersionOf(c)
      BY <1>0, <1>9, CleanPreviousEffect DEF IngestsInOrder, InOrder
    <2>2. ChunksOf(VersionOf(c)) \subseteq chunkIndex'
      BY <2>1 DEF Indexed, ChunksOf
    <2>3. Indexed(head.version)'
      BY <2>1, <2>2 DEF Indexed, ChunksOf
    <2> QED
      BY <2>3 DEF GapIsOwed
  <1>10. CASE CompleteDoc(c)
    <2>1. /\ CorpusKept /\ latest' = latest /\ latest = DocKeyOf[c] /\ commands' = commands
          /\ docCalls[c].pc = "complete" /\ DocKeyOf[c] \in DocKeys
          /\ OpOf(c).status = "pending"
          /\ docOps'[DocKeyOf[c]].status = "committed"
          /\ DocKind(c) \in {"ingest", "delete"}
      BY <1>0, <1>t, <1>10, CompleteEffect, TypeParts
         DEF OthersKept, TimeKept, OpIs, LatestCalls, OpsInHand, StepsApart, Apart,
             DocKinds, Trying, InTry, IngestSteps, DocRunning, RebuildSteps
    <2>2. CASE DocKind(c) = "delete"
      <3>1. head = NoHead
        BY <1>0, <2>1, <2>2 DEF DeleteCalls, NoneStored, HeadIsStored
      <3> QED
        BY <2>1, <3>1 DEF GapIsOwed, CorpusKept
    <2>3. CASE DocKind(c) = "ingest"
      <3>1. /\ head.version = VersionOf(c)
            /\ PlanOf(c).created => Indexed(head.version)
        BY <2>1, <2>3 DEF IngestsInOrder, InOrder
      <3>2. ASSUME head # NoHead, ~Indexed(head.version)
            PROVE  \E j \in DocKeys \ {DocKeyOf[c]} : IngestOf(j, head.version) /\ Unfinished(j)
        BY <2>1, <2>3, <3>1, <3>2 DEF GapIsOwed, DocKind, Unfinished, OpOf, PlanOf
      <3>3. ASSUME NEW j \in DocKeys \ {DocKeyOf[c]}, IngestOf(j, head.version), Unfinished(j)
            PROVE  IngestOf(j, head.version)' /\ Unfinished(j)'
        BY <1>a, <2>1, <3>3 DEF IngestOf, Unfinished, OthersKept, CorpusKept
      <3>4. ~Unfinished(DocKeyOf[c])'
        BY <2>1 DEF Unfinished
      <3> QED
        BY <2>1, <3>2, <3>3, <3>4 DEF GapIsOwed, IngestOwes, CorpusKept, Indexed
    <2> QED
      BY <2>1, <2>2, <2>3
  <1>11. CASE PlanDelete(c)
    BY <1>0, <1>a, <1>t, <1>11, FreezeEffect
       DEF GapIsOwed, IngestOwes, IngestOf, Unfinished, OpOf, VersionOf, DocKind,
           LatestCalls, StepsApart, Apart, OpsInHand, OpsBegun, Indexed, ChunksOf,
           OthersKept, TimeKept, CorpusKept, Moves, Trying, InTry, IngestSteps, DeleteSteps,
           RebuildSteps, DocRunning
  <1>12. CASE SelectVersions(c)
    BY <1>0, <1>a, <1>t, <1>12, SelectVersionsEffect
       DEF GapIsOwed, IngestOwes, IngestOf, Unfinished, OpOf, VersionOf, DocKind,
           LatestCalls, StepsApart, Apart, OpsInHand, OpsBegun, Indexed, ChunksOf,
           OthersKept, TimeKept, OpsKept, CorpusKept, Trying, InTry, IngestSteps,
           DeleteSteps, RebuildSteps, DocRunning
  <1>13. CASE PurgeDocument(c)
    BY <1>0, <1>a, <1>t, <1>13, PurgeDocumentEffect
       DEF GapIsOwed, IngestOwes, IngestOf, Unfinished, OpOf, VersionOf, DocKind,
           LatestCalls, StepsApart, Apart, OpsInHand, OpsBegun, Indexed, ChunksOf,
           OthersKept, TimeKept, OpsKept, Trying, InTry, IngestSteps, DeleteSteps,
           RebuildSteps, DocRunning
  <1>14. CASE DeleteOriginals(c)
    BY <1>0, <1>a, <1>t, <1>14, DeleteOriginalsEffect
       DEF GapIsOwed, IngestOwes, IngestOf, Unfinished, OpOf, VersionOf, DocKind,
           LatestCalls, StepsApart, Apart, OpsInHand, OpsBegun, Indexed, ChunksOf,
           OthersKept, TimeKept, OpsKept, Moves, Trying, InTry, IngestSteps, DeleteSteps,
           RebuildSteps, DocRunning
  <1>15. CASE DeleteChunkVectors(c)
    <2>1. head' = head /\ docCalls[c].pc = "forget"
      BY <1>0, <1>15, DeleteChunkVectorsEffect
    <2>2. head = NoHead
      BY <1>0, <2>1 DEF DeleteCalls, NoneStored, HeadIsStored
    <2> QED
      BY <2>1, <2>2 DEF GapIsOwed
  <1>16. CASE Looks(c)
    BY <1>0, <1>a, <1>t, <1>16, LooksEffect
       DEF GapIsOwed, IngestOwes, IngestOf, Unfinished, OpOf, VersionOf, DocKind,
           LatestCalls, StepsApart, Apart, OpsInHand, OpsBegun, Indexed, ChunksOf,
           OthersKept, TimeKept, OpsKept, CorpusKept, Moves, Returns, Trying, InTry,
           IngestSteps, DeleteSteps, RebuildSteps, DocRunning
  <1>17. CASE Reproject(c)
    BY <1>0, <1>a, <1>t, <1>17, ReprojectEffect
       DEF GapIsOwed, IngestOwes, IngestOf, Unfinished, OpOf, VersionOf, DocKind,
           LatestCalls, StepsApart, Apart, OpsInHand, OpsBegun, Indexed, ChunksOf,
           OthersKept, TimeKept, OpsKept, Trying, InTry, IngestSteps, DeleteSteps,
           RebuildSteps, DocRunning
  <1>18. CASE DocStepThrows(c)
    BY <1>0, <1>a, <1>t, <1>18, DocStepThrowsEffect
       DEF GapIsOwed, IngestOwes, IngestOf, Unfinished, OpOf, VersionOf, DocKind,
           LatestCalls, StepsApart, Apart, OpsInHand, OpsBegun, Indexed, ChunksOf,
           OthersKept, TimeKept, OpsKept, CorpusKept, Moves, Returns, Trying, InTry,
           IngestSteps, DeleteSteps, RebuildSteps, DocRunning
  <1>19. CASE FailDoc(c)
    BY <1>0, <1>a, <1>t, <1>19, FailEffect
       DEF GapIsOwed, IngestOwes, IngestOf, Unfinished, OpOf, VersionOf, DocKind,
           LatestCalls, StepsApart, Apart, OpsInHand, OpsBegun, Indexed, ChunksOf,
           OthersKept, TimeKept, CorpusKept, Returns, OpIs, Trying, InTry, IngestSteps,
           DeleteSteps, RebuildSteps, DocRunning
  <1>20. CASE DocCrash(c)
    BY <1>0, <1>a, <1>t, <1>20, DocCrashEffect
       DEF GapIsOwed, IngestOwes, IngestOf, Unfinished, OpOf, VersionOf, DocKind,
           LatestCalls, StepsApart, Apart, OpsInHand, OpsBegun, Indexed, ChunksOf,
           OthersKept, TimeKept, OpsKept, CorpusKept, Returns, Trying, InTry, IngestSteps,
           DeleteSteps, RebuildSteps, DocRunning
  <1> QED
    BY <1>1, <1>2, <1>3, <1>4, <1>5, <1>6, <1>7, <1>8, <1>9, <1>10, <1>11, <1>12, <1>13,
       <1>14, <1>15, <1>16, <1>17, <1>18, <1>19, <1>20
       DEF DocStep, Looks

\* What holds of calls one at a time holds at first.
LEMMA SerialInit == DocInit => SerialInv
  <1> SUFFICES ASSUME DocInit PROVE SerialInv
    OBVIOUS
  <1>1. AnyInv
    BY AnyInit
  <1>2. /\ \A c \in DocCalls : docCalls[c].pc = "idle"
        /\ \A k \in DocKeys : /\ docOps[k].status = "none" /\ docOps[k].at = 0
                              /\ ~docOps[k].plan.made
        /\ docNow = 1 /\ head.at <= docNow
        /\ \A v \in originals : Stored(v)
        /\ \A v \in Versions : Stored(v) => v \in originals
        /\ \A chunk \in chunkIndex : Stored(chunk[1])
        /\ head # NoHead => Indexed(head.version)
    BY CorpusAssumption
       DEF DocInit, NoHead, NoDocOp, NoDocPlan, NewDocCall, Stored, Indexed, ChunksOf
  <1>3. OneAtATime /\ LatestCalls /\ LatestOps
    BY <1>2
       DEF OneAtATime, LatestCalls, LatestOps, Trying, InTry, IngestSteps, DeleteSteps,
           RebuildSteps, DocRunning
  <1>4. OriginalsKept /\ DeletePlans /\ DeleteCalls
    BY <1>2 DEF OriginalsKept, DeletePlans, DeleteCalls
  <1>5. LeftChunks /\ LeftOriginals /\ IngestsInOrder
    BY <1>2 DEF LeftChunks, LeftOriginals, IngestsInOrder, InOrder
  <1>6. GapIsOwed /\ UnmovedIsCurrent /\ NewestHolds /\ ReadsStand
    BY <1>2 DEF GapIsOwed, UnmovedIsCurrent, NewestHolds, Unfinished, ReadsStand
  <1> QED
    BY <1>3, <1>4, <1>5, <1>6 DEF SerialInv

\* Every step keeps it, if no key is retried after another was used.
LEMMA SerialStep == ~LateRetries /\ AnyInv /\ SerialInv /\ [DocNext]_docVars => SerialInv'
  <1> SUFFICES ASSUME ~LateRetries, AnyInv, SerialInv, [DocNext]_docVars PROVE SerialInv'
    OBVIOUS
  <1>1. ASSUME NEW c \in DocCalls, DocStep(c) PROVE SerialInv'
    <2>1. CASE docSerial
      <3>1. /\ OneAtATime /\ LatestCalls /\ LatestOps /\ OriginalsKept /\ DeletePlans
            /\ DeleteCalls /\ LeftChunks /\ LeftOriginals /\ IngestsInOrder /\ GapIsOwed
            /\ UnmovedIsCurrent /\ NewestHolds /\ ReadsStand
        BY <2>1 DEF SerialInv
      <3>2. OneAtATime' /\ LatestCalls' /\ LatestOps'
        BY <1>1, <2>1, <3>1, Alone, LatestCallsStep, LatestOpsStep
      <3>3. OriginalsKept' /\ DeletePlans' /\ DeleteCalls'
        BY <1>1, <2>1, <3>1, OriginalsStep, DeletePlansStep, DeleteCallsStep
      <3>4. LeftChunks' /\ LeftOriginals' /\ IngestsInOrder'
        BY <1>1, <2>1, <3>1, LeftChunksStep, LeftOriginalsStep, IngestsStep
      <3>5. GapIsOwed' /\ UnmovedIsCurrent' /\ NewestHolds' /\ ReadsStand'
        BY <1>1, <2>1, <3>1, GapStep, UnmovedStep, NewestStep, ReadsStandStep
      <3> QED
        BY <3>2, <3>3, <3>4, <3>5 DEF SerialInv
    <2>2. CASE ~docSerial
      BY <1>1, <2>2, Others DEF OthersKept, SerialInv
    <2> QED
      BY <2>1, <2>2
  <1>2. CASE UNCHANGED docVars
    BY <1>2
       DEF docVars, SerialInv, OneAtATime, LatestCalls, LatestOps, OriginalsKept,
           DeletePlans, DeleteCalls, NoneStored, FrozenVersions, LeftChunks, LeftOriginals,
           DeleteOwes, IngestOwes, IngestOf, IngestsInOrder, InOrder, GapIsOwed, Indexed,
           UnmovedIsCurrent, NewestHolds, ReadsStand, Unfinished, Stored, OpOf, PlanOf,
           DocKind, VersionOf
  <1> QED
    BY <1>1, <1>2 DEF DocNext, DocsReturned

-----------------------------------------------------------------------------
(* Theorems.                                                               *)

\* However calls overlap: the head names a stored version, an operation is in
\* the hands of one call, and each command follows its steps.
THEOREM CorpusIsSound == DocSpec => []AnyInv
  <1> QED
    BY AnyInit, AnyStep, PTL DEF DocSpec

\* Calls, operations and the four stores are typed, and no batch is skipped or
\* counted past the last.
THEOREM TypeCorrect == DocSpec => []DocTypeOK
  <1>1. AnyInv => DocTypeOK
    BY DEF AnyInv
  <1> QED
    BY <1>1, CorpusIsSound, PTL

\* Calls that do not overlap, of keys that are retried before another is used.
THEOREM CorpusInvariant ==
    ASSUME ~LateRetries
    PROVE  DocSpec => [](AnyInv /\ SerialInv)
  <1>1. AnyInv /\ SerialInv /\ [DocNext]_docVars => (AnyInv /\ SerialInv)'
    BY AnyStep, SerialStep
  <1> QED
    BY <1>1, AnyInit, SerialInit, PTL DEF DocSpec

\* What list shows can be read, and a stored version has its original.
THEOREM ListedIsReadable ==
    ASSUME ~LateRetries
    PROVE  DocSpec => []CurrentIsReadable
  <1>1. AnyInv /\ SerialInv => CurrentIsReadable
    BY DEF AnyInv, SerialInv, HeadIsStored, OriginalsKept, CurrentIsReadable, Listed,
           Gettable
  <1> QED
    BY <1>1, CorpusInvariant, PTL

\* A gap in the index of the current version is recorded by an operation that
\* a client can retry.
THEOREM GapsAreRecorded ==
    ASSUME ~LateRetries
    PROVE  DocSpec => []GapIsRecorded
  <1>1. ASSUME AnyInv, SerialInv, docSerial, ~Searchable PROVE IngestOwes(head.version)
    <2>1. PICK v \in Listed : ~(ChunksOf(v) \subseteq SearchHits)
      BY <1>1 DEF Searchable
    <2>2. v \in Versions /\ head.version = v
      BY <2>1 DEF Listed
    <2>3. ~Indexed(v)
      BY <2>1, <2>2 DEF Indexed, ChunksOf, SearchHits
    <2>4. head # NoHead
      BY <2>2, CorpusAssumption DEF NoHead
    <2> QED
      BY <1>1, <2>2, <2>3, <2>4 DEF SerialInv, GapIsOwed
  <1>2. AnyInv /\ SerialInv => GapIsRecorded
    BY <1>1 DEF GapIsRecorded
  <1> QED
    BY <1>2, CorpusInvariant, PTL

\* A committed delete leaves nothing but what other operations owe.
THEOREM DeletedStaysGone ==
    ASSUME ~LateRetries
    PROVE  DocSpec => []DeletedIsGone
  <1>1. ASSUME AnyInv, SerialInv, docSerial, NEW k \in DocKeys, latest = k,
               commands[k].kind = "delete", docOps[k].status = "committed"
        PROVE  /\ head = NoHead /\ \A v \in Versions : ~Stored(v)
               /\ \A chunk \in chunkIndex : DeleteOwes(chunk[1])
               /\ \A v \in originals : DeleteOwes(v) \/ IngestOwes(v)
    <2>1. DocTypeOK /\ HeadIsStored /\ OpsBegun /\ DeletePlans /\ LeftChunks /\ LeftOriginals
      BY <1>1 DEF AnyInv, SerialInv
    <2>2. NoneStored
      BY <1>1, <2>1 DEF OpsBegun, DeletePlans
    <2>3. \A chunk \in chunkIndex : chunk[1] \in Versions
      BY <2>1 DEF DocTypeOK, Chunks
    <2>4. originals \subseteq Versions
      BY <2>1 DEF DocTypeOK
    <2> QED
      BY <2>1, <2>2, <2>3, <2>4 DEF NoneStored, HeadIsStored, LeftChunks, LeftOriginals
  <1>2. AnyInv /\ SerialInv => DeletedIsGone
    BY <1>1 DEF DeletedIsGone
  <1> QED
    BY <1>2, CorpusInvariant, PTL

\* The ingest that began last is the current version once it committed.
THEOREM NewestWins ==
    ASSUME ~LateRetries
    PROVE  DocSpec => []NewestIsCurrent
  <1>1. SerialInv => NewestIsCurrent
    BY DEF SerialInv, NewestHolds, NewestIsCurrent
  <1> QED
    BY <1>1, CorpusInvariant, PTL
===============================================================================
