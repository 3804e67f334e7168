-------------------------- MODULE MCDocumentCorpus --------------------------
(* Instances of DocumentCorpus for TLC.                                     *)
EXTENDS DocumentCorpus, TLC

CONSTANTS x, y, k1, k2, c1, c2, c3, c4

TwoVersions == {x, y}
TwoDocKeys == {k1, k2}
FourDocCalls == {c1, c2, c3, c4}

BothAreRetried == c1 :> k1 @@ c2 :> k1 @@ c3 :> k2 @@ c4 :> k2

\* Versions are alike, and so are the calls of one key, and the keys with
\* their calls.
Swap == k1 :> k2 @@ k2 :> k1 @@ c1 :> c3 @@ c3 :> c1 @@ c2 :> c4 @@ c4 :> c2
Alike == {p @@ q @@ r @@ i : p \in Permutations({c1, c2}), q \in Permutations({c3, c4}),
                            r \in Permutations(TwoVersions), i \in {[k \in TwoDocKeys |-> k]}}
DocSymmetry == Alike \cup {[z \in DOMAIN p |-> IF z \in TwoVersions THEN p[z] ELSE Swap[p[z]]] : p \in Alike}
=============================================================================
