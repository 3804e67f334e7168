-------------------------- MODULE MCRecordMutations --------------------------
(* Instances of RecordMutations for TLC.                                    *)
EXTENDS RecordMutations, TLC

CONSTANTS k1, k2, c1, c2, c3, c4

TwoKeys == {k1, k2}
TwoCalls == {c1, c2}
FourCalls == {c1, c2, c3, c4}

OneCallEach == c1 :> k1 @@ c2 :> k2
BothAreRetried == c1 :> k1 @@ c2 :> k1 @@ c3 :> k2 @@ c4 :> k2

\* The calls of one key are alike, and so are the keys with their calls.
Swap == k1 :> k2 @@ k2 :> k1 @@ c1 :> c3 @@ c3 :> c1 @@ c2 :> c4 @@ c4 :> c2
Alike == {p @@ q @@ r : p \in Permutations({c1, c2}), q \in Permutations({c3, c4}),
                       r \in {[x \in {k1, k2} |-> x]}}
Symmetry == Alike \cup {[x \in DOMAIN Swap |-> Swap[p[x]]] : p \in Alike}

\* How a call that has ended was answered is read by no action and by no
\* property, so states that differ in nothing else count as one.
View == <<commands, record, events, ops,
          [c \in Calls |-> IF calls[c].pc \in Returned
                           THEN [NewCall EXCEPT !.pc = "ok"] ELSE calls[c]]>>
=============================================================================
