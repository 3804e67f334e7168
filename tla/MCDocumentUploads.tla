------------------------- MODULE MCDocumentUploads -------------------------
(* Instances of DocumentUploads for TLC.                                    *)
EXTENDS DocumentUploads, TLC

CONSTANTS b1, b2, c1, c2, c3, c4, c5, w1, w2

TwoBytes == {b1, b2}
FourCalls == {c1, c2, c3, c4}
FiveCalls == {c1, c2, c3, c4, c5}
TwoWorkers == {w1, w2}

\* Bytes, calls and workers are interchangeable.
Symmetry == {p @@ q @@ r : p \in Permutations(Bytes),
                           q \in Permutations(Calls), r \in Permutations(Workers)}
=============================================================================
