------------------------- MODULE MCBeliefProjection -------------------------
(* Instances of BeliefProjection for TLC.                                    *)
EXTENDS BeliefProjection, TLC

CONSTANTS s1, s2, s3, a1, a2, a3

ThreeFifths == <<3, 5>>

Hint(applicability, key, value, context, eventDate) ==
    [ applicability |-> applicability, key |-> key, value |-> value,
      context |-> context, weight |-> 10, eventDate |-> eventDate ]

Batches == a1 :> <<s1, s2>> @@ a2 :> <<s3>>
Singles == a1 :> <<s1>> @@ a2 :> <<s2>> @@ a3 :> <<s3>>

\* All say the same, the two of one add under one key.
Echoes ==
    s1 :> Hint("project", "k1", "v1", "x1", Undated)
    @@ s2 :> Hint("project", "k1", "v1", "x2", Undated)
    @@ s3 :> Hint("project", "k2", "v1", "x3", Undated)

\* The first of the two facts of one add is about a later time, the second
\* another value for the time before.
Dated ==
    s1 :> Hint("project", "k1", "v2", "x1", 1)
    @@ s2 :> Hint("project", "k1", "v1", "x1", Undated)
    @@ s3 :> Hint("project", "k2", "v1", "x2", Undated)

EchoesOrDated == {Echoes, Dated}

\* Mutations meet echoes only.
MutableEchoes == Echoes :> {s3} @@ Dated :> {}

\* A global preference and two adds that share a key in one project.
GlobalAndContextual ==
    { s1 :> Hint("global", "k1", "v1", "x1", Undated)
      @@ s2 :> Hint("project", "k2", "v1", "x1", Undated)
      @@ s3 :> Hint("project", "k2", "v2", "x2", Undated) }

NoneMutable == [h \in GlobalAndContextual |-> {}]
=============================================================================
