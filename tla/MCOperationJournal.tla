------------------------- MODULE MCOperationJournal -------------------------
(* Instances of OperationJournal for TLC: calls that share one key.          *)
EXTENDS OperationJournal, TLC

CONSTANTS c1, c2, c3, k1, q1, q2

MCCallers == {c1, c2, c3}
MCKeys == {k1}
MCKeyOf == [c \in MCCallers |-> k1]

\* Three retries of one command.
SameRequest == [c \in MCCallers |-> q1]

\* The third caller reuses the key for another command.
OtherRequest == [c \in MCCallers |-> IF c = c3 THEN q2 ELSE q1]

\* Users edit the records of the first caller only.
EditsOfFirst == {c1}

Retries == Permutations(MCCallers)

\* What later steps and the properties of the overrun run read: of a call the
\* time it began until it enters the try block, its place in the plan within it,
\* and of a row not the projection status.
RowView(row) == <<row.status, row.request, row.plan, row.lease, row.result>>
CallView(c) ==
    <<calls[c].pc, calls[c].plan, RowView(calls[c].seen),
      IF calls[c].pc \in {"select", "reclaim", "retry"} THEN calls[c].createdAt ELSE 0,
      IF calls[c].pc \in AttemptSteps THEN calls[c].at ELSE 0>>
View ==
    <<[k \in MCKeys |-> RowView(ops[k])], [c \in MCCallers |-> CallView(c)],
      records, events, episodes, now>>
=============================================================================
