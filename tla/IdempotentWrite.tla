--------------------------- MODULE IdempotentWrite ---------------------------
(***************************************************************************)
(* What an idempotency key promises the callers of add, without leases,    *)
(* attempts or tables: the first command to name a key owns it, the key    *)
(* gets one outcome, once, and every answer is that outcome.               *)
(* OperationJournal implements it (see Implementation there).              *)
(***************************************************************************)
CONSTANTS Callers, Keys, KeyOf, RequestOf, Outcomes, Null

VARIABLES
    owner,      \* the request each key is bound to
    outcome,    \* the outcome of each key
    answer      \* what each caller was told

vars == <<owner, outcome, answer>>

Init ==
    /\ owner = [k \in Keys |-> Null]
    /\ outcome = [k \in Keys |-> Null]
    /\ answer = [c \in Callers |-> Null]

\* A key nobody used is bound to a caller's command.
Bind(c) ==
    /\ owner[KeyOf[c]] = Null
    /\ owner' = [owner EXCEPT ![KeyOf[c]] = RequestOf[c]]
    /\ UNCHANGED <<outcome, answer>>

\* The command of the key takes effect: once, and only the bound command.
TakeEffect(c) ==
    /\ owner[KeyOf[c]] = RequestOf[c]
    /\ outcome[KeyOf[c]] = Null
    /\ \E o \in Outcomes : outcome' = [outcome EXCEPT ![KeyOf[c]] = o]
    /\ UNCHANGED <<owner, answer>>

\* A caller of the bound command learns the outcome.
Answer(c) ==
    /\ owner[KeyOf[c]] = RequestOf[c]
    /\ outcome[KeyOf[c]] # Null
    /\ answer[c] = Null
    /\ answer' = [answer EXCEPT ![c] = outcome[KeyOf[c]]]
    /\ UNCHANGED <<owner, outcome>>

Next == \E c \in Callers : Bind(c) \/ TakeEffect(c) \/ Answer(c)

Spec == Init /\ [][Next]_vars
=============================================================================
