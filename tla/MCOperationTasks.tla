-------------------------- MODULE MCOperationTasks --------------------------
(* Instances of OperationTasks for TLC.                                     *)
EXTENDS OperationTasks, TLC

CONSTANTS t1, t2, cron1, consumer

TwoTasks == {t1, t2}
OneCron == {cron1}
OneConsumer == {consumer}

\* Prompt workers serve all the tasks; workers that overrun serve one, beside a
\* task that is done.  One wakeup was sent, or none; a continuation sends more.
MCInit ==
    /\ Init
    /\ queue \in {{}, {t1}}
    /\ IF prompt THEN \A t \in Tasks : tasks[t] = Pending
       ELSE tasks[t1] = Pending /\ \A t \in Tasks \ {t1} : tasks[t] = Succeeded

MCFairSpec == MCInit /\ [][Next]_vars /\ Fairness
=============================================================================
