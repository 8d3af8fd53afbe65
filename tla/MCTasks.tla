------------------------------ MODULE MCTasks ------------------------------
(* Instances of TurnoverTasks for TLC. *)
EXTENDS TurnoverTasks, TLC

SymmetricTasks == Permutations(Tasks) \cup Permutations(Workers)

\* Bound: one failed revival or one failed item leaves its trace.
Failures ==
    {t \in Tasks : task[t].spare} \cup {<<t, n>> \in Tasks \X (1..Items) : n \in task[t].lost}

FewFailures == Cardinality(Failures) <= 1
=============================================================================
