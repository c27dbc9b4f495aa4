----------------------------- MODULE MCMission ------------------------------
(* Small instances of Mission for TLC. *)
EXTENDS Mission

\* The first task of tasks.json waits for the others: the file's order is not
\* the order of execution.
MCDeps == [t \in Task |-> IF t = 1 THEN Task \ {1} ELSE {}]
MCReviewed == {NTasks}
=============================================================================
