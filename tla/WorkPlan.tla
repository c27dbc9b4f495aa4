------------------------------ MODULE WorkPlan ------------------------------
(***************************************************************************)
(* domain/workplan.py and domain/task.py: the plan an agent writes, when it  *)
(* is accepted, and which task is next.  Tasks are named by their place in    *)
(* tasks.json; covers and dependencies are what the agent wrote.             *)
(***************************************************************************)
EXTENDS Naturals, FiniteSets

CONSTANT TaskCount
ASSUME TaskCountAssumption == TaskCount \in Nat \ {0}

Task == 1 .. TaskCount
Stranger == 0     \* an id that no task has

\* Coverers: the tasks that list the operation.
Coverers(plan, op) == {t \in Task : op \in plan[t].covers}

\* _find_cycles: some tasks wait for each other.
Cyclic(plan) ==
    \E ring \in SUBSET Task : /\ ring # {}
                              /\ \A t \in ring : plan[t].deps \cap ring # {}

\* Mutant of PlanIsValid: the dependencies are not searched for cycles.
PlanIsValidUnordered(operations, plan) ==
    /\ \A t \in Task : plan[t].deps \subseteq Task \ {t}
    /\ \A op \in operations : Cardinality(Coverers(plan, op)) = 1
    /\ \A t \in Task : plan[t].covers \subseteq operations

\* validate_plan returns no error.
PlanIsValid(operations, plan) ==
    /\ \A t \in Task : plan[t].deps \subseteq Task \ {t}
    /\ \A op \in operations : Cardinality(Coverers(plan, op)) = 1
    /\ \A t \in Task : plan[t].covers \subseteq operations
    /\ ~Cyclic(plan)

-----------------------------------------------------------------------------
(* Scheduling.  A dependency that names no task is ignored. *)

KnownDeps(plan, t) == plan[t].deps \cap Task

Ready(plan, status, t) ==
    status[t] = "pending" /\ \A u \in KnownDeps(plan, t) : status[u] = "completed"

\* next_runnable_index: the first in the order of the file.
IsNext(plan, status, t) ==
    Ready(plan, status, t) /\ \A u \in 1 .. t - 1 : ~Ready(plan, status, u)
NoneReady(plan, status) == \A t \in Task : ~Ready(plan, status, t)
=============================================================================
