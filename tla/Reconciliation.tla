--------------------------- MODULE Reconciliation ---------------------------
(***************************************************************************)
(* domain/reconciliation.py and application/reconciler.py: what became of    *)
(* each approved operation, and the reasons not to merge.                    *)
(***************************************************************************)
EXTENDS ContractVerifier, WorkPlan

\* The first task of the file that lists the operation answers for it.
Covering(plan, op) ==
    CHOOSE t \in Coverers(plan, op) : \A u \in Coverers(plan, op) : t <= u

IsPending(plan, status, op) ==
    \/ Coverers(plan, op) = {}
    \/ status[Covering(plan, op)] # "completed"

\* Of a completed task's operation: what is observed at its place.
Evidence(d, op, obs, verified) ==
    LET seen == op.at[1] \in Resolved(d, obs)
    IN  CASE op.kind = "CREATE_NODE" /\ op.at[1] \notin Located(d) ->
                    "unverifiable"
          [] op.kind \in {"CREATE_NODE", "MODIFY_NODE"} /\ op.at[1] \in Located(d) ->
                    IF seen THEN "materialized" ELSE "divergent"
          [] op.kind = "REMOVE_NODE" ->
                    IF seen THEN "divergent" ELSE "materialized"
          [] op.kind = "CONNECT" /\ op.at \in verified -> "materialized"
          [] OTHER -> "unverifiable"

StateOf(d, plan, status, op, obs, verified) ==
    IF IsPending(plan, status, op) THEN "pending"
    ELSE Evidence(d, op, obs, verified)

\* merge_gate_reasons is empty.
GateOpen(d, operations, plan, status, obs, verified) ==
    /\ \A t \in Task : status[t] \notin {"failed", "blocked"}
    /\ \A op \in operations :
        LET state == StateOf(d, plan, status, op, obs, verified)
        IN  /\ state \notin {"pending", "divergent"}
            /\ state = "unverifiable" => ~IsHard(d, op)
=============================================================================
