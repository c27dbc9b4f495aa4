----------------------------- MODULE LeaseBook ------------------------------
(***************************************************************************)
(* What the contract execution service promises to the executors (CDE-008): *)
(* a growing list of executions of which at most the last is active, and an  *)
(* execution that has ended stays as it ended.                               *)
(***************************************************************************)
EXTENDS Naturals, Sequences

CONSTANT Actors

EndStatus == {"completed", "blocked", "amendment_requested"}

VARIABLE executions      \* [actor, status] of each execution, oldest first

NoneActive == \A i \in DOMAIN executions : executions[i].status # "active"

Init == executions = <<>>

Begin ==
    /\ NoneActive
    /\ \E actor \in Actors :
        executions' = Append(executions, [actor |-> actor, status |-> "active"])

End ==
    \E i \in DOMAIN executions, status \in EndStatus :
        /\ executions[i].status = "active"
        /\ executions' = [executions EXCEPT ![i].status = status]

Next == Begin \/ End

Spec == Init /\ [][Next]_executions
=============================================================================
