-------------------------- MODULE ContractVerifier --------------------------
(***************************************************************************)
(* application/task_contracts.py and application/contract_verifier.py: the   *)
(* part of the approved design that a task has to realise, and the checks     *)
(* that its code does.  A contract copies the nodes of the snapshot as they   *)
(* were drawn: a place that the changeset derived is not in it.              *)
(***************************************************************************)
EXTENDS Changeset

-----------------------------------------------------------------------------
(* compile: the contract of the task that covers ops. *)

\* The nodes whose declaration the task answers for.
Owned(ops) == {op.at[1] : op \in ops}

EdgeOf(e) == <<e.source, e.target, e.relation>>

\* The edges to be checked with the task: those its operations name, and every
\* hard edge that touches a node it owns.
Relationships(d, ops) ==
    {EdgeOf(e) : e \in
        {x \in d.edges :
            /\ x.intent # "REMOVE"
            /\ \/ \E op \in ops : op.at = EdgeOf(x)
               \/ /\ x.relation \in HardRelation
                  /\ {x.source, x.target} \cap Owned(ops) # {}}}

Contract(d, ops) == [required |-> Owned(ops), edges |-> Relationships(d, ops)]

-----------------------------------------------------------------------------
(* verify. *)

Drawn(d, n) == d.node[n].how = "exact"

PathExists(code, n) ==
    \E other \in Node : File[other] = File[n] /\ code.decl[other] # "absent"

\* A directory passes as a package; a source file must hold the declaration.
Satisfied(d, code, n) ==
    \/ ~InRepository(d, n)
    \/ /\ Drawn(d, n) /\ PathExists(code, n)
       /\ Kind[n] = "package" \/ (Kind[n] # "system" /\ code.decl[n] = "right")

\* The files that were parsed: those of the required nodes that were found.
Parsed(d, code, contract) ==
    {File[n] : n \in {x \in contract.required :
                        /\ InRepository(d, x) /\ Drawn(d, x)
                        /\ Kind[x] \in {"module", "symbol"}
                        /\ PathExists(code, x)}}

\* One or two levels below, as deep as the designs that are checked go.
Below(t, s) == \/ Parent[t] = s
               \/ Parent[t] # NoNode /\ Parent[Parent[t]] = s

\* contains compares the paths and names in the contract, never the code; two
\* nodes without a path have the same one.
Contains(d, s, t) ==
    LET samePath == IF Drawn(d, s) /\ Drawn(d, t) THEN File[s] = File[t]
                                                  ELSE Drawn(d, s) = Drawn(d, t)
    IN  CASE Kind[s] = "module" -> samePath
          [] Kind[s] = "package" ->
                    samePath \/ (Drawn(d, s) /\ Drawn(d, t) /\ Below(t, s))
          [] OTHER -> Drawn(d, s) /\ Drawn(d, t) /\ Below(t, s)

Inherits(d, code, contract, s, t) ==
    /\ Drawn(d, s) /\ File[s] \in Parsed(d, code, contract)
    /\ Kind[s] = "symbol" /\ code.decl[s] # "absent"
    /\ <<s, t>> \in code.bases

\* Mutant of EdgeHolds: an inheritance is believed without looking at the code.
EdgeHoldsUnread(d, code, contract, edge) ==
    CASE edge[3] = "contains" -> Contains(d, edge[1], edge[2])
      [] edge[3] = "inherits" -> Drawn(d, edge[1])
      [] OTHER -> TRUE

\* Only hard relationships are checked.
EdgeHolds(d, code, contract, edge) ==
    CASE edge[3] = "contains" -> Contains(d, edge[1], edge[2])
      [] edge[3] = "inherits" -> Inherits(d, code, contract, edge[1], edge[2])
      [] OTHER -> TRUE

Verify(d, code, contract) ==
    [passed |-> /\ \A n \in contract.required : Satisfied(d, code, n)
                /\ \A e \in contract.edges : EdgeHolds(d, code, contract, e),
     verified |-> {e \in contract.edges : /\ e[3] \in HardRelation
                                          /\ EdgeHolds(d, code, contract, e)}]
=============================================================================
