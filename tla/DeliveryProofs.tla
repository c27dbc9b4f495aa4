--------------------------- MODULE DeliveryProofs ---------------------------
(***************************************************************************)
(* For every design, every plan and every state of the code: what is merged   *)
(* under a changeset is what was approved, a task is given up only behind one *)
(* that failed, and under an accepted plan nothing is completed unverified.  *)
(*                                                                         *)
(* The argument: the changeset is that of the design and the plan that of the *)
(* changeset, also after a resume (DataAgrees); a verification that is on     *)
(* file was made of the code as it is (EvidenceIsFresh), because the next     *)
(* task that may change the code first deletes it.                           *)
(***************************************************************************)
EXTENDS Delivery, FiniteSetTheorems, WellFoundedInduction, TLAPS

\* The files of each stage; a resume finds the stage by the plan.
StagesAgree ==
    /\ status \in [Task -> TaskState] /\ code \in Codes
    /\ stage \in {"implement", "completion"} =>
            current \in Task /\ status[current] = "pending"
    /\ (plan = NoPlan) <=> (stage \in {"approval", "structure"})
    /\ stage \in {"report", "merged", "kept"} =>
            \A t \in Task : status[t] # "pending"

Compiled ==
    /\ design \in Designs
    /\ \E tree \in Codes : changeset = Compile(design, Observed(tree))

DataAgrees ==
    /\ HasChangeset => Compiled
    /\ contracted => /\ HasChangeset /\ PlanIsValid(changeset.operations, plan)
                     /\ stage \notin {"approval", "structure", "validation"}

\* Nothing is given up without a dependency that was.
BlockedHasReason ==
    \A t \in Task : status[t] = "blocked" =>
        \E u \in KnownDeps(plan, t) : status[u] \in {"failed", "blocked"}

\* What an edge that was verified says of the code.
EdgeSeen(edge) ==
    /\ edge[3] = "inherits" => <<edge[1], edge[2]>> \in code.bases
    /\ edge[3] = "contains" => Contains(design, edge[1], edge[2])

EvidenceIsFresh ==
    /\ plan = NoPlan \/ stage \in {"validation", "implement", "completion"} =>
            verification = NoVerification
    /\ \A edge \in verification.verified : EdgeSeen(edge)

DeliveryInv ==
    StagesAgree /\ DataAgrees /\ BlockedHasReason /\ EvidenceIsFresh
        /\ MergedIsDelivered

-----------------------------------------------------------------------------
(* The pure parts. *)

LEMMA EdgeHoldsIsSeen ==
  ASSUME NEW d, NEW tree, NEW contract, NEW edge,
         edge[3] \in {"inherits", "contains"}, EdgeHolds(d, tree, contract, edge)
  PROVE  /\ edge[3] = "inherits" => <<edge[1], edge[2]>> \in tree.bases
         /\ edge[3] = "contains" => Contains(d, edge[1], edge[2])
  BY DEF EdgeHolds, Inherits

\* What the changeset lists: nodes at their observed places, and edges.
LEMMA OperationShapes ==
  ASSUME NEW d, NEW obs, NEW op \in Operations(d, obs)
  PROVE  \/ op.kind = "CREATE_NODE"
         \/ op.kind = "MODIFY_NODE" /\ op.at[1] \in Resolved(d, obs)
         \/ op.kind = "REMOVE_NODE" /\ op.at[1] \in Resolved(d, obs)
         \/ op.kind = "CONNECT" /\ \E e \in d.edges : e.intent = "CREATE"
                                                      /\ op.at = EdgeOf(e)
         \/ op.kind = "DISCONNECT"
  BY DEF Operations, NodeOp, EdgeOp, EdgeOf

\* Tasks that are given up behind each other wait, in the end, for one that
\* failed: an accepted plan has no rings.
LEMMA NoRingOfBlocked ==
  ASSUME StagesAgree, DataAgrees, BlockedHasReason
  PROVE  BlockedBehindFailure
<1> DEFINE blocked == {t \in Task : status[t] = "blocked"}
           failed == {t \in Task : status[t] = "failed"}
<1> SUFFICES ASSUME contracted, NEW group \in SUBSET blocked, group # {}
             PROVE  \E t \in group : KnownDeps(plan, t) \cap
                        (failed \cup (blocked \ group)) # {}
  BY DEF BlockedBehindFailure
<1>1. ~Cyclic(plan)
  BY DEF DataAgrees, PlanIsValid
<1>2. PICK t \in group : plan[t].deps \cap group = {}
  BY <1>1 DEF Cyclic
<1>3. PICK u \in KnownDeps(plan, t) : status[u] \in {"failed", "blocked"}
  BY DEF BlockedHasReason
<1>4. u \in Task /\ u \notin group
  BY <1>2, <1>3 DEF KnownDeps
<1> QED
  BY <1>3, <1>4

\* The merge gate lets through only what is seen.
LEMMA OpenGateDelivers ==
  ASSUME StagesAgree, DataAgrees, EvidenceIsFresh, stage = "report", HasChangeset,
         NEW verified, verified \subseteq verification.verified,
         GateOpen(design, changeset.operations, plan, status, Observed(code),
                  verified)
  PROVE  /\ \A t \in Task : status[t] = "completed"
         /\ \A op \in changeset.operations : IsHard(design, op) =>
             CASE op.kind \in {"CREATE_NODE", "MODIFY_NODE"} ->
                         code.decl[op.at[1]] # "absent"
               [] op.kind = "REMOVE_NODE" -> code.decl[op.at[1]] = "absent"
               [] op.kind = "CONNECT" /\ op.at[3] = "inherits" ->
                         <<op.at[1], op.at[2]>> \in code.bases
               [] op.kind = "CONNECT" /\ op.at[3] = "contains" ->
                         Contains(design, op.at[1], op.at[2])
               [] OTHER -> FALSE
<1>1. \A t \in Task : status[t] = "completed"
  BY DEF StagesAgree, GateOpen, TaskState
<1>2. PICK tree \in Codes : changeset = Compile(design, Observed(tree))
  BY DEF DataAgrees, Compiled
<1>3. changeset.operations = Operations(design, Observed(tree))
  BY <1>2 DEF Compile
<1> SUFFICES
      ASSUME NEW op \in changeset.operations, IsHard(design, op)
      PROVE  CASE op.kind \in {"CREATE_NODE", "MODIFY_NODE"} ->
                         code.decl[op.at[1]] # "absent"
               [] op.kind = "REMOVE_NODE" -> code.decl[op.at[1]] = "absent"
               [] op.kind = "CONNECT" /\ op.at[3] = "inherits" ->
                         <<op.at[1], op.at[2]>> \in code.bases
               [] op.kind = "CONNECT" /\ op.at[3] = "contains" ->
                         Contains(design, op.at[1], op.at[2])
               [] OTHER -> FALSE
  BY <1>1
<1> DEFINE seen == op.at[1] \in Resolved(design, Observed(code))
           state == StateOf(design, plan, status, op, Observed(code), verified)
<1>4. state = "materialized"
  <2>1. /\ state \notin {"pending", "divergent"}
        /\ state # "unverifiable"
    BY DEF GateOpen
  <2> QED
    BY <2>1 DEF StateOf, Evidence
<1>5. Evidence(design, op, Observed(code), verified) = "materialized"
  BY <1>4 DEF StateOf
<1>6. /\ seen => code.decl[op.at[1]] # "absent"
  BY DEF Resolved, Observed
<1>7. CASE op.kind = "CREATE_NODE"
  <2>1. seen
    BY <1>5, <1>7 DEF Evidence
  <2> QED
    BY <1>6, <1>7, <2>1
<1>8. CASE op.kind = "MODIFY_NODE"
  <2>1. seen
    BY <1>5, <1>8 DEF Evidence
  <2> QED
    BY <1>6, <1>8, <2>1
<1>9. CASE op.kind = "REMOVE_NODE"
  <2>1. ~seen
    BY <1>5, <1>9 DEF Evidence
  <2>2. op.at[1] \in Resolved(design, Observed(tree))
    BY <1>3, <1>9, OperationShapes
  <2>3. code.decl[op.at[1]] = "absent"
    BY <2>1, <2>2 DEF Resolved, Observed
  <2> QED
    BY <1>9, <2>3
<1>10. CASE op.kind = "CONNECT"
  <2>1. op.at \in verified
    BY <1>5, <1>10 DEF Evidence
  <2>2. EdgeSeen(op.at)
    BY <2>1 DEF EvidenceIsFresh
  <2>3. op.at[3] \in {"inherits", "contains"}
    BY <1>10 DEF IsHard, IsNodeOp, HardRelation
  <2> QED
    BY <1>10, <2>2, <2>3 DEF EdgeSeen
<1>11. op.kind # "DISCONNECT"
  BY <1>5 DEF Evidence
<1> QED
  BY <1>3, <1>7, <1>8, <1>9, <1>10, <1>11, OperationShapes

\* One operation, or skipped, or an issue, and no two of them.
Once(ops, skipped, issue) ==
    \/ ops = {} /\ skipped /\ ~issue
    \/ ops = {} /\ ~skipped /\ issue
    \/ (\E op : ops = {op}) /\ ~skipped /\ ~issue

\* A changed node is one operation, or it is there, or it is an issue.
LEMMA NodeIsAccounted ==
  ASSUME NEW d \in Design, NEW obs, NEW n \in Node, d.node[n].intent # "KEEP"
  PROVE  Once({op \in Operations(d, obs) : op.at = <<n>>},
              n \in Skipped(d, obs), n \in Issues(d, obs))
<1> DEFINE ops == {op \in Operations(d, obs) : op.at = <<n>>}
<1>1. d.node[n].intent \in {"CREATE", "CHANGE", "REMOVE"}
  BY DEF Design, Intent
<1>2. Resolved(d, obs) \subseteq Located(d)
  BY DEF Resolved
<1>3. \A op \in Operations(d, obs) : op.at = <<n>> =>
          \/ op = NodeOp("CREATE_NODE", n) /\ d.node[n].intent = "CREATE"
                /\ n \notin Skipped(d, obs) \cup Issues(d, obs)
          \/ op = NodeOp("MODIFY_NODE", n) /\ d.node[n].intent = "CHANGE"
                /\ n \in Resolved(d, obs)
          \/ op = NodeOp("REMOVE_NODE", n) /\ d.node[n].intent = "REMOVE"
                /\ n \in Resolved(d, obs)
  <2>1. \A k, kind : NodeOp(kind, k).at = <<n>> => k = n
    BY DEF NodeOp
  <2>2. \A e, kind : EdgeOp(kind, e).at # <<n>>
    BY DEF EdgeOp
  <2> QED
    BY <2>1, <2>2 DEF Operations, WithIntent
<1>4. CASE n \in Skipped(d, obs)
  <2>1. d.node[n].intent = "CREATE" /\ n \in Resolved(d, obs)
    BY <1>4 DEF Skipped, WithIntent
  <2>2. n \notin Issues(d, obs)
    BY <1>2, <2>1 DEF Issues, WithIntent
  <2>3. ops = {}
    BY <1>3, <1>4, <2>1
  <2> QED
    BY <1>4, <2>2, <2>3 DEF Once
<1>5. CASE n \in Issues(d, obs)
  <2>1. n \notin Skipped(d, obs)
    BY <1>2, <1>5 DEF Issues, Skipped, WithIntent
  <2>2. ops = {}
    BY <1>2, <1>3, <1>5 DEF Issues, WithIntent
  <2> QED
    BY <1>5, <2>1, <2>2 DEF Once
<1>6. CASE n \notin Skipped(d, obs) \cup Issues(d, obs)
  <2>1. PICK kind : ops = {NodeOp(kind, n)}
    <3>1. CASE d.node[n].intent = "CREATE"
      <4>1. NodeOp("CREATE_NODE", n) \in Operations(d, obs)
        BY <1>6, <3>1 DEF Operations, WithIntent
      <4>2. ops = {NodeOp("CREATE_NODE", n)}
        BY <1>3, <3>1, <4>1 DEF NodeOp
      <4> QED
        BY <4>2
    <3>2. CASE d.node[n].intent = "CHANGE"
      <4>1. NodeOp("MODIFY_NODE", n) \in Operations(d, obs)
        BY <1>6, <3>2 DEF Operations, Issues, WithIntent
      <4>2. ops = {NodeOp("MODIFY_NODE", n)}
        BY <1>3, <3>2, <4>1 DEF NodeOp
      <4> QED
        BY <4>2
    <3>3. CASE d.node[n].intent = "REMOVE"
      <4>1. NodeOp("REMOVE_NODE", n) \in Operations(d, obs)
        BY <1>6, <3>3 DEF Operations, Issues, WithIntent
      <4>2. ops = {NodeOp("REMOVE_NODE", n)}
        BY <1>3, <3>3, <4>1 DEF NodeOp
      <4> QED
        BY <4>2
    <3> QED
      BY <1>1, <3>1, <3>2, <3>3
  <2> QED
    BY <1>6, <2>1 DEF Once
<1> QED
  BY <1>4, <1>5, <1>6

\* A changed edge is one operation.
LEMMA EdgeIsAccounted ==
  ASSUME NEW d \in Designs, NEW obs, NEW e \in d.edges,
         e.intent \in {"CREATE", "REMOVE"}
  PROVE  Once({op \in Operations(d, obs) : op.at = EdgeOf(e)}, FALSE, FALSE)
<1> DEFINE ops == {op \in Operations(d, obs) : op.at = EdgeOf(e)}
           kind == IF e.intent = "CREATE" THEN "CONNECT" ELSE "DISCONNECT"
<1>2. \A k : EdgeOf(e) # <<k>>
  BY DEF EdgeOf
<1>3. ops = {EdgeOp(kind, e)}
  <2>1. EdgeOp(kind, e) \in ops
    BY DEF Operations, EdgeOp, EdgeOf
  <2>2. ASSUME NEW op \in ops PROVE op = EdgeOp(kind, e)
    <3>1. \A k, n : NodeOp(k, n).at # EdgeOf(e)
      BY <1>2 DEF NodeOp
    <3>2. PICK f \in d.edges : \/ f.intent = "CREATE" /\ op = EdgeOp("CONNECT", f)
                               \/ f.intent = "REMOVE" /\ op = EdgeOp("DISCONNECT", f)
      BY <3>1 DEF Operations
    <3>3. EdgeOf(f) = EdgeOf(e)
      BY <3>2 DEF EdgeOp, EdgeOf
    <3>4. f = e
      BY <3>3, EdgeAssumption
    <3> QED
      BY <3>2, <3>4
  <2> QED
    BY <2>1, <2>2
<1> QED
  BY <1>3 DEF Once

-----------------------------------------------------------------------------
(* The scheduler. *)

\* A set of natural numbers has a least one.
LEMMA LeastNumber ==
  ASSUME NEW S \in SUBSET Nat, S # {}
  PROVE  \E x \in S : \A y \in S : ~(y < x)
<1>1. IsWellFoundedOn(OpToRel(<, Nat), Nat)
  BY NatLessThanWellFounded
<1>2. PICK x \in S : \A y \in S : ~(<<y, x>> \in OpToRel(<, Nat))
  BY <1>1, WFMin
<1>3. \A y \in S : y < x => <<y, x>> \in OpToRel(<, Nat)
  BY DEF OpToRel
<1> QED
  BY <1>2, <1>3

\* The loop over the tasks always goes on: there is a next task, or there is none
\* that is ready (next_runnable_index returns None exactly then).
THEOREM SomeTaskIsNext ==
  ASSUME NEW p, NEW s
  PROVE  NoneReady(p, s) <=> ~(\E t \in Task : IsNext(p, s, t))
<1> DEFINE ready == {t \in Task : Ready(p, s, t)}
<1>1. ASSUME ready # {} PROVE \E t \in Task : IsNext(p, s, t)
  <2>1. ready \in SUBSET Nat
    BY DEF Task
  <2>2. PICK t \in ready : \A u \in ready : ~(u < t)
    BY <1>1, <2>1, LeastNumber
  <2> HIDE DEF ready
  <2>3. t \in Task /\ Ready(p, s, t)
    BY <2>2 DEF ready
  <2>4. ASSUME NEW u \in 1 .. t - 1 PROVE ~Ready(p, s, u)
    <3>1. u \in Task /\ u < t
      BY <2>3, TaskCountAssumption DEF Task
    <3> QED
      BY <2>2, <3>1 DEF ready
  <2> QED
    BY <2>3, <2>4 DEF IsNext
<1> QED
  BY <1>1 DEF NoneReady, IsNext

\* An accepted plan does not stall by itself: while a task is pending there is a
\* next one, unless a pending task waits for one that failed or was given up
\* (validate_plan against next_runnable_index).
THEOREM AcceptedPlansProceed ==
  ASSUME NEW operations, NEW p, PlanIsValid(operations, p),
         NEW s \in [Task -> TaskState], \E t \in Task : s[t] = "pending"
  PROVE  \/ \E t \in Task : IsNext(p, s, t)
         \/ \E t \in Task : /\ s[t] = "pending"
                            /\ \E u \in KnownDeps(p, t) : s[u] \in {"failed", "blocked"}
<1> DEFINE waiting == {t \in Task : s[t] = "pending"}
<1>1. PICK t \in waiting : p[t].deps \cap waiting = {}
  BY DEF PlanIsValid, Cyclic
<1>2. \A u \in KnownDeps(p, t) : s[u] \in {"completed", "failed", "blocked"}
  BY <1>1 DEF KnownDeps, TaskState
<1>3. CASE \E u \in KnownDeps(p, t) : s[u] # "completed"
  BY <1>1, <1>2, <1>3
<1>4. CASE \A u \in KnownDeps(p, t) : s[u] = "completed"
  <2>1. ~NoneReady(p, s)
    BY <1>1, <1>4 DEF NoneReady, Ready
  <2> QED
    BY <2>1, SomeTaskIsNext
<1> QED
  BY <1>3, <1>4

-----------------------------------------------------------------------------
(* The steps. *)

LEMMA InitDelivery == Init => DeliveryInv
  BY DEF Init, DeliveryInv, StagesAgree, DataAgrees, HasChangeset, BlockedHasReason,
         EvidenceIsFresh, MergedIsDelivered, AllPending, TaskState, NoVerification

\* The design is set once, with the changeset, before there is any plan.
LEMMA ApproveKeepsInv == DeliveryInv /\ ApproveAndCompile => DeliveryInv'
<1> SUFFICES ASSUME DeliveryInv, ApproveAndCompile PROVE DeliveryInv'
  OBVIOUS
<1>1. /\ stage = "approval" /\ stage' = "structure" /\ code \in Codes
      /\ design' \in Designs /\ changeset' = Compile(design', Observed(code))
      /\ UNCHANGED <<code, plan, status, contracted, verification, current>>
  BY DEF ApproveAndCompile, DeliveryInv, StagesAgree
<1>2. plan = NoPlan /\ verification = NoVerification /\ ~contracted
  BY <1>1 DEF DeliveryInv, StagesAgree, EvidenceIsFresh, DataAgrees
<1>3. StagesAgree'
  BY <1>1, <1>2 DEF DeliveryInv, StagesAgree
<1>4. DataAgrees'
  BY <1>1, <1>2 DEF DataAgrees, Compiled, HasChangeset
<1>5. BlockedHasReason'
  BY <1>1 DEF DeliveryInv, BlockedHasReason
<1>6. EvidenceIsFresh'
  BY <1>1, <1>2 DEF EvidenceIsFresh, NoVerification
<1> QED
  BY <1>1, <1>3, <1>4, <1>5, <1>6 DEF DeliveryInv, MergedIsDelivered

\* Without a map the files stay as an earlier start left them.
LEMMA WithoutMapKeepsInv == DeliveryInv /\ GoWithoutMap => DeliveryInv'
<1> SUFFICES ASSUME DeliveryInv, GoWithoutMap PROVE DeliveryInv'
  OBVIOUS
<1>1. /\ stage = "approval" /\ stage' = "structure"
      /\ UNCHANGED <<code, design, changeset, plan, status, contracted,
                     verification, current>>
  BY DEF GoWithoutMap, files
<1>2. ~contracted
  BY <1>1 DEF DeliveryInv, DataAgrees
<1>3. StagesAgree' /\ BlockedHasReason' /\ EvidenceIsFresh'
  BY <1>1 DEF DeliveryInv, StagesAgree, BlockedHasReason, EvidenceIsFresh, EdgeSeen
<1>4. DataAgrees'
  BY <1>1, <1>2 DEF DeliveryInv, DataAgrees, Compiled, HasChangeset
<1> QED
  BY <1>1, <1>3, <1>4 DEF DeliveryInv, MergedIsDelivered

LEMMA PlansAreWritten ==
  ASSUME NEW p \in Plans
  PROVE  p # NoPlan
<1>1. DOMAIN p = Task
  BY DEF Plans
<1>2. 1 \in Task
  BY TaskCountAssumption DEF Task
<1>3. DOMAIN NoPlan = {}
  BY DEF NoPlan
<1> QED
  BY <1>1, <1>2, <1>3

LEMMA StructureKeepsInv == DeliveryInv /\ Structure => DeliveryInv'
<1> SUFFICES ASSUME DeliveryInv, Structure PROVE DeliveryInv'
  OBVIOUS
<1>1. /\ stage = "structure" /\ stage' = "validation" /\ plan' # NoPlan
      /\ status' = AllPending
      /\ UNCHANGED <<code, design, changeset, contracted, verification, current>>
  BY PlansAreWritten DEF Structure
<1>2. ~contracted
  BY <1>1 DEF DeliveryInv, DataAgrees, Compiled, HasChangeset
<1>3. StagesAgree'
  BY <1>1 DEF DeliveryInv, StagesAgree, AllPending, TaskState
<1>4. DataAgrees'
  BY <1>1, <1>2 DEF DeliveryInv, DataAgrees, Compiled, HasChangeset
<1>5. BlockedHasReason'
  BY <1>1 DEF BlockedHasReason, AllPending
<1>6. EvidenceIsFresh'
  BY <1>1 DEF DeliveryInv, EvidenceIsFresh, StagesAgree, EdgeSeen
<1> QED
  BY <1>1, <1>3, <1>4, <1>5, <1>6 DEF DeliveryInv, MergedIsDelivered

LEMMA ValidateKeepsInv == DeliveryInv /\ ValidateStructure => DeliveryInv'
<1> SUFFICES ASSUME DeliveryInv, ValidateStructure PROVE DeliveryInv'
  OBVIOUS
<1>1. /\ stage = "validation" /\ stage' \in {"tasks", "blocked"}
      /\ contracted' => HasChangeset /\ PlanIsValid(changeset.operations, plan)
      /\ UNCHANGED <<code, design, changeset, plan, status, verification, current>>
  BY DEF ValidateStructure, DeliveryInv, DataAgrees
<1>2. StagesAgree'
  BY <1>1 DEF DeliveryInv, StagesAgree
<1>3. DataAgrees'
  BY <1>1 DEF DeliveryInv, DataAgrees, Compiled, HasChangeset
<1>4. BlockedHasReason' /\ EvidenceIsFresh'
  BY <1>1
     DEF DeliveryInv, BlockedHasReason, EvidenceIsFresh, EdgeSeen, NoVerification
<1> QED
  BY <1>1, <1>2, <1>3, <1>4 DEF DeliveryInv, MergedIsDelivered

\* The verification of the task before is deleted.
LEMMA TakeTaskKeepsInv ==
  ASSUME DeliveryInv, NEW t \in Task, TakeTask(t)
  PROVE  DeliveryInv'
<1>1. /\ stage = "tasks" /\ stage' = "implement" /\ current' = t
      /\ status[t] = "pending" /\ verification' = NoVerification
      /\ UNCHANGED <<code, design, changeset, plan, status, contracted>>
  BY DEF TakeTask, IsNext, Ready
<1>2. StagesAgree'
  BY <1>1 DEF DeliveryInv, StagesAgree
<1>3. DataAgrees' /\ BlockedHasReason'
  BY <1>1 DEF DeliveryInv, DataAgrees, Compiled, HasChangeset, BlockedHasReason
<1>4. EvidenceIsFresh'
  BY <1>1 DEF EvidenceIsFresh, NoVerification
<1> QED
  BY <1>1, <1>2, <1>3, <1>4 DEF DeliveryInv, MergedIsDelivered

LEMMA ImplementKeepsInv == DeliveryInv /\ Implement => DeliveryInv'
<1> SUFFICES ASSUME DeliveryInv, Implement PROVE DeliveryInv'
  OBVIOUS
<1>1. /\ stage = "implement" /\ stage' = "completion" /\ code' \in Codes
      /\ UNCHANGED <<design, changeset, plan, status, contracted, verification,
                     current>>
  BY DEF Implement
<1>2. StagesAgree'
  BY <1>1 DEF DeliveryInv, StagesAgree
<1>3. DataAgrees' /\ BlockedHasReason'
  BY <1>1 DEF DeliveryInv, DataAgrees, Compiled, HasChangeset, BlockedHasReason
<1>4. EvidenceIsFresh'
  BY <1>1 DEF DeliveryInv, EvidenceIsFresh, NoVerification
<1> QED
  BY <1>1, <1>2, <1>3, <1>4 DEF DeliveryInv, MergedIsDelivered

\* A task that is decided was pending, so no blocked task leaned on it.
LEMMA DecidingKeepsReasons ==
  ASSUME DeliveryInv, NEW state \in {"completed", "failed"},
         stage \in {"implement", "completion"},
         status' = [status EXCEPT ![current] = state], UNCHANGED plan
  PROVE  status' \in [Task -> TaskState] /\ BlockedHasReason'
<1>1. /\ status \in [Task -> TaskState] /\ current \in Task
      /\ status[current] = "pending"
  BY DEF DeliveryInv, StagesAgree
<1>2. status' \in [Task -> TaskState]
  BY <1>1 DEF TaskState
<1>3. BlockedHasReason'
  BY <1>1 DEF DeliveryInv, BlockedHasReason, KnownDeps
<1> QED
  BY <1>2, <1>3

LEMMA FailTaskKeepsInv == DeliveryInv /\ FailTask => DeliveryInv'
<1> SUFFICES ASSUME DeliveryInv, FailTask PROVE DeliveryInv'
  OBVIOUS
<1>1. /\ stage = "implement" /\ stage' = "tasks" /\ code' \in Codes
      /\ status' = [status EXCEPT ![current] = "failed"]
      /\ UNCHANGED <<design, changeset, plan, contracted, verification>>
  BY DEF FailTask
<1>2. status' \in [Task -> TaskState] /\ BlockedHasReason'
  BY <1>1, DecidingKeepsReasons
<1>3. StagesAgree' /\ DataAgrees'
  BY <1>1, <1>2 DEF DeliveryInv, StagesAgree, DataAgrees, Compiled, HasChangeset
<1>4. EvidenceIsFresh'
  BY <1>1 DEF DeliveryInv, EvidenceIsFresh, NoVerification
<1> QED
  BY <1>1, <1>2, <1>3, <1>4 DEF DeliveryInv, MergedIsDelivered

\* What is written to contract-verification.json is true of the code.
LEMMA CompleteTaskKeepsInv == DeliveryInv /\ CompleteTask => DeliveryInv'
<1> SUFFICES ASSUME DeliveryInv, CompleteTask PROVE DeliveryInv'
  OBVIOUS
<1> DEFINE result == Verify(design, code, TaskContract)
           state == IF contracted => result.passed THEN "completed" ELSE "failed"
<1>1. /\ stage = "completion" /\ stage' = "tasks"
      /\ verification' = IF contracted THEN result ELSE verification
      /\ status' = [status EXCEPT ![current] = state]
      /\ UNCHANGED <<code, design, changeset, plan, contracted>>
  BY DEF CompleteTask
<1>2. status' \in [Task -> TaskState] /\ BlockedHasReason'
  <2> HIDE DEF result
  <2>1. state \in {"completed", "failed"}
    OBVIOUS
  <2> HIDE DEF state
  <2> QED
    BY <1>1, <2>1, DecidingKeepsReasons
<1>3. StagesAgree' /\ DataAgrees'
  BY <1>1, <1>2 DEF DeliveryInv, StagesAgree, DataAgrees, Compiled, HasChangeset
<1>4. EvidenceIsFresh'
  <2>1. plan' # NoPlan
    BY <1>1 DEF DeliveryInv, StagesAgree
  <2>2. \A edge \in result.verified : EdgeSeen(edge)
    <3>1. \A edge \in result.verified :
             /\ edge[3] \in {"inherits", "contains"}
             /\ EdgeHolds(design, code, TaskContract, edge)
      BY DEF Verify, HardRelation
    <3> QED
      <4> SUFFICES ASSUME NEW edge \in result.verified PROVE EdgeSeen(edge)
        OBVIOUS
      <4>1. /\ edge[3] \in {"inherits", "contains"}
            /\ EdgeHolds(design, code, TaskContract, edge)
        BY <3>1
      <4> HIDE DEF result
      <4> QED
        BY <4>1, EdgeHoldsIsSeen DEF EdgeSeen
  <2>3. \A edge \in verification'.verified : EdgeSeen(edge)
    <3> HIDE DEF result
    <3> QED
      BY <1>1, <2>2 DEF DeliveryInv, EvidenceIsFresh
  <2> QED
    BY <1>1, <2>1, <2>3 DEF EvidenceIsFresh, EdgeSeen
<1> QED
  BY <1>1, <1>2, <1>3, <1>4 DEF DeliveryInv, MergedIsDelivered

LEMMA BlockUnrunnableKeepsInv == DeliveryInv /\ BlockUnrunnable => DeliveryInv'
<1> SUFFICES ASSUME DeliveryInv, BlockUnrunnable PROVE DeliveryInv'
  OBVIOUS
<1>1. /\ stage = "tasks" /\ stage' = "report" /\ NoneReady(plan, status)
      /\ status' = [t \in Task |-> IF status[t] = "pending" THEN "blocked"
                                                            ELSE status[t]]
      /\ UNCHANGED <<code, design, changeset, plan, contracted, verification>>
  BY DEF BlockUnrunnable
<1>2. status \in [Task -> TaskState]
  BY DEF DeliveryInv, StagesAgree
<1>3. StagesAgree'
  BY <1>1, <1>2 DEF DeliveryInv, StagesAgree, TaskState
<1>4. BlockedHasReason'
  <2> SUFFICES ASSUME NEW t \in Task, status'[t] = "blocked"
               PROVE  \E u \in KnownDeps(plan, t) :
                          status'[u] \in {"failed", "blocked"}
    BY <1>1 DEF BlockedHasReason
  <2>1. \E u \in KnownDeps(plan, t) : status[u] # "completed"
    <3>1. CASE status[t] = "pending"
      BY <1>1, <3>1 DEF NoneReady, Ready
    <3>2. CASE status[t] # "pending"
      BY <1>1, <3>2 DEF DeliveryInv, BlockedHasReason
    <3> QED
      BY <3>1, <3>2
  <2> QED
    BY <1>1, <1>2, <2>1 DEF KnownDeps, TaskState
<1>5. DataAgrees' /\ EvidenceIsFresh'
  BY <1>1
     DEF DeliveryInv, DataAgrees, Compiled, HasChangeset, EvidenceIsFresh,
         EdgeSeen
<1> QED
  BY <1>1, <1>3, <1>4, <1>5 DEF DeliveryInv, MergedIsDelivered

LEMMA FinalizeKeepsInv == DeliveryInv /\ Finalize => DeliveryInv'
<1> SUFFICES ASSUME DeliveryInv, Finalize PROVE DeliveryInv'
  OBVIOUS
<1> DEFINE verified == IF verification.passed THEN verification.verified ELSE {}
<1>1. /\ stage = "report" /\ stage' \in {"merged", "kept"}
      /\ stage' = "merged" /\ HasChangeset =>
             GateOpen(design, changeset.operations, plan, status, Observed(code),
                      verified)
      /\ UNCHANGED <<code, design, changeset, plan, status, contracted,
                     verification>>
  BY DEF Finalize, files
<1>2. StagesAgree' /\ DataAgrees' /\ BlockedHasReason' /\ EvidenceIsFresh'
  BY <1>1
     DEF DeliveryInv, StagesAgree, DataAgrees, Compiled, HasChangeset,
         BlockedHasReason,
              EvidenceIsFresh, EdgeSeen
<1>3. MergedIsDelivered'
  <2> SUFFICES ASSUME stage' = "merged", HasChangeset PROVE MergedIsDelivered'
    BY <1>1 DEF MergedIsDelivered, HasChangeset
  <2>1. verified \subseteq verification.verified
    OBVIOUS
  <2> HIDE DEF verified
  <2> QED
    BY <1>1, <2>1, OpenGateDelivers DEF DeliveryInv, MergedIsDelivered
<1> QED
  BY <1>2, <1>3 DEF DeliveryInv

LEMMA ResumeKeepsInv == DeliveryInv /\ Resume => DeliveryInv'
<1> SUFFICES ASSUME DeliveryInv, Resume PROVE DeliveryInv'
  OBVIOUS
<1>1. /\ stage # "merged"
      /\ stage' = IF plan = NoPlan THEN "approval" ELSE "tasks"
      /\ UNCHANGED <<code, design, changeset, plan, status, contracted,
                     verification>>
  BY DEF Resume, files
<1>2. StagesAgree' /\ BlockedHasReason' /\ EvidenceIsFresh'
  BY <1>1 DEF DeliveryInv, StagesAgree, BlockedHasReason, EvidenceIsFresh, EdgeSeen
<1>3. DataAgrees'
  BY <1>1 DEF DeliveryInv, StagesAgree, DataAgrees, Compiled, HasChangeset
<1> QED
  BY <1>1, <1>2, <1>3 DEF DeliveryInv, MergedIsDelivered

LEMMA NextDelivery == DeliveryInv /\ [Next]_vars => DeliveryInv'
<1> SUFFICES ASSUME DeliveryInv, [Next]_vars PROVE DeliveryInv'
  OBVIOUS
<1>1. CASE Next
  BY <1>1, ApproveKeepsInv, WithoutMapKeepsInv, StructureKeepsInv,
     ValidateKeepsInv, TakeTaskKeepsInv,
     ImplementKeepsInv, FailTaskKeepsInv, CompleteTaskKeepsInv,
     BlockUnrunnableKeepsInv, FinalizeKeepsInv, ResumeKeepsInv DEF Next, Step
<1>2. CASE UNCHANGED vars
  <2>1. UNCHANGED <<stage, code, design, changeset, plan, status, contracted,
                    current, verification>>
    BY <1>2 DEF vars, files
  <2> QED
    BY <2>1
       DEF DeliveryInv, StagesAgree, DataAgrees, Compiled, HasChangeset,
           BlockedHasReason,
                EvidenceIsFresh, EdgeSeen, MergedIsDelivered
<1> QED
  BY <1>1, <1>2

-----------------------------------------------------------------------------
(* Completion. *)

\* Under an accepted plan a contract that is satisfied is code that is there.
LEMMA SatisfiedContract ==
  ASSUME DeliveryInv, contracted, stage = "completion",
         Verify(design, code, TaskContract).passed,
         NEW op \in plan[current].covers
  PROVE  /\ IsNodeOp(op) /\ InRepository(design, op.at[1])
                => \/ code.decl[op.at[1]] = "right"
                   \/ /\ Kind[op.at[1]] = "package"
                      /\ PathExists(code, op.at[1])
         /\ op.kind = "CONNECT" /\ op.at[3] = "inherits"
                => <<op.at[1], op.at[2]>> \in code.bases
<1>1. /\ \A n \in TaskContract.required : Satisfied(design, code, n)
      /\ \A e \in TaskContract.edges : EdgeHolds(design, code, TaskContract, e)
  BY DEF Verify
<1>2. /\ TaskContract.required = Owned(plan[current].covers)
      /\ TaskContract.edges = Relationships(design, plan[current].covers)
  BY DEF TaskContract, Contract
<1>3. Satisfied(design, code, op.at[1])
  BY <1>1, <1>2 DEF Owned
<1>4. ASSUME op.kind = "CONNECT", op.at[3] = "inherits"
      PROVE  <<op.at[1], op.at[2]>> \in code.bases
  <2>1. PICK tree \in Codes : changeset = Compile(design, Observed(tree))
    BY DEF DeliveryInv, DataAgrees, Compiled, HasChangeset
  <2>2. op \in Operations(design, Observed(tree))
    <3>1. current \in Task /\ PlanIsValid(changeset.operations, plan)
      BY DEF DeliveryInv, StagesAgree, DataAgrees
    <3> QED
      BY <2>1, <3>1 DEF PlanIsValid, Compile
  <2>3. PICK e \in design.edges : e.intent = "CREATE" /\ op.at = EdgeOf(e)
    BY <1>4, <2>2, OperationShapes
  <2>4. op.at \in TaskContract.edges
    BY <1>2, <2>3 DEF Relationships
  <2> QED
    BY <1>1, <1>4, <2>4, EdgeHoldsIsSeen
<1> QED
  BY <1>3, <1>4 DEF Satisfied

-----------------------------------------------------------------------------
(* Types: what the agents write, and what the program writes of it. *)

LEMMA PlansAreTyped ==
  ASSUME NEW p \in Plans, NEW t \in Task
  PROVE  /\ p[t].covers \subseteq changeset.operations \cup {Unknown}
         /\ p[t].deps \subseteq Task \cup {Stranger}
<1>1. PICK covers \in [Task -> SUBSET (changeset.operations \cup {Unknown})],
           deps \in Deps :
             p = [u \in Task |-> [covers |-> covers[u], deps |-> deps[u]]]
  BY DEF Plans
<1>2. deps \in [Task -> SUBSET (Task \cup {Stranger})]
  BY DeliveryAssumption
<1>3. p[t].covers = covers[t] /\ p[t].deps = deps[t]
  BY <1>1
<1> QED
  BY <1>1, <1>2, <1>3

\* The process and the task it has in hand.
ProcessTyped ==
    /\ stage \in {"approval", "structure", "validation", "tasks", "implement",
                  "completion", "report"} \cup Ended
    /\ current \in Task \cup {0}
    /\ current # 0 => stage \in {"implement", "completion"} /\ status[current] = "pending"

\* The files of the design, the plan and the verification.
FilesTyped ==
    /\ design \in Designs \cup {NoDesign} /\ contracted \in BOOLEAN
    /\ plan = NoPlan \/ \A t \in Task :
            /\ plan[t].covers \subseteq changeset.operations \cup {Unknown}
            /\ plan[t].deps \subseteq Task \cup {Stranger}
    /\ verification.passed \in BOOLEAN

LEMMA NextProcess == DeliveryInv /\ ProcessTyped /\ [Next]_vars => ProcessTyped'
<1> SUFFICES ASSUME DeliveryInv, ProcessTyped, [Next]_vars PROVE ProcessTyped'
  OBVIOUS
<1>1. 0 \notin Task
  BY TaskCountAssumption DEF Task
<1>2. CASE ApproveAndCompile \/ GoWithoutMap \/ Structure \/ ValidateStructure
  <2>1. /\ stage \in {"approval", "structure", "validation"} /\ current' = current
        /\ stage' \in {"structure", "validation", "tasks", "blocked"}
    BY <1>2 DEF ApproveAndCompile, GoWithoutMap, Structure, ValidateStructure
  <2> QED
    BY <2>1 DEF ProcessTyped, Ended
<1>3. ASSUME NEW t \in Task, TakeTask(t) PROVE ProcessTyped'
  BY <1>3 DEF TakeTask, IsNext, Ready, ProcessTyped
<1>4. CASE Implement
  BY <1>4 DEF Implement, ProcessTyped
<1>5. CASE FailTask \/ CompleteTask \/ Resume
  <2>1. current' = 0 /\ stage' \in {"approval", "tasks"}
    BY <1>5 DEF FailTask, CompleteTask, Resume
  <2> QED
    BY <2>1 DEF ProcessTyped
<1>6. CASE BlockUnrunnable \/ Finalize
  <2>1. /\ stage \in {"tasks", "report"} /\ current' = current
        /\ stage' \in {"report", "merged", "kept"}
    BY <1>6 DEF BlockUnrunnable, Finalize
  <2> QED
    BY <2>1 DEF ProcessTyped, Ended
<1>7. CASE UNCHANGED vars
  BY <1>7 DEF vars, files, ProcessTyped
<1> QED
  BY <1>2, <1>3, <1>4, <1>5, <1>6, <1>7 DEF Next, Step

LEMMA NextFiles == DeliveryInv /\ FilesTyped /\ [Next]_vars => FilesTyped'
<1> SUFFICES ASSUME DeliveryInv, FilesTyped, [Next]_vars PROVE FilesTyped'
  OBVIOUS
<1>1. CASE ApproveAndCompile
  BY <1>1 DEF ApproveAndCompile, FilesTyped, DeliveryInv, StagesAgree
<1>2. CASE Structure
  <2>1. plan' \in Plans /\ UNCHANGED <<design, changeset, contracted, verification>>
    BY <1>2 DEF Structure
  <2>2. \A t \in Task :
            /\ plan'[t].covers \subseteq changeset.operations \cup {Unknown}
            /\ plan'[t].deps \subseteq Task \cup {Stranger}
    BY <2>1, PlansAreTyped
  <2> QED
    BY <2>1, <2>2 DEF FilesTyped
<1>3. CASE ValidateStructure
  BY <1>3 DEF ValidateStructure, FilesTyped
<1>4. ASSUME NEW t \in Task, TakeTask(t) PROVE FilesTyped'
  BY <1>4 DEF TakeTask, FilesTyped, NoVerification
<1>5. CASE CompleteTask
  <2>1. /\ verification' \in {Verify(design, code, TaskContract), verification}
        /\ UNCHANGED <<design, changeset, plan, contracted>>
    BY <1>5 DEF CompleteTask
  <2>2. Verify(design, code, TaskContract).passed \in BOOLEAN
    BY DEF Verify
  <2>3. verification'.passed \in BOOLEAN
    BY <2>1, <2>2 DEF FilesTyped
  <2> QED
    BY <2>1, <2>3 DEF FilesTyped
<1>6. CASE GoWithoutMap \/ Implement \/ FailTask \/ BlockUnrunnable \/ Finalize
           \/ Resume \/ UNCHANGED vars
  <2>1. UNCHANGED <<design, changeset, plan, contracted, verification>>
    BY <1>6
       DEF GoWithoutMap, Implement, FailTask, BlockUnrunnable, Finalize, Resume,
           vars, files
  <2> QED
    BY <2>1 DEF FilesTyped
<1> QED
  BY <1>1, <1>2, <1>3, <1>4, <1>5, <1>6 DEF Next, Step

-----------------------------------------------------------------------------
(* The theorems. *)

\* Whatever agents write and whenever the mission is resumed, every file and the
\* task in hand keep their types: a task in hand is pending, and a plan on file
\* covers operations of the changeset on file.
THEOREM DeliveryIsTyped == Spec => []TypeOK
<1>1. Init => ProcessTyped
  BY DEF Init, ProcessTyped
<1>2. Init => FilesTyped
  <2> SUFFICES ASSUME Init PROVE FilesTyped
    OBVIOUS
  <2>1. design = NoDesign /\ plan = NoPlan /\ contracted \in BOOLEAN
    BY DEF Init
  <2>2. verification.passed \in BOOLEAN
    BY DEF Init, NoVerification
  <2> QED
    BY <2>1, <2>2 DEF FilesTyped
<1>3. DeliveryInv /\ ProcessTyped /\ FilesTyped => TypeOK
  BY DEF DeliveryInv, StagesAgree, ProcessTyped, FilesTyped, TypeOK
<1> QED
  BY InitDelivery, NextDelivery, NextProcess, NextFiles, <1>1, <1>2, <1>3, PTL
     DEF Spec

\* Every change of an approved design is one operation, or is there already, or
\* stops the plan, for every design and every state of the code.
THEOREM ChangesAreAccounted == Spec => []NothingApprovedIsLost
<1>1. DeliveryInv => NothingApprovedIsLost
  <2> SUFFICES ASSUME Compiled PROVE NothingApprovedIsLost
    BY DEF DeliveryInv, DataAgrees, HasChangeset, NothingApprovedIsLost
  <2>1. PICK tree \in Codes : changeset = Compile(design, Observed(tree))
    BY DEF Compiled
  <2>2. design \in Designs /\ design \in Design
    BY DeliveryAssumption DEF Compiled
  <2>3. /\ changeset.operations = Operations(design, Observed(tree))
        /\ changeset.skipped = Skipped(design, Observed(tree))
        /\ changeset.issues = Issues(design, Observed(tree))
    BY <2>1 DEF Compile
  <2> DEFINE Sum(x) ==
            Cardinality({op \in changeset.operations : op.at = x})
            + (IF x \in {<<n>> : n \in changeset.skipped} THEN 1 ELSE 0)
            + (IF x \in {<<n>> : n \in changeset.issues} THEN 1 ELSE 0)
  <2>4. ASSUME NEW x,
               Once({op \in changeset.operations : op.at = x},
                    x \in {<<n>> : n \in changeset.skipped},
                    x \in {<<n>> : n \in changeset.issues})
        PROVE  Sum(x) = 1
    <3> DEFINE ops == {op \in changeset.operations : op.at = x}
    <3>1. ops = {} => Cardinality(ops) = 0
      BY FS_EmptySet
    <3>2. (\E op : ops = {op}) => Cardinality(ops) = 1
      BY FS_Singleton
    <3>3. Once(ops, x \in {<<n>> : n \in changeset.skipped},
                    x \in {<<n>> : n \in changeset.issues})
      BY <2>4
    <3> DEFINE skipped == x \in {<<n>> : n \in changeset.skipped}
               issue == x \in {<<n>> : n \in changeset.issues}
    <3>4. \/ Cardinality(ops) = 0 /\ skipped /\ ~issue
          \/ Cardinality(ops) = 0 /\ ~skipped /\ issue
          \/ Cardinality(ops) = 1 /\ ~skipped /\ ~issue
      BY <3>1, <3>2, <3>3 DEF Once
    <3> HIDE DEF ops
    <3>5. Cardinality(ops)
             + (IF x \in {<<n>> : n \in changeset.skipped} THEN 1 ELSE 0)
             + (IF x \in {<<n>> : n \in changeset.issues} THEN 1 ELSE 0) = 1
      BY <3>4
    <3> QED
      BY <3>5 DEF ops
  <2> HIDE DEF Sum
  <2>5. ASSUME NEW n \in Node, design.node[n].intent # "KEEP"
        PROVE  Sum(<<n>>) = 1
    <3>1. \A S : <<n>> \in {<<k>> : k \in S} <=> n \in S
      OBVIOUS
    <3>2. Once({op \in changeset.operations : op.at = <<n>>},
               n \in changeset.skipped, n \in changeset.issues)
      BY <2>2, <2>3, <2>5, NodeIsAccounted
    <3>3. /\ n \in changeset.skipped <=> <<n>> \in {<<k>> : k \in changeset.skipped}
          /\ n \in changeset.issues <=> <<n>> \in {<<k>> : k \in changeset.issues}
      BY <3>1
    <3>4. Once({op \in changeset.operations : op.at = <<n>>},
               <<n>> \in {<<k>> : k \in changeset.skipped},
               <<n>> \in {<<k>> : k \in changeset.issues})
      BY <3>2, <3>3 DEF Once
    <3> QED
      BY <2>4, <3>4
  <2>6. ASSUME NEW e \in design.edges, e.intent \in {"CREATE", "REMOVE"}
        PROVE  Sum(EdgeOf(e)) = 1
    <3>1. \A S : EdgeOf(e) \notin {<<k>> : k \in S}
      BY DEF EdgeOf
    <3>2. Once({op \in changeset.operations : op.at = EdgeOf(e)}, FALSE, FALSE)
      BY <2>2, <2>3, <2>6, EdgeIsAccounted
    <3>3. Once({op \in changeset.operations : op.at = EdgeOf(e)},
               EdgeOf(e) \in {<<k>> : k \in changeset.skipped},
               EdgeOf(e) \in {<<k>> : k \in changeset.issues})
      BY <3>1, <3>2 DEF Once
    <3> QED
      BY <2>4, <3>3
  <2>7. \A x \in Changed(design) : Sum(x) = 1
    BY <2>5, <2>6 DEF Changed
  <2> QED
    BY <2>7 DEF NothingApprovedIsLost, Sum
<1> QED
  BY InitDelivery, NextDelivery, <1>1, PTL DEF Spec

\* A mission with a changeset merges what was approved, as far as code can show it,
\* for every design, plan and number of resumes, and also when the changeset is one
\* of an earlier start.  Without a changeset the merge promises nothing
\* (_reconciliation_gate returns no reasons).
THEOREM MergeIsDelivered == Spec => []MergedIsDelivered
<1>1. DeliveryInv => MergedIsDelivered
  BY DEF DeliveryInv
<1> QED
  BY InitDelivery, NextDelivery, <1>1, PTL DEF Spec

\* Under an accepted plan no tasks are given up because of each other alone.
THEOREM BlockedFollowsFailure == Spec => []BlockedBehindFailure
<1>1. DeliveryInv => BlockedBehindFailure
  BY NoRingOfBlocked DEF DeliveryInv
<1> QED
  BY InitDelivery, NextDelivery, <1>1, PTL DEF Spec

\* Under an accepted plan, only the verifier completes a task.
THEOREM CompletionIsVerified == Spec => CompletedWasVerified
<1> DEFINE Verified ==
        contracted => \A t \in Task :
            status[t] # "completed" /\ status'[t] = "completed" =>
                \A op \in plan[t].covers :
                    /\ IsNodeOp(op) /\ InRepository(design, op.at[1])
                            => \/ code.decl[op.at[1]] = "right"
                               \/ /\ Kind[op.at[1]] = "package"
                                  /\ PathExists(code, op.at[1])
                    /\ op.kind = "CONNECT" /\ op.at[3] = "inherits"
                            => <<op.at[1], op.at[2]>> \in code.bases
<1>1. DeliveryInv /\ [Next]_vars => [Verified]_vars
  <2> SUFFICES ASSUME DeliveryInv, Next, contracted, NEW t \in Task,
                      status[t] # "completed", status'[t] = "completed",
                      NEW op \in plan[t].covers
               PROVE  /\ IsNodeOp(op) /\ InRepository(design, op.at[1])
                            => \/ code.decl[op.at[1]] = "right"
                               \/ /\ Kind[op.at[1]] = "package"
                                  /\ PathExists(code, op.at[1])
                      /\ op.kind = "CONNECT" /\ op.at[3] = "inherits"
                            => <<op.at[1], op.at[2]>> \in code.bases
    OBVIOUS
  <2>1. CompleteTask
    <3>1. stage \notin {"approval", "structure", "validation"}
      BY DEF DeliveryInv, DataAgrees
    <3>2. ~FailTask /\ ~BlockUnrunnable
      BY DEF FailTask, BlockUnrunnable, DeliveryInv, StagesAgree
    <3> QED
      BY <3>1, <3>2
         DEF Next, Step, ApproveAndCompile, GoWithoutMap, Structure,
             ValidateStructure, TakeTask, Implement, Finalize, Resume, files
  <2>2. /\ t = current /\ stage = "completion"
        /\ Verify(design, code, TaskContract).passed
    BY <2>1 DEF CompleteTask, DeliveryInv, StagesAgree
  <2> QED
    BY <2>2, SatisfiedContract
<1> QED
  BY InitDelivery, NextDelivery, <1>1, PTL DEF Spec, CompletedWasVerified

Counted == resumes \in Nat

\* What was settled stays settled and every step of the loop advances: no task is
\* tried for ever, and none twice under one plan, resumed or not.
THEOREM WorkIsNotRedone == Spec => WorkAdvances
<1> DEFINE Advance ==
      plan # NoPlan =>
         /\ \A t \in Task : status[t] # "pending" => status'[t] = status[t]
         /\ resumes' = resumes =>
                \/ \E t \in Task : status[t] = "pending" /\ status'[t] # "pending"
                \/ status' = status /\ <<stage, stage'>> \in Forward
<1>1. ASSUME DeliveryInv, Counted, Next PROVE Advance
  <2> SUFFICES ASSUME plan # NoPlan PROVE Advance
    OBVIOUS
  <2>1. StagesAgree /\ stage \notin {"approval", "structure"}
    BY <1>1 DEF DeliveryInv, StagesAgree
  <2>2. CASE ValidateStructure
    BY <2>2 DEF ValidateStructure, Forward, Ended
  <2>3. CASE \E t \in Task : TakeTask(t)
    BY <2>3 DEF TakeTask, Forward
  <2>4. CASE Implement
    BY <2>4 DEF Implement, Forward
  <2>5. CASE FailTask \/ CompleteTask
    <3>1. /\ current \in Task /\ status[current] = "pending"
          /\ \E state \in {"completed", "failed"} :
                 status' = [status EXCEPT ![current] = state]
      BY <2>1, <2>5 DEF StagesAgree, FailTask, CompleteTask
    <3> QED
      BY <2>1, <3>1 DEF StagesAgree
  <2>6. CASE BlockUnrunnable
    <3>1. /\ stage = "tasks" /\ stage' = "report"
          /\ status' = [t \in Task |-> IF status[t] = "pending" THEN "blocked"
                                                                ELSE status[t]]
      BY <2>6 DEF BlockUnrunnable
    <3>2. CASE \E t \in Task : status[t] = "pending"
      BY <3>1, <3>2
    <3>3. CASE \A t \in Task : status[t] # "pending"
      <4>1. status' = status
        BY <2>1, <3>1, <3>3 DEF StagesAgree
      <4> QED
        BY <3>1, <4>1 DEF Forward
    <3> QED
      BY <3>2, <3>3
  <2>7. CASE Finalize
    BY <2>7 DEF Finalize, files, Forward, Ended
  <2>8. CASE Resume
    BY <1>1, <2>8 DEF Resume, files, Counted
  <2> QED
    BY <1>1, <2>1, <2>2, <2>3, <2>4, <2>5, <2>6, <2>7, <2>8
       DEF Next, Step, ApproveAndCompile, GoWithoutMap, Structure
<1>2. DeliveryInv /\ Counted /\ [Next]_vars => [Advance]_vars
  BY <1>1
<1>3. Init => Counted
  BY DEF Init, Counted
<1>4. Counted /\ [Next]_vars => Counted'
  BY DEF Counted, Next, Step, ApproveAndCompile, GoWithoutMap, Structure,
     ValidateStructure, TakeTask, Implement, FailTask, CompleteTask,
     BlockUnrunnable, Finalize, Resume, vars
<1> QED
  BY InitDelivery, NextDelivery, <1>2, <1>3, <1>4, PTL DEF Spec, WorkAdvances
=============================================================================
