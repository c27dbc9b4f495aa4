------------------------ MODULE MissionSafetyProofs -------------------------
(***************************************************************************)
(* For every WorkPlan, number of HTTP threads and bound: the safety          *)
(* properties of Mission, the invariants and the properties of its steps.    *)
(*                                                                         *)
(* They all follow from one inductive invariant, SafeInv.  It says where the *)
(* running action is and what it holds there (Placed), how far the stored    *)
(* session can have gone on without it (Follows), what it has found out and   *)
(* relies on later (ThreadOK), what the stage of the session says of the      *)
(* other files (World), and whose the active lease is (Leased, Served).       *)
(***************************************************************************)
EXTENDS MissionProofs

\* Blocked on the way to an execution, or in one: the contracts are compiled.
PlannedReason == {"spec", "plan", "implement", "review", "contract",
                  "reconcile", "unrunnable"}

PlannedStage == {"workplan_review", "ready", "task_preparation",
                 "task_review", "executing", "reconciling", "paused"}

OrphanStage == {"researching", "grilling", "structuring", "task_preparation",
                "executing", "reconciling", "paused"}

BlockedBy(why) == session.stage = "blocked" /\ session.reason \in why

-----------------------------------------------------------------------------
(* Where the running action is. *)

\* The stage of the session an action holds, by its kind and place.
PlacedOp(o) ==
    /\ o.pc = "idle" => o = NoOp
    /\ o.kind = "none" => o.pc = "idle"
    /\ o.pc = "start" => /\ o.kind \in Kind
                         /\ o.held.stage \in StartStages(o.kind)
                         /\ o.held.reason \in RetriedReasons(o.kind)
                         /\ o.lease = 0
    /\ o.pc = "agent" =>
         \/ o.kind = "research" /\ o.held.stage = "researching"
         \/ o.kind = "grill" /\ o.held.stage = "grilling"
         \/ o.kind = "approve-design" /\ o.held.stage = "structuring"
         \/ /\ o.kind \in {"prepare-task", "retry-preparation"}
            /\ o.held.stage = "task_preparation"
    /\ o.pc = "skip" => o.kind = "research" /\ o.held.stage = "research_review"
    /\ o.pc = "approved" => /\ o.kind = "approve-design"
                            /\ o.held.stage \in {"design_review", "amendment_review"}
    /\ o.pc = "compile" => o.kind = "approve-design" /\ o.held.stage = "structuring"
    /\ o.pc \notin {"idle", "start", "agent", "skip", "approved", "compile"} =>
           o.kind \in Executing
    /\ o.kind \notin Executing => o.lease = 0
    /\ o.pc = "begin" => o.lease = 0
    /\ o.pc \in {"begin", "enter"} =>
         \/ o.kind = "execute-task" /\ o.held.stage = "task_review"
         \/ /\ o.kind = "retry-review"
            /\ o.held.stage = "blocked" /\ o.held.reason = "review"
    /\ o.pc = "reopen" => o.kind = "retry-review"
    /\ o.pc \in {"reopen", "implement", "review", "report", "block", "hand_off",
                 "finish", "boundary"} => o.held.stage = "executing"
    /\ o.pc \in {"refuse", "pause"} => o.held.stage \in {"executing", "reconciling"}
    /\ o.pc \in {"reconcile", "judged", "reported"} => o.held.stage = "reconciling"
    /\ o.pc = "paused" => o.held.stage = "paused"
    /\ o.pc = "consume" => o.held.stage = "amendment_review"
    /\ o.pc = "close" =>
           o.held.stage \in {"ready", "completed", "amendment_review", "blocked"}

\* How far HTTP threads can have taken the session `now` from the copy `held`.
Follows(held, now) ==
    /\ now.snapshot = held.snapshot
    /\ \/ /\ now.stage = held.stage
          /\ now.task = held.task
          /\ now.reason = held.reason
       \/ now.stage = "amendment_review" /\ held.stage \in Reviewable
       \/ now.stage = "completed" /\ held.stage \in {"ready", "reconciling"}

-----------------------------------------------------------------------------
(* What the stage of the session says of the other files. *)

\* From the WorkPlan on the three snapshots agree.
Planned ==
    session.stage \in PlannedStage \/ BlockedBy(PlannedReason) =>
        contracts = session.snapshot /\ approved = session.snapshot

\* The task in hand does not wait for itself and has nothing left to wait for.
Ordered ==
    \/ session.stage \in {"task_preparation", "task_review", "executing"}
    \/ BlockedBy({"spec", "plan", "review"})
    => /\ session.task \in Task
       /\ session.task \notin Deps[session.task]
       /\ \A d \in Deps[session.task] : tasks[d] = "completed"

\* A full mission executes, or waits to review again, without a chat beside it,
\* as long as every begin was written while it would still be granted.
Alone ==
    /\ ~outrun /\ ~context.plan
    /\ session.stage = "executing" \/ BlockedBy({"review"})
    => ~(HasActiveLease /\ lease.actor # "mission")

\* Only a full mission has a review, and what it blocks is failed.
Refused ==
    /\ context.plan => session.reason # "review"
    /\ ~outrun /\ BlockedBy({"review"}) => tasks[session.task] = "failed"

\* Every execution begun has a number of its own.
Numbered == /\ HasActiveLease => lease.id # 0
            /\ lease.id <= begun

World == Planned /\ Ordered /\ Alone /\ Refused /\ Numbered

-----------------------------------------------------------------------------
(* What the running action relies on. *)

\* While the contracts are compiled the session names the approved snapshot.
Compiling(o) == o.kind = "approve-design" /\ o.pc \in {"agent", "compile"} =>
                    o.held.snapshot = approved

\* A PLAN mission has no phase that could fail a task before it is judged.
Plain(o) ==
    context.plan =>
        /\ o.kind # "retry-review"
        /\ o.pc \notin {"begin", "reopen", "implement", "review", "report", "block"}
        /\ o.pc = "refuse" => o.reason = "reconcile"

\* The task of an execution that is about to block the session is failed.
Failing(o) ==
    /\ ~outrun /\ o.pc \in {"report", "block"} => tasks[o.held.task] = "failed"
    /\ o.pc = "refuse" /\ o.reason # "reconcile" =>
           /\ o.held.stage = "executing"
           /\ ~outrun => tasks[o.held.task] = "failed"

\* The lease the action has begun, if it is the newest entry, is its own and for
\* the contracts on disk; while the phases run it is for the task in hand.  Only a
\* begin that is written too late can take its place.
Leased(o) ==
    /\ o.lease # 0 => o.lease <= begun
    /\ o.lease # 0 /\ IsActive(o.lease) =>
           /\ lease.actor = "mission"
           /\ lease.snapshot = contracts
           /\ o.pc \in {"enter", "reopen", "implement", "review", "finish"} =>
                  lease.task = o.held.task
    /\ ~outrun /\ o.lease # 0 => IsActive(o.lease)
    /\ o.pc \in {"reopen", "implement", "review"} => o.lease # 0
    /\ o.pc = "enter" /\ (o.kind = "retry-review" \/ ~PlanMode) => o.lease # 0
    /\ o.pc = "block" => o.lease = 0

\* An execution that closes without a refusal leaves its task completed.
Delivered(o) ==
    /\ o.lease # 0 /\ IsActive(o.lease)
    /\ \/ o.pc \in {"boundary", "reconcile", "judged", "reported",
                    "pause", "paused", "consume"}
       \/ o.pc = "close" /\ o.held.stage # "blocked"
    => tasks[lease.task] = "completed"

\* A verdict that lets the mission conclude still holds when it concludes.
Judged(o) ==
    /\ o.pc = "judged" => o.reason \in {NoReason, "diverged", "gated"}
    /\ o.pc = "reported" => o.reason \in {NoReason, "gated"}
    /\ o.pc = "judged" /\ o.reason = NoReason /\ ~o.more => AllCompleted(tasks)
    /\ o.pc = "reported" /\ o.reason = NoReason => AllCompleted(tasks)

\* An action that gives up in a stage no action starts from has lost a race or
\* its lease, or the transition it needs is missing from the table.
Excused(o) == \/ ~CasHolds(o.held)
              \/ session.stage \notin OrphanStage
              \/ pending /\ session.stage = "reconciling"
              \/ o.lease # 0 /\ ~IsActive(o.lease)

Stopped(o) ==
    /\ o.pc = "raise" => Excused(o)
    /\ o.pc = "pause" /\ o.held.stage = "reconciling" => pending

ThreadOK(o) ==
    /\ PlacedOp(o)
    /\ o.pc # "idle" => Follows(o.held, session)
    /\ Compiling(o) /\ Plain(o) /\ Failing(o) /\ Leased(o)
    /\ Delivered(o) /\ Judged(o) /\ Stopped(o)

-----------------------------------------------------------------------------
(* What the requests rely on. *)

\* A request in the last section of complete.
Completing(r) == r.pc \in {"advance", "save", "release"}

\* A request that names a lease.
Naming(r) == \/ r.pc \in {"accept", "advance", "save", "release", "end_lease"}
             \/ r.pc \in {"record", "mark", "require"} /\ r.amending

\* The lease a request names is no lease of the mission, and while it is active
\* the request knows it as it is.
Foreign(r) == /\ r.lease.id <= begun /\ r.lease.actor # "mission"
              /\ r.lease.id = lease.id => lease.actor # "mission"
              /\ IsActive(r.lease.id) => lease = r.lease

RequestOK(r) ==
    /\ r.pc = "begin" => r.lease.actor # "mission"
    /\ Naming(r) => Foreign(r)
    /\ ~outrun /\ Completing(r) => IsActive(r.lease.id)

\* A request inside the lock of the control plane has it alone.
Served ==
    /\ \A c \in Clients : RequestOK(client[c])
    /\ \A c, d \in Clients : InLock(client[c]) /\ InLock(client[d]) => c = d

SafeInv == MissionInv /\ World /\ ThreadOK(op) /\ Served

\* What SafeInv promises of a step, beside keeping itself: the properties of
\* Mission that are about steps.
Honest ==
    /\ op' # op /\ session.stage # "completed" /\ session'.stage = "completed"
         => AllCompleted(tasks)
    /\ pending /\ ~pending' => session.stage = "amendment_review"
    /\ lease.actor = "mission" /\ lease.status = "active"
         /\ lease'.id = lease.id /\ lease'.status = "completed" => tasks[lease.task] = "completed"
    /\ op.kind = "execute-task" /\ op'.pc = "idle" /\ crashes' = crashes
         => ~(lease'.status = "active" /\ lease'.id = op.lease)
    /\ Running /\ op'.pc = "idle" /\ crashes' = crashes
         /\ session'.stage \in OrphanStage
         => \/ ~CasHolds(op.held)
            \/ pending /\ session.stage = "reconciling"
            \/ op.lease # 0 /\ ~IsActive(op.lease)

\* What has to be shown of every step.
Safe == World' /\ ThreadOK(op)' /\ Served' /\ Honest

-----------------------------------------------------------------------------
(* Steps in general. *)

LEMMA SafeTypes ==
  ASSUME SafeInv
  PROVE  /\ session \in Session /\ op \in Op /\ op.held \in Session
         /\ lease \in Lease /\ lease.id \in Nat
         /\ tasks \in [Task -> TaskStatus]
         /\ pending \in BOOLEAN
         /\ session.rev \in Nat /\ op.held.rev \in Nat
         /\ op.held.rev <= session.rev
         /\ CasHolds(op.held) => op.held = session
<1>1. MissionInv
  BY DEF SafeInv
<1>2. session \in Session /\ op.held \in Session /\ lease \in Lease /\ FileTypes
      /\ op \in Op
  BY <1>1, InvTypes DEF FileTypes
<1>3. lease.id \in Nat /\ session.rev \in Nat /\ op.held.rev \in Nat
  BY <1>2 DEF Lease, Session
<1> QED
  BY <1>1, <1>2, <1>3 DEF MissionInv, Chain, CopyOf, CasHolds, FileTypes

LEMMA WorldStays ==
  ASSUME World, UNCHANGED <<session, tasks, contracts, approved, lease, context, begun, outrun>>
  PROVE  World'
  BY DEF World, Planned, Ordered, Alone, Refused, Numbered, BlockedBy, HasActiveLease

LEMMA ServedStays ==
  ASSUME Served, UNCHANGED <<client, lease, begun, outrun>> PROVE Served'
  BY DEF Served, RequestOK, Foreign, IsActive, HasActiveLease

\* A thread that holds nothing relies on nothing.
LEMMA IdleOK == ThreadOK(NoOp)'
  BY DEF ThreadOK, PlacedOp, NoOp, Compiling, Plain, Failing, Leased,
         Delivered, Judged, Stopped, Kind, Executing

\* The action's thread moves on in its own locals.
LEMMA OpMovesSafely ==
  ASSUME SafeInv, ThreadOK(op'), op'.pc # "idle",
         UNCHANGED <<session, tasks, contracts, approved, lease, pending,
                     client, context, begun, outrun>>
  PROVE  Safe
<1>1. World' /\ Served'
  BY WorldStays, ServedStays DEF SafeInv
<1>2. ThreadOK(op)'
  BY DEF ThreadOK, Compiling, Plain, Failing, Leased, Delivered, Judged,
         Stopped, Excused, CasHolds, IsActive, HasActiveLease, PlanMode,
         AllCompleted
<1>3. Honest
  BY DEF Honest
<1> QED
  BY <1>1, <1>2, <1>3 DEF Safe

\* The action gives up: its handler has a lease to close, or it returns.
LEMMA RaisesSafely ==
  ASSUME SafeInv, op' = Raised \/ (op' = NoOp /\ op.lease = 0), Excused(op), Running,
         UNCHANGED <<session, tasks, contracts, approved, lease, pending,
                     client, context, begun, outrun>>
  PROVE  Safe
<1>1. World' /\ Served'
  BY WorldStays, ServedStays DEF SafeInv
<1>2. CASE op' = [op EXCEPT !.pc = "raise"] /\ op.kind = "execute-task" /\ op.lease # 0
  <2>1. /\ op'.pc = "raise" /\ op'.kind = op.kind /\ op'.held = op.held
        /\ op'.lease = op.lease /\ op'.reason = op.reason /\ op'.more = op.more
    BY <1>2, SafeTypes DEF Op
  <2>2. PlacedOp(op')
    BY <1>2, <2>1 DEF PlacedOp, Executing
  <2>3. ThreadOK(op')
    BY <1>2, <2>1, <2>2 DEF SafeInv, ThreadOK, Compiling, Plain, Failing,
       Leased, Delivered, Judged, Stopped, Excused, Running
  <2> QED
    BY <2>1, <2>3, OpMovesSafely
<1>3. CASE op' = NoOp /\ (op.kind # "execute-task" \/ op.lease = 0)
  <2>1. ThreadOK(op)'
    BY <1>3, IdleOK
  <2>2. ~(op.lease = 0 /\ lease'.status = "active" /\ lease'.id = op.lease)
    BY DEF SafeInv, World, Numbered, HasActiveLease
  <2>3. Honest
    BY <1>3, <2>2 DEF Honest, Excused
  <2> QED
    BY <1>1, <2>1, <2>3 DEF Safe
<1> QED
  BY <1>2, <1>3 DEF Raised

\* Save comes to one of two: the action gives up, or the session it held was
\* the stored one and what it saves takes its place.
LEMMA SavesSafely ==
  ASSUME SafeInv, Running, NEW new, NEW next, Save(new, next),
         CanMove(op.held.stage, new.stage) \/ Excused(op),
         UNCHANGED <<tasks, contracts, approved, lease, pending, client, context, begun, outrun>>,
         ASSUME op.held = session, session' = new, op' = next,
                CanMove(session.stage, new.stage)
         PROVE  World' /\ ThreadOK(op)' /\ Honest
  PROVE  Safe
<1>1. CASE ~(CanMove(op.held.stage, new.stage) /\ CasHolds(op.held))
  <2>1. Excused(op)
    BY <1>1 DEF Excused
  <2> QED
    BY <1>1, <2>1, RaisesSafely DEF Save
<1>2. CASE CanMove(op.held.stage, new.stage) /\ CasHolds(op.held)
  <2>1. op.held = session /\ session' = new /\ op' = next
    BY <1>2, SafeTypes DEF Save
  <2>2. World' /\ ThreadOK(op)' /\ Honest
    BY <1>2, <2>1
  <2> QED
    BY <2>2, ServedStays DEF Safe, SafeInv
<1> QED
  BY <1>1, <1>2

\* The same for the two ways a coordinator saves.
LEMMA GoesOnSafely ==
  ASSUME SafeInv, Running, NEW new, NEW pc, SaveAndGo(new, pc), pc # "idle",
         CanMove(op.held.stage, new.stage) \/ Excused(op),
         UNCHANGED <<tasks, contracts, approved, lease, pending, client, context, begun, outrun>>,
         ASSUME op.held = session, session' = new, op'.held = new,
                op'.kind = op.kind, op'.pc = pc, op'.lease = op.lease,
                op'.reason = op.reason, op'.more = op.more
         PROVE  /\ World' /\ ThreadOK(op)'
                /\ new.stage = "completed" => AllCompleted(tasks)
  PROVE  Safe
<1> DEFINE next == [op EXCEPT !.pc = pc, !.held = new]
<1>1. /\ next.held = new /\ next.kind = op.kind /\ next.pc = pc
      /\ next.lease = op.lease /\ next.reason = op.reason /\ next.more = op.more
  BY SafeTypes DEF Op
<1>2. Save(new, next)
  BY DEF SaveAndGo
<1> HIDE DEF next
<1>3. ASSUME op.held = session, session' = new, op' = next,
             CanMove(session.stage, new.stage)
      PROVE  World' /\ ThreadOK(op)' /\ Honest
  <2>1. /\ World' /\ ThreadOK(op)'
        /\ new.stage = "completed" => AllCompleted(tasks)
    BY <1>1, <1>3
  <2> QED
    BY <1>1, <1>3, <2>1 DEF Honest
<1> QED
  BY <1>2, <1>3, SavesSafely

LEMMA EndsSafely ==
  ASSUME SafeInv, Running, NEW new, SaveAndEnd(new),
         CanMove(op.held.stage, new.stage) \/ Excused(op),
         UNCHANGED <<tasks, contracts, approved, lease, pending, client, context, begun, outrun>>,
         op.lease = 0 \/ op.kind # "execute-task",
         new.stage \notin OrphanStage,
         ASSUME op.held = session, session' = new
         PROVE  /\ World'
                /\ new.stage = "completed" => AllCompleted(tasks)
  PROVE  Safe
<1>1. Save(new, NoOp)
  BY DEF SaveAndEnd
<1>2. ASSUME op.held = session, session' = new, op' = NoOp
      PROVE  World' /\ ThreadOK(op)' /\ Honest
  <2>1. /\ World' /\ ThreadOK(op)'
        /\ new.stage = "completed" => AllCompleted(tasks)
    BY <1>2, IdleOK
  <2>2. ~(op.lease = 0 /\ lease'.status = "active" /\ lease'.id = op.lease)
    BY DEF SafeInv, World, Numbered, HasActiveLease
  <2> QED
    BY <1>2, <2>1, <2>2 DEF Honest
<1> QED
  BY <1>1, <1>2, SavesSafely

\* The stages and reasons that promise something of the other files.
Promised(s) == s.stage \in PlannedStage
               \/ (s.stage = "blocked" /\ s.reason \in PlannedReason)
TaskInHand(s) == s.stage \in {"task_preparation", "task_review", "executing"}
                 \/ (s.stage = "blocked" /\ s.reason \in {"spec", "plan", "review"})

\* A session that promises no more than the one it is made from, or nothing.
LEMMA WorldAfter ==
  ASSUME SafeInv, UNCHANGED <<tasks, contracts, approved, lease, context, begun, outrun>>,
         Promised(session') => Promised(session) /\ session'.snapshot = session.snapshot,
         TaskInHand(session') => TaskInHand(session) /\ session'.task = session.task,
         session'.stage # "executing",
         session'.reason # "review"
  PROVE  World'
  BY DEF SafeInv, World, Planned, Ordered, Alone, Refused, Numbered, BlockedBy,
         HasActiveLease, Promised, TaskInHand

LEMMA BlockedFields ==
  ASSUME NEW s \in Session, NEW why \in Reason
  PROVE  /\ Blocked(s, why).stage = "blocked" /\ Blocked(s, why).reason = why
         /\ Blocked(s, why).task = s.task
         /\ Blocked(s, why).snapshot = s.snapshot
<1> DEFINE m == MoveTo(s, "blocked")
<1>1. "blocked" \in Stage
  BY DEF Stage
<1>2. /\ m \in Session /\ m.stage = "blocked" /\ m.task = s.task
      /\ m.snapshot = s.snapshot
  BY <1>1, MoveToFields
<1>3. Blocked(s, why) = [m EXCEPT !.reason = why]
  BY DEF Blocked
<1> HIDE DEF m
<1> QED
  BY <1>2, <1>3 DEF Session

LEMMA TouchSame ==
  ASSUME NEW s \in Session
  PROVE  /\ Touch(s).stage = s.stage /\ Touch(s).task = s.task
         /\ Touch(s).snapshot = s.snapshot /\ Touch(s).reason = s.reason
         /\ Touch(s).rev = s.rev + 1
  BY DEF Touch, Session

LEMMA MoveToTaskFields ==
  ASSUME NEW s \in Session, NEW to \in Stage, NEW t
  PROVE  /\ MoveToTask(s, to, t).stage = to
         /\ MoveToTask(s, to, t).task = t
         /\ MoveToTask(s, to, t).snapshot = s.snapshot
         /\ MoveToTask(s, to, t).reason = NoReason
<1> DEFINE m == MoveTo(s, to)
<1>1. /\ m \in Session /\ m.stage = to /\ m.snapshot = s.snapshot
      /\ m.reason = NoReason
  BY MoveToFields
<1>2. MoveToTask(s, to, t) = [m EXCEPT !.task = t]
  BY DEF MoveToTask
<1> HIDE DEF m
<1> QED
  BY <1>1, <1>2 DEF Session

\* An action ends by blocking; the reason promises no more than the stage did.
LEMMA BlocksSafely ==
  ASSUME SafeInv, Running, NEW why \in Reason \ {"review"},
         SaveAndEnd(Blocked(op.held, why)),
         op.held.stage \notin {"completed", "blocked"}, op.lease = 0,
         why \in PlannedReason => op.held.stage \in PlannedStage,
         why \in {"spec", "plan"} => op.held.stage = "task_preparation",
         UNCHANGED <<tasks, contracts, approved, lease, pending, client, context, begun, outrun>>
  PROVE  Safe
<1> DEFINE new == Blocked(op.held, why)
<1>1. /\ new.stage = "blocked" /\ new.reason = why
      /\ new.task = op.held.task /\ new.snapshot = op.held.snapshot
  BY SafeTypes, BlockedFields
<1>2. SaveAndEnd(new)
  OBVIOUS
<1> HIDE DEF new
<1>3. CanMove(op.held.stage, new.stage)
  BY <1>1, SafeTypes DEF CanMove, Transition, Session
<1>4. ASSUME op.held = session, session' = new PROVE World'
  BY <1>1, <1>4, WorldAfter DEF Promised, TaskInHand, PlannedStage
<1> QED
  BY <1>1, <1>2, <1>3, <1>4, EndsSafely DEF OrphanStage

\* An action ends in a stage that waits for a person.
LEMMA RestsSafely ==
  ASSUME SafeInv, Running,
         NEW to \in {"research_review", "design_review", "ready",
                     "task_review", "amendment_review"},
         SaveAndEnd(MoveTo(op.held, to)), CanMove(op.held.stage, to), op.lease = 0,
         to \in PlannedStage => op.held.stage \in PlannedStage,
         to = "task_review" => op.held.stage = "task_preparation",
         UNCHANGED <<tasks, contracts, approved, lease, pending, client, context, begun, outrun>>
  PROVE  Safe
<1> DEFINE new == MoveTo(op.held, to)
<1>0. to \in Stage
  BY DEF Stage
<1>1. /\ new.stage = to /\ new.snapshot = op.held.snapshot
      /\ new.task = op.held.task /\ new.reason = NoReason
  BY <1>0, SafeTypes, MoveToFields
<1>2. SaveAndEnd(new)
  OBVIOUS
<1> HIDE DEF new
<1>3. ASSUME op.held = session, session' = new PROVE World'
  BY <1>1, <1>3, WorldAfter, NoReasonIsNone
     DEF Promised, TaskInHand, Reason
<1> QED
  BY <1>1, <1>2, <1>3, EndsSafely DEF OrphanStage

LEMMA ResearchAdmitsNoReason == RetriedReasons("research") = {NoReason}
  BY DEF RetriedReasons

-----------------------------------------------------------------------------
(* The actions of PreparationCoordinator. *)

LEMMA StartResearchIsSafe == ASSUME SafeInv, StartResearch PROVE Safe
<1> DEFINE new == MoveTo(op.held, "researching")
<1>1. /\ op.pc = "start" /\ op.kind = "research" /\ Running
      /\ UNCHANGED <<tasks, contracts, approved, lease, pending, client, context, begun, outrun>>
  BY DEF StartResearch, At, Running, taskFiles, elsewhere
<1>2. op.held.stage \in {"draft", "research_review"} /\ op.lease = 0
  BY <1>1 DEF SafeInv, ThreadOK, PlacedOp, StartStages
<1>3. CASE Fail
  <2>1. Excused(op)
    BY <1>2, SafeTypes DEF Excused, OrphanStage
  <2> QED
    BY <1>1, <1>2, <1>3, <2>1, RaisesSafely DEF Fail
<1>4. CASE SaveAndGo(new, "agent")
  <2>1. /\ new.stage = "researching" /\ new.snapshot = op.held.snapshot
        /\ new.task = op.held.task /\ new.reason = NoReason
    BY SafeTypes, Names, MoveToFields
  <2> HIDE DEF new
  <2>2. CanMove(op.held.stage, new.stage)
    BY <1>2, <2>1 DEF CanMove, Transition
  <2>3. ASSUME session' = new PROVE World'
    BY <1>1, <2>1, <2>3, WorldAfter, NoReasonIsNone
       DEF Promised, TaskInHand, PlannedStage, Reason
  <2>4. ASSUME session' = new, op'.held = new, op'.kind = op.kind,
               op'.pc = "agent", op'.lease = op.lease
        PROVE  ThreadOK(op)'
    BY <1>1, <1>2, <2>1, <2>4 DEF ThreadOK, PlacedOp, Follows, Compiling,
       Plain, Failing, Leased, Delivered, Judged, Stopped, Executing
  <2> QED
    BY <1>1, <1>4, <2>1, <2>2, <2>3, <2>4, GoesOnSafely
<1> QED
  BY <1>3, <1>4 DEF StartResearch

LEMMA EndResearchIsSafe == ASSUME SafeInv, EndResearch PROVE Safe
<1>1. /\ op.pc = "agent" /\ op.kind = "research" /\ Running
      /\ UNCHANGED <<tasks, contracts, approved, lease, pending, client, context, begun, outrun>>
  BY DEF EndResearch, At, Running, taskFiles, elsewhere
<1>2. op.held.stage = "researching" /\ op.lease = 0
  BY <1>1 DEF SafeInv, ThreadOK, PlacedOp, Executing
<1>3. CASE SaveAndEnd(Blocked(op.held, "research"))
  <2>1. "research" \in Reason
    BY DEF Reason
  <2> QED
    BY <1>1, <1>2, <1>3, <2>1, BlocksSafely DEF PlannedReason
<1>4. CASE SaveAndGo(MoveTo(op.held, "research_review"), "skip")
  <2> DEFINE new == MoveTo(op.held, "research_review")
  <2>1. /\ new.stage = "research_review" /\ new.snapshot = op.held.snapshot
        /\ new.task = op.held.task /\ new.reason = NoReason
    BY SafeTypes, Names, MoveToFields
  <2>2. SaveAndGo(new, "skip")
    BY <1>4
  <2> HIDE DEF new
  <2>3. CanMove(op.held.stage, new.stage)
    BY <1>2, <2>1 DEF CanMove, Transition
  <2>4. ASSUME session' = new PROVE World'
    BY <1>1, <2>1, <2>4, WorldAfter, NoReasonIsNone
       DEF Promised, TaskInHand, PlannedStage, Reason
  <2>5. ASSUME session' = new, op'.held = new, op'.kind = op.kind,
               op'.pc = "skip", op'.lease = op.lease
        PROVE  ThreadOK(op)'
    BY <1>1, <1>2, <2>1, <2>5 DEF ThreadOK, PlacedOp, Follows, Compiling,
       Plain, Failing, Leased, Delivered, Judged, Stopped, Executing
  <2> QED
    BY <1>1, <2>1, <2>2, <2>3, <2>4, <2>5, GoesOnSafely
<1>5. CASE SaveAndEnd(MoveTo(op.held, "research_review"))
  <2>1. CanMove("researching", "research_review")
    BY DEF CanMove, Transition
  <2> QED
    BY <1>1, <1>2, <1>5, <2>1, RestsSafely DEF PlannedStage
<1> QED
  BY <1>3, <1>4, <1>5 DEF EndResearch

LEMMA StartGrillIsSafe == ASSUME SafeInv, StartGrill PROVE Safe
<1> DEFINE new == MoveTo(op.held, "grilling")
<1>1. /\ op.pc = "start" /\ op.kind = "grill" /\ Running
      /\ SaveAndGo(new, "agent")
      /\ UNCHANGED <<tasks, contracts, approved, lease, pending, client, context, begun, outrun>>
  BY DEF StartGrill, At, Running, taskFiles, elsewhere
<1>2. op.held.stage \in {"research_review", "design_review"} /\ op.lease = 0
  BY <1>1 DEF SafeInv, ThreadOK, PlacedOp, StartStages
<1>3. /\ new.stage = "grilling" /\ new.snapshot = op.held.snapshot
      /\ new.task = op.held.task /\ new.reason = NoReason
  BY SafeTypes, Names, MoveToFields
<1> HIDE DEF new
<1>4. CanMove(op.held.stage, new.stage)
  BY <1>2, <1>3 DEF CanMove, Transition
<1>5. ASSUME session' = new PROVE World'
  BY <1>1, <1>3, <1>5, WorldAfter, NoReasonIsNone
     DEF Promised, TaskInHand, PlannedStage, Reason
<1>6. ASSUME session' = new, op'.held = new, op'.kind = op.kind,
             op'.pc = "agent", op'.lease = op.lease
      PROVE  ThreadOK(op)'
  BY <1>1, <1>2, <1>3, <1>6 DEF ThreadOK, PlacedOp, Follows, Compiling,
     Plain, Failing, Leased, Delivered, Judged, Stopped, Executing
<1> QED
  BY <1>1, <1>3, <1>4, <1>5, <1>6, GoesOnSafely

LEMMA EndGrillIsSafe == ASSUME SafeInv, EndGrill PROVE Safe
<1>1. /\ op.pc = "agent" /\ op.kind = "grill" /\ Running
      /\ UNCHANGED <<tasks, contracts, approved, lease, pending, client, context, begun, outrun>>
  BY DEF EndGrill, At, Running, taskFiles, elsewhere
<1>2. op.held.stage = "grilling" /\ op.lease = 0
  BY <1>1 DEF SafeInv, ThreadOK, PlacedOp, Executing
<1>3. CASE SaveAndEnd(Blocked(op.held, "grill"))
  <2>1. "grill" \in Reason
    BY DEF Reason
  <2> QED
    BY <1>1, <1>2, <1>3, <2>1, BlocksSafely DEF PlannedReason
<1>4. CASE SaveAndEnd(MoveTo(op.held, "design_review"))
  <2>1. CanMove("grilling", "design_review")
    BY DEF CanMove, Transition
  <2> QED
    BY <1>1, <1>2, <1>4, <2>1, RestsSafely DEF PlannedStage
<1> QED
  BY <1>3, <1>4 DEF EndGrill

LEMMA SkipGrillIsSafe == ASSUME SafeInv, SkipGrill PROVE Safe
<1>1. /\ \/ op.pc = "start" /\ op.kind = "skip-grill"
         \/ op.pc = "skip" /\ op.kind = "research"
      /\ Running
      /\ UNCHANGED <<tasks, contracts, approved, lease, pending, client, context, begun, outrun>>
  BY DEF SkipGrill, At, Running, taskFiles, elsewhere
<1>2. op.held.stage = "research_review" /\ op.lease = 0
  BY <1>1 DEF SafeInv, ThreadOK, PlacedOp, StartStages, Executing
<1>3. CASE Fail
  <2>1. Excused(op)
    BY <1>2, SafeTypes DEF Excused, OrphanStage
  <2> QED
    BY <1>1, <1>2, <1>3, <2>1, RaisesSafely DEF Fail
<1>4. CASE SaveAndEnd(MoveTo(op.held, "design_review"))
  <2>1. CanMove("research_review", "design_review")
    BY DEF CanMove, Transition
  <2> QED
    BY <1>1, <1>2, <1>4, <2>1, RestsSafely DEF PlannedStage
<1> QED
  BY <1>3, <1>4 DEF SkipGrill

\* The snapshot is replaced while the session promises nothing about it.
LEMMA ApproveDesignIsSafe == ASSUME SafeInv, ApproveDesign PROVE Safe
<1>1. /\ op.pc = "start" /\ op.kind = "approve-design" /\ Running
      /\ UNCHANGED <<session, tasks, contracts, lease, pending, client, context, begun, outrun>>
  BY DEF ApproveDesign, At, Running, taskFiles, elsewhere
<1>2. op.held.stage \in {"design_review", "amendment_review"} /\ op.lease = 0
  BY <1>1 DEF SafeInv, ThreadOK, PlacedOp, StartStages
<1>3. CASE UNCHANGED approved /\ op' = NoOp
  <2>1. Excused(op)
    BY <1>2, SafeTypes DEF Excused, OrphanStage
  <2> QED
    BY <1>1, <1>2, <1>3, <2>1, RaisesSafely
<1>4. CASE op' = [op EXCEPT !.pc = "approved"]
  <2>1. /\ op'.pc = "approved" /\ op'.kind = op.kind /\ op'.held = op.held
        /\ op'.lease = op.lease
    BY <1>4, SafeTypes DEF Op
  <2>2. Follows(op.held, session)
    BY <1>1 DEF SafeInv, ThreadOK
  <2>3. ~Promised(session)
    BY <1>2, <2>2 DEF Follows, Reviewable, Promised, PlannedStage
  <2>4. World'
    BY <1>1, <2>3 DEF SafeInv, World, Planned, Ordered, Alone, Refused,
       Numbered, BlockedBy, HasActiveLease, Promised
  <2>5. ThreadOK(op)'
    BY <1>1, <1>2, <2>1, <2>2 DEF ThreadOK, PlacedOp, Follows, Compiling,
       Plain, Failing, Leased, Delivered, Judged, Stopped, Executing
  <2>6. Honest
    BY <1>1, <2>1 DEF Honest
  <2> QED
    BY <1>1, <2>4, <2>5, <2>6, ServedStays DEF Safe, SafeInv
<1> QED
  BY <1>3, <1>4 DEF ApproveDesign

LEMMA StartStructureIsSafe == ASSUME SafeInv, StartStructure PROVE Safe
<1> DEFINE new == MoveToSnapshot(op.held, "structuring", approved)
<1>1. /\ op.pc = "approved" /\ op.kind = "approve-design" /\ Running
      /\ SaveAndGo(new, "agent")
      /\ UNCHANGED <<tasks, contracts, approved, lease, pending, client, context, begun, outrun>>
  BY DEF StartStructure, At, Running, taskFiles, elsewhere
<1>2. op.held.stage \in {"design_review", "amendment_review"} /\ op.lease = 0
  BY <1>1 DEF SafeInv, ThreadOK, PlacedOp, Executing
<1>3. /\ new.stage = "structuring" /\ new.snapshot = approved
      /\ new.reason = NoReason
  <2> DEFINE m == MoveTo(op.held, "structuring")
  <2>1. "structuring" \in Stage
    BY DEF Stage
  <2>2. m \in Session /\ m.stage = "structuring" /\ m.reason = NoReason
    BY <2>1, SafeTypes, MoveToFields
  <2>3. new = [m EXCEPT !.snapshot = approved]
    BY DEF MoveToSnapshot
  <2> QED
    BY <2>2, <2>3 DEF Session
<1> HIDE DEF new
<1>4. CanMove(op.held.stage, new.stage)
  BY <1>2, <1>3 DEF CanMove, Transition
<1>5. ASSUME session' = new PROVE World'
  BY <1>1, <1>3, <1>5, WorldAfter, NoReasonIsNone
     DEF Promised, TaskInHand, PlannedStage, Reason
<1>6. ASSUME session' = new, op'.held = new, op'.kind = op.kind,
             op'.pc = "agent", op'.lease = op.lease
      PROVE  ThreadOK(op)'
  BY <1>1, <1>2, <1>3, <1>6 DEF ThreadOK, PlacedOp, Follows, Compiling,
     Plain, Failing, Leased, Delivered, Judged, Stopped, Executing
<1> QED
  BY <1>1, <1>3, <1>4, <1>5, <1>6, GoesOnSafely

\* tasks.json is rewritten while no task is in hand and no verdict relied on.
LEMMA EndStructureIsSafe == ASSUME SafeInv, EndStructure PROVE Safe
<1>1. /\ op.pc = "agent" /\ op.kind = "approve-design" /\ Running
      /\ UNCHANGED <<contracts, approved, lease, pending, client, context, begun, outrun>>
  BY DEF EndStructure, At, Running, elsewhere
<1>2. op.held.stage = "structuring" /\ op.lease = 0
      /\ op.held.snapshot = approved /\ Follows(op.held, session)
  BY <1>1 DEF SafeInv, ThreadOK, PlacedOp, Compiling, Executing
<1>3. session.stage = "structuring"
  BY <1>2 DEF Follows, Reviewable
<1>4. ASSUME UNCHANGED session PROVE World'
  BY <1>1, <1>3, <1>4 DEF SafeInv, World, Planned, Ordered, Alone, Refused,
     Numbered, BlockedBy, HasActiveLease
<1>5. CASE UNCHANGED session /\ op' = [op EXCEPT !.pc = "compile"]
  <2>1. /\ op'.pc = "compile" /\ op'.kind = op.kind /\ op'.held = op.held
        /\ op'.lease = op.lease
    BY <1>5, SafeTypes DEF Op
  <2>2. ThreadOK(op)'
    BY <1>1, <1>2, <1>5, <2>1 DEF ThreadOK, PlacedOp, Follows, Compiling,
       Plain, Failing, Leased, Delivered, Judged, Stopped, Executing
  <2>3. Honest
    BY <1>1, <1>5, <2>1 DEF Honest
  <2> QED
    BY <1>1, <1>4, <1>5, <2>2, <2>3, ServedStays DEF Safe, SafeInv
<1>6. CASE SaveAndEnd(Blocked(op.held, "structure"))
  <2> DEFINE new == Blocked(op.held, "structure")
  <2>1. new.stage = "blocked" /\ new.reason = "structure"
    <3>1. "structure" \in Reason
      BY DEF Reason
    <3> QED
      BY <3>1, SafeTypes, BlockedFields
  <2> HIDE DEF new
  <2>2. CASE UNCHANGED session /\ op' = Raised
    <3>1. op' = NoOp
      BY <1>1, <2>2 DEF Raised
    <3>2. ~CasHolds(op.held)
      <4>1. CanMove(op.held.stage, "blocked")
        BY <1>2 DEF CanMove, Transition, Stage
      <4>2. session' = new => session'.stage = "blocked"
        BY <2>1
      <4>3. session'.stage = "structuring"
        BY <1>3, <2>2
      <4> QED
        BY <1>6, <2>1, <4>1, <4>2, <4>3 DEF SaveAndEnd, Save, new
    <3>3. ThreadOK(op)' /\ Honest
      BY <1>1, <2>2, <3>1, <3>2, IdleOK DEF Honest
    <3> QED
      BY <1>1, <1>4, <2>2, <3>3, ServedStays DEF Safe, SafeInv
  <2>3. CASE session' = new /\ op' = NoOp
    <3>1. World'
      BY <1>1, <2>1, <2>3 DEF SafeInv, World, Planned, Ordered, Alone, Refused,
         Numbered, BlockedBy, HasActiveLease, PlannedStage, PlannedReason
    <3>2. ThreadOK(op)' /\ Honest
      BY <1>1, <2>1, <2>3, IdleOK DEF Honest, OrphanStage
    <3> QED
      BY <1>1, <3>1, <3>2, ServedStays DEF Safe, SafeInv
  <2> QED
    BY <1>6, <2>2, <2>3 DEF SaveAndEnd, Save, new
<1> QED
  BY <1>5, <1>6 DEF EndStructure

\* The contracts are compiled from the snapshot the session already names.
LEMMA CompileContractsIsSafe == ASSUME SafeInv, CompileContracts PROVE Safe
<1>1. /\ op.pc = "compile" /\ op.kind = "approve-design" /\ Running
      /\ UNCHANGED <<tasks, approved, lease, pending, client, context, begun, outrun>>
  BY DEF CompileContracts, At, Running, taskFiles, elsewhere
<1>2. op.held.stage = "structuring" /\ op.lease = 0
      /\ op.held.snapshot = approved /\ Follows(op.held, session)
  BY <1>1 DEF SafeInv, ThreadOK, PlacedOp, Compiling, Executing
<1>3. session.stage = "structuring"
  BY <1>2 DEF Follows, Reviewable
<1>4. CASE contracts' = approved /\ SaveAndEnd(MoveTo(op.held, "workplan_review"))
  <2> DEFINE new == MoveTo(op.held, "workplan_review")
  <2>1. /\ new.stage = "workplan_review" /\ new.snapshot = op.held.snapshot
        /\ new.reason = NoReason
    BY SafeTypes, Names, MoveToFields
  <2> HIDE DEF new
  <2>2. CASE UNCHANGED session /\ op' = Raised
    <3>1. op' = NoOp
      BY <1>1, <2>2 DEF Raised
    <3>2. ~CasHolds(op.held)
      <4>1. CanMove(op.held.stage, "workplan_review")
        BY <1>2 DEF CanMove, Transition
      <4>2. session' # new
        BY <1>3, <2>1, <2>2
      <4> QED
        BY <1>4, <2>1, <4>1, <4>2 DEF SaveAndEnd, Save, new
    <3>3. ThreadOK(op)' /\ Honest
      BY <1>1, <2>2, <3>1, <3>2, IdleOK DEF Honest
    <3>4. World'
      BY <1>1, <1>3, <2>2 DEF SafeInv, World, Planned, Ordered, Alone, Refused,
         Numbered, BlockedBy, HasActiveLease, PlannedStage
    <3> QED
      BY <1>1, <3>3, <3>4, ServedStays DEF Safe, SafeInv
  <2>3. CASE session' = new /\ op' = NoOp
    <3>1. World'
      BY <1>1, <1>2, <1>4, <2>1, <2>3, NoReasonIsNone DEF SafeInv, World,
         Planned, Ordered, Alone, Refused, Numbered, BlockedBy, HasActiveLease,
         Reason
    <3>2. ThreadOK(op)' /\ Honest
      BY <1>1, <2>1, <2>3, IdleOK DEF Honest, OrphanStage
    <3> QED
      BY <1>1, <3>1, <3>2, ServedStays DEF Safe, SafeInv
  <2> QED
    BY <1>4, <2>2, <2>3 DEF SaveAndEnd, Save, new
<1>5. ASSUME NEW error \in {"workplan", "changeset"}, UNCHANGED contracts,
             SaveAndEnd(Blocked(op.held, error))
      PROVE  Safe
  <2>1. error \in Reason /\ error \notin PlannedReason
    BY DEF Reason, PlannedReason
  <2> QED
    BY <1>1, <1>2, <1>5, <2>1, BlocksSafely
<1> QED
  BY <1>4, <1>5 DEF CompileContracts

LEMMA ApproveExecutionIsSafe == ASSUME SafeInv, ApproveExecution PROVE Safe
<1>1. /\ op.pc = "start" /\ op.kind = "approve-execution" /\ Running
      /\ SaveAndEnd(MoveTo(op.held, "ready"))
      /\ UNCHANGED <<tasks, contracts, approved, lease, pending, client, context, begun, outrun>>
  BY DEF ApproveExecution, At, Running, taskFiles, elsewhere
<1>2. op.held.stage = "workplan_review" /\ op.lease = 0
  BY <1>1 DEF SafeInv, ThreadOK, PlacedOp, StartStages
<1>3. CanMove("workplan_review", "ready")
  BY DEF CanMove, Transition
<1> QED
  BY <1>1, <1>2, <1>3, RestsSafely DEF PlannedStage

LEMMA RequestAmendmentIsSafe == ASSUME SafeInv, RequestAmendment PROVE Safe
<1>1. /\ op.pc = "start" /\ op.kind = "request-amendment" /\ Running
      /\ SaveAndEnd(MoveTo(op.held, "amendment_review"))
      /\ UNCHANGED <<tasks, contracts, approved, lease, pending, client, context, begun, outrun>>
  BY DEF RequestAmendment, At, Running, taskFiles, elsewhere
<1>2. op.held.stage \in {"ready", "task_review", "paused"} /\ op.lease = 0
  BY <1>1 DEF SafeInv, ThreadOK, PlacedOp, StartStages
<1>3. CanMove(op.held.stage, "amendment_review")
  BY <1>2 DEF CanMove, Transition
<1> QED
  BY <1>1, <1>2, <1>3, RestsSafely DEF PlannedStage

\* Of the three steps back the table admits only the one to DRAFT.
LEMMA StepBackIsSafe == ASSUME SafeInv, StepBack PROVE Safe
<1> DEFINE back == MoveTo(op.held, BackTo(op.kind)[1])
           next == [op EXCEPT !.kind = BackTo(op.kind)[2], !.held = back]
<1>1. /\ op.pc = "start" /\ Running
      /\ op.kind \in {"retry-research", "retry-grill", "retry-design"}
      /\ Save(back, next)
      /\ UNCHANGED <<tasks, contracts, approved, lease, pending, client, context, begun, outrun>>
  BY DEF StepBack, At, Running, taskFiles, elsewhere
<1>2. op.held.stage = "blocked" /\ op.lease = 0
  BY <1>1 DEF SafeInv, ThreadOK, PlacedOp, StartStages
<1>3. BackTo(op.kind)[1] \in {"draft", "research_review", "design_review"}
      /\ (BackTo(op.kind)[1] = "draft" => BackTo(op.kind)[2] = "research")
  BY <1>1 DEF BackTo
<1>4. /\ back.stage = BackTo(op.kind)[1] /\ back.snapshot = op.held.snapshot
      /\ back.task = op.held.task /\ back.reason = NoReason
  <2>1. BackTo(op.kind)[1] \in Stage
    BY <1>3 DEF Stage
  <2> QED
    BY <2>1, SafeTypes, MoveToFields
<1> HIDE DEF back
<1>5. Excused(op)
  BY <1>2, SafeTypes DEF Excused, OrphanStage
<1>6. /\ next.pc = "start" /\ next.kind = BackTo(op.kind)[2]
      /\ next.held = back /\ next.lease = 0
  BY <1>1, <1>2, SafeTypes DEF Op
<1> HIDE DEF next
<1>7. ASSUME session' = back, op' = next, CanMove(op.held.stage, back.stage)
      PROVE  World' /\ ThreadOK(op)' /\ Honest
  <2>1. back.stage = "draft" /\ next.kind = "research"
    BY <1>2, <1>3, <1>4, <1>6, <1>7 DEF CanMove, Transition
  <2>2. World'
    BY <1>1, <1>4, <1>7, <2>1, WorldAfter, NoReasonIsNone
       DEF Promised, TaskInHand, PlannedStage, Reason
  <2>3. ThreadOK(op)'
    BY <1>4, <1>6, <1>7, <2>1, ResearchAdmitsNoReason DEF ThreadOK, PlacedOp, Follows, Compiling,
       Plain, Failing, Leased, Delivered, Judged, Stopped, Executing,
       StartStages, Kind, PreparationKind
  <2>4. Honest
    BY <1>1, <1>6, <1>7, <2>1 DEF Honest
  <2> QED
    BY <2>2, <2>3, <2>4
<1> QED
  BY <1>1, <1>5, <1>7, SavesSafely

LEMMA PreparationIsSafe == ASSUME SafeInv, PreparationStep PROVE Safe
  BY StartResearchIsSafe, EndResearchIsSafe, StartGrillIsSafe, EndGrillIsSafe,
     SkipGrillIsSafe, ApproveDesignIsSafe, StartStructureIsSafe,
     EndStructureIsSafe, CompileContractsIsSafe, ApproveExecutionIsSafe,
     RequestAmendmentIsSafe, StepBackIsSafe DEF PreparationStep

-----------------------------------------------------------------------------
(* The actions of TaskCoordinator. *)

LEMMA StartPreparationIsSafe == ASSUME SafeInv, StartPreparation PROVE Safe
<1>1. /\ op.pc = "start" /\ op.kind = "prepare-task" /\ Running
      /\ UNCHANGED <<tasks, contracts, approved, lease, pending, client, context, begun, outrun>>
  BY DEF StartPreparation, At, Running, designFiles, others
<1>2. op.held.stage = "ready" /\ op.lease = 0
  BY <1>1 DEF SafeInv, ThreadOK, PlacedOp, StartStages
<1>3. ASSUME NEW t \in Task, IsNextRunnable(t),
             SaveAndGo(MoveToTask(op.held, "task_preparation", t), "agent")
      PROVE  Safe
  <2> DEFINE new == MoveToTask(op.held, "task_preparation", t)
  <2>1. /\ new.stage = "task_preparation" /\ new.snapshot = op.held.snapshot
        /\ new.task = t /\ new.reason = NoReason
    BY SafeTypes, MoveToTaskFields DEF Stage
  <2>2. SaveAndGo(new, "agent")
    BY <1>3
  <2> HIDE DEF new
  <2>3. CanMove(op.held.stage, new.stage)
    BY <1>2, <2>1 DEF CanMove, Transition
  <2>4. t \notin Deps[t] /\ \A d \in Deps[t] : tasks[d] = "completed"
    BY <1>3 DEF IsNextRunnable, Runnable
  <2>5. ASSUME op.held = session, session' = new PROVE World'
    BY <1>1, <1>2, <2>1, <2>4, <2>5, NoReasonIsNone DEF SafeInv, World, Planned,
       Ordered, Alone, Refused, Numbered, BlockedBy, HasActiveLease,
       PlannedStage, Reason
  <2>6. ASSUME session' = new, op'.held = new, op'.kind = op.kind,
               op'.pc = "agent", op'.lease = op.lease
        PROVE  ThreadOK(op)'
    BY <1>1, <1>2, <2>1, <2>6 DEF ThreadOK, PlacedOp, Follows, Compiling,
       Plain, Failing, Leased, Delivered, Judged, Stopped, Executing
  <2> QED
    BY <1>1, <2>1, <2>2, <2>3, <2>5, <2>6, GoesOnSafely
<1>4. CASE AllCompleted(tasks) /\ SaveAndEnd(MoveTo(op.held, "completed"))
  <2> DEFINE new == MoveTo(op.held, "completed")
  <2>1. new.stage = "completed" /\ new.reason = NoReason
    BY SafeTypes, MoveToFields DEF Stage
  <2>2. SaveAndEnd(new)
    BY <1>4
  <2> HIDE DEF new
  <2>3. CanMove(op.held.stage, new.stage)
    BY <1>2, <2>1 DEF CanMove, Transition
  <2>4. ASSUME session' = new PROVE World'
    BY <1>1, <2>1, <2>4, WorldAfter, NoReasonIsNone
       DEF Promised, TaskInHand, PlannedStage, Reason
  <2> QED
    BY <1>1, <1>2, <1>4, <2>1, <2>2, <2>3, <2>4, EndsSafely DEF OrphanStage
<1>5. CASE SaveAndEnd(Blocked(op.held, "unrunnable"))
  <2>1. "unrunnable" \in Reason
    BY DEF Reason
  <2> QED
    BY <1>1, <1>2, <1>5, <2>1, BlocksSafely DEF PlannedStage
<1> QED
  BY <1>3, <1>4, <1>5 DEF StartPreparation

LEMMA RestartPreparationIsSafe == ASSUME SafeInv, RestartPreparation PROVE Safe
<1> DEFINE new == MoveTo(op.held, "task_preparation")
<1>1. /\ op.pc = "start" /\ op.kind = "retry-preparation" /\ Running
      /\ SaveAndGo(new, "agent")
      /\ UNCHANGED <<tasks, contracts, approved, lease, pending, client, context, begun, outrun>>
  BY DEF RestartPreparation, At, Running, designFiles, others
<1>2. op.held.stage = "blocked" /\ op.held.reason \in {"spec", "plan"} /\ op.lease = 0
  BY <1>1 DEF SafeInv, ThreadOK, PlacedOp, StartStages, RetriedReasons
<1>3. /\ new.stage = "task_preparation" /\ new.snapshot = op.held.snapshot
      /\ new.task = op.held.task /\ new.reason = NoReason
  BY SafeTypes, Names, MoveToFields
<1> HIDE DEF new
<1>4. CanMove(op.held.stage, new.stage)
  BY <1>2, <1>3 DEF CanMove, Transition
<1>5. ASSUME op.held = session, session' = new PROVE World'
  BY <1>1, <1>2, <1>3, <1>5, WorldAfter, NoReasonIsNone
     DEF Promised, TaskInHand, PlannedReason, Reason
<1>6. ASSUME session' = new, op'.held = new, op'.kind = op.kind,
             op'.pc = "agent", op'.lease = op.lease
      PROVE  ThreadOK(op)'
  BY <1>1, <1>2, <1>3, <1>6 DEF ThreadOK, PlacedOp, Follows, Compiling,
     Plain, Failing, Leased, Delivered, Judged, Stopped, Executing
<1> QED
  BY <1>1, <1>3, <1>4, <1>5, <1>6, GoesOnSafely

LEMMA EndPreparationIsSafe == ASSUME SafeInv, EndPreparation PROVE Safe
<1>1. /\ op.pc = "agent" /\ op.kind \in {"prepare-task", "retry-preparation"}
      /\ Running
      /\ UNCHANGED <<tasks, contracts, approved, lease, pending, client, context, begun, outrun>>
  BY DEF EndPreparation, At, Running, designFiles, others
<1>2. op.held.stage = "task_preparation" /\ op.lease = 0
  BY <1>1 DEF SafeInv, ThreadOK, PlacedOp, Executing
<1>3. CASE SaveAndEnd(MoveTo(op.held, "task_review"))
  <2>1. CanMove("task_preparation", "task_review")
    BY DEF CanMove, Transition
  <2> QED
    BY <1>1, <1>2, <1>3, <2>1, RestsSafely DEF PlannedStage
<1>4. ASSUME NEW block \in {"spec", "plan"}, SaveAndEnd(Blocked(op.held, block))
      PROVE  Safe
  <2>1. block \in Reason \ {"review"}
    BY DEF Reason
  <2> QED
    BY <1>1, <1>2, <1>4, <2>1, BlocksSafely DEF PlannedStage
<1> QED
  BY <1>3, <1>4 DEF EndPreparation

\* A thread that serves nothing names no lease.
LEMMA NoRequestOK == RequestOK(NoRequest) /\ ~InLock(NoRequest)
                     /\ NoRequest.pc = "idle"
  BY DEF RequestOK, NoRequest, InLock, Naming, Completing

\* The mission's lease is active: no request is inside the lock it would be in
\* to complete another, and ending it touches nothing a request relies on.
LEMMA LeaseEndsSafely ==
  ASSUME SafeInv, IsActive(op.lease), NEW status \in LeaseStatus \ {"active"},
         op.lease # 0,
         EndLease(status), UNCHANGED <<session, tasks, contracts, approved, client, context, begun, outrun>>
  PROVE  /\ World' /\ Served'
         /\ lease'.status = status /\ lease'.id = lease.id
         /\ lease'.task = lease.task /\ lease.actor = "mission"
<1>1. op.lease # 0 /\ lease.actor = "mission"
  BY DEF SafeInv, World, Numbered, IsActive, ThreadOK, Leased
<1>2. /\ lease'.status = status /\ lease'.id = lease.id
      /\ lease'.task = lease.task /\ lease'.actor = lease.actor
  BY SafeTypes DEF EndLease, Lease
<1>3. World'
  BY <1>2 DEF SafeInv, World, Planned, Ordered, Alone, Refused, Numbered,
     BlockedBy, HasActiveLease
<1>4. Served'
  <2>1. ASSUME NEW d \in Clients, Naming(client[d])
        PROVE  Foreign(client[d])'
    BY <1>1, <1>2, <2>1 DEF SafeInv, Served, RequestOK, Foreign, IsActive,
       HasActiveLease
  <2>2. ASSUME NEW d \in Clients, ~outrun, Completing(client[d])
        PROVE  FALSE
    <3>1. IsActive(client[d].lease.id) /\ Foreign(client[d])
      BY <2>2 DEF SafeInv, Served, RequestOK, Naming, Completing
    <3> QED
      BY <1>1, <3>1 DEF Foreign, IsActive
  <2> QED
    BY <2>1, <2>2 DEF SafeInv, Served, RequestOK, Naming, Completing
<1> QED
  BY <1>1, <1>2, <1>3, <1>4

\* Nothing changes but the lease, which begins after every lease anyone knows of;
\* where it takes the place of an active one, history says so.
LEMMA LeaseBeginsSafely ==
  ASSUME SafeInv, NEW entry, entry \in Lease, WriteLease(entry),
         UNCHANGED <<session, tasks, contracts, approved, context>>,
         \A d \in Clients : client'[d] \in {client[d], NoRequest}
  PROVE  /\ World' /\ Served'
         /\ lease' = [entry EXCEPT !.id = begun + 1] /\ lease'.id = begun + 1
         /\ lease'.actor = entry.actor /\ lease'.task = entry.task
         /\ lease'.snapshot = entry.snapshot /\ lease'.status = entry.status
         /\ begun' = begun + 1 /\ begun \in Nat
         /\ outrun => outrun'
         /\ ~outrun' => ~HasActiveLease
<1>1. begun \in Nat /\ lease.id \in Nat /\ lease.id <= begun
  BY SafeTypes DEF SafeInv, MissionInv, TypeOK, World, Numbered
<1>2. /\ lease'.id = begun + 1 /\ lease'.actor = entry.actor
      /\ lease'.task = entry.task /\ lease'.snapshot = entry.snapshot
      /\ lease'.status = entry.status
      /\ begun' = begun + 1 /\ (outrun => outrun')
  BY DEF WriteLease, Lease
<1>3. ~outrun' => ~outrun /\ MayBegin(entry.actor, entry.task)
  BY DEF WriteLease
<1>4. ~outrun' => /\ ~HasActiveLease
                 /\ (entry.actor # "mission" => session.stage = "ready")
  BY <1>3 DEF MayBegin
<1>5. World'
  <2>1. Planned' /\ Ordered' /\ Numbered'
    BY <1>1, <1>2 DEF SafeInv, World, Planned, Ordered, Numbered, BlockedBy
  <2>2. Alone'
    BY <1>2, <1>4 DEF Alone, BlockedBy
  <2>3. Refused'
    BY <1>2 DEF SafeInv, World, Refused, BlockedBy
  <2> QED
    BY <2>1, <2>2, <2>3 DEF World
<1>6. Served'
  <2>1. ASSUME NEW d \in Clients, Foreign(client[d]) PROVE Foreign(client[d])' \/ client'[d] = NoRequest
    <3>1. client[d].lease.id \in Nat /\ client[d].lease.id <= begun
      BY <2>1 DEF SafeInv, MissionInv, TypeOK, Request, Lease, Foreign
    <3> QED
      BY <1>1, <1>2, <2>1, <3>1 DEF Foreign, IsActive
  <2>2. ASSUME NEW d \in Clients, ~outrun', Completing(client[d]) PROVE FALSE
    BY <1>3, <1>4, <2>2 DEF SafeInv, Served, RequestOK, IsActive
  <2>3. ASSUME NEW d \in Clients PROVE RequestOK(client[d])'
    BY <2>1, <2>2, NoRequestOK
       DEF SafeInv, Served, RequestOK, Naming, Completing, NoRequest
  <2>4. ASSUME NEW d \in Clients, InLock(client'[d])
        PROVE  InLock(client[d])
    BY <2>4, NoRequestOK
  <2> QED
    BY <2>3, <2>4 DEF SafeInv, Served
<1> QED
  BY <1>1, <1>2, <1>4, <1>5, <1>6 DEF WriteLease

\* An execution starts: it asks for the lease, needs none, or is refused.
LEMMA RequestLeaseIsSafe == ASSUME SafeInv, RequestLease PROVE Safe
<1>1. /\ op.pc = "start" /\ op.kind \in Executing /\ Running
      /\ UNCHANGED <<session, tasks, contracts, approved, lease, pending, client, context, begun, outrun>>
  BY DEF RequestLease, At, Running, designFiles, others
<1>2. /\ op.lease = 0 /\ Follows(op.held, session)
      /\ \/ op.kind = "execute-task" /\ op.held.stage = "task_review"
         \/ /\ op.kind = "retry-review"
            /\ op.held.stage = "blocked" /\ op.held.reason = "review"
      /\ context.plan => op.kind # "retry-review"
  BY <1>1 DEF SafeInv, ThreadOK, PlacedOp, StartStages, RetriedReasons, Executing,
     Plain
<1>3. ASSUME NEW pc \in {"enter", "begin"},
             pc = "enter" <=> op.kind = "execute-task" /\ PlanMode,
             op' = [op EXCEPT !.pc = pc]
      PROVE  Safe
  <2>1. /\ op'.pc = pc /\ op'.kind = op.kind /\ op'.held = op.held
        /\ op'.lease = 0
    BY <1>2, <1>3, SafeTypes DEF Op
  <2>2. ThreadOK(op')
    <3>1. PlacedOp(op')
      BY <1>1, <1>2, <1>3, <2>1 DEF PlacedOp, Executing
    <3>2. Leased(op')
      BY <1>2, <1>3, <2>1 DEF Leased, SafeInv, ThreadOK, PlanMode
    <3>3. Plain(op')
      BY <1>2, <1>3, <2>1 DEF Plain, PlanMode
    <3> QED
      BY <1>2, <2>1, <3>1, <3>2, <3>3 DEF ThreadOK, Compiling, Failing,
         Delivered, Judged, Stopped
  <2> QED
    BY <1>1, <1>3, <2>1, <2>2, OpMovesSafely
<1>4. CASE op' = NoOp
  <2>1. Excused(op)
    BY <1>2, SafeTypes DEF Excused, OrphanStage
  <2> QED
    BY <1>1, <1>2, <1>4, <2>1, RaisesSafely
<1> QED
  BY <1>3, <1>4 DEF RequestLease

\* The lease the mission begins is its own, also where it is written too late.
LEMMA TakeLeaseIsSafe == ASSUME SafeInv, TakeLease PROVE Safe
<1>1. /\ op.pc = "begin" /\ op.kind \in Executing /\ Running
      /\ UNCHANGED <<session, tasks, contracts, approved, pending, client, context, crashes>>
      /\ WriteLease(Grant("mission", op.held.task))
      /\ op' = [op EXCEPT !.pc = "enter", !.lease = begun + 1]
  BY DEF TakeLease, At, Running, designFiles, OpTask
<1>2. /\ op.lease = 0 /\ Follows(op.held, session)
      /\ \/ op.kind = "execute-task" /\ op.held.stage = "task_review"
         \/ /\ op.kind = "retry-review"
            /\ op.held.stage = "blocked" /\ op.held.reason = "review"
      /\ ~context.plan
  BY <1>1 DEF SafeInv, ThreadOK, PlacedOp, Plain
<1>3. /\ op'.pc = "enter" /\ op'.kind = op.kind /\ op'.held = op.held
      /\ op'.lease = begun + 1
  BY <1>1, SafeTypes DEF Op
<1> DEFINE entry == Grant("mission", op.held.task)
<1>4. /\ entry \in Lease /\ entry.actor = "mission" /\ entry.task = op.held.task
      /\ entry.snapshot = contracts /\ entry.status = "active"
  BY SafeTypes DEF Grant, Lease, Actor, LeaseStatus, Session, SafeInv, MissionInv, TypeOK
<1>5. WriteLease(entry)
  BY <1>1
<1> HIDE DEF entry
<1>6. /\ World' /\ Served'
      /\ lease'.id = begun + 1 /\ lease'.actor = "mission"
      /\ lease'.task = op.held.task /\ lease'.snapshot = contracts
      /\ lease'.status = "active"
      /\ begun' = begun + 1 /\ begun \in Nat
  BY <1>1, <1>4, <1>5, LeaseBeginsSafely
<1>7. ThreadOK(op)'
  <2>1. PlacedOp(op')
    BY <1>1, <1>2, <1>3 DEF PlacedOp, Executing
  <2>2. Leased(op)'
    BY <1>1, <1>3, <1>6 DEF Leased, IsActive, HasActiveLease
  <2> QED
    BY <1>1, <1>2, <1>3, <2>1, <2>2 DEF ThreadOK, PlacedOp, Follows, Compiling,
       Plain, Failing, Delivered, Judged, Stopped
<1>8. Honest
  BY <1>1, <1>3, <1>6 DEF Honest
<1> QED
  BY <1>6, <1>7, <1>8 DEF Safe

LEMMA EnterExecutionIsSafe == ASSUME SafeInv, EnterExecution PROVE Safe
<1> DEFINE new == MoveTo(op.held, "executing")
<1>1. /\ op.pc = "enter" /\ op.kind \in Executing /\ Running
      /\ UNCHANGED <<tasks, contracts, approved, lease, pending, client, context, begun, outrun>>
  BY DEF EnterExecution, At, Running, designFiles, others
<1>2. \/ op.kind = "execute-task" /\ op.held.stage = "task_review"
      \/ /\ op.kind = "retry-review"
         /\ op.held.stage = "blocked" /\ op.held.reason = "review"
  BY <1>1 DEF SafeInv, ThreadOK, PlacedOp
<1>3. CASE op.kind = "retry-review" /\ UNCHANGED session /\ op' = Raised
  <2>1. Excused(op)
    BY <1>2, <1>3, SafeTypes DEF Excused, OrphanStage
  <2> QED
    BY <1>1, <1>3, <2>1, RaisesSafely
<1>4. /\ new.stage = "executing" /\ new.snapshot = op.held.snapshot
      /\ new.task = op.held.task /\ new.reason = NoReason
  BY SafeTypes, Names, MoveToFields
<1> HIDE DEF new
<1>5. CanMove(op.held.stage, new.stage)
  BY <1>2, <1>4 DEF CanMove, Transition
<1>6. /\ op.kind = "retry-review" \/ ~context.plan => op.lease # 0
      /\ context.plan => op.kind # "retry-review"
      /\ op.lease # 0 => op.lease <= begun
      /\ ~outrun /\ op.lease # 0 => IsActive(op.lease)
      /\ op.lease # 0 /\ IsActive(op.lease) =>
             /\ lease.actor = "mission"
             /\ lease.snapshot = contracts /\ lease.task = op.held.task
  BY <1>1 DEF SafeInv, ThreadOK, Leased, Plain, PlanMode
<1>7. ASSUME op.held = session, session' = new PROVE World'
  BY <1>1, <1>2, <1>4, <1>6, <1>7, NoReasonIsNone DEF SafeInv, World, Planned,
     Ordered, Alone, Refused, Numbered, BlockedBy, HasActiveLease,
     PlannedStage, PlannedReason, Reason
<1>8. ASSUME NEW pc \in {"reopen", "implement", "finish"}, SaveAndGo(new, pc),
             pc = "reopen" => op.kind = "retry-review",
             pc # "finish" => op.kind = "retry-review" \/ ~context.plan
      PROVE  Safe
  <2>1. ASSUME session' = new, op'.held = new, op'.kind = op.kind,
               op'.pc = pc, op'.lease = op.lease
        PROVE  ThreadOK(op)'
    BY <1>1, <1>4, <1>6, <1>8, <2>1 DEF ThreadOK, PlacedOp, Follows, Compiling,
       Plain, Failing, Leased, Delivered, Judged, Stopped, Executing, IsActive,
       HasActiveLease
  <2> QED
    BY <1>1, <1>4, <1>5, <1>7, <1>8, <2>1, GoesOnSafely
<1> QED
  BY <1>3, <1>8 DEF EnterExecution, new, PlanMode

\* While the phases run the session cannot have left EXECUTING.
LEMMA InExecution ==
  ASSUME SafeInv, Running, op.held.stage = "executing"
  PROVE  /\ session.stage = "executing" /\ session.task = op.held.task
         /\ op.held.task \in Task
         /\ op.held.task \notin Deps[op.held.task]
<1>1. session.stage = "executing" /\ session.task = op.held.task
  BY DEF SafeInv, ThreadOK, Running, Follows, Reviewable
<1> QED
  BY <1>1 DEF SafeInv, World, Ordered

\* The status of the task in hand changes under a session in EXECUTING.
LEMMA WorldDecides ==
  ASSUME SafeInv, Running, op.held.stage = "executing", NEW status,
         SetTask(op.held.task, status),
         UNCHANGED <<session, contracts, approved, lease, context, begun, outrun>>
  PROVE  World' /\ tasks'[op.held.task] = status
<1>1. /\ session.stage = "executing" /\ session.task = op.held.task
      /\ op.held.task \in Task /\ op.held.task \notin Deps[op.held.task]
  BY InExecution
<1>2. tasks' = [tasks EXCEPT ![op.held.task] = status]
  BY DEF SetTask
<1>3. tasks'[op.held.task] = status
      /\ \A t : t # op.held.task => tasks'[t] = tasks[t]
  BY <1>1, <1>2, SafeTypes
<1>4. World'
  BY <1>1, <1>3 DEF SafeInv, World, Planned, Ordered, Alone, Refused, Numbered,
     BlockedBy, HasActiveLease
<1> QED
  BY <1>3, <1>4

LEMMA ReopenTaskIsSafe == ASSUME SafeInv, ReopenTask PROVE Safe
<1>1. /\ op.pc = "reopen" /\ op.kind = "retry-review" /\ Running
      /\ op' = [op EXCEPT !.pc = "review"]
      /\ SetTask(op.held.task, "pending")
      /\ UNCHANGED <<session, contracts, approved, lease, pending, client, context, begun, outrun>>
  BY DEF ReopenTask, At, Running, OpTask, designFiles, others
<1>2. op.held.stage = "executing" /\ op.lease # 0 /\ Follows(op.held, session)
      /\ Leased(op) /\ Plain(op)
  BY <1>1 DEF SafeInv, ThreadOK, PlacedOp, Leased
<1>3. /\ op'.pc = "review" /\ op'.kind = op.kind /\ op'.held = op.held
      /\ op'.lease = op.lease
  BY <1>1, SafeTypes DEF Op
<1>4. World'
  BY <1>1, <1>2, WorldDecides
<1>5. ThreadOK(op)'
  BY <1>1, <1>2, <1>3 DEF ThreadOK, PlacedOp, Follows, Compiling, Plain,
     Failing, Leased, Delivered, Judged, Stopped, Executing, IsActive,
     HasActiveLease
<1>6. Honest
  BY <1>1, <1>3 DEF Honest
<1> QED
  BY <1>1, <1>4, <1>5, <1>6, ServedStays DEF Safe, SafeInv

LEMMA EndPhaseIsSafe == ASSUME SafeInv, EndPhase PROVE Safe
<1>1. /\ op.pc \in {"implement", "review"} /\ op.kind \in Executing /\ Running
      /\ UNCHANGED <<session, contracts, approved, lease, pending, client, context, begun, outrun>>
  BY DEF EndPhase, At, Running, designFiles, others
<1>2. op.held.stage = "executing" /\ op.lease # 0 /\ Follows(op.held, session)
      /\ Leased(op) /\ Plain(op)
  BY <1>1 DEF SafeInv, ThreadOK, PlacedOp, Leased
<1>3. CASE /\ SetTask(OpTask, "failed")
           /\ op' = [op EXCEPT !.pc = "report", !.reason = op.pc]
  <2>1. /\ op'.pc = "report" /\ op'.kind = op.kind /\ op'.held = op.held
        /\ op'.lease = op.lease
    BY <1>3, SafeTypes DEF Op
  <2>2. World' /\ tasks'[op.held.task] = "failed"
    BY <1>1, <1>2, <1>3, WorldDecides DEF OpTask
  <2>3. ThreadOK(op)'
    BY <1>1, <1>2, <2>1, <2>2 DEF ThreadOK, PlacedOp, Follows, Compiling, Plain,
       Failing, Leased, Delivered, Judged, Stopped, Executing, IsActive,
       HasActiveLease
  <2>4. Honest
    BY <1>1, <2>1 DEF Honest
  <2> QED
    BY <1>1, <2>2, <2>3, <2>4, ServedStays DEF Safe, SafeInv
<1>4. ASSUME NEW pc \in {"hand_off", "review", "finish"}, UNCHANGED tasks,
             op' = [op EXCEPT !.pc = pc]
      PROVE  Safe
  <2>1. /\ op'.pc = pc /\ op'.kind = op.kind /\ op'.held = op.held
        /\ op'.lease = op.lease
    BY <1>4, SafeTypes DEF Op
  <2>2. ThreadOK(op')
    BY <1>1, <1>2, <1>4, <2>1 DEF ThreadOK, PlacedOp, Compiling, Plain, Failing,
       Leased, Delivered, Judged, Stopped, Executing
  <2> QED
    BY <1>1, <1>4, <2>1, <2>2, OpMovesSafely
<1> QED
  BY <1>3, <1>4 DEF EndPhase

\* report_blocker and propose_amendment: the lease is still the action's own.
LEMMA ClosesSafely ==
  ASSUME SafeInv, Running, op.kind \in Executing, op.held.stage = "executing",
         NEW status \in {"blocked", "amendment_requested"},
         NEW pc \in {"block", "pause"}, pc = "block" => op.pc = "report",
         CloseLease(status, pc),
         UNCHANGED <<session, tasks, contracts, approved, pending, client, context, begun, outrun>>
  PROVE  Safe
<1>1. /\ Follows(op.held, session) /\ Plain(op)
      /\ pc = "block" => ~context.plan /\ (~outrun => tasks[op.held.task] = "failed")
  BY DEF SafeInv, ThreadOK, Leased, Running, Plain, Failing
<1>2. CASE op.lease = 0
  <2>1. /\ op'.pc = pc /\ op'.kind = op.kind /\ op'.held = op.held
        /\ op'.lease = 0 /\ UNCHANGED lease
    BY <1>2, SafeTypes DEF CloseLease, Op
  <2>2. ThreadOK(op')
    BY <1>1, <2>1 DEF ThreadOK, PlacedOp, Compiling, Plain, Failing, Leased,
       Delivered, Judged, Stopped, Executing
  <2> QED
    BY <2>1, <2>2, OpMovesSafely
<1>3. CASE op.lease # 0 /\ IsActive(op.lease)
  <2>1. /\ EndLease(status)
        /\ op'.pc = pc /\ op'.kind = op.kind /\ op'.held = op.held
        /\ op'.lease = 0
    BY <1>1, <1>3, SafeTypes DEF CloseLease, Op
  <2>2. World' /\ Served' /\ lease'.status = status
    BY <1>1, <1>3, <2>1, LeaseEndsSafely DEF LeaseStatus
  <2>3. ThreadOK(op)'
    BY <1>1, <2>1 DEF ThreadOK, PlacedOp, Follows, Compiling, Plain, Failing,
       Leased, Delivered, Judged, Stopped, Executing
  <2>4. Honest
    BY <2>1, <2>2 DEF Honest
  <2> QED
    BY <2>2, <2>3, <2>4 DEF Safe
<1>4. CASE op.lease # 0 /\ ~IsActive(op.lease)
  <2>1. UNCHANGED lease /\ op' = Raised /\ Excused(op)
    BY <1>4 DEF CloseLease, Excused
  <2> QED
    BY <2>1, RaisesSafely
<1> QED
  BY <1>2, <1>3, <1>4

LEMMA ReportBlockerIsSafe == ASSUME SafeInv, ReportBlocker PROVE Safe
<1>1. /\ op.pc = "report" /\ op.kind \in Executing /\ Running
      /\ CloseLease("blocked", "block")
      /\ UNCHANGED <<session, tasks, contracts, approved, pending, client, context, begun, outrun>>
  BY DEF ReportBlocker, At, Running, designFiles, others
<1>2. op.held.stage = "executing"
  BY <1>1 DEF SafeInv, ThreadOK, PlacedOp
<1> QED
  BY <1>1, <1>2, ClosesSafely

LEMMA HandOffLeaseIsSafe == ASSUME SafeInv, HandOffLease PROVE Safe
<1>1. /\ op.pc = "hand_off" /\ op.kind \in Executing /\ Running
      /\ CloseLease("amendment_requested", "pause")
      /\ UNCHANGED <<session, tasks, contracts, approved, pending, client, context, begun, outrun>>
  BY DEF HandOffLease, At, Running, designFiles, others
<1>2. op.held.stage = "executing"
  BY <1>1 DEF SafeInv, ThreadOK, PlacedOp
<1> QED
  BY <1>1, <1>2, ClosesSafely

\* Blocking keeps what was promised; the task of a review is failed.
LEMMA WorldBlocks ==
  ASSUME SafeInv, op.pc \in {"block", "refuse"}, op.held = session,
         session' = Blocked(op.held, op.reason),
         UNCHANGED <<tasks, contracts, approved, lease, context, begun, outrun>>
  PROVE  World'
<1>1. op.reason \in Reason
  BY DEF SafeInv, MissionInv, ReasonedOp
<1>2. /\ session'.stage = "blocked" /\ session'.reason = op.reason
      /\ session'.task = session.task /\ session'.snapshot = session.snapshot
  BY <1>1, SafeTypes, BlockedFields
<1>3. session.stage \in {"executing", "reconciling"}
      /\ (op.reason # "reconcile" =>
             /\ session.stage = "executing"
             /\ ~outrun => tasks[session.task] = "failed")
      /\ (context.plan => op.reason # "review")
  BY DEF SafeInv, ThreadOK, PlacedOp, Failing, Plain
<1> QED
  BY <1>2, <1>3 DEF SafeInv, World, Planned, Ordered, Alone, Refused, Numbered,
     BlockedBy, HasActiveLease, PlannedStage

LEMMA BlockExecutionIsSafe == ASSUME SafeInv, BlockExecution PROVE Safe
<1> DEFINE new == Blocked(op.held, op.reason)
<1>1. /\ op.pc = "block" /\ op.kind \in Executing /\ Running /\ SaveAndEnd(new)
      /\ UNCHANGED <<tasks, contracts, approved, lease, pending, client, context, begun, outrun>>
  BY DEF BlockExecution, At, Running, designFiles, others
<1>2. op.held.stage = "executing" /\ op.lease = 0 /\ op.reason \in Reason
  BY <1>1 DEF SafeInv, MissionInv, ReasonedOp, ThreadOK, PlacedOp, Leased
<1>3. new.stage = "blocked"
  BY <1>2, SafeTypes, BlockedFields
<1>4. ASSUME op.held = session, session' = new PROVE World'
  BY <1>1, <1>4, WorldBlocks
<1> HIDE DEF new
<1>5. CanMove(op.held.stage, new.stage)
  BY <1>2, <1>3 DEF CanMove, Transition, Stage
<1> QED
  BY <1>1, <1>2, <1>3, <1>4, <1>5, EndsSafely DEF OrphanStage

LEMMA RefuseTaskIsSafe == ASSUME SafeInv, RefuseTask PROVE Safe
<1> DEFINE new == Blocked(op.held, op.reason)
<1>1. /\ op.pc = "refuse" /\ op.kind \in Executing /\ Running
      /\ SaveAndGo(new, "close")
      /\ UNCHANGED <<tasks, contracts, approved, lease, pending, client, context, begun, outrun>>
  BY DEF RefuseTask, At, Running, designFiles, others
<1>2. op.held.stage \in {"executing", "reconciling"} /\ op.reason \in Reason
      /\ Leased(op) /\ Plain(op)
  BY <1>1 DEF SafeInv, MissionInv, ReasonedOp, ThreadOK, PlacedOp
<1>3. new.stage = "blocked" /\ new.snapshot = op.held.snapshot
  BY <1>2, SafeTypes, BlockedFields
<1>4. ASSUME op.held = session, session' = new PROVE World'
  BY <1>1, <1>4, WorldBlocks
<1> HIDE DEF new
<1>5. CanMove(op.held.stage, new.stage)
  BY <1>2, <1>3 DEF CanMove, Transition, Stage
<1>6. ASSUME session' = new, op'.held = new, op'.kind = op.kind,
             op'.pc = "close", op'.lease = op.lease
      PROVE  ThreadOK(op)'
  BY <1>1, <1>2, <1>3, <1>6 DEF ThreadOK, PlacedOp, Follows, Compiling, Plain,
     Failing, Leased, Delivered, Judged, Stopped, Executing, IsActive,
     HasActiveLease
<1> QED
  BY <1>1, <1>3, <1>4, <1>5, <1>6, GoesOnSafely

\* From RECONCILING there is no transition to PAUSED: the save raises.
LEMMA PauseIsSafe == ASSUME SafeInv, Pause PROVE Safe
<1> DEFINE new == MoveTo(op.held, "paused")
<1>1. /\ op.pc = "pause" /\ op.kind \in Executing /\ Running
      /\ SaveAndGo(new, "paused")
      /\ UNCHANGED <<tasks, contracts, approved, lease, pending, client, context, begun, outrun>>
  BY DEF Pause, At, Running, designFiles, others
<1>2. op.held.stage \in {"executing", "reconciling"} /\ Leased(op) /\ Plain(op)
      /\ Delivered(op) /\ (op.held.stage = "reconciling" => pending)
  BY <1>1 DEF SafeInv, ThreadOK, PlacedOp, Stopped
<1>3. /\ new.stage = "paused" /\ new.snapshot = op.held.snapshot
      /\ new.task = op.held.task /\ new.reason = NoReason
  BY SafeTypes, Names, MoveToFields
<1> HIDE DEF new
<1>4. CanMove(op.held.stage, new.stage) \/ Excused(op)
  BY <1>2, <1>3, SafeTypes DEF CanMove, Transition, Excused
<1>5. ASSUME op.held = session, session' = new PROVE World'
  BY <1>1, <1>2, <1>3, <1>5, WorldAfter, NoReasonIsNone
     DEF Promised, TaskInHand, PlannedStage, Reason
<1>6. ASSUME session' = new, op'.held = new, op'.kind = op.kind,
             op'.pc = "paused", op'.lease = op.lease
      PROVE  ThreadOK(op)'
  BY <1>1, <1>2, <1>3, <1>6 DEF ThreadOK, PlacedOp, Follows, Compiling, Plain,
     Failing, Leased, Delivered, Judged, Stopped, Executing, IsActive,
     HasActiveLease
<1> QED
  BY <1>1, <1>3, <1>4, <1>5, <1>6, GoesOnSafely

LEMMA EnterAmendmentIsSafe == ASSUME SafeInv, EnterAmendment PROVE Safe
<1> DEFINE new == MoveTo(op.held, "amendment_review")
<1>1. /\ op.pc = "paused" /\ op.kind \in Executing /\ Running
      /\ SaveAndGo(new, "consume")
      /\ UNCHANGED <<tasks, contracts, approved, lease, pending, client, context, begun, outrun>>
  BY DEF EnterAmendment, At, Running, designFiles, others
<1>2. op.held.stage = "paused" /\ Leased(op) /\ Plain(op) /\ Delivered(op)
  BY <1>1 DEF SafeInv, ThreadOK, PlacedOp
<1>3. /\ new.stage = "amendment_review" /\ new.snapshot = op.held.snapshot
      /\ new.task = op.held.task /\ new.reason = NoReason
  BY SafeTypes, Names, MoveToFields
<1> HIDE DEF new
<1>4. CanMove(op.held.stage, new.stage)
  BY <1>2, <1>3 DEF CanMove, Transition
<1>5. ASSUME session' = new PROVE World'
  BY <1>1, <1>3, <1>5, WorldAfter, NoReasonIsNone
     DEF Promised, TaskInHand, PlannedStage, Reason
<1>6. ASSUME session' = new, op'.held = new, op'.kind = op.kind,
             op'.pc = "consume", op'.lease = op.lease
      PROVE  ThreadOK(op)'
  BY <1>1, <1>2, <1>3, <1>6 DEF ThreadOK, PlacedOp, Follows, Compiling, Plain,
     Failing, Leased, Delivered, Judged, Stopped, Executing, IsActive,
     HasActiveLease
<1> QED
  BY <1>1, <1>3, <1>4, <1>5, <1>6, GoesOnSafely

LEMMA ConsumeAmendmentIsSafe == ASSUME SafeInv, ConsumeAmendment PROVE Safe
<1>1. /\ op.pc = "consume" /\ op.kind \in Executing /\ Running
      /\ op' = [op EXCEPT !.pc = "close"]
      /\ UNCHANGED <<session, tasks, contracts, approved, lease, client, context, begun, outrun>>
  BY DEF ConsumeAmendment, At, Running, designFiles, others
<1>2. op.held.stage = "amendment_review" /\ Leased(op) /\ Plain(op)
      /\ Delivered(op) /\ Follows(op.held, session)
  BY <1>1 DEF SafeInv, ThreadOK, PlacedOp
<1>3. /\ op'.pc = "close" /\ op'.kind = op.kind /\ op'.held = op.held
      /\ op'.lease = op.lease
  BY <1>1, SafeTypes DEF Op
<1>4. session.stage = "amendment_review"
  BY <1>2 DEF Follows, Reviewable
<1>5. ThreadOK(op)'
  BY <1>1, <1>2, <1>3 DEF ThreadOK, PlacedOp, Follows, Compiling, Plain,
     Failing, Leased, Delivered, Judged, Stopped, Executing, IsActive,
     HasActiveLease
<1>6. Honest
  BY <1>1, <1>3, <1>4 DEF Honest
<1> QED
  BY <1>1, <1>5, <1>6, WorldStays, ServedStays DEF Safe, SafeInv

LEMMA DecideTaskIsSafe == ASSUME SafeInv, DecideTask PROVE Safe
<1>1. /\ op.pc = "finish" /\ op.kind \in Executing /\ Running
      /\ UNCHANGED <<session, contracts, approved, lease, pending, client, context, begun, outrun>>
  BY DEF DecideTask, At, Running, designFiles, others
<1>2. op.held.stage = "executing" /\ Follows(op.held, session)
      /\ Leased(op) /\ Plain(op)
  BY <1>1 DEF SafeInv, ThreadOK, PlacedOp
<1>3. CASE /\ SetTask(OpTask, "completed")
           /\ op' = [op EXCEPT !.pc = "boundary"]
  <2>1. /\ op'.pc = "boundary" /\ op'.kind = op.kind /\ op'.held = op.held
        /\ op'.lease = op.lease
    BY <1>3, SafeTypes DEF Op
  <2>2. World' /\ tasks'[op.held.task] = "completed"
    BY <1>1, <1>2, <1>3, WorldDecides DEF OpTask
  <2>3. ThreadOK(op)'
    BY <1>1, <1>2, <2>1, <2>2 DEF ThreadOK, PlacedOp, Follows, Compiling, Plain,
       Failing, Leased, Delivered, Judged, Stopped, Executing, IsActive,
       HasActiveLease
  <2>4. Honest
    BY <1>1, <2>1 DEF Honest
  <2> QED
    BY <1>1, <2>2, <2>3, <2>4, ServedStays DEF Safe, SafeInv
<1>4. ASSUME NEW block \in Refusals, SetTask(OpTask, "failed"),
             op' = [op EXCEPT !.pc = "refuse", !.reason = block]
      PROVE  Safe
  <2>1. /\ op'.pc = "refuse" /\ op'.kind = op.kind /\ op'.held = op.held
        /\ op'.lease = op.lease
    BY <1>4, SafeTypes DEF Op
  <2>2. World' /\ tasks'[op.held.task] = "failed"
    BY <1>1, <1>2, <1>4, WorldDecides DEF OpTask
  <2>3. ~context.plan
    BY <1>4 DEF Refusals, PlanMode
  <2>4. ThreadOK(op)'
    BY <1>1, <1>2, <2>1, <2>2, <2>3 DEF ThreadOK, PlacedOp, Follows, Compiling,
       Plain, Failing, Leased, Delivered, Judged, Stopped, Executing, IsActive,
       HasActiveLease
  <2>5. Honest
    BY <1>1, <2>1 DEF Honest
  <2> QED
    BY <1>1, <2>2, <2>4, <2>5, ServedStays DEF Safe, SafeInv
<1> QED
  BY <1>3, <1>4 DEF DecideTask

LEMMA BoundaryIsSafe == ASSUME SafeInv, Boundary PROVE Safe
<1>1. /\ op.pc = "boundary" /\ op.kind \in Executing /\ Running
      /\ UNCHANGED <<tasks, contracts, approved, lease, pending, client, context, begun, outrun>>
  BY DEF Boundary, At, Running, designFiles, others
<1>2. op.held.stage = "executing" /\ Follows(op.held, session)
      /\ Leased(op) /\ Plain(op) /\ Delivered(op)
  BY <1>1 DEF SafeInv, ThreadOK, PlacedOp
<1>3. CASE UNCHANGED session /\ op' = [op EXCEPT !.pc = "pause"]
  <2>1. /\ op'.pc = "pause" /\ op'.kind = op.kind /\ op'.held = op.held
        /\ op'.lease = op.lease
    BY <1>3, SafeTypes DEF Op
  <2>2. ThreadOK(op')
    BY <1>1, <1>2, <2>1 DEF ThreadOK, PlacedOp, Compiling, Plain, Failing,
       Leased, Delivered, Judged, Stopped, Executing
  <2> QED
    BY <1>1, <1>3, <2>1, <2>2, OpMovesSafely
<1>4. CASE SaveAndGo(MoveTo(op.held, "reconciling"), "reconcile")
  <2> DEFINE new == MoveTo(op.held, "reconciling")
  <2>1. /\ new.stage = "reconciling" /\ new.snapshot = op.held.snapshot
        /\ new.task = op.held.task /\ new.reason = NoReason
    BY SafeTypes, Names, MoveToFields
  <2>2. SaveAndGo(new, "reconcile")
    BY <1>4
  <2> HIDE DEF new
  <2>3. CanMove(op.held.stage, new.stage)
    BY <1>2, <2>1 DEF CanMove, Transition
  <2>4. ASSUME op.held = session, session' = new PROVE World'
    BY <1>1, <1>2, <2>1, <2>4, WorldAfter, NoReasonIsNone
       DEF Promised, TaskInHand, PlannedStage, Reason
  <2>5. ASSUME session' = new, op'.held = new, op'.kind = op.kind,
               op'.pc = "reconcile", op'.lease = op.lease
        PROVE  ThreadOK(op)'
    BY <1>1, <1>2, <2>1, <2>5 DEF ThreadOK, PlacedOp, Follows, Compiling, Plain,
       Failing, Leased, Delivered, Judged, Stopped, Executing, IsActive,
       HasActiveLease
  <2> QED
    BY <1>1, <2>1, <2>2, <2>3, <2>4, <2>5, GoesOnSafely
<1> QED
  BY <1>3, <1>4 DEF Boundary

LEMMA ReconcileIsSafe == ASSUME SafeInv, Reconcile PROVE Safe
<1>1. /\ op.pc = "reconcile" /\ op.kind \in Executing /\ Running
      /\ UNCHANGED <<session, tasks, contracts, approved, lease, pending, client, context, begun, outrun>>
  BY DEF Reconcile, At, Running, designFiles, others
<1>2. op.held.stage = "reconciling" /\ Follows(op.held, session)
      /\ Leased(op) /\ Plain(op) /\ Delivered(op)
  BY <1>1 DEF SafeInv, ThreadOK, PlacedOp
<1>3. PICK verdict \in {NoReason, "diverged", "gated"} :
        /\ (\E t \in Task : tasks[t] = "failed") => verdict # NoReason
        /\ op' = [op EXCEPT !.pc = "judged", !.reason = verdict,
                            !.more = \E t \in Task : tasks[t] = "pending"]
  BY DEF Reconcile
<1>4. /\ op'.pc = "judged" /\ op'.kind = op.kind /\ op'.held = op.held
      /\ op'.lease = op.lease /\ op'.reason = verdict
      /\ op'.more = \E t \in Task : tasks[t] = "pending"
  BY <1>3, SafeTypes DEF Op
<1>5. op'.reason = NoReason /\ ~op'.more => AllCompleted(tasks)
  <2>1. SUFFICES ASSUME op'.reason = NoReason, ~op'.more, NEW t \in Task
                 PROVE  tasks[t] = "completed"
    BY DEF AllCompleted
  <2>2. tasks[t] # "pending"
    BY <1>4, <2>1
  <2>3. tasks[t] # "failed"
    BY <1>3, <1>4, <2>1
  <2> QED
    BY <2>2, <2>3, SafeTypes DEF TaskStatus
<1>6. ThreadOK(op')
  BY <1>1, <1>2, <1>3, <1>4, <1>5 DEF ThreadOK, PlacedOp, Compiling, Plain,
     Failing, Leased, Delivered, Judged, Stopped, Executing
<1> QED
  BY <1>1, <1>4, <1>6, OpMovesSafely

LEMMA JudgeIsSafe == ASSUME SafeInv, Judge PROVE Safe
<1>1. /\ op.pc = "judged" /\ op.kind \in Executing /\ Running
      /\ UNCHANGED <<contracts, approved, lease, pending, client, context, begun, outrun>>
  BY DEF Judge, At, Running, designFiles, others
<1>2. op.held.stage = "reconciling" /\ Follows(op.held, session)
      /\ Leased(op) /\ Plain(op) /\ Delivered(op)
      /\ op.reason \in {NoReason, "diverged", "gated"}
      /\ (op.reason = NoReason /\ ~op.more => AllCompleted(tasks))
  BY <1>1 DEF SafeInv, ThreadOK, PlacedOp, Judged
<1>3. ASSUME NEW pc \in {"pause", "reported"}, UNCHANGED <<session, tasks>>,
             op' = [op EXCEPT !.pc = pc], pc = "pause" => pending,
             pc = "reported" => op.reason # "diverged" /\ ~op.more
      PROVE  Safe
  <2>1. /\ op'.pc = pc /\ op'.kind = op.kind /\ op'.held = op.held
        /\ op'.lease = op.lease /\ op'.reason = op.reason
    BY <1>3, SafeTypes DEF Op
  <2>2. ThreadOK(op')
    BY <1>1, <1>2, <1>3, <2>1 DEF ThreadOK, PlacedOp, Compiling, Plain, Failing,
       Leased, Delivered, Judged, Stopped, Executing
  <2> QED
    BY <1>1, <1>3, <2>1, <2>2, OpMovesSafely
<1>4. CASE SetTask(OpTask, "failed") /\ BlockDiverged /\ UNCHANGED session
  <2>1. /\ op'.pc = "refuse" /\ op'.kind = op.kind /\ op'.held = op.held
        /\ op'.lease = op.lease /\ op'.reason = "reconcile"
    BY <1>4, SafeTypes DEF BlockDiverged, Op
  <2>2. session.stage \in {"reconciling", "completed"}
    BY <1>2 DEF Follows, Reviewable
  <2>3. World'
    BY <1>1, <1>4, <2>2 DEF SafeInv, World, Planned, Ordered, Alone, Refused,
       Numbered, BlockedBy, HasActiveLease
  <2>4. ThreadOK(op)'
    BY <1>1, <1>2, <1>4, <2>1 DEF ThreadOK, PlacedOp, Follows, Compiling, Plain,
       Failing, Leased, Delivered, Judged, Stopped, Executing, IsActive,
       HasActiveLease
  <2>5. Honest
    BY <1>1, <1>4, <2>1 DEF Honest
  <2> QED
    BY <1>1, <2>3, <2>4, <2>5, ServedStays DEF Safe, SafeInv
<1>5. CASE UNCHANGED tasks /\ SaveAndGo(MoveToTask(op.held, "ready", NoTask), "close")
  <2> DEFINE new == MoveToTask(op.held, "ready", NoTask)
  <2>1. /\ new.stage = "ready" /\ new.snapshot = op.held.snapshot
        /\ new.reason = NoReason
    BY SafeTypes, MoveToTaskFields DEF Stage
  <2>2. SaveAndGo(new, "close")
    BY <1>5
  <2> HIDE DEF new
  <2>3. CanMove(op.held.stage, new.stage)
    BY <1>2, <2>1 DEF CanMove, Transition
  <2>4. ASSUME op.held = session, session' = new PROVE World'
    BY <1>1, <1>2, <1>5, <2>1, <2>4, WorldAfter, NoReasonIsNone
       DEF Promised, TaskInHand, PlannedStage, Reason
  <2>5. ASSUME session' = new, op'.held = new, op'.kind = op.kind,
               op'.pc = "close", op'.lease = op.lease
        PROVE  ThreadOK(op)'
    BY <1>1, <1>2, <1>5, <2>1, <2>5 DEF ThreadOK, PlacedOp, Follows, Compiling,
       Plain, Failing, Leased, Delivered, Judged, Stopped, Executing, IsActive,
       HasActiveLease
  <2> QED
    BY <1>1, <1>5, <2>1, <2>2, <2>3, <2>4, <2>5, GoesOnSafely
<1> QED
  BY <1>3, <1>4, <1>5 DEF Judge

LEMMA ConcludeIsSafe == ASSUME SafeInv, Conclude PROVE Safe
<1>1. /\ op.pc = "reported" /\ op.kind \in Executing /\ Running
      /\ UNCHANGED <<tasks, contracts, approved, lease, pending, client, context, begun, outrun>>
  BY DEF Conclude, At, Running, designFiles, others
<1>2. op.held.stage = "reconciling" /\ Follows(op.held, session)
      /\ Leased(op) /\ Plain(op) /\ Delivered(op)
      /\ op.reason \in {NoReason, "gated"}
      /\ (op.reason = NoReason => AllCompleted(tasks))
  BY <1>1 DEF SafeInv, ThreadOK, PlacedOp, Judged
<1>3. CASE pending /\ UNCHANGED session /\ op' = [op EXCEPT !.pc = "pause"]
  <2>1. /\ op'.pc = "pause" /\ op'.kind = op.kind /\ op'.held = op.held
        /\ op'.lease = op.lease
    BY <1>3, SafeTypes DEF Op
  <2>2. ThreadOK(op')
    BY <1>1, <1>2, <1>3, <2>1 DEF ThreadOK, PlacedOp, Compiling, Plain, Failing,
       Leased, Delivered, Judged, Stopped, Executing
  <2> QED
    BY <1>1, <1>3, <2>1, <2>2, OpMovesSafely
<1>4. ASSUME NEW new, SaveAndGo(new, "close"),
             new.stage \in {"blocked", "completed"},
             new.snapshot = op.held.snapshot,
             new.reason # "review" /\ new.reason \notin {"spec", "plan"},
             new.stage = "completed" => op.reason # "gated"
      PROVE  Safe
  <2>1. CanMove(op.held.stage, new.stage)
    BY <1>2, <1>4 DEF CanMove, Transition, Stage
  <2>2. ASSUME op.held = session, session' = new PROVE World'
    BY <1>1, <1>2, <1>4, <2>2, WorldAfter DEF Promised, TaskInHand, PlannedStage
  <2>3. ASSUME session' = new, op'.held = new, op'.kind = op.kind,
               op'.pc = "close", op'.lease = op.lease
        PROVE  ThreadOK(op)'
    BY <1>1, <1>2, <1>4, <2>3 DEF ThreadOK, PlacedOp, Follows, Compiling, Plain,
       Failing, Leased, Delivered, Judged, Stopped, Executing, IsActive,
       HasActiveLease
  <2> QED
    BY <1>1, <1>2, <1>4, <2>1, <2>2, <2>3, GoesOnSafely
<1>5. CASE SaveAndGo(Blocked(op.held, "reconcile"), "close")
  <2>1. "reconcile" \in Reason
    BY DEF Reason
  <2>2. /\ Blocked(op.held, "reconcile").stage = "blocked"
        /\ Blocked(op.held, "reconcile").reason = "reconcile"
        /\ Blocked(op.held, "reconcile").snapshot = op.held.snapshot
    BY <2>1, SafeTypes, BlockedFields
  <2> QED
    BY <1>4, <1>5, <2>2
<1>6. CASE op.reason # "gated"
           /\ SaveAndGo(MoveToTask(op.held, "completed", NoTask), "close")
  <2>1. /\ MoveToTask(op.held, "completed", NoTask).stage = "completed"
        /\ MoveToTask(op.held, "completed", NoTask).reason = NoReason
        /\ MoveToTask(op.held, "completed", NoTask).snapshot = op.held.snapshot
    BY SafeTypes, MoveToTaskFields DEF Stage
  <2>2. NoReason # "review" /\ NoReason \notin {"spec", "plan"}
    BY NoReasonIsNone DEF Reason
  <2> QED
    BY <1>4, <1>6, <2>1, <2>2
<1> QED
  BY <1>3, <1>5, <1>6 DEF Conclude

\* The lease closes as completed only for a result that is no refusal.
LEMMA CloseExecutionIsSafe == ASSUME SafeInv, CloseExecution PROVE Safe
<1>1. /\ op.pc = "close" /\ op.kind \in Executing /\ Running
      /\ UNCHANGED <<session, tasks, contracts, approved, pending, client, context, begun, outrun>>
  BY DEF CloseExecution, At, Running, designFiles, others
<1>2. op.held.stage \in {"ready", "completed", "amendment_review", "blocked"}
      /\ Delivered(op)
  BY <1>1 DEF SafeInv, ThreadOK, PlacedOp, Leased
<1>3. Excused(op)
  BY <1>2, SafeTypes DEF Excused, OrphanStage
<1>4. CASE UNCHANGED lease /\ (op' = Raised \/ (op' = NoOp /\ op.lease = 0))
  BY <1>1, <1>3, <1>4, RaisesSafely
<1>5. CASE op.lease # 0 /\ IsActive(op.lease)
           /\ EndLease(ClosingStatus(op.held.stage)) /\ op' = NoOp
  <2> DEFINE status == ClosingStatus(op.held.stage)
  <2>1. status \in LeaseStatus \ {"active"}
        /\ (status = "completed" => op.held.stage # "blocked")
    BY DEF ClosingStatus, LeaseStatus
  <2>2. EndLease(status)
    BY <1>5
  <2> HIDE DEF status
  <2>3. World' /\ Served' /\ lease'.status = status
    BY <1>1, <1>2, <1>5, <2>1, <2>2, LeaseEndsSafely
  <2>4. status = "completed" => tasks[lease.task] = "completed"
    BY <1>1, <1>2, <1>5, <2>1 DEF Delivered
  <2>5. Honest
    BY <1>1, <1>3, <2>1, <2>3, <2>4 DEF Honest, Excused
  <2> QED
    BY <1>5, <2>3, <2>5, IdleOK DEF Safe
<1> QED
  BY <1>4, <1>5 DEF CloseExecution

LEMMA SafeBlockerIsSafe == ASSUME SafeInv, SafeBlocker PROVE Safe
<1>1. /\ op.pc = "raise" /\ op' = NoOp
      /\ UNCHANGED <<session, tasks, contracts, approved, pending, client, context, begun, outrun>>
  BY DEF SafeBlocker, At, designFiles, others
<1>2. Excused(op)
  BY <1>1 DEF SafeInv, ThreadOK, Stopped
<1>3. CASE IsActive(op.lease) /\ EndLease("blocked")
  <2>1. op.lease # 0
    BY <1>3 DEF SafeInv, World, Numbered, IsActive
  <2>2. World' /\ Served' /\ lease'.status = "blocked"
    BY <1>1, <1>3, <2>1, LeaseEndsSafely DEF LeaseStatus
  <2>3. Honest
    BY <1>1, <1>2, <2>2 DEF Honest, Excused
  <2> QED
    BY <1>1, <2>2, <2>3, IdleOK DEF Safe
<1>4. CASE ~IsActive(op.lease) /\ UNCHANGED lease
  <2>1. World' /\ Served'
    BY <1>1, <1>4, WorldStays, ServedStays DEF SafeInv
  <2>2. Honest
    BY <1>1, <1>2, <1>4 DEF Honest, Excused, IsActive, HasActiveLease
  <2> QED
    BY <1>1, <2>1, <2>2, IdleOK DEF Safe
<1> QED
  BY <1>3, <1>4 DEF SafeBlocker

LEMMA TaskIsSafe == ASSUME SafeInv, TaskStep PROVE Safe
  BY StartPreparationIsSafe, RestartPreparationIsSafe, EndPreparationIsSafe,
     RequestLeaseIsSafe, TakeLeaseIsSafe, EnterExecutionIsSafe, ReopenTaskIsSafe, EndPhaseIsSafe,
     ReportBlockerIsSafe, BlockExecutionIsSafe, HandOffLeaseIsSafe,
     PauseIsSafe, EnterAmendmentIsSafe, ConsumeAmendmentIsSafe,
     DecideTaskIsSafe, RefuseTaskIsSafe, BoundaryIsSafe, ReconcileIsSafe,
     JudgeIsSafe, ConcludeIsSafe, CloseExecutionIsSafe, SafeBlockerIsSafe
     DEF TaskStep

-----------------------------------------------------------------------------
(* The actions of ControlPlane, and the agent's own changes of the design. *)

\* How a thread beside the action may change the session.
Overtaken ==
    /\ session'.rev = session.rev + 1 /\ session'.snapshot = session.snapshot
    /\ \/ /\ session'.stage = session.stage
          /\ session'.task = session.task
          /\ session'.reason = session.reason
       \/ session'.stage = "amendment_review" /\ session.stage \in Reviewable
       \/ session'.stage = "completed" /\ session.stage \in {"ready", "reconciling"}

\* A task completed beside the action is none the action has an active lease for,
\* nor one that a full mission executes, unless a begin was written too late.
TasksBeside ==
    \/ UNCHANGED tasks
    \/ /\ op.lease # 0 => ~IsActive(op.lease)
       /\ ~outrun /\ session.stage = "executing" => context.plan
       /\ \A t \in Task : tasks'[t] \in {tasks[t], "completed"}

\* A lease that changes beside the action has ended, or is a new one; it was no
\* active lease of the mission, unless a begin was written too late.
LeaseBeside ==
    /\ outrun => outrun'
    /\ begun' \in Nat /\ begun <= begun'
    /\ \/ UNCHANGED lease
       \/ /\ lease'.status # "active"
          /\ HasActiveLease /\ lease.actor = "mission" => lease'.id # lease.id
       \/ lease'.id = begun + 1
    /\ ~outrun' /\ HasActiveLease /\ lease.actor = "mission" => UNCHANGED lease

LEMMA NoLeaseBeside ==
  ASSUME SafeInv, UNCHANGED <<lease, begun, outrun>> PROVE LeaseBeside
  BY DEF SafeInv, MissionInv, TypeOK, LeaseBeside

\* The lease of the action is not ended beside it, and once lost stays lost.
LEMMA OwnLeaseBeside ==
  ASSUME SafeInv, LeaseBeside, op.lease # 0
  PROVE  /\ IsActive(op.lease)' /\ UNCHANGED op => UNCHANGED lease /\ IsActive(op.lease)
         /\ ~outrun' => UNCHANGED lease
<1>1. /\ Leased(op) /\ begun \in Nat /\ op.lease \in Nat
      /\ lease.id \in Nat /\ lease.id <= begun
  BY SafeTypes DEF SafeInv, ThreadOK, MissionInv, TypeOK, Op, World, Numbered
<1>2. ~(op.lease = begun + 1)
  BY <1>1 DEF Leased
<1>3. IsActive(op.lease)' /\ UNCHANGED op => UNCHANGED lease
  BY <1>2 DEF LeaseBeside, IsActive, HasActiveLease
<1>4. ~outrun' => UNCHANGED lease
  BY <1>1 DEF Leased, LeaseBeside, IsActive
<1> QED
  BY <1>3, <1>4 DEF IsActive, HasActiveLease

LEMMA ThreadBeside ==
  ASSUME SafeInv, UNCHANGED <<op, contracts, approved, context>>,
         session' = session \/ Overtaken, TasksBeside,
         pending => pending', LeaseBeside
  PROVE  ThreadOK(op)'
<1>1. ThreadOK(op)
  BY DEF SafeInv
<1>2. PlacedOp(op)' /\ Compiling(op)' /\ Plain(op)'
  BY <1>1 DEF ThreadOK, PlacedOp, Compiling, Plain, NoOp
<1>3. op.pc # "idle" => Follows(op.held, session')
  BY <1>1 DEF ThreadOK, Follows, Overtaken, Reviewable
<1>4. Failing(op)'
  <2>1. CASE UNCHANGED tasks
    BY <1>1, <2>1 DEF ThreadOK, Failing, LeaseBeside
  <2>2. CASE ~outrun /\ session.stage = "executing" => context.plan
    <3>1. ~outrun /\ op.held.stage = "executing" /\ Running => context.plan
      BY <2>2, InExecution
    <3> QED
      BY <1>1, <3>1 DEF ThreadOK, Failing, Plain, PlacedOp, Running, LeaseBeside
  <2> QED
    BY <2>1, <2>2 DEF TasksBeside
<1>5. Leased(op)'
  <2>1. op.lease # 0 => op.lease <= begun'
    BY <1>1 DEF ThreadOK, Leased, LeaseBeside, SafeInv, MissionInv, TypeOK, Op
  <2>2. op.lease # 0 /\ IsActive(op.lease)' => UNCHANGED lease /\ IsActive(op.lease)
    BY OwnLeaseBeside
  <2>3. ~outrun' /\ op.lease # 0 => IsActive(op.lease)'
    BY <1>1, OwnLeaseBeside DEF ThreadOK, Leased, LeaseBeside, IsActive, HasActiveLease
  <2> QED
    BY <1>1, <2>1, <2>2, <2>3 DEF ThreadOK, Leased, PlanMode
<1>6. Delivered(op)'
  <2>1. op.lease # 0 /\ IsActive(op.lease)'
          => UNCHANGED <<lease, tasks>> /\ IsActive(op.lease)
    BY OwnLeaseBeside DEF TasksBeside
  <2> QED
    BY <1>1, <2>1 DEF ThreadOK, Delivered
<1>7. Judged(op)'
  BY <1>1 DEF ThreadOK, Judged, AllCompleted, TasksBeside
<1>8. Stopped(op)'
  <2>1. Excused(op) => Excused(op)'
    BY SafeTypes, OwnLeaseBeside DEF Excused, CasHolds, Overtaken
  <2> QED
    BY <1>1, <2>1 DEF ThreadOK, Stopped
<1> QED
  BY <1>2, <1>3, <1>4, <1>5, <1>6, <1>7, <1>8 DEF ThreadOK

\* A step beside the action does not end a lease of the mission.
LEMMA BesideSafely ==
  ASSUME SafeInv, UNCHANGED <<op, contracts, approved, context>>,
         session' = session \/ Overtaken, TasksBeside, pending => pending',
         LeaseBeside, World', Served'
  PROVE  Safe
<1>1. ThreadOK(op)
  BY DEF SafeInv
<1>2. ThreadOK(op)'
  BY ThreadBeside
<1>3. op.pc = "idle" => op.kind = "none"
  BY <1>1 DEF ThreadOK, PlacedOp, NoOp
<1>4. lease.id # begun + 1
  BY SafeTypes DEF SafeInv, World, Numbered, MissionInv, TypeOK
<1>5. Honest
  BY <1>3, <1>4 DEF Honest, HasActiveLease, Running, LeaseBeside
<1> QED
  BY <1>2, <1>5 DEF Safe

LEMMA WorldTouched ==
  ASSUME SafeInv, Overtaken, UNCHANGED <<tasks, contracts, approved, lease, context, begun, outrun>>,
         session'.stage # session.stage => session'.reason = NoReason
  PROVE  World'
<1>1. World /\ session'.snapshot = session.snapshot
  BY DEF SafeInv, Overtaken
<1>2. CASE /\ session'.stage = session.stage /\ session'.task = session.task
           /\ session'.reason = session.reason
  BY <1>1, <1>2 DEF World, Planned, Ordered, Alone, Refused, Numbered, BlockedBy,
     HasActiveLease
<1>3. CASE session'.stage # session.stage
  <2>1. session'.stage \in {"amendment_review", "completed"}
    BY <1>3 DEF Overtaken
  <2>2. session'.reason # "review"
    BY <1>3, NoReasonIsNone DEF Reason
  <2>3. Planned' /\ Ordered' /\ Alone' /\ Numbered'
    BY <1>1, <2>1 DEF World, Planned, Ordered, Alone, Numbered, BlockedBy,
       HasActiveLease, PlannedStage
  <2>4. Refused'
    BY <2>1, <2>2 DEF Refused, BlockedBy
  <2> QED
    BY <2>3, <2>4 DEF World
<1> QED
  BY <1>2, <1>3 DEF Overtaken, Reviewable

LEMMA AgentProposesIsSafe == ASSUME SafeInv, AgentProposes PROVE Safe
<1>1. UNCHANGED <<session, tasks, lease, contracts, approved, op, client, context, begun, outrun>>
      /\ (pending => pending')
  BY DEF AgentProposes, others
<1> QED
  BY <1>1, BesideSafely, NoLeaseBeside, WorldStays, ServedStays DEF SafeInv, TasksBeside

LEMMA SaveIdeaIsSafe == ASSUME SafeInv, SaveIdea PROVE Safe
<1>1. /\ UNCHANGED <<tasks, lease, contracts, approved, pending, op, client, context, begun, outrun>>
      /\ session' = Touch(session)
  BY DEF SaveIdea, taskFiles, elsewhere
<1>2. Overtaken
  BY <1>1, SafeTypes, TouchSame DEF Overtaken
<1>3. World'
  BY <1>1, <1>2, SafeTypes, TouchSame, WorldTouched
<1> QED
  BY <1>1, <1>2, <1>3, BesideSafely, NoLeaseBeside, ServedStays DEF SafeInv, TasksBeside

\* One request moves on and the lease stays.
LEMMA RequestMoves ==
  ASSUME SafeInv, NEW c \in Clients, UNCHANGED <<lease, begun, outrun>>,
         \A d \in Clients \ {c} : client'[d] = client[d],
         RequestOK(client'[c]), InLock(client'[c]) => InLock(client[c]) \/ ~Locked
  PROVE  Served'
<1>1. RequestOK(client[c])'
  BY DEF RequestOK, Foreign, IsActive, HasActiveLease
<1>2. ASSUME NEW d \in Clients \ {c} PROVE RequestOK(client[d])'
  BY <1>2 DEF SafeInv, Served, RequestOK, Foreign, IsActive, HasActiveLease
<1>3. ASSUME NEW d \in Clients, NEW e \in Clients, InLock(client'[d]), InLock(client'[e])
      PROVE  d = e
  BY <1>3 DEF SafeInv, Served, Locked, InLock
<1> QED
  BY <1>1, <1>2, <1>3 DEF Served

\* One request moves on out of the lock and a lease that is not the mission's
\* ends, or has ended.
LEMMA RequestEnds ==
  ASSUME SafeInv, NEW c \in Clients, lease'.status # "active",
         lease'.actor # "mission", UNCHANGED <<begun, outrun>>,
         ~Locked \/ InLock(client[c]),
         \A d \in Clients \ {c} : client'[d] = client[d],
         \/ client'[c] = client[c] /\ ~Locked
         \/ client'[c].pc \in {"idle", "request"}
  PROVE  Served'
<1>1. \A d \in Clients \ {c} : ~InLock(client[d])
  BY DEF SafeInv, Served, Locked, InLock
<1>2. ASSUME NEW d \in Clients PROVE ~InLock(client'[d])
  BY <1>1 DEF InLock, Locked
<1>3. ASSUME NEW d \in Clients PROVE RequestOK(client[d])'
  <2>1. client'[d] = client[d] => RequestOK(client[d])
    BY DEF SafeInv, Served
  <2>2. client'[d] # client[d] => client'[d].pc \in {"idle", "request"}
    OBVIOUS
  <2>3. ~Completing(client'[d]) /\ client'[d].pc # "begin"
    BY <1>2 DEF InLock, Completing
  <2>4. Naming(client'[d]) => client'[d] = client[d] /\ Foreign(client[d])
    BY <2>1, <2>2 DEF Naming, RequestOK
  <2>5. Naming(client'[d]) => Foreign(client[d])'
    BY <2>4 DEF Foreign, IsActive, HasActiveLease
  <2> QED
    BY <2>3, <2>5 DEF RequestOK, Naming, Completing
<1> QED
  BY <1>2, <1>3 DEF Served

\* EndLease in its parts.
LEMMA EndFields ==
  ASSUME SafeInv, NEW status, EndLease(status)
  PROVE  /\ lease'.status = status /\ lease'.id = lease.id
         /\ lease'.actor = lease.actor /\ lease'.id <= begun
  BY SafeTypes DEF EndLease, Lease, SafeInv, World, Numbered

\* A lease that is not the mission's ends beside it.
LEMMA EndsBeside ==
  ASSUME SafeInv, lease.actor # "mission", lease'.status # "active",
         UNCHANGED <<begun, outrun>>
  PROVE  LeaseBeside
  BY DEF LeaseBeside, SafeInv, MissionInv, TypeOK

\* The end of a lease of a chat or an MCP client.
LEMMA ExternalEnds ==
  ASSUME SafeInv, lease'.status # "active", lease'.id <= begun,
         UNCHANGED <<session, tasks, contracts, approved, context, begun, outrun>>
  PROVE  World'
  BY DEF SafeInv, World, Planned, Ordered, Alone, Refused, Numbered, BlockedBy,
     HasActiveLease

LEMMA RequestFields ==
  ASSUME SafeInv, NEW c \in Clients
  PROVE  /\ client \in [Clients -> Request] /\ client[c] \in Request
         /\ RequestOK(client[c])
         /\ \A pc : Goto(c, pc) =>
              /\ client'[c].pc = pc /\ client'[c].lease = client[c].lease
              /\ client'[c].amending = client[c].amending
              /\ \A d \in Clients \ {c} : client'[d] = client[d]
         /\ Reply(c) => /\ client'[c] = NoRequest
                        /\ \A d \in Clients \ {c} : client'[d] = client[d]
<1>1. client \in [Clients -> Request] /\ client[c] \in Request
  BY DEF SafeInv, MissionInv, TypeOK
<1>2. RequestOK(client[c])
  BY DEF SafeInv, Served
<1> QED
  BY <1>1, <1>2 DEF Goto, Reply, Request

\* The lease that may be ended over HTTP is none of the mission's.
LEMMA AddressableIsForeign == Addressable => HasActiveLease /\ lease.actor # "mission"
  BY ConstantsAssumption DEF Addressable

\* What begin has read is kept by the thread that asked.
LEMMA RequestExternalIsSafe ==
  ASSUME SafeInv, NEW c \in Clients, RequestExternal(c) PROVE Safe
<1>1. UNCHANGED <<session, tasks, lease, pending, op, contracts, approved, context, begun, outrun>>
      /\ ~Locked
  BY DEF RequestExternal, static
<1>2. PICK t \in Task, actor \in ExternalActors :
        client' = [client EXCEPT ![c].pc = "begin", ![c].lease = Grant(actor, t)]
  BY DEF RequestExternal
<1>3. client'[c].pc = "begin" /\ client'[c].lease = Grant(actor, t)
      /\ \A d \in Clients \ {c} : client'[d] = client[d]
  BY <1>2, RequestFields DEF Request
<1>4. client'[c].lease.actor # "mission"
  BY <1>3, ConstantsAssumption DEF Grant
<1>5. RequestOK(client'[c])
  BY <1>3, <1>4 DEF RequestOK, Naming, Completing
<1>6. Served'
  BY <1>1, <1>3, <1>5, RequestMoves
<1> QED
  BY <1>1, <1>6, BesideSafely, NoLeaseBeside, WorldStays DEF SafeInv, TasksBeside

\* Its entry is no lease of the mission, and comes after every other.
LEMMA BeginExternalIsSafe ==
  ASSUME SafeInv, NEW c \in Clients, BeginExternal(c) PROVE Safe
<1>1. UNCHANGED <<session, tasks, pending, op, contracts, approved, context>>
      /\ client[c].pc = "begin" /\ WriteLease(client[c].lease) /\ Reply(c)
  BY DEF BeginExternal
<1>2. client[c].lease \in Lease /\ client[c].lease.actor # "mission"
  BY <1>1, RequestFields DEF RequestOK, Request
<1>3. \A d \in Clients : client'[d] \in {client[d], NoRequest}
  BY <1>1, RequestFields
<1>4. /\ World' /\ Served'
      /\ lease'.id = begun + 1 /\ begun' = begun + 1 /\ begun \in Nat
      /\ outrun => outrun'
      /\ ~outrun' => ~HasActiveLease
  BY <1>1, <1>2, <1>3, LeaseBeginsSafely
<1>5. LeaseBeside
  BY <1>4 DEF LeaseBeside
<1> QED
  BY <1>1, <1>4, <1>5, BesideSafely DEF TasksBeside

LEMMA ReportExternalBlockerIsSafe ==
  ASSUME SafeInv, NEW c \in Clients, ReportExternalBlocker(c) PROVE Safe
<1>1. UNCHANGED <<session, tasks, pending, client, op, contracts, approved, context, begun, outrun>>
      /\ ~Locked /\ EndLease("blocked") /\ lease.actor # "mission"
  BY AddressableIsForeign DEF ReportExternalBlocker, static
<1>2. lease'.status = "blocked" /\ lease'.actor # "mission" /\ lease'.id <= begun
  BY <1>1, EndFields
<1>3. Served' /\ World' /\ LeaseBeside
  BY <1>1, <1>2, RequestEnds, ExternalEnds, EndsBeside
<1> QED
  BY <1>1, <1>3, BesideSafely DEF TasksBeside

LEMMA CheckEvidenceIsSafe ==
  ASSUME SafeInv, NEW c \in Clients, CheckEvidence(c) PROVE Safe
<1>1. UNCHANGED <<session, tasks, lease, pending, op, contracts, approved, context, begun, outrun>>
      /\ lease.actor # "mission"
      /\ client' = [client EXCEPT ![c].pc = "accept", ![c].lease = lease]
  BY AddressableIsForeign DEF CheckEvidence, static
<1>2. client'[c].pc = "accept" /\ client'[c].lease = lease
      /\ \A d \in Clients \ {c} : client'[d] = client[d]
  BY <1>1, RequestFields DEF Request
<1>3. RequestOK(client'[c]) /\ ~InLock(client'[c])
  BY <1>1, <1>2, SafeTypes
     DEF RequestOK, Foreign, InLock, Naming, Completing, SafeInv, World, Numbered
<1>4. Served'
  BY <1>1, <1>2, <1>3, RequestMoves
<1> QED
  BY <1>1, <1>4, BesideSafely, NoLeaseBeside, WorldStays DEF SafeInv, TasksBeside

\* Full missions execute without a chat beside them, and what a review has
\* blocked no chat completes.
LEMMA AcceptTaskIsSafe ==
  ASSUME SafeInv, NEW c \in Clients, AcceptTask(c) PROVE Safe
<1>1. UNCHANGED <<session, lease, pending, op, contracts, approved, context, begun, outrun>>
      /\ client[c].pc = "accept" /\ ~Locked
  BY DEF AcceptTask, static
<1>2. CASE UNCHANGED tasks /\ Reply(c)
  <2>1. Served'
    BY <1>1, <1>2, RequestFields, NoRequestOK, RequestMoves
  <2> QED
    BY <1>1, <1>2, <2>1, BesideSafely, NoLeaseBeside, WorldStays DEF SafeInv, TasksBeside
<1>3. CASE /\ IsActive(client[c].lease.id)
           /\ tasks' = [tasks EXCEPT ![lease.task] = "completed"]
           /\ client' = [client EXCEPT ![c].pc = "advance",
                 ![c].last = \A t \in Task \ {lease.task} : tasks[t] = "completed"]
  <2>1. client'[c].pc = "advance" /\ client'[c].lease = client[c].lease
        /\ \A d \in Clients \ {c} : client'[d] = client[d]
    BY <1>3, RequestFields DEF Request
  <2>2. lease.actor # "mission" /\ HasActiveLease
    BY <1>1, <1>3, RequestFields DEF RequestOK, Foreign, IsActive, Naming
  <2>3. \A t \in Task : tasks'[t] \in {tasks[t], "completed"}
    BY <1>3, SafeTypes
  <2>4. TasksBeside
    BY <2>2, <2>3 DEF TasksBeside, SafeInv, World, Alone, ThreadOK, Leased
  <2>5. Served'
    BY <1>1, <1>3, <2>1, <2>2, RequestFields, RequestMoves
       DEF RequestOK, InLock, Naming, Completing, Foreign
  <2>6. World'
    <3>1. ASSUME session.task \in Task
          PROVE  Deps[session.task] \subseteq Task
      BY <3>1, ConstantsAssumption
    <3>2. Planned' /\ Alone' /\ Numbered'
      BY <1>1 DEF SafeInv, World, Planned, Alone, Numbered, BlockedBy,
         HasActiveLease
    <3>3. Ordered'
      BY <1>1, <2>3, <3>1 DEF SafeInv, World, Ordered, BlockedBy
    <3>4. ~outrun => ~BlockedBy({"review"})
      BY <2>2 DEF SafeInv, World, Alone, Refused, BlockedBy
    <3>5. Refused'
      BY <1>1, <3>4 DEF SafeInv, World, Refused, BlockedBy
    <3> QED
      BY <3>2, <3>3, <3>5 DEF World
  <2> QED
    BY <1>1, <2>4, <2>5, <2>6, BesideSafely, NoLeaseBeside
<1> QED
  BY <1>2, <1>3 DEF AcceptTask

LEMMA ReadSessionIsSafe ==
  ASSUME SafeInv, NEW c \in Clients, ReadSession(c) PROVE Safe
<1>1. UNCHANGED <<session, tasks, lease, pending, op, contracts, approved, context, begun, outrun>>
      /\ client[c].pc = "advance"
  BY DEF ReadSession, static
<1>2. CASE Reply(c)
  <2>1. Served'
    BY <1>1, <1>2, RequestFields, NoRequestOK, RequestMoves
  <2> QED
    BY <1>1, <2>1, BesideSafely, NoLeaseBeside, WorldStays DEF SafeInv, TasksBeside
<1>3. CASE client' = [client EXCEPT ![c].pc = "save", ![c].held = session]
  <2>1. client'[c].pc = "save" /\ client'[c].lease = client[c].lease
        /\ \A d \in Clients \ {c} : client'[d] = client[d]
    BY <1>3, RequestFields DEF Request
  <2>2. Served'
    BY <1>1, <2>1, RequestFields, RequestMoves
       DEF RequestOK, InLock, Naming, Completing, Foreign
  <2> QED
    BY <1>1, <2>2, BesideSafely, NoLeaseBeside, WorldStays DEF SafeInv, TasksBeside
<1> QED
  BY <1>2, <1>3 DEF ReadSession

LEMMA SaveProgressIsSafe ==
  ASSUME SafeInv, NEW c \in Clients, SaveProgress(c) PROVE Safe
<1>1. UNCHANGED <<tasks, lease, pending, op, contracts, approved, context, begun, outrun>>
      /\ client[c].pc = "save"
  BY DEF SaveProgress, static
<1>2. CASE UNCHANGED session /\ Reply(c)
  <2>1. Served'
    BY <1>1, <1>2, RequestFields, NoRequestOK, RequestMoves
  <2> QED
    BY <1>1, <1>2, <2>1, BesideSafely, NoLeaseBeside, WorldStays DEF SafeInv, TasksBeside
<1>3. CASE /\ CasHolds(client[c].held)
           /\ session' = Advanced(client[c].held, client[c].last)
           /\ Goto(c, "release")
  <2>1. client[c].held = session
    BY <1>3 DEF CasHolds, SafeInv, MissionInv, Chain, CopyOf
  <2>2. Served'
    BY <1>1, <1>3, RequestFields, RequestMoves
       DEF RequestOK, InLock, Naming, Completing, Foreign
  <2>3. CASE ~client[c].last
    <3>1. session' = Touch(session)
      BY <1>3, <2>1, <2>3 DEF Advanced
    <3>2. Overtaken
      BY <3>1, SafeTypes, TouchSame DEF Overtaken
    <3>3. World'
      BY <1>1, <3>1, <3>2, SafeTypes, TouchSame, WorldTouched
    <3> QED
      BY <1>1, <2>2, <3>2, <3>3, BesideSafely, NoLeaseBeside DEF TasksBeside
  <2>4. CASE client[c].last
    <3>1. session' = MoveToTask(session, "completed", NoTask)
      BY <1>3, <2>1, <2>4 DEF Advanced
    <3>2. CanMove(session.stage, "completed")
      BY <1>1, <2>1, <2>4 DEF SafeInv, MissionInv, LicensedRequest
    <3>3. session.stage \in {"ready", "reconciling"}
      BY <3>2 DEF CanMove, Transition
    <3>4. /\ session'.stage = "completed" /\ session'.snapshot = session.snapshot
          /\ session'.reason = NoReason
      BY <3>1, SafeTypes, MoveToTaskFields DEF Stage
    <3>5. session'.rev = session.rev + 1
      BY <3>1, SafeTypes, MoveToTaskSucceeds DEF Successor
    <3>6. Overtaken
      BY <3>3, <3>4, <3>5 DEF Overtaken
    <3>7. World'
      BY <1>1, <3>4, <3>6, WorldTouched
    <3> QED
      BY <1>1, <2>2, <3>6, <3>7, BesideSafely, NoLeaseBeside DEF TasksBeside
  <2> QED
    BY <2>3, <2>4
<1> QED
  BY <1>2, <1>3 DEF SaveProgress

\* What complete writes back is the entry it read, so no lease of the mission.
LEMMA ReleaseLeaseIsSafe ==
  ASSUME SafeInv, NEW c \in Clients, ReleaseLease(c) PROVE Safe
<1>1. UNCHANGED <<session, tasks, pending, op, contracts, approved, context, begun, outrun>>
      /\ client[c].pc = "release" /\ Reply(c)
      /\ lease' = [client[c].lease EXCEPT !.status = "completed"]
  BY DEF ReleaseLease, static
<1>2. InLock(client[c]) /\ Foreign(client[c]) /\ client[c].lease \in Lease
      /\ (~outrun => IsActive(client[c].lease.id))
  BY <1>1, RequestFields DEF RequestOK, InLock, Naming, Completing, Request
<1>3. lease'.status = "completed" /\ lease'.actor # "mission"
      /\ lease'.id = client[c].lease.id /\ lease'.id <= begun
  BY <1>1, <1>2 DEF Lease, Foreign
<1>4. Served'
  BY <1>1, <1>2, <1>3, RequestFields, NoRequestOK, RequestEnds
<1>5. World'
  BY <1>1, <1>3, ExternalEnds
<1>6. LeaseBeside
  BY <1>1, <1>2, <1>3 DEF LeaseBeside, Foreign, SafeInv, MissionInv, TypeOK
<1> QED
  BY <1>1, <1>4, <1>5, <1>6, BesideSafely DEF TasksBeside

LEMMA ApplyDesignIsSafe ==
  ASSUME SafeInv, NEW c \in Clients, ApplyDesign(c) PROVE Safe
<1>1. UNCHANGED <<session, tasks, lease, pending, op, contracts, approved, context, begun, outrun>>
  BY DEF ApplyDesign, static
<1>2. PICK amending \in BOOLEAN :
        /\ amending => Addressable
        /\ client' = [client EXCEPT ![c].pc = "record", ![c].amending = amending,
                         ![c].lease = IF amending THEN lease ELSE NoLease]
  BY DEF ApplyDesign
<1>3. client'[c].pc = "record" /\ (amending => client'[c].lease = lease)
      /\ client'[c].amending = amending
      /\ \A d \in Clients \ {c} : client'[d] = client[d]
  BY <1>2, RequestFields DEF Request
<1>4. RequestOK(client'[c]) /\ ~InLock(client'[c])
  BY <1>2, <1>3, SafeTypes, AddressableIsForeign
     DEF RequestOK, Foreign, InLock, Naming, Completing, SafeInv, World, Numbered
<1>5. Served'
  BY <1>1, <1>3, <1>4, RequestMoves
<1> QED
  BY <1>1, <1>5, BesideSafely, NoLeaseBeside, WorldStays DEF SafeInv, TasksBeside

\* After the amendment is recorded the request ends its lease, or replies.
LEMMA RecordedServes ==
  ASSUME SafeInv, NEW c \in Clients, UNCHANGED <<lease, begun, outrun>>, Recorded(c),
         client[c].pc \in {"record", "mark", "require"}
  PROVE  Served'
<1>1. CASE client[c].amending /\ Goto(c, "end_lease")
  <2>1. Foreign(client[c])
    BY <1>1, RequestFields DEF RequestOK, Naming
  <2>2. client'[c].pc = "end_lease" /\ client'[c].lease = client[c].lease
        /\ \A d \in Clients \ {c} : client'[d] = client[d]
    BY <1>1, RequestFields
  <2>3. RequestOK(client'[c]) /\ ~InLock(client'[c])
    BY <2>1, <2>2 DEF RequestOK, Foreign, InLock, Naming, Completing
  <2> QED
    BY <2>2, <2>3, RequestMoves
<1>2. CASE Reply(c)
  BY <1>2, RequestFields, NoRequestOK, RequestMoves
<1> QED
  BY <1>1, <1>2 DEF Recorded

LEMMA RecordingServes ==
  ASSUME SafeInv, NEW c \in Clients, UNCHANGED <<lease, begun, outrun>>,
         client[c].pc = "record",
         client'[c].pc \in {"mark", "require"},
         client'[c].lease = client[c].lease,
         client'[c].amending = client[c].amending,
         \A d \in Clients \ {c} : client'[d] = client[d]
  PROVE  Served'
<1>1. client[c].amending => Foreign(client[c])
  BY RequestFields DEF RequestOK, Naming
<1>2. RequestOK(client'[c]) /\ ~InLock(client'[c])
  BY <1>1 DEF RequestOK, Foreign, InLock, Naming, Completing
<1> QED
  BY <1>2, RequestMoves

LEMMA RecordAmendmentIsSafe ==
  ASSUME SafeInv, NEW c \in Clients, RecordAmendment(c) PROVE Safe
<1>1. UNCHANGED <<session, tasks, lease, pending, op, contracts, approved, context, begun, outrun>>
      /\ client[c].pc = "record"
  BY DEF RecordAmendment, static
<1>2. CASE Goto(c, "mark")
  <2>1. client'[c].pc = "mark" /\ client'[c].lease = client[c].lease
        /\ client'[c].amending = client[c].amending
        /\ \A d \in Clients \ {c} : client'[d] = client[d]
    BY <1>2, RequestFields
  <2>2. Served'
    BY <1>1, <2>1, RecordingServes
  <2> QED
    BY <1>1, <2>2, BesideSafely, NoLeaseBeside, WorldStays DEF SafeInv, TasksBeside
<1>3. CASE client' = [client EXCEPT ![c].pc = "require", ![c].held = session]
  <2>1. client'[c].pc = "require" /\ client'[c].lease = client[c].lease
        /\ client'[c].amending = client[c].amending
        /\ \A d \in Clients \ {c} : client'[d] = client[d]
    BY <1>3, RequestFields DEF Request
  <2>2. Served'
    BY <1>1, <2>1, RecordingServes
  <2> QED
    BY <1>1, <2>2, BesideSafely, NoLeaseBeside, WorldStays DEF SafeInv, TasksBeside
<1>4. CASE Recorded(c)
  BY <1>1, <1>4, RecordedServes, BesideSafely, NoLeaseBeside, WorldStays DEF SafeInv, TasksBeside
<1> QED
  BY <1>2, <1>3, <1>4 DEF RecordAmendment

LEMMA MarkPendingIsSafe ==
  ASSUME SafeInv, NEW c \in Clients, MarkPending(c) PROVE Safe
<1>1. UNCHANGED <<session, tasks, lease, op, contracts, approved, context, begun, outrun>>
      /\ client[c].pc = "mark" /\ Recorded(c) /\ pending'
  BY DEF MarkPending, static
<1> QED
  BY <1>1, RecordedServes, BesideSafely, NoLeaseBeside, WorldStays DEF SafeInv, TasksBeside

LEMMA ReviewOvertakes ==
  ASSUME SafeInv, session.stage \in Reviewable,
         session' = MoveTo(session, "amendment_review"),
         UNCHANGED <<tasks, contracts, approved, lease, context, begun, outrun>>
  PROVE  Overtaken /\ World'
<1>1. /\ session'.stage = "amendment_review" /\ session'.snapshot = session.snapshot
      /\ session'.reason = NoReason /\ session'.rev = session.rev + 1
  BY SafeTypes, MoveToFields DEF Stage
<1>2. Overtaken
  BY <1>1 DEF Overtaken
<1> QED
  BY <1>1, <1>2, WorldTouched

LEMMA RequireReviewIsSafe ==
  ASSUME SafeInv, NEW c \in Clients, RequireReview(c) PROVE Safe
<1>1. UNCHANGED <<tasks, lease, op, contracts, approved, context, begun, outrun>>
      /\ client[c].pc = "require" /\ Recorded(c)
  BY DEF RequireReview, static
<1>2. Served'
  BY <1>1, RecordedServes
<1>3. CASE UNCHANGED session /\ pending'
  BY <1>1, <1>2, <1>3, BesideSafely, NoLeaseBeside, WorldStays DEF SafeInv, TasksBeside
<1>4. CASE /\ CasHolds(client[c].held) /\ UNCHANGED pending
           /\ session' = MoveTo(client[c].held, "amendment_review")
  <2>1. client[c].held = session
    BY <1>4 DEF CasHolds, SafeInv, MissionInv, Chain, CopyOf
  <2>2. session.stage \in Reviewable
    BY <1>1, <2>1 DEF SafeInv, MissionInv, LicensedRequest
  <2>3. Overtaken /\ World'
    BY <1>1, <1>4, <2>1, <2>2, ReviewOvertakes
  <2> QED
    BY <1>1, <1>2, <1>4, <2>3, BesideSafely, NoLeaseBeside DEF TasksBeside
<1> QED
  BY <1>3, <1>4 DEF RequireReview

LEMMA EndAmendedLeaseIsSafe ==
  ASSUME SafeInv, NEW c \in Clients, EndAmendedLease(c) PROVE Safe
<1>1. UNCHANGED <<session, tasks, pending, op, contracts, approved, context, begun, outrun>>
      /\ client[c].pc = "end_lease" /\ ~Locked /\ Reply(c)
  BY DEF EndAmendedLease, static
<1>2. CASE UNCHANGED lease
  <2>1. Served'
    BY <1>1, <1>2, RequestFields, NoRequestOK, RequestMoves
  <2> QED
    BY <1>1, <1>2, <2>1, BesideSafely, NoLeaseBeside, WorldStays DEF SafeInv, TasksBeside
<1>3. CASE IsActive(client[c].lease.id) /\ EndLease("amendment_requested")
  <2>1. lease.actor # "mission"
    BY <1>1, <1>3, RequestFields DEF RequestOK, Foreign, IsActive, Naming
  <2>2. /\ lease'.status = "amendment_requested"
        /\ lease'.actor # "mission" /\ lease'.id <= begun
    BY <1>3, <2>1, EndFields
  <2>3. Served' /\ World' /\ LeaseBeside
    BY <1>1, <2>1, <2>2, RequestFields, NoRequestOK, RequestEnds, ExternalEnds,
       EndsBeside
  <2> QED
    BY <1>1, <2>3, BesideSafely DEF TasksBeside
<1> QED
  BY <1>2, <1>3 DEF EndAmendedLease

LEMMA ProposeAmendmentIsSafe ==
  ASSUME SafeInv, NEW c \in Clients, ProposeAmendment(c) PROVE Safe
<1>1. UNCHANGED <<session, tasks, pending, op, contracts, approved, context, begun, outrun>>
      /\ ~Locked /\ EndLease("amendment_requested") /\ Goto(c, "request")
      /\ lease.actor # "mission"
  BY AddressableIsForeign DEF ProposeAmendment, static
<1>2. /\ lease'.status = "amendment_requested"
      /\ lease'.actor # "mission" /\ lease'.id <= begun
  BY <1>1, EndFields
<1>3. Served' /\ World' /\ LeaseBeside
  BY <1>1, <1>2, RequestFields, RequestEnds, ExternalEnds, EndsBeside
<1> QED
  BY <1>1, <1>3, BesideSafely DEF TasksBeside

LEMMA ReadForReviewIsSafe ==
  ASSUME SafeInv, NEW c \in Clients, ReadForReview(c) PROVE Safe
<1>1. UNCHANGED <<session, tasks, lease, pending, op, contracts, approved, context, begun, outrun>>
      /\ client' = [client EXCEPT ![c].pc = "review", ![c].held = session]
  BY DEF ReadForReview, static
<1>2. client'[c].pc = "review" /\ \A d \in Clients \ {c} : client'[d] = client[d]
  BY <1>1, RequestFields DEF Request
<1>3. Served'
  BY <1>1, <1>2, RequestMoves DEF RequestOK, InLock, Naming, Completing
<1> QED
  BY <1>1, <1>3, BesideSafely, NoLeaseBeside, WorldStays DEF SafeInv, TasksBeside

LEMMA RequestReviewIsSafe ==
  ASSUME SafeInv, NEW c \in Clients, RequestReview(c) PROVE Safe
<1>1. UNCHANGED <<tasks, lease, pending, op, contracts, approved, context, begun, outrun>> /\ Reply(c)
  BY DEF RequestReview, static
<1>2. Served'
  BY <1>1, RequestFields, NoRequestOK, RequestMoves
<1>3. CASE UNCHANGED session
  BY <1>1, <1>2, <1>3, BesideSafely, NoLeaseBeside, WorldStays DEF SafeInv, TasksBeside
<1>4. CASE session.stage \in Reviewable /\ session' = MoveTo(session, "amendment_review")
  BY <1>1, <1>2, <1>4, ReviewOvertakes, BesideSafely, NoLeaseBeside DEF TasksBeside
<1> QED
  BY <1>3, <1>4 DEF RequestReview

LEMMA ClientIsSafe ==
  ASSUME SafeInv, NEW c \in Clients, ClientRequest(c) \/ ClientStep(c) PROVE Safe
  BY RequestExternalIsSafe, BeginExternalIsSafe, ReportExternalBlockerIsSafe, CheckEvidenceIsSafe,
     ApplyDesignIsSafe, ProposeAmendmentIsSafe, AcceptTaskIsSafe,
     ReadSessionIsSafe, SaveProgressIsSafe, ReleaseLeaseIsSafe,
     RecordAmendmentIsSafe, MarkPendingIsSafe, RequireReviewIsSafe,
     EndAmendedLeaseIsSafe, ReadForReviewIsSafe, RequestReviewIsSafe
     DEF ClientRequest, ClientStep

-----------------------------------------------------------------------------
(* The whole mission. *)

LEMMA SubmitIsSafe == ASSUME SafeInv, NEW kind \in Kind, Submit(kind) PROVE Safe
<1>1. /\ op' = [NoOp EXCEPT !.kind = kind, !.pc = "start", !.held = session]
      /\ UNCHANGED <<session, tasks, contracts, approved, lease, pending, client, context, begun, outrun>>
      /\ session.stage \in StartStages(kind) /\ session.reason \in RetriedReasons(kind)
  BY DEF Submit, Admitted, files
<1>2. /\ op'.kind = kind /\ op'.pc = "start" /\ op'.held = session /\ op'.lease = 0
  BY <1>1 DEF NoOp
<1>3. kind # "none"
  BY DEF Kind, PreparationKind, TaskKind
<1>4. context.plan => kind # "retry-review"
  <2>1. kind = "retry-review" => session.reason = "review"
    BY <1>1 DEF RetriedReasons
  <2> QED
    BY <2>1 DEF SafeInv, World, Refused
<1>5. PlacedOp(op')
  BY <1>1, <1>2, <1>3 DEF PlacedOp
<1>6. ThreadOK(op')
  BY <1>2, <1>3, <1>4, <1>5 DEF ThreadOK, Follows, Compiling, Plain, Failing,
     Leased, Delivered, Judged, Stopped
<1> QED
  BY <1>1, <1>2, <1>6, OpMovesSafely

\* The process dies: its threads rely on nothing, and World is about files.
LEMMA CrashIsSafe == ASSUME SafeInv, Crash PROVE Safe
<1>1. /\ UNCHANGED <<session, tasks, contracts, approved, lease, pending, context, begun, outrun>>
      /\ op' = NoOp /\ client' = [c \in Clients |-> NoRequest]
      /\ crashes' = crashes + 1
  BY DEF Crash, files
<1>2. crashes' # crashes
  <2>1. crashes \in Nat
    BY DEF SafeInv, MissionInv, TypeOK
  <2> QED
    BY <1>1, <2>1
<1>3. Served'
  <2>1. \A c \in Clients : client'[c] = NoRequest
    BY <1>1
  <2> QED
    BY <2>1, NoRequestOK DEF Served, RequestOK, InLock, Naming, Completing, NoRequest
<1>4. Honest
  BY <1>1, <1>2 DEF Honest
<1> QED
  BY <1>1, <1>3, <1>4, IdleOK, WorldStays DEF Safe, SafeInv

LEMMA SafeInit == Init => SafeInv
<1> SUFFICES ASSUME Init PROVE SafeInv
  OBVIOUS
<1>1. MissionInv
  BY MissionInit
<1>2. session = FreshSession /\ lease = NoLease /\ op = NoOp
      /\ client = [c \in Clients |-> NoRequest] /\ begun = 0
  BY DEF Init
<1>3. lease.id <= begun /\ session.stage = "draft" /\ session.reason = NoReason /\ lease.status = "completed"
  BY <1>2 DEF FreshSession, NoLease
<1>4. World
  BY <1>3, NoReasonIsNone DEF World, Planned, Ordered, Alone, Refused, Numbered,
     BlockedBy, HasActiveLease, PlannedStage, Reason
<1>5. ThreadOK(op)
  BY <1>2 DEF ThreadOK, PlacedOp, NoOp, Compiling, Plain, Failing, Leased,
     Delivered, Judged, Stopped, Kind, Executing
<1>6. Served
  <2>1. \A c \in Clients : client[c] = NoRequest
    BY <1>2
  <2> QED
    BY <2>1, NoRequestOK DEF Served
<1> QED
  BY <1>1, <1>4, <1>5, <1>6 DEF SafeInv

LEMMA SafeNext == SafeInv /\ [Next]_vars => SafeInv' /\ (Honest \/ UNCHANGED vars)
<1> SUFFICES ASSUME SafeInv, [Next]_vars
             PROVE  SafeInv' /\ (Honest \/ UNCHANGED vars)
  OBVIOUS
<1>1. MissionInv'
  BY MissionNext DEF SafeInv, Keeps
<1>2. CASE SaveIdea
  BY <1>1, <1>2, SaveIdeaIsSafe DEF Safe, SafeInv
<1>3. CASE \E kind \in Kind : Submit(kind)
  BY <1>1, <1>3, SubmitIsSafe DEF Safe, SafeInv
<1>4. CASE OpStep
  BY <1>1, <1>4, PreparationIsSafe, TaskIsSafe DEF OpStep, Safe, SafeInv
<1>5. CASE AgentProposes
  BY <1>1, <1>5, AgentProposesIsSafe DEF Safe, SafeInv
<1>6. CASE \E c \in Clients : ClientRequest(c) \/ ClientStep(c)
  BY <1>1, <1>6, ClientIsSafe DEF Safe, SafeInv
<1>7. CASE Crash
  BY <1>1, <1>7, CrashIsSafe DEF Safe, SafeInv
<1>8. CASE UNCHANGED vars
  <2>1. World' /\ Served'
    BY <1>8, WorldStays, ServedStays DEF SafeInv, vars, files
  <2>2. ThreadOK(op)'
    BY <1>8, ThreadBeside, NoLeaseBeside DEF SafeInv, vars, files, TasksBeside
  <2> QED
    BY <1>1, <1>8, <2>1, <2>2 DEF SafeInv
<1> QED
  BY <1>2, <1>3, <1>4, <1>5, <1>6, <1>7, <1>8 DEF Next

-----------------------------------------------------------------------------
(* The properties. *)

\* While a full mission runs a task's phases the lease it has begun is active,
\* for the task and the snapshot the session names, however HTTP threads and the
\* mission interleave on the three files (contract_execution.begin,
\* execute_prepared): only a begin that is written after it would have been
\* refused can undo that, because the two services share no lock.
THEOREM ExecutionIsOwned == Spec => []MissionOwnsExecution
<1>1. SafeInv => MissionOwnsExecution
  <2> SUFFICES ASSUME SafeInv, ~outrun, op.pc \in {"implement", "review"}
               PROVE  /\ IsActive(op.lease) /\ lease.actor = "mission"
                      /\ lease.task = session.task
                      /\ lease.snapshot = session.snapshot
    BY DEF MissionOwnsExecution, At
  <2>1. Running /\ op.held.stage = "executing" /\ op.lease # 0 /\ Leased(op)
    BY DEF SafeInv, ThreadOK, PlacedOp, Leased, Running
  <2>2. session.stage = "executing" /\ session.task = op.held.task
    BY <2>1, InExecution
  <2>3. contracts = session.snapshot
    BY <2>2 DEF SafeInv, World, Planned, PlannedStage
  <2> QED
    BY <2>1, <2>2, <2>3 DEF Leased
<1> QED
  BY SafeInit, SafeNext, <1>1, PTL DEF Spec

\* The contracts and the changeset an execution is judged by are those of the
\* snapshot the session names (design_approval.approve, contract_compiler.compile
\* and the save of WORKPLAN_REVIEW are three writes apart).
THEOREM ContractsAreTheSessions == Spec => []ContractsMatchSession
<1>1. SafeInv => ContractsMatchSession
  BY DEF SafeInv, World, Planned, PlannedStage, ContractsMatchSession
<1> QED
  BY SafeInit, SafeNext, <1>1, PTL DEF Spec

\* A task is taken in hand only when all it depends on is completed, and stays
\* so while it is prepared, reviewed and executed (workplan.next_runnable).
THEOREM DependenciesComeFirst == Spec => []DependenciesFirst
<1>1. SafeInv => DependenciesFirst
  BY DEF SafeInv, World, Ordered, DependenciesFirst
<1> QED
  BY SafeInit, SafeNext, <1>1, PTL DEF Spec

\* retry_review always finds a failed task, as long as no begin is written after
\* it would have been refused: no chat completes the task while the session waits,
\* and a PLAN mission is never blocked by a review.
THEOREM RetriedReviewHasFailed == Spec => []RetryReviewFindsFailedTask
<1>1. SafeInv => RetryReviewFindsFailedTask
  BY DEF SafeInv, World, Refused, BlockedBy, RetryReviewFindsFailedTask
<1> QED
  BY SafeInit, SafeNext, <1>1, PTL DEF Spec

\* The artifact of a design change is deleted only in AMENDMENT_REVIEW
\* (_pause_for_amendment deletes it after the second of its two saves).
THEOREM AmendmentIsConsumedInReview == Spec => AmendmentConsumedInReview
<1>1. SafeInv /\ [Next]_vars
        => [pending /\ ~pending' => session.stage = "amendment_review"]_vars
  BY SafeNext DEF Honest
<1> QED
  BY SafeInit, SafeNext, <1>1, PTL DEF Spec, AmendmentConsumedInReview

\* A lease the mission closes as completed vouches for a completed task
\* (_close_mission_execution decides by the stage of the result).
THEOREM CompletedLeaseIsEarned == Spec => CompletedLeaseHasCompletedTask
<1>1. SafeInv /\ [Next]_vars
        => [lease.actor = "mission" /\ lease.status = "active"
              /\ lease'.id = lease.id /\ lease'.status = "completed" => tasks[lease.task] = "completed"]_vars
  BY SafeNext DEF Honest
<1> QED
  BY SafeInit, SafeNext, <1>1, PTL DEF Spec, CompletedLeaseHasCompletedTask

\* However execute_prepared ends while the process lives, the lease it has begun
\* is not active any more.
THEOREM ExecutionReleasesLease == Spec => ExecuteReleasesLease
<1>1. SafeInv /\ [Next]_vars
        => [op.kind = "execute-task" /\ op'.pc = "idle" /\ crashes' = crashes
              => ~(lease'.status = "active" /\ lease'.id = op.lease)]_vars
  BY SafeNext DEF Honest
<1> QED
  BY SafeInit, SafeNext, <1>1, PTL DEF Spec, ExecuteReleasesLease

\* The mission's own actions declare it completed only when every task is
\* (_finish_or_block, _finish_execution on the list it read before the report).
THEOREM ConclusionIsEarned == Spec => MissionConcludesOnCompletedTasks
<1>1. SafeInv /\ [Next]_vars
        => [op' # op /\ session.stage # "completed" /\ session'.stage = "completed"
              => AllCompleted(tasks)]_vars
  BY SafeNext DEF Honest
<1> QED
  BY SafeInit, SafeNext, <1>1, PTL DEF Spec, MissionConcludesOnCompletedTasks

\* An action that ends leaves the session in a stage a person can go on from,
\* unless it lost a race or its lease, or RECONCILING cannot pause for the amendment.
THEOREM NoStageIsOrphaned == Spec => NoOrphanStage
<1>1. SafeInv /\ [Next]_vars
        => [Running /\ op'.pc = "idle" /\ crashes' = crashes
              /\ session'.stage \in {"researching", "grilling", "structuring",
                     "task_preparation", "executing", "reconciling", "paused"}
              => \/ ~CasHolds(op.held)
                 \/ pending /\ session.stage = "reconciling"
                 \/ LeaseLost]_vars
  BY SafeNext DEF Honest, OrphanStage, LeaseLost
<1> QED
  BY SafeInit, SafeNext, <1>1, PTL DEF Spec, NoOrphanStage
-----------------------------------------------------------------------------
(* How a blocked mission goes on. *)

\* What an action saves takes the place of the session it holds, which is where
\* PlacedOp says.
LEMMA SavedFromHeld ==
  ASSUME SafeInv, NEW new, NEW next, Save(new, next), session'.stage # session.stage
  PROVE  /\ op.held = session /\ session' = new /\ CanMove(session.stage, new.stage)
  BY SafeTypes DEF Save

\* Nothing an action does from a stage that is not BLOCKED unblocks a mission.
LEMMA PreparationUnblocks ==
  ASSUME SafeInv, PreparationStep, session.stage = "blocked", session'.stage # "blocked"
  PROVE  session.reason = "research" /\ op.kind = "retry-research"
<1>1. PlacedOp(op)
  BY DEF SafeInv, ThreadOK
<1>2. CASE StepBack
  <2>1. op.pc = "start" /\ op.kind \in {"retry-research", "retry-grill", "retry-design"}
    BY <1>2 DEF StepBack, At
  <2>2. /\ op.held = session
        /\ CanMove("blocked", MoveTo(op.held, BackTo(op.kind)[1]).stage)
    BY <1>2, SavedFromHeld DEF StepBack
  <2>3. MoveTo(op.held, BackTo(op.kind)[1]).stage = BackTo(op.kind)[1]
    BY SafeTypes DEF MoveTo, Session
  <2>4. op.kind = "retry-research"
    BY <2>1, <2>2, <2>3 DEF BackTo, CanMove, Transition
  <2> QED
    BY <1>1, <2>1, <2>2, <2>4 DEF PlacedOp, RetriedReasons
<1>3. CASE StartResearch \/ StartGrill \/ ApproveExecution \/ RequestAmendment
  <2>1. op.held = session
    BY <1>3, SavedFromHeld DEF StartResearch, StartGrill, ApproveExecution,
       RequestAmendment, SaveAndGo, SaveAndEnd, Fail
  <2> QED
    BY <1>1, <1>3, <2>1 DEF StartResearch, StartGrill, ApproveExecution,
       RequestAmendment, At, PlacedOp, StartStages
<1>4. CASE EndResearch \/ EndGrill
  <2>1. op.held = session
    BY <1>4, SavedFromHeld DEF EndResearch, EndGrill, SaveAndGo, SaveAndEnd
  <2> QED
    BY <1>1, <1>4, <2>1 DEF EndResearch, EndGrill, At, PlacedOp
<1>5. CASE SkipGrill
  <2>1. op.held = session
    BY <1>5, SavedFromHeld DEF SkipGrill, SaveAndEnd, Fail
  <2> QED
    BY <1>1, <1>5, <2>1 DEF SkipGrill, At, PlacedOp, StartStages
<1>6. CASE StartStructure \/ EndStructure \/ CompileContracts
  <2>1. op.held = session
    BY <1>6, SavedFromHeld DEF StartStructure, EndStructure, CompileContracts,
       SaveAndGo, SaveAndEnd
  <2> QED
    BY <1>1, <1>6, <2>1 DEF StartStructure, EndStructure, CompileContracts, At, PlacedOp
<1> QED
  BY <1>2, <1>3, <1>4, <1>5, <1>6 DEF PreparationStep, ApproveDesign

LEMMA TaskUnblocks ==
  ASSUME SafeInv, TaskStep, session.stage = "blocked", session'.stage # "blocked"
  PROVE  \/ session.reason \in {"spec", "plan"} /\ op.kind = "retry-preparation"
         \/ session.reason = "review" /\ op.kind = "retry-review"
<1>1. PlacedOp(op)
  BY DEF SafeInv, ThreadOK
<1>2. CASE RestartPreparation
  <2>1. op.held = session
    BY <1>2, SavedFromHeld DEF RestartPreparation, SaveAndGo
  <2> QED
    BY <1>1, <1>2, <2>1 DEF RestartPreparation, At, PlacedOp, RetriedReasons
<1>3. CASE EnterExecution
  <2>1. op.held = session
    BY <1>3, SavedFromHeld DEF EnterExecution, SaveAndGo
  <2> QED
    BY <1>1, <1>3, <2>1 DEF EnterExecution, At, PlacedOp
<1>4. CASE StartPreparation
  <2>1. op.held = session
    BY <1>4, SavedFromHeld DEF StartPreparation, SaveAndGo, SaveAndEnd
  <2> QED
    BY <1>1, <1>4, <2>1 DEF StartPreparation, At, PlacedOp, StartStages
<1>5. CASE EndPreparation \/ BlockExecution \/ Pause \/ EnterAmendment
  <2>1. op.held = session
    BY <1>5, SavedFromHeld DEF EndPreparation, BlockExecution, Pause, EnterAmendment,
       SaveAndGo, SaveAndEnd
  <2> QED
    BY <1>1, <1>5, <2>1 DEF EndPreparation, BlockExecution, Pause, EnterAmendment,
       At, PlacedOp, Executing
<1>6. CASE RefuseTask \/ Boundary \/ Judge \/ Conclude
  <2>1. op.held = session
    BY <1>6, SavedFromHeld DEF RefuseTask, Boundary, Judge, Conclude, SaveAndGo
  <2> QED
    BY <1>1, <1>6, <2>1 DEF RefuseTask, Boundary, Judge, Conclude, At, PlacedOp
<1> QED
  BY <1>2, <1>3, <1>4, <1>5, <1>6
     DEF TaskStep, RequestLease, TakeLease, ReopenTask, EndPhase, ReportBlocker, HandOffLease,
         ConsumeAmendment, DecideTask, Reconcile, CloseExecution, SafeBlocker

\* A request touches the session, completes it or asks for its review, and none
\* of these where the mission is blocked.
LEMMA RequestsLeaveBlocked ==
  ASSUME SafeInv, NEW c \in Clients, ClientRequest(c) \/ ClientStep(c),
         session.stage = "blocked"
  PROVE  session'.stage = "blocked"
<1>1. CASE SaveProgress(c)
  <2>1. CASE UNCHANGED session
    BY <2>1
  <2>2. CASE CasHolds(client[c].held) /\ session' = Advanced(client[c].held, client[c].last)
    <3>1. client[c].held = session
      BY <2>2 DEF CasHolds, SafeInv, MissionInv, Chain, CopyOf
    <3>2. ~client[c].last
      BY <1>1, <3>1 DEF SaveProgress, SafeInv, MissionInv, LicensedRequest, CanMove,
         Transition
    <3>3. session' = Touch(session)
      BY <2>2, <3>1, <3>2 DEF Advanced
    <3> QED
      BY <3>3, SafeTypes, TouchSame
  <2> QED
    BY <1>1, <2>1, <2>2 DEF SaveProgress
<1>2. CASE RequireReview(c)
  <2>1. CasHolds(client[c].held) => client[c].held = session
    BY DEF CasHolds, SafeInv, MissionInv, Chain, CopyOf
  <2>2. client[c].held.stage \in Reviewable
    BY <1>2 DEF RequireReview, SafeInv, MissionInv, LicensedRequest
  <2> QED
    BY <1>2, <2>1, <2>2 DEF RequireReview, Reviewable
<1>3. CASE RequestReview(c)
  BY <1>3 DEF RequestReview, Reviewable
<1> QED
  BY <1>1, <1>2, <1>3
     DEF ClientRequest, ClientStep, RequestExternal, BeginExternal, ReportExternalBlocker, CheckEvidence,
         ApplyDesign, ProposeAmendment, AcceptTask, ReadSession, ReleaseLease,
         RecordAmendment, MarkPending, EndAmendedLease, ReadForReview

\* A blocked mission goes on by the retry of what blocked it (retry_blocked,
\* retry_preparation, retry_review): no chat, amendment, stale action or crash
\* takes it out of BLOCKED, and retry_grill and retry_design cannot.
THEOREM BlockedWaitsForItsRetry == Spec => OnlyItsRetryUnblocks
<1> DEFINE Retried ==
      session.stage = "blocked" /\ session'.stage # "blocked" =>
         \/ session.reason = "research" /\ op.kind = "retry-research"
         \/ session.reason \in {"spec", "plan"} /\ op.kind = "retry-preparation"
         \/ session.reason = "review" /\ op.kind = "retry-review"
<1>1. ASSUME SafeInv, Next PROVE Retried
  <2>1. CASE SaveIdea
    BY <2>1 DEF SaveIdea
  <2>2. CASE OpStep
    BY <1>1, <2>2, PreparationUnblocks, TaskUnblocks DEF OpStep
  <2>3. CASE \E c \in Clients : ClientRequest(c) \/ ClientStep(c)
    BY <1>1, <2>3, RequestsLeaveBlocked
  <2>4. CASE AgentProposes \/ Crash \/ (\E kind \in Kind : Submit(kind))
    BY <2>4 DEF AgentProposes, Crash, Submit, files
  <2> QED
    BY <1>1, <2>1, <2>2, <2>3, <2>4 DEF Next
<1>2. SafeInv /\ [Next]_vars => [Retried]_vars
  BY <1>1
<1> QED
  BY SafeInit, SafeNext, <1>2, PTL DEF Spec, OnlyItsRetryUnblocks
=============================================================================
