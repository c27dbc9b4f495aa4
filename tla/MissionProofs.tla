--------------------------- MODULE MissionProofs ----------------------------
(***************************************************************************)
(* For every WorkPlan, number of HTTP threads, and bound: the variables of   *)
(* the mission keep their types, and _session.json is the log SessionLog     *)
(* describes whoever writes it.                                             *)
(*                                                                         *)
(* The argument: revisions only grow, so a copy a thread holds is older than *)
(* the stored session or equal to it (Chain).  A save that passes the        *)
(* compare-and-swap is therefore made from the stored session itself, and    *)
(* what move_to and touch do to the copy they do to the file.                *)
(***************************************************************************)
EXTENDS Mission, TLAPS

\* s is the session `now` or one of an earlier revision.
CopyOf(s, now) == s.rev <= now.rev /\ (s.rev = now.rev => s = now)

Chain == /\ CopyOf(FreshSession, session)
         /\ CopyOf(op.held, session)
         /\ \A c \in Clients : CopyOf(client[c].held, session)

\* An action that is about to block knows why.
ReasonedOp(o) == o.pc \in {"report", "block", "refuse"} => o.reason \in Reason

\* A request that is about to save has checked the transition on its copy.
LicensedRequest(r) ==
    /\ r.pc = "save" /\ r.last => CanMove(r.held.stage, "completed")
    /\ r.pc = "require" => r.held.stage \in Reviewable

MissionInv ==
    /\ TypeOK
    /\ Chain
    /\ ReasonedOp(op)
    /\ \A c \in Clients : LicensedRequest(client[c])

\* The part of TypeOK that speaks neither of the session nor of the threads.
FileTypes ==
    /\ tasks \in [Task -> TaskStatus]
    /\ docs \in SUBSET Doc
    /\ design \in Nat
    /\ approved \in Nat \cup {NoSnapshot}
    /\ contracts \in Nat \cup {NoSnapshot}
    /\ lease \in Lease
    /\ pending \in BOOLEAN
    /\ context \in [plan : BOOLEAN, noGrill : BOOLEAN]
    /\ crashes \in Nat
    /\ begun \in Nat
    /\ outrun \in BOOLEAN

\* What has to be shown of every step.
Keeps == MissionInv' /\ [SessionLogOf!Next]_session

-----------------------------------------------------------------------------
(* Sessions. *)

\* The abstract module reads the same table as the concrete one.
LEMMA SameRules ==
  /\ SessionLogOf!Session = Session
  /\ SessionLogOf!FreshSession = FreshSession
  /\ SessionLogOf!NoReason = NoReason
  /\ \A s, t : SessionLogOf!CanMove(s, t) <=> CanMove(s, t)
  /\ \A s : SessionLogOf!Touch(s) = Touch(s)
<1>0. SessionLogOf!NoReason = NoReason
  BY Zenon DEF SessionLogOf!NoReason, NoReason
<1>1. SessionLogOf!Session = Session
  BY <1>0 DEF SessionLogOf!Session, Session, SessionLogOf!Stage, Stage,
         SessionLogOf!Reason, Reason, SessionLogOf!Task, Task,
         SessionLogOf!NoTask, NoTask, SessionLogOf!NoSnapshot, NoSnapshot
<1>2. SessionLogOf!FreshSession = FreshSession
  BY <1>0 DEF SessionLogOf!FreshSession, FreshSession, SessionLogOf!NoTask, NoTask,
         SessionLogOf!NoSnapshot, NoSnapshot
<1>3. SessionLogOf!Transition = Transition
  BY Zenon DEF SessionLogOf!Transition, Transition, SessionLogOf!Stage, Stage
<1>4. \A s, t : SessionLogOf!CanMove(s, t) <=> CanMove(s, t)
  BY <1>3 DEF SessionLogOf!CanMove, CanMove
<1>5. \A s : SessionLogOf!Touch(s) = Touch(s)
  BY DEF SessionLogOf!Touch, Touch
<1> QED
  BY <1>0, <1>1, <1>2, <1>4, <1>5

\* A session that is not blocked has no reason for it.
LEMMA NoReasonIsNone ==
  NoReason \notin Reason /\ NoReason \notin {"diverged", "gated"}
  BY Zenon DEF NoReason, Reason

LEMMA FreshIsSession == FreshSession \in Session /\ FreshSession.rev = 0
  BY DEF FreshSession, Session, Stage, NoTask, NoSnapshot

\* `new` is made from `old` as a coordinator makes sessions; whether the table
\* admits the transition is checked when it is saved.
Successor(old, new) ==
    /\ new \in Session
    /\ new.rev = old.rev + 1
    /\ new.snapshot # old.snapshot => new.stage = "structuring"
    /\ new.task # old.task =>
           new.stage \in {"task_preparation", "ready", "completed"}
    /\ new.reason # NoReason <=> new.stage = "blocked"

LEMMA TouchFields ==
  ASSUME NEW s \in Session
  PROVE  Touch(s) \in Session /\ Touch(s).rev = s.rev + 1
<1>1. s.rev \in Nat
  BY DEF Session
<1>2. s.rev + 1 \in Nat
  BY <1>1
<1> QED
  BY <1>2 DEF Touch, Session

LEMMA MoveToFields ==
  ASSUME NEW s \in Session, NEW to \in Stage
  PROVE  /\ MoveTo(s, to) \in Session
         /\ MoveTo(s, to).stage = to
         /\ MoveTo(s, to).rev = s.rev + 1
         /\ MoveTo(s, to).task = s.task
         /\ MoveTo(s, to).snapshot = s.snapshot
         /\ MoveTo(s, to).reason = NoReason
<1>1. s.rev \in Nat
  BY DEF Session
<1>2. s.rev + 1 \in Nat
  BY <1>1
<1> QED
  BY <1>2 DEF MoveTo, Session

LEMMA MoveToSucceeds ==
  ASSUME NEW s \in Session, NEW to \in Stage \ {"blocked"}
  PROVE  Successor(s, MoveTo(s, to)) /\ MoveTo(s, to).stage = to
  BY MoveToFields DEF Successor

LEMMA MoveToTaskSucceeds ==
  ASSUME NEW s \in Session, NEW t \in Task \cup {NoTask},
         NEW to \in {"task_preparation", "ready", "completed"}
  PROVE  Successor(s, MoveToTask(s, to, t)) /\ MoveToTask(s, to, t).stage = to
<1> DEFINE m == MoveTo(s, to)
<1>1. to \in Stage \ {"blocked"}
  BY DEF Stage
<1>2. /\ m \in Session /\ m.stage = to /\ m.rev = s.rev + 1
      /\ m.snapshot = s.snapshot /\ m.reason = NoReason
  BY <1>1, MoveToFields
<1> HIDE DEF m
<1>3. [m EXCEPT !.task = t] \in Session
  BY <1>2 DEF Session
<1>4. MoveToTask(s, to, t) = [m EXCEPT !.task = t]
  BY DEF MoveToTask, m
<1> QED
  BY <1>1, <1>2, <1>3, <1>4 DEF Successor, Session

LEMMA MoveToSnapshotSucceeds ==
  ASSUME NEW s \in Session, NEW id \in Nat \cup {NoSnapshot}
  PROVE  Successor(s, MoveToSnapshot(s, "structuring", id))
<1> DEFINE m == MoveTo(s, "structuring")
<1>1. "structuring" \in Stage \ {"blocked"}
  BY DEF Stage
<1>2. /\ m \in Session /\ m.stage = "structuring" /\ m.rev = s.rev + 1
      /\ m.task = s.task /\ m.reason = NoReason
  BY <1>1, MoveToFields
<1> HIDE DEF m
<1>3. [m EXCEPT !.snapshot = id] \in Session
  BY <1>2 DEF Session
<1>4. MoveToSnapshot(s, "structuring", id) = [m EXCEPT !.snapshot = id]
  BY DEF MoveToSnapshot, m
<1> QED
  BY <1>1, <1>2, <1>3, <1>4 DEF Successor, Session

LEMMA BlockedSucceeds ==
  ASSUME NEW s \in Session, NEW why \in Reason
  PROVE  Successor(s, Blocked(s, why)) /\ Blocked(s, why).stage = "blocked"
<1> DEFINE m == MoveTo(s, "blocked")
<1>1. "blocked" \in Stage /\ why # NoReason
  BY NoReasonIsNone DEF Stage
<1>2. /\ m \in Session /\ m.stage = "blocked" /\ m.rev = s.rev + 1
      /\ m.task = s.task /\ m.snapshot = s.snapshot
  BY <1>1, MoveToFields
<1> HIDE DEF m
<1>3. [m EXCEPT !.reason = why] \in Session
  BY <1>2 DEF Session
<1>4. Blocked(s, why) = [m EXCEPT !.reason = why]
  BY DEF Blocked, m
<1> QED
  BY <1>1, <1>2, <1>3, <1>4 DEF Successor, Session

\* A successor of the stored session is the next entry of the log.
LEMMA SuccessorAdvances ==
  ASSUME Successor(session, session'), CanMove(session.stage, session'.stage)
  PROVE  SessionLogOf!Next
<1>1. session' \in SessionLogOf!Session /\ session'.rev = session.rev + 1
  BY SameRules DEF Successor
<1>2. SessionLogOf!CanMove(session.stage, session'.stage)
  BY SameRules
<1>3. SessionLogOf!Advance
  BY <1>1, <1>2, SameRules DEF Successor, SessionLogOf!Advance
<1> QED
  BY <1>3 DEF SessionLogOf!Next

LEMMA LogGrows ==
  ASSUME session \in Session, [SessionLogOf!Next]_session
  PROVE  session' \in Session
         /\ (session' = session \/ session'.rev = session.rev + 1)
<1>1. CASE UNCHANGED session
  BY <1>1
<1>2. CASE SessionLogOf!Advance
  BY <1>2, SameRules DEF SessionLogOf!Advance
<1>3. CASE SessionLogOf!Renew
  BY <1>3, SameRules, TouchFields DEF SessionLogOf!Renew
<1> QED
  BY <1>1, <1>2, <1>3 DEF SessionLogOf!Next

LEMMA CopyStays ==
  ASSUME session \in Session, [SessionLogOf!Next]_session,
         NEW s \in Session, CopyOf(s, session)
  PROVE  CopyOf(s, session')
<1>1. s.rev \in Nat /\ session.rev \in Nat
  BY DEF Session
<1>2. CASE session' = session
  BY <1>2 DEF CopyOf
<1>3. CASE session'.rev = session.rev + 1
  BY <1>1, <1>3 DEF CopyOf
<1> QED
  BY <1>2, <1>3, LogGrows

-----------------------------------------------------------------------------
(* Steps in general. *)

LEMMA InvTypes ==
  ASSUME MissionInv
  PROVE  /\ session \in Session /\ op \in Op /\ op.held \in Session
         /\ client \in [Clients -> Request]
         /\ \A c \in Clients : client[c].held \in Session
         /\ FileTypes
<1>1. op \in Op /\ client \in [Clients -> Request]
  BY DEF MissionInv, TypeOK
<1>2. op.held \in Session
  BY <1>1 DEF Op
<1>3. \A c \in Clients : client[c].held \in Session
  BY <1>1 DEF Request
<1> QED
  BY <1>1, <1>2, <1>3 DEF MissionInv, TypeOK, FileTypes

LEMMA NothingHeld ==
  /\ NoOp \in Op /\ NoOp.held = FreshSession /\ NoOp.pc = "idle"
  /\ NoRequest \in Request /\ NoRequest.held = FreshSession
  /\ NoRequest.pc = "idle" /\ NoLease \in Lease
<1>1. NoOp \in Op
  BY FreshIsSession DEF NoOp, Op, Pc
<1>2. NoLease \in Lease
  BY DEF NoLease, Lease, Actor, LeaseStatus, NoTask, NoSnapshot
<1>3. NoRequest \in Request
  BY <1>2, FreshIsSession DEF NoRequest, Request
<1> QED
  BY <1>1, <1>2, <1>3 DEF NoOp, NoRequest

\* A step keeps the invariant if the log allows what it does to the session and
\* threads hold on only to sessions they had, have read, or have just saved.
LEMMA StepKeeps ==
  ASSUME MissionInv, [SessionLogOf!Next]_session, FileTypes',
         op' \in Op, op'.held \in {op.held, session', FreshSession},
         ReasonedOp(op'),
         client' \in [Clients -> Request],
         \A c \in Clients : client'[c].held \in {client[c].held, session, FreshSession},
         \A c \in Clients : LicensedRequest(client'[c])
  PROVE  Keeps
<1>1. session' \in Session
  BY InvTypes, LogGrows
<1>2. TypeOK'
  BY <1>1 DEF FileTypes, TypeOK
<1>3. \A s \in Session : CopyOf(s, session) => CopyOf(s, session')
  BY InvTypes, CopyStays
<1>4. CopyOf(FreshSession, session') /\ CopyOf(op.held, session')
  BY <1>3, InvTypes, FreshIsSession DEF MissionInv, Chain
<1>5. CopyOf(session, session) /\ CopyOf(session', session')
  <2>1. session.rev \in Nat /\ session'.rev \in Nat
    BY <1>1, InvTypes DEF Session
  <2> QED
    BY <2>1 DEF CopyOf
<1>6. CopyOf(op'.held, session')
  BY <1>4, <1>5
<1>7. ASSUME NEW c \in Clients
      PROVE  CopyOf(client'[c].held, session')
  <2>1. CopyOf(client[c].held, session')
    BY <1>3, InvTypes DEF MissionInv, Chain
  <2>2. CopyOf(session, session')
    BY <1>3, <1>5, InvTypes
  <2> QED
    BY <2>1, <2>2, <1>4
<1>8. Chain'
  BY <1>4, <1>6, <1>7 DEF Chain
<1> QED
  BY <1>2, <1>8 DEF Keeps, MissionInv

\* The action's thread moves on and saves no session.
LEMMA OpMoves ==
  ASSUME MissionInv, UNCHANGED <<session, client>>, FileTypes',
         op' \in Op, op'.held \in {op.held, session, FreshSession},
         ReasonedOp(op')
  PROVE  Keeps
<1>1. \A c \in Clients : LicensedRequest(client'[c])
  BY DEF MissionInv
<1> QED
  BY <1>1, InvTypes, StepKeeps

LEMMA RaisedIsOp ==
  ASSUME MissionInv
  PROVE  /\ Raised \in Op
         /\ Raised.held \in {op.held, FreshSession}
         /\ ReasonedOp(Raised)
<1>1. [op EXCEPT !.pc = "raise"] \in Op
      /\ [op EXCEPT !.pc = "raise"].held = op.held
      /\ [op EXCEPT !.pc = "raise"].pc = "raise"
  BY InvTypes DEF Op, Pc
<1> QED
  BY <1>1, NothingHeld DEF Raised, ReasonedOp

\* The action raises, or fails.
LEMMA OpRaises ==
  ASSUME MissionInv, UNCHANGED <<session, client>>, FileTypes',
         op' = Raised \/ op' = NoOp
  PROVE  Keeps
<1>1. CASE op' = Raised
  BY <1>1, RaisedIsOp, OpMoves
<1>2. CASE op' = NoOp
  BY <1>2, NothingHeld, OpMoves DEF ReasonedOp
<1> QED
  BY <1>1, <1>2

\* The action saves: the compare-and-swap holds only for the stored session.
LEMMA SaveKeeps ==
  ASSUME MissionInv, UNCHANGED client, FileTypes',
         NEW new, NEW next, Save(new, next), Successor(op.held, new),
         next \in Op, next.held \in {new, FreshSession}, ReasonedOp(next)
  PROVE  Keeps
<1>1. CASE ~(CanMove(op.held.stage, new.stage) /\ CasHolds(op.held))
  BY <1>1, OpRaises DEF Save
<1>2. CASE CanMove(op.held.stage, new.stage) /\ CasHolds(op.held)
  <2>1. op.held = session
    BY <1>2 DEF CasHolds, MissionInv, Chain, CopyOf
  <2>2. session' = new /\ op' = next
    BY <1>2 DEF Save
  <2>3. SessionLogOf!Next
    BY <1>2, <2>1, <2>2, SuccessorAdvances
  <2>4. \A c \in Clients : LicensedRequest(client'[c])
    BY DEF MissionInv
  <2> QED
    BY <2>2, <2>3, <2>4, InvTypes, StepKeeps
<1> QED
  BY <1>1, <1>2

LEMMA SaveAndGoKeeps ==
  ASSUME MissionInv, UNCHANGED client, FileTypes',
         NEW new, NEW pc \in Pc \ {"report", "block", "refuse"},
         SaveAndGo(new, pc), Successor(op.held, new)
  PROVE  Keeps
<1> DEFINE next == [op EXCEPT !.pc = pc, !.held = new]
<1>1. next \in Op /\ next.held = new /\ next.pc = pc
  BY InvTypes DEF Op, Successor
<1>2. Save(new, next)
  BY DEF SaveAndGo
<1> HIDE DEF next
<1> QED
  BY <1>1, <1>2, SaveKeeps DEF ReasonedOp

LEMMA SaveAndEndKeeps ==
  ASSUME MissionInv, UNCHANGED client, FileTypes',
         NEW new, SaveAndEnd(new), Successor(op.held, new)
  PROVE  Keeps
<1>1. Save(new, NoOp)
  BY DEF SaveAndEnd
<1> QED
  BY <1>1, NothingHeld, SaveKeeps DEF ReasonedOp

\* The action's thread moves on to another place with its session in hand.
LEMMA OpGoes ==
  ASSUME MissionInv, NEW pc \in Pc \ {"report", "block", "refuse"},
         NEW id \in Nat
  PROVE  /\ [op EXCEPT !.pc = pc] \in Op
         /\ [op EXCEPT !.pc = pc].held = op.held
         /\ ReasonedOp([op EXCEPT !.pc = pc])
         /\ [op EXCEPT !.pc = pc, !.lease = id] \in Op
         /\ [op EXCEPT !.pc = pc, !.lease = id].held = op.held
         /\ ReasonedOp([op EXCEPT !.pc = pc, !.lease = id])
  BY InvTypes DEF Op, ReasonedOp

-----------------------------------------------------------------------------
(* The actions of PreparationCoordinator. *)

LEMMA SaveIdeaKeeps == ASSUME MissionInv, SaveIdea PROVE Keeps
<1>1. FileTypes'
  BY InvTypes DEF SaveIdea, taskFiles, elsewhere, FileTypes, Doc
<1>2. SessionLogOf!Next
  BY SameRules DEF SaveIdea, SessionLogOf!Next, SessionLogOf!Renew
<1>3. UNCHANGED <<op, client>>
  BY DEF SaveIdea, elsewhere
<1> QED
  BY <1>1, <1>2, <1>3, InvTypes, StepKeeps DEF MissionInv

\* Every stage and place a coordinator names in passing is one.
LEMMA Names ==
  /\ {"researching", "research_review", "grilling", "design_review",
      "workplan_review", "ready", "amendment_review", "task_preparation",
      "task_review", "executing", "reconciling", "paused", "draft"}
       \subseteq Stage \ {"blocked"}
  /\ {"start", "agent", "skip", "approved", "compile", "begin", "enter", "reopen",
      "implement", "review", "hand_off", "pause", "paused", "consume",
      "finish", "boundary", "reconcile", "judged", "reported", "close",
      "raise"} \subseteq Pc \ {"report", "block", "refuse"}
  BY DEF Stage, Pc

LEMMA StartResearchKeeps == ASSUME MissionInv, StartResearch PROVE Keeps
<1>1. FileTypes' /\ UNCHANGED client
  BY InvTypes DEF StartResearch, taskFiles, elsewhere, FileTypes
<1>2. CASE SaveAndGo(MoveTo(op.held, "researching"), "agent")
  BY <1>1, <1>2, InvTypes, Names, MoveToSucceeds, SaveAndGoKeeps
<1>3. CASE Fail
  BY <1>1, <1>3, OpRaises DEF Fail
<1> QED
  BY <1>2, <1>3 DEF StartResearch

LEMMA EndResearchKeeps == ASSUME MissionInv, EndResearch PROVE Keeps
<1>1. FileTypes' /\ UNCHANGED client
  BY InvTypes DEF EndResearch, taskFiles, elsewhere, FileTypes, Doc
<1>2. CASE SaveAndEnd(Blocked(op.held, "research"))
  <2>1. "research" \in Reason
    BY DEF Reason
  <2> QED
    BY <1>1, <1>2, <2>1, InvTypes, BlockedSucceeds, SaveAndEndKeeps
<1>3. CASE SaveAndGo(MoveTo(op.held, "research_review"), "skip")
  BY <1>1, <1>3, InvTypes, Names, MoveToSucceeds, SaveAndGoKeeps
<1>4. CASE SaveAndEnd(MoveTo(op.held, "research_review"))
  BY <1>1, <1>4, InvTypes, Names, MoveToSucceeds, SaveAndEndKeeps
<1> QED
  BY <1>2, <1>3, <1>4 DEF EndResearch

LEMMA StartGrillKeeps == ASSUME MissionInv, StartGrill PROVE Keeps
<1>1. FileTypes' /\ UNCHANGED client
  BY InvTypes DEF StartGrill, taskFiles, elsewhere, FileTypes
<1>2. SaveAndGo(MoveTo(op.held, "grilling"), "agent")
  BY DEF StartGrill
<1> QED
  BY <1>1, <1>2, InvTypes, Names, MoveToSucceeds, SaveAndGoKeeps

LEMMA EndGrillKeeps == ASSUME MissionInv, EndGrill PROVE Keeps
<1>1. FileTypes' /\ UNCHANGED client
  BY InvTypes DEF EndGrill, taskFiles, elsewhere, FileTypes, Doc
<1>2. CASE SaveAndEnd(Blocked(op.held, "grill"))
  <2>1. "grill" \in Reason
    BY DEF Reason
  <2> QED
    BY <1>1, <1>2, <2>1, InvTypes, BlockedSucceeds, SaveAndEndKeeps
<1>3. CASE SaveAndEnd(MoveTo(op.held, "design_review"))
  BY <1>1, <1>3, InvTypes, Names, MoveToSucceeds, SaveAndEndKeeps
<1> QED
  BY <1>2, <1>3 DEF EndGrill

LEMMA SkipGrillKeeps == ASSUME MissionInv, SkipGrill PROVE Keeps
<1>1. FileTypes' /\ UNCHANGED client
  BY InvTypes DEF SkipGrill, taskFiles, elsewhere, FileTypes, Doc
<1>2. CASE SaveAndEnd(MoveTo(op.held, "design_review"))
  BY <1>1, <1>2, InvTypes, Names, MoveToSucceeds, SaveAndEndKeeps
<1>3. CASE Fail
  BY <1>1, <1>3, OpRaises DEF Fail
<1> QED
  BY <1>2, <1>3 DEF SkipGrill

LEMMA ApproveDesignKeeps == ASSUME MissionInv, ApproveDesign PROVE Keeps
<1>1. FileTypes' /\ UNCHANGED <<session, client>>
  BY InvTypes DEF ApproveDesign, taskFiles, elsewhere, FileTypes
<1>2. CASE op' = [op EXCEPT !.pc = "approved"]
  BY <1>1, <1>2, Names, OpGoes, OpMoves
<1>3. CASE op' = NoOp
  BY <1>1, <1>3, OpRaises
<1> QED
  BY <1>2, <1>3 DEF ApproveDesign

LEMMA StartStructureKeeps == ASSUME MissionInv, StartStructure PROVE Keeps
<1>1. FileTypes' /\ UNCHANGED client
  BY InvTypes DEF StartStructure, taskFiles, elsewhere, FileTypes
<1>2. SaveAndGo(MoveToSnapshot(op.held, "structuring", approved), "agent")
  BY DEF StartStructure
<1>3. Successor(op.held, MoveToSnapshot(op.held, "structuring", approved))
  BY InvTypes, MoveToSnapshotSucceeds DEF FileTypes
<1> QED
  BY <1>1, <1>2, <1>3, Names, SaveAndGoKeeps

LEMMA EndStructureKeeps == ASSUME MissionInv, EndStructure PROVE Keeps
<1>1. FileTypes' /\ UNCHANGED client
  BY InvTypes DEF EndStructure, elsewhere, FileTypes, TaskStatus
<1>2. CASE SaveAndEnd(Blocked(op.held, "structure"))
  <2>1. "structure" \in Reason
    BY DEF Reason
  <2> QED
    BY <1>1, <1>2, <2>1, InvTypes, BlockedSucceeds, SaveAndEndKeeps
<1>3. CASE op' = [op EXCEPT !.pc = "compile"] /\ UNCHANGED session
  BY <1>1, <1>3, Names, OpGoes, OpMoves
<1> QED
  BY <1>2, <1>3 DEF EndStructure

LEMMA CompileContractsKeeps == ASSUME MissionInv, CompileContracts PROVE Keeps
<1>1. FileTypes' /\ UNCHANGED client
  BY InvTypes DEF CompileContracts, taskFiles, elsewhere, FileTypes
<1>2. CASE SaveAndEnd(MoveTo(op.held, "workplan_review"))
  BY <1>1, <1>2, InvTypes, Names, MoveToSucceeds, SaveAndEndKeeps
<1>3. ASSUME NEW error \in {"workplan", "changeset"},
             SaveAndEnd(Blocked(op.held, error))
      PROVE  Keeps
  <2>1. error \in Reason
    BY DEF Reason
  <2> QED
    BY <1>1, <1>3, <2>1, InvTypes, BlockedSucceeds, SaveAndEndKeeps
<1> QED
  BY <1>2, <1>3 DEF CompileContracts

LEMMA ApproveExecutionKeeps == ASSUME MissionInv, ApproveExecution PROVE Keeps
<1>1. FileTypes' /\ UNCHANGED client
  BY InvTypes DEF ApproveExecution, taskFiles, elsewhere, FileTypes
<1>2. SaveAndEnd(MoveTo(op.held, "ready"))
  BY DEF ApproveExecution
<1> QED
  BY <1>1, <1>2, InvTypes, Names, MoveToSucceeds, SaveAndEndKeeps

LEMMA RequestAmendmentKeeps == ASSUME MissionInv, RequestAmendment PROVE Keeps
<1>1. FileTypes' /\ UNCHANGED client
  BY InvTypes DEF RequestAmendment, taskFiles, elsewhere, FileTypes
<1>2. SaveAndEnd(MoveTo(op.held, "amendment_review"))
  BY DEF RequestAmendment
<1> QED
  BY <1>1, <1>2, InvTypes, Names, MoveToSucceeds, SaveAndEndKeeps

LEMMA StepBackKeeps == ASSUME MissionInv, StepBack PROVE Keeps
<1> DEFINE back == MoveTo(op.held, BackTo(op.kind)[1])
           next == [op EXCEPT !.kind = BackTo(op.kind)[2], !.held = back]
<1>1. FileTypes' /\ UNCHANGED client
  BY InvTypes DEF StepBack, taskFiles, elsewhere, FileTypes
<1>2. op.kind \in {"retry-research", "retry-grill", "retry-design"}
      /\ op.pc = "start" /\ Save(back, next)
  BY DEF StepBack, At
<1>3. BackTo(op.kind)[1] \in {"draft", "research_review", "design_review"}
      /\ BackTo(op.kind)[2] \in Kind
  BY <1>2 DEF BackTo, Kind, PreparationKind
<1>4. Successor(op.held, back)
  BY <1>3, InvTypes, Names, MoveToSucceeds
<1> HIDE DEF back
<1>5. next \in Op /\ next.held = back /\ next.pc = "start"
  BY <1>2, <1>3, <1>4, InvTypes DEF Op, Successor
<1> HIDE DEF next
<1> QED
  BY <1>1, <1>2, <1>4, <1>5, SaveKeeps DEF ReasonedOp

LEMMA PreparationKeeps == ASSUME MissionInv, PreparationStep PROVE Keeps
  BY StartResearchKeeps, EndResearchKeeps, StartGrillKeeps, EndGrillKeeps,
     SkipGrillKeeps, ApproveDesignKeeps, StartStructureKeeps,
     EndStructureKeeps, CompileContractsKeeps, ApproveExecutionKeeps,
     RequestAmendmentKeeps, StepBackKeeps DEF PreparationStep

-----------------------------------------------------------------------------
(* The actions of TaskCoordinator. *)

LEMMA StartPreparationKeeps == ASSUME MissionInv, StartPreparation PROVE Keeps
<1>1. FileTypes' /\ UNCHANGED client
  BY InvTypes DEF StartPreparation, designFiles, others, FileTypes
<1>2. ASSUME NEW t \in Task,
             SaveAndGo(MoveToTask(op.held, "task_preparation", t), "agent")
      PROVE  Keeps
  BY <1>1, <1>2, InvTypes, Names, MoveToTaskSucceeds, SaveAndGoKeeps
<1>3. CASE SaveAndEnd(MoveTo(op.held, "completed"))
  <2>1. "completed" \in Stage \ {"blocked"}
    BY DEF Stage
  <2> QED
    BY <1>1, <1>3, <2>1, InvTypes, MoveToSucceeds, SaveAndEndKeeps
<1>4. CASE SaveAndEnd(Blocked(op.held, "unrunnable"))
  <2>1. "unrunnable" \in Reason
    BY DEF Reason
  <2> QED
    BY <1>1, <1>4, <2>1, InvTypes, BlockedSucceeds, SaveAndEndKeeps
<1> QED
  BY <1>2, <1>3, <1>4 DEF StartPreparation

LEMMA RestartPreparationKeeps ==
  ASSUME MissionInv, RestartPreparation PROVE Keeps
<1>1. FileTypes' /\ UNCHANGED client
  BY InvTypes DEF RestartPreparation, designFiles, others, FileTypes
<1>2. SaveAndGo(MoveTo(op.held, "task_preparation"), "agent")
  BY DEF RestartPreparation
<1> QED
  BY <1>1, <1>2, InvTypes, Names, MoveToSucceeds, SaveAndGoKeeps

LEMMA EndPreparationKeeps == ASSUME MissionInv, EndPreparation PROVE Keeps
<1>1. FileTypes' /\ UNCHANGED client
  BY InvTypes DEF EndPreparation, designFiles, others, FileTypes
<1>2. CASE SaveAndEnd(MoveTo(op.held, "task_review"))
  BY <1>1, <1>2, InvTypes, Names, MoveToSucceeds, SaveAndEndKeeps
<1>3. ASSUME NEW block \in {"spec", "plan"}, SaveAndEnd(Blocked(op.held, block))
      PROVE  Keeps
  <2>1. block \in Reason
    BY DEF Reason
  <2> QED
    BY <1>1, <1>3, <2>1, InvTypes, BlockedSucceeds, SaveAndEndKeeps
<1> QED
  BY <1>2, <1>3 DEF EndPreparation

\* A lease that is begun, or ends, is a lease.
LEMMA LeaseTypes ==
  ASSUME MissionInv
  PROVE  /\ \A actor \in Actor, t \in Task \cup {NoTask} : Grant(actor, t) \in Lease
         /\ \A entry \in Lease :
              WriteLease(entry) => lease' \in Lease /\ begun' \in Nat /\ outrun' \in BOOLEAN
         /\ \A status \in LeaseStatus : EndLease(status) => lease' \in Lease
<1>1. lease \in Lease /\ contracts \in Nat \cup {NoSnapshot} /\ begun \in Nat
      /\ outrun \in BOOLEAN
  BY InvTypes DEF FileTypes
<1>2. begun + 1 \in Nat
  BY <1>1
<1>3. \A actor \in Actor, t \in Task \cup {NoTask} : Grant(actor, t) \in Lease
  BY <1>1 DEF Grant, Lease, LeaseStatus
<1>4. ASSUME NEW entry \in Lease, WriteLease(entry)
      PROVE  lease' \in Lease /\ begun' \in Nat /\ outrun' \in BOOLEAN
  BY <1>1, <1>2, <1>4 DEF WriteLease, Lease
<1>5. ASSUME NEW status \in LeaseStatus, EndLease(status)
      PROVE  lease' \in Lease
  BY <1>1, <1>5 DEF EndLease, Lease
<1> QED
  BY <1>3, <1>4, <1>5

\* If only the lease changes among the files, and stays one.
LEMMA LeaseChanges ==
  ASSUME MissionInv, lease' = lease \/ lease' \in Lease,
         UNCHANGED <<tasks, pending, designFiles, context, crashes, begun, outrun>>
  PROVE  FileTypes'
  BY InvTypes DEF FileTypes, designFiles

\* If only the status of one task changes.
LEMMA TaskChanges ==
  ASSUME MissionInv,
         UNCHANGED tasks \/ (\E t \in Task \cup {NoTask}, s \in TaskStatus : SetTask(t, s)),
         UNCHANGED <<lease, pending, designFiles, context, crashes, begun, outrun>>
  PROVE  FileTypes'
<1>1. tasks' \in [Task -> TaskStatus]
  BY InvTypes DEF FileTypes, SetTask
<1> QED
  BY <1>1, InvTypes DEF FileTypes, designFiles

LEMMA RequestLeaseKeeps == ASSUME MissionInv, RequestLease PROVE Keeps
<1>1. UNCHANGED <<session, client, lease, tasks, pending, designFiles, context, crashes,
                  begun, outrun>>
  BY DEF RequestLease, others
<1>2. FileTypes'
  BY <1>1, LeaseChanges
<1>3. ASSUME NEW pc \in {"enter", "begin"}, op' = [op EXCEPT !.pc = pc]
      PROVE  Keeps
  BY <1>1, <1>2, <1>3, Names, OpGoes, OpMoves
<1>4. CASE op' = NoOp
  BY <1>1, <1>2, <1>4, OpRaises
<1> QED
  BY <1>3, <1>4 DEF RequestLease

LEMMA TakeLeaseKeeps == ASSUME MissionInv, TakeLease PROVE Keeps
<1>1. UNCHANGED <<session, client, tasks, pending, designFiles, context, crashes>>
  BY DEF TakeLease
<1>2. Grant("mission", OpTask) \in Lease
  BY InvTypes, LeaseTypes DEF OpTask, Session, Actor
<1>3. FileTypes'
  BY <1>1, <1>2, LeaseTypes, InvTypes DEF TakeLease, FileTypes, designFiles
<1>4. begun + 1 \in Nat
  <2>1. begun \in Nat
    BY InvTypes DEF FileTypes
  <2> QED
    BY <2>1
<1>5. op' = [op EXCEPT !.pc = "enter", !.lease = begun + 1]
  BY DEF TakeLease
<1> QED
  BY <1>1, <1>3, <1>4, <1>5, Names, OpGoes, OpMoves

LEMMA EnterExecutionKeeps == ASSUME MissionInv, EnterExecution PROVE Keeps
<1>1. FileTypes' /\ UNCHANGED client
  BY InvTypes DEF EnterExecution, designFiles, others, FileTypes
<1>2. ASSUME NEW pc \in {"reopen", "finish", "implement"},
             SaveAndGo(MoveTo(op.held, "executing"), pc)
      PROVE  Keeps
  BY <1>1, <1>2, InvTypes, Names, MoveToSucceeds, SaveAndGoKeeps
<1>3. CASE UNCHANGED session /\ op' = Raised
  BY <1>1, <1>3, OpRaises
<1> QED
  BY <1>2, <1>3 DEF EnterExecution

LEMMA ReopenTaskKeeps == ASSUME MissionInv, ReopenTask PROVE Keeps
<1>1. UNCHANGED <<session, client, lease, pending, designFiles, context, crashes, begun, outrun>>
  BY DEF ReopenTask, others
<1>2. FileTypes'
  <2>1. OpTask \in Task \cup {NoTask} /\ "pending" \in TaskStatus
    BY InvTypes DEF OpTask, Session, TaskStatus
  <2> QED
    BY <1>1, <2>1, TaskChanges DEF ReopenTask
<1>3. op' = [op EXCEPT !.pc = "review"]
  BY DEF ReopenTask
<1> QED
  BY <1>1, <1>2, <1>3, Names, OpGoes, OpMoves

LEMMA AgentProposesKeeps == ASSUME MissionInv, AgentProposes PROVE Keeps
<1>1. design \in Nat
  BY InvTypes DEF FileTypes
<1>2. design + 1 \in Nat
  BY <1>1
<1>3. FileTypes'
  BY <1>2, InvTypes DEF AgentProposes, others, FileTypes
<1>4. UNCHANGED <<session, client, op>>
  BY DEF AgentProposes, others
<1> QED
  BY <1>3, <1>4, InvTypes, OpMoves DEF MissionInv

LEMMA EndPhaseKeeps == ASSUME MissionInv, EndPhase PROVE Keeps
<1>1. UNCHANGED <<session, client, lease, pending, designFiles, context, crashes, begun, outrun>>
  BY DEF EndPhase, others
<1>2. FileTypes'
  <2>1. OpTask \in Task \cup {NoTask} /\ "failed" \in TaskStatus
    BY InvTypes DEF OpTask, Session, TaskStatus
  <2> QED
    BY <1>1, <2>1, TaskChanges DEF EndPhase
<1>3. CASE op' = [op EXCEPT !.pc = "report", !.reason = op.pc]
  <2>1. op.pc \in Reason
    BY DEF EndPhase, At, Reason
  <2>2. op' \in Op /\ op'.held = op.held /\ op'.reason \in Reason
    BY <1>3, <2>1, InvTypes DEF Op, Pc
  <2> QED
    BY <1>1, <1>2, <2>2, OpMoves DEF ReasonedOp
<1>4. ASSUME NEW pc \in {"hand_off", "review", "finish"},
             op' = [op EXCEPT !.pc = pc]
      PROVE  Keeps
  BY <1>1, <1>2, <1>4, Names, OpGoes, OpMoves
<1> QED
  BY <1>3, <1>4 DEF EndPhase

\* report_blocker and propose_amendment, then on to pc or to the handler.
LEMMA CloseLeaseKeeps ==
  ASSUME MissionInv, NEW status \in LeaseStatus, NEW pc \in Pc,
         CloseLease(status, pc), pc \in {"report", "block", "refuse"} => op.reason \in Reason,
         UNCHANGED <<session, client, tasks, pending, designFiles, context, crashes, begun, outrun>>
  PROVE  Keeps
<1>1. FileTypes'
  BY LeaseTypes, LeaseChanges DEF CloseLease
<1>2. CASE op' = [op EXCEPT !.pc = pc]
  <2>1. op' \in Op /\ op'.held = op.held /\ op'.pc = pc /\ op'.reason = op.reason
    BY <1>2, InvTypes DEF Op
  <2> QED
    BY <1>1, <2>1, OpMoves DEF ReasonedOp
<1>3. CASE op' = [op EXCEPT !.pc = pc, !.lease = 0]
  <2>1. op' \in Op /\ op'.held = op.held /\ op'.pc = pc /\ op'.reason = op.reason
    BY <1>3, InvTypes DEF Op
  <2> QED
    BY <1>1, <2>1, OpMoves DEF ReasonedOp
<1>4. CASE op' = Raised
  BY <1>1, <1>4, OpRaises
<1> QED
  BY <1>2, <1>3, <1>4 DEF CloseLease

LEMMA ReportBlockerKeeps == ASSUME MissionInv, ReportBlocker PROVE Keeps
<1>1. "blocked" \in LeaseStatus /\ "block" \in Pc /\ op.reason \in Reason
  BY DEF LeaseStatus, Pc, MissionInv, ReasonedOp, ReportBlocker, At
<1> QED
  BY <1>1, CloseLeaseKeeps DEF ReportBlocker, others

LEMMA BlockExecutionKeeps == ASSUME MissionInv, BlockExecution PROVE Keeps
<1>1. FileTypes' /\ UNCHANGED client
  BY InvTypes DEF BlockExecution, designFiles, others, FileTypes
<1>2. SaveAndEnd(Blocked(op.held, op.reason)) /\ op.reason \in Reason
  BY DEF BlockExecution, At, MissionInv, ReasonedOp
<1> QED
  BY <1>1, <1>2, InvTypes, BlockedSucceeds, SaveAndEndKeeps

LEMMA HandOffLeaseKeeps == ASSUME MissionInv, HandOffLease PROVE Keeps
<1>1. "amendment_requested" \in LeaseStatus /\ "pause" \in Pc
  BY DEF LeaseStatus, Pc
<1> QED
  BY <1>1, CloseLeaseKeeps DEF HandOffLease, others

LEMMA PauseKeeps == ASSUME MissionInv, Pause PROVE Keeps
<1>1. FileTypes' /\ UNCHANGED client
  BY InvTypes DEF Pause, designFiles, others, FileTypes
<1>2. SaveAndGo(MoveTo(op.held, "paused"), "paused")
  BY DEF Pause
<1> QED
  BY <1>1, <1>2, InvTypes, Names, MoveToSucceeds, SaveAndGoKeeps

LEMMA EnterAmendmentKeeps == ASSUME MissionInv, EnterAmendment PROVE Keeps
<1>1. FileTypes' /\ UNCHANGED client
  BY InvTypes DEF EnterAmendment, designFiles, others, FileTypes
<1>2. SaveAndGo(MoveTo(op.held, "amendment_review"), "consume")
  BY DEF EnterAmendment
<1> QED
  BY <1>1, <1>2, InvTypes, Names, MoveToSucceeds, SaveAndGoKeeps

LEMMA ConsumeAmendmentKeeps == ASSUME MissionInv, ConsumeAmendment PROVE Keeps
<1>1. FileTypes' /\ UNCHANGED <<session, client>>
  BY InvTypes DEF ConsumeAmendment, designFiles, others, FileTypes
<1>2. op' = [op EXCEPT !.pc = "close"]
  BY DEF ConsumeAmendment
<1> QED
  BY <1>1, <1>2, Names, OpGoes, OpMoves

LEMMA DecideTaskKeeps == ASSUME MissionInv, DecideTask PROVE Keeps
<1>1. UNCHANGED <<session, client, lease, pending, designFiles, context, crashes, begun, outrun>>
  BY DEF DecideTask, others
<1>2. FileTypes'
  <2>1. OpTask \in Task \cup {NoTask} /\ {"completed", "failed"} \subseteq TaskStatus
    BY InvTypes DEF OpTask, Session, TaskStatus
  <2> QED
    BY <1>1, <2>1, TaskChanges DEF DecideTask
<1>3. CASE op' = [op EXCEPT !.pc = "boundary"]
  BY <1>1, <1>2, <1>3, Names, OpGoes, OpMoves
<1>4. ASSUME NEW block \in Refusals,
             op' = [op EXCEPT !.pc = "refuse", !.reason = block]
      PROVE  Keeps
  <2>1. block \in Reason
    BY DEF Refusals, Reason
  <2>2. op' \in Op /\ op'.held = op.held /\ op'.reason \in Reason
    BY <1>4, <2>1, InvTypes DEF Op, Pc
  <2> QED
    BY <1>1, <1>2, <2>2, OpMoves DEF ReasonedOp
<1> QED
  BY <1>3, <1>4 DEF DecideTask

LEMMA RefuseTaskKeeps == ASSUME MissionInv, RefuseTask PROVE Keeps
<1>1. FileTypes' /\ UNCHANGED client
  BY InvTypes DEF RefuseTask, designFiles, others, FileTypes
<1>2. SaveAndGo(Blocked(op.held, op.reason), "close") /\ op.reason \in Reason
  BY DEF RefuseTask, At, MissionInv, ReasonedOp
<1> QED
  BY <1>1, <1>2, InvTypes, Names, BlockedSucceeds, SaveAndGoKeeps

LEMMA BoundaryKeeps == ASSUME MissionInv, Boundary PROVE Keeps
<1>1. FileTypes' /\ UNCHANGED client
  BY InvTypes DEF Boundary, designFiles, others, FileTypes
<1>2. CASE UNCHANGED session /\ op' = [op EXCEPT !.pc = "pause"]
  BY <1>1, <1>2, Names, OpGoes, OpMoves
<1>3. CASE SaveAndGo(MoveTo(op.held, "reconciling"), "reconcile")
  BY <1>1, <1>3, InvTypes, Names, MoveToSucceeds, SaveAndGoKeeps
<1> QED
  BY <1>2, <1>3 DEF Boundary

LEMMA ReconcileKeeps == ASSUME MissionInv, Reconcile PROVE Keeps
<1>1. FileTypes' /\ UNCHANGED <<session, client>>
  BY InvTypes DEF Reconcile, designFiles, others, FileTypes
<1>2. PICK verdict \in {NoReason, "diverged", "gated"} :
        op' = [op EXCEPT !.pc = "judged", !.reason = verdict,
                         !.more = \E t \in Task : tasks[t] = "pending"]
  BY DEF Reconcile
<1>3. op' \in Op /\ op'.held = op.held /\ op'.pc = "judged"
  BY <1>2, InvTypes DEF Op, Pc
<1> QED
  BY <1>1, <1>3, OpMoves DEF ReasonedOp

LEMMA JudgeKeeps == ASSUME MissionInv, Judge PROVE Keeps
<1>1. UNCHANGED <<client, lease, pending, designFiles, context, crashes, begun, outrun>>
  BY DEF Judge, others
<1>2. FileTypes'
  <2>1. OpTask \in Task \cup {NoTask} /\ "failed" \in TaskStatus
    BY InvTypes DEF OpTask, Session, TaskStatus
  <2> QED
    BY <1>1, <2>1, TaskChanges DEF Judge
<1>3. ASSUME NEW pc \in {"pause", "reported"}, UNCHANGED session,
             op' = [op EXCEPT !.pc = pc]
      PROVE  Keeps
  BY <1>1, <1>2, <1>3, Names, OpGoes, OpMoves
<1>4. CASE UNCHANGED session /\ BlockDiverged
  <2>1. op' \in Op /\ op'.held = op.held /\ op'.reason \in Reason
    BY <1>4, InvTypes DEF BlockDiverged, Op, Pc, Reason
  <2> QED
    BY <1>1, <1>2, <1>4, <2>1, OpMoves DEF ReasonedOp
<1>5. CASE SaveAndGo(MoveToTask(op.held, "ready", NoTask), "close")
  BY <1>1, <1>2, <1>5, InvTypes, Names, MoveToTaskSucceeds, SaveAndGoKeeps
<1> QED
  BY <1>3, <1>4, <1>5 DEF Judge

LEMMA ConcludeKeeps == ASSUME MissionInv, Conclude PROVE Keeps
<1>1. FileTypes' /\ UNCHANGED client
  BY InvTypes DEF Conclude, designFiles, others, FileTypes
<1>2. CASE UNCHANGED session /\ op' = [op EXCEPT !.pc = "pause"]
  BY <1>1, <1>2, Names, OpGoes, OpMoves
<1>3. CASE SaveAndGo(Blocked(op.held, "reconcile"), "close")
  <2>1. "reconcile" \in Reason
    BY DEF Reason
  <2> QED
    BY <1>1, <1>3, <2>1, InvTypes, Names, BlockedSucceeds, SaveAndGoKeeps
<1>4. CASE SaveAndGo(MoveToTask(op.held, "completed", NoTask), "close")
  BY <1>1, <1>4, InvTypes, Names, MoveToTaskSucceeds, SaveAndGoKeeps
<1> QED
  BY <1>2, <1>3, <1>4 DEF Conclude

LEMMA CloseExecutionKeeps == ASSUME MissionInv, CloseExecution PROVE Keeps
<1>1. UNCHANGED <<session, client, tasks, pending, designFiles, context, crashes, begun, outrun>>
  BY DEF CloseExecution, others
<1>2. ClosingStatus(op.held.stage) \in LeaseStatus
  BY DEF ClosingStatus, LeaseStatus
<1>3. FileTypes'
  BY <1>1, <1>2, LeaseTypes, LeaseChanges DEF CloseExecution
<1>4. op' = Raised \/ op' = NoOp
  BY DEF CloseExecution
<1> QED
  BY <1>1, <1>3, <1>4, OpRaises

LEMMA SafeBlockerKeeps == ASSUME MissionInv, SafeBlocker PROVE Keeps
<1>1. UNCHANGED <<session, client, tasks, pending, designFiles, context, crashes, begun, outrun>>
  BY DEF SafeBlocker, others
<1>2. "blocked" \in LeaseStatus
  BY DEF LeaseStatus
<1>3. FileTypes'
  BY <1>1, <1>2, LeaseTypes, LeaseChanges DEF SafeBlocker
<1>4. op' = NoOp
  BY DEF SafeBlocker
<1> QED
  BY <1>1, <1>3, <1>4, OpRaises

LEMMA TaskKeeps == ASSUME MissionInv, TaskStep PROVE Keeps
  BY StartPreparationKeeps, RestartPreparationKeeps, EndPreparationKeeps,
     RequestLeaseKeeps, TakeLeaseKeeps, EnterExecutionKeeps, ReopenTaskKeeps, EndPhaseKeeps,
     ReportBlockerKeeps, BlockExecutionKeeps, HandOffLeaseKeeps, PauseKeeps,
     EnterAmendmentKeeps, ConsumeAmendmentKeeps, DecideTaskKeeps,
     RefuseTaskKeeps, BoundaryKeeps, ReconcileKeeps, JudgeKeeps, ConcludeKeeps,
     CloseExecutionKeeps, SafeBlockerKeeps DEF TaskStep

-----------------------------------------------------------------------------
(* The actions of ControlPlane. *)

\* One request thread moves on; the session changes as the log allows.
LEMMA ClientMoves ==
  ASSUME MissionInv, [SessionLogOf!Next]_session, UNCHANGED op, FileTypes',
         NEW c \in Clients, client' \in [Clients -> Request],
         \A d \in Clients \ {c} : client'[d] = client[d],
         client'[c].held \in {client[c].held, session, FreshSession},
         LicensedRequest(client'[c])
  PROVE  Keeps
<1>1. \A d \in Clients : client'[d].held \in {client[d].held, session, FreshSession}
  OBVIOUS
<1>2. \A d \in Clients : LicensedRequest(client'[d])
  BY DEF MissionInv
<1> QED
  BY <1>1, <1>2, InvTypes, StepKeeps DEF MissionInv

\* It goes on to a place where it saves nothing.
LEMMA GotoKeeps ==
  ASSUME MissionInv, [SessionLogOf!Next]_session, UNCHANGED op, FileTypes',
         NEW c \in Clients,
         NEW pc \in {"accept", "release", "record", "mark", "end_lease", "request"},
         Goto(c, pc)
  PROVE  Keeps
<1>1. client' \in [Clients -> Request] /\ client'[c].pc = pc
      /\ client'[c].held = client[c].held
      /\ \A d \in Clients \ {c} : client'[d] = client[d]
  BY InvTypes DEF Goto, Request
<1>2. LicensedRequest(client'[c])
  BY <1>1 DEF LicensedRequest
<1> QED
  BY <1>1, <1>2, ClientMoves

LEMMA ReplyKeeps ==
  ASSUME MissionInv, [SessionLogOf!Next]_session, UNCHANGED op, FileTypes',
         NEW c \in Clients, Reply(c)
  PROVE  Keeps
<1>1. client' \in [Clients -> Request] /\ client'[c] = NoRequest
      /\ \A d \in Clients \ {c} : client'[d] = client[d]
  BY InvTypes, NothingHeld DEF Reply
<1>2. LicensedRequest(client'[c])
  BY <1>1, NothingHeld DEF LicensedRequest
<1> QED
  BY <1>1, <1>2, NothingHeld, ClientMoves

LEMMA RequestExternalKeeps ==
  ASSUME MissionInv, NEW c \in Clients, RequestExternal(c) PROVE Keeps
<1>1. UNCHANGED <<session, op>> /\ FileTypes'
  BY InvTypes DEF RequestExternal, static, FileTypes
<1>2. PICK entry \in Lease :
        client' = [client EXCEPT ![c].pc = "begin", ![c].lease = entry]
  <2>1. \A actor \in ExternalActors, t \in Task : Grant(actor, t) \in Lease
    BY ConstantsAssumption, LeaseTypes
  <2> QED
    BY <2>1 DEF RequestExternal
<1>3. client' \in [Clients -> Request] /\ client'[c].pc = "begin"
      /\ client'[c].held = client[c].held
      /\ \A d \in Clients \ {c} : client'[d] = client[d]
  BY <1>2, InvTypes, ZenonT(60) DEF Request
<1>4. LicensedRequest(client'[c])
  BY <1>3 DEF LicensedRequest
<1> QED
  BY <1>1, <1>3, <1>4, ClientMoves

\* A request that touches one lease and no session.
LEMMA BeginExternalKeeps ==
  ASSUME MissionInv, NEW c \in Clients, BeginExternal(c) PROVE Keeps
<1>1. UNCHANGED <<session, op>> /\ Reply(c)
  BY DEF BeginExternal
<1>2. client[c].lease \in Lease
  BY InvTypes DEF Request
<1>3. FileTypes'
  BY <1>2, LeaseTypes, InvTypes DEF BeginExternal, FileTypes
<1> QED
  BY <1>1, <1>3, ReplyKeeps

LEMMA ReportExternalBlockerKeeps ==
  ASSUME MissionInv, NEW c \in Clients, ReportExternalBlocker(c) PROVE Keeps
<1>1. UNCHANGED <<session, op, client>>
  BY DEF ReportExternalBlocker, static
<1>2. lease' \in Lease
  BY LeaseTypes DEF ReportExternalBlocker, LeaseStatus
<1>3. FileTypes'
  BY <1>2, InvTypes DEF ReportExternalBlocker, static, FileTypes
<1> QED
  BY <1>1, <1>3, InvTypes, OpMoves DEF MissionInv

LEMMA CheckEvidenceKeeps ==
  ASSUME MissionInv, NEW c \in Clients, CheckEvidence(c) PROVE Keeps
<1>1. UNCHANGED <<session, op>> /\ FileTypes'
  BY InvTypes DEF CheckEvidence, static, FileTypes
<1>2. lease \in Lease
  BY InvTypes DEF FileTypes
<1>3. client' \in [Clients -> Request] /\ client'[c].pc = "accept"
      /\ client'[c].held = client[c].held
      /\ \A d \in Clients \ {c} : client'[d] = client[d]
  BY <1>2, InvTypes DEF CheckEvidence, Request
<1>4. LicensedRequest(client'[c])
  BY <1>3 DEF LicensedRequest
<1> QED
  BY <1>1, <1>3, <1>4, ClientMoves

LEMMA AcceptTaskKeeps ==
  ASSUME MissionInv, NEW c \in Clients, AcceptTask(c) PROVE Keeps
<1>1. UNCHANGED <<session, op>>
  BY DEF AcceptTask, static
<1>2. FileTypes'
  <2>1. tasks' \in [Task -> TaskStatus]
    BY InvTypes DEF AcceptTask, FileTypes, TaskStatus
  <2> QED
    BY <2>1, InvTypes DEF AcceptTask, static, FileTypes
<1>3. CASE Reply(c)
  BY <1>1, <1>2, <1>3, ReplyKeeps
<1>4. CASE client' = [client EXCEPT ![c].pc = "advance",
             ![c].last = \A t \in Task \ {lease.task} : tasks[t] = "completed"]
  <2>1. client' \in [Clients -> Request] /\ client'[c].pc = "advance"
        /\ client'[c].held = client[c].held
        /\ \A d \in Clients \ {c} : client'[d] = client[d]
    BY <1>4, InvTypes, ZenonT(60) DEF Request
  <2>2. LicensedRequest(client'[c])
    BY <2>1 DEF LicensedRequest
  <2> QED
    BY <1>1, <1>2, <2>1, <2>2, ClientMoves
<1> QED
  BY <1>3, <1>4 DEF AcceptTask

LEMMA ReadSessionKeeps ==
  ASSUME MissionInv, NEW c \in Clients, ReadSession(c) PROVE Keeps
<1>1. UNCHANGED <<session, op>> /\ FileTypes'
  BY InvTypes DEF ReadSession, static, FileTypes
<1>2. CASE Reply(c)
  BY <1>1, <1>2, ReplyKeeps
<1>3. CASE /\ client[c].last => CanMove(session.stage, "completed")
           /\ client' = [client EXCEPT ![c].pc = "save", ![c].held = session]
  <2>1. client' \in [Clients -> Request] /\ client'[c].pc = "save"
        /\ client'[c].held = session /\ client'[c].last = client[c].last
        /\ \A d \in Clients \ {c} : client'[d] = client[d]
    BY <1>3, InvTypes DEF Request
  <2>2. LicensedRequest(client'[c])
    BY <1>3, <2>1 DEF LicensedRequest
  <2> QED
    BY <1>1, <2>1, <2>2, ClientMoves
<1> QED
  BY <1>2, <1>3 DEF ReadSession

LEMMA SaveProgressKeeps ==
  ASSUME MissionInv, NEW c \in Clients, SaveProgress(c) PROVE Keeps
<1>1. UNCHANGED op /\ FileTypes'
  BY InvTypes DEF SaveProgress, static, FileTypes
<1>2. CASE UNCHANGED session /\ Reply(c)
  BY <1>1, <1>2, ReplyKeeps
<1>3. CASE /\ CasHolds(client[c].held)
           /\ session' = Advanced(client[c].held, client[c].last)
           /\ Goto(c, "release")
  <2>1. client[c].held = session
    BY <1>3 DEF CasHolds, MissionInv, Chain, CopyOf
  <2>2. CASE ~client[c].last
    <3>1. SessionLogOf!Next
      BY <1>3, <2>1, <2>2, SameRules
         DEF Advanced, SessionLogOf!Next, SessionLogOf!Renew
    <3> QED
      BY <1>1, <1>3, <3>1, GotoKeeps
  <2>3. CASE client[c].last
    <3>1. CanMove(session.stage, "completed")
      BY <2>1, <2>3 DEF SaveProgress, MissionInv, LicensedRequest
    <3>2. session' = MoveToTask(session, "completed", NoTask)
      BY <1>3, <2>1, <2>3 DEF Advanced
    <3>3. Successor(session, session') /\ session'.stage = "completed"
      BY <3>2, InvTypes, MoveToTaskSucceeds
    <3>4. SessionLogOf!Next
      BY <3>1, <3>3, SuccessorAdvances
    <3> QED
      BY <1>1, <1>3, <3>4, GotoKeeps
  <2> QED
    BY <2>2, <2>3
<1> QED
  BY <1>2, <1>3 DEF SaveProgress

LEMMA ReleaseLeaseKeeps ==
  ASSUME MissionInv, NEW c \in Clients, ReleaseLease(c) PROVE Keeps
<1>1. UNCHANGED <<session, op>> /\ Reply(c)
  BY DEF ReleaseLease, static
<1>2. lease' \in Lease
  <2>1. client[c].lease \in Lease
    BY InvTypes DEF Request
  <2> QED
    BY <2>1 DEF ReleaseLease, Lease, LeaseStatus
<1>3. FileTypes'
  BY <1>2, InvTypes DEF ReleaseLease, static, FileTypes
<1> QED
  BY <1>1, <1>3, ReplyKeeps

LEMMA ApplyDesignKeeps ==
  ASSUME MissionInv, NEW c \in Clients, ApplyDesign(c) PROVE Keeps
<1>1. design + 1 \in Nat
  <2>1. design \in Nat
    BY InvTypes DEF FileTypes
  <2> QED
    BY <2>1
<1>2. UNCHANGED <<session, op>> /\ FileTypes'
  BY <1>1, InvTypes DEF ApplyDesign, static, FileTypes
<1>3. lease \in Lease /\ NoLease \in Lease
  BY InvTypes, NothingHeld DEF FileTypes
<1>4. client' \in [Clients -> Request] /\ client'[c].pc = "record"
      /\ client'[c].held = client[c].held
      /\ \A d \in Clients \ {c} : client'[d] = client[d]
  <2>1. PICK amending \in BOOLEAN, entry \in Lease :
          client' = [client EXCEPT ![c].pc = "record", ![c].amending = amending,
                                   ![c].lease = entry]
    BY <1>3 DEF ApplyDesign
  <2> QED
    BY <1>3, <2>1, InvTypes, ZenonT(60) DEF Request
<1>5. LicensedRequest(client'[c])
  BY <1>4 DEF LicensedRequest
<1> QED
  BY <1>2, <1>4, <1>5, ClientMoves

LEMMA RecordedKeeps ==
  ASSUME MissionInv, [SessionLogOf!Next]_session, UNCHANGED op, FileTypes',
         NEW c \in Clients, Recorded(c)
  PROVE  Keeps
  BY GotoKeeps, ReplyKeeps DEF Recorded

LEMMA RecordAmendmentKeeps ==
  ASSUME MissionInv, NEW c \in Clients, RecordAmendment(c) PROVE Keeps
<1>1. UNCHANGED <<session, op>> /\ FileTypes'
  BY InvTypes DEF RecordAmendment, static, FileTypes
<1>2. CASE Goto(c, "mark")
  BY <1>1, <1>2, GotoKeeps
<1>3. CASE /\ session.stage \in Reviewable
           /\ client' = [client EXCEPT ![c].pc = "require", ![c].held = session]
  <2>1. client' \in [Clients -> Request] /\ client'[c].pc = "require"
        /\ client'[c].held = session
        /\ \A d \in Clients \ {c} : client'[d] = client[d]
    BY <1>3, InvTypes DEF Request
  <2>2. LicensedRequest(client'[c])
    BY <1>3, <2>1 DEF LicensedRequest
  <2> QED
    BY <1>1, <2>1, <2>2, ClientMoves
<1>4. CASE Recorded(c)
  BY <1>1, <1>4, RecordedKeeps
<1> QED
  BY <1>2, <1>3, <1>4 DEF RecordAmendment

LEMMA MarkPendingKeeps ==
  ASSUME MissionInv, NEW c \in Clients, MarkPending(c) PROVE Keeps
<1>1. UNCHANGED <<session, op>> /\ FileTypes' /\ Recorded(c)
  BY InvTypes DEF MarkPending, static, FileTypes
<1> QED
  BY <1>1, RecordedKeeps

\* The stages of Reviewable have an edge to the review.
LEMMA ReviewAdvances ==
  ASSUME session \in Session, session.stage \in Reviewable,
         session' = MoveTo(session, "amendment_review")
  PROVE  SessionLogOf!Next
<1>1. CanMove(session.stage, "amendment_review")
  BY DEF Reviewable, CanMove, Transition
<1>2. Successor(session, session') /\ session'.stage = "amendment_review"
  BY Names, MoveToSucceeds
<1> QED
  BY <1>1, <1>2, SuccessorAdvances

LEMMA RequireReviewKeeps ==
  ASSUME MissionInv, NEW c \in Clients, RequireReview(c) PROVE Keeps
<1>1. UNCHANGED op /\ FileTypes' /\ Recorded(c)
  BY InvTypes DEF RequireReview, static, FileTypes
<1>2. CASE UNCHANGED session
  BY <1>1, <1>2, RecordedKeeps
<1>3. CASE /\ CasHolds(client[c].held)
           /\ session' = MoveTo(client[c].held, "amendment_review")
  <2>1. client[c].held = session
    BY <1>3 DEF CasHolds, MissionInv, Chain, CopyOf
  <2>2. session.stage \in Reviewable
    BY <2>1 DEF RequireReview, MissionInv, LicensedRequest
  <2>3. SessionLogOf!Next
    BY <1>3, <2>1, <2>2, InvTypes, ReviewAdvances
  <2> QED
    BY <1>1, <2>3, RecordedKeeps
<1> QED
  BY <1>2, <1>3 DEF RequireReview

LEMMA EndAmendedLeaseKeeps ==
  ASSUME MissionInv, NEW c \in Clients, EndAmendedLease(c) PROVE Keeps
<1>1. UNCHANGED <<session, op>> /\ Reply(c)
  BY DEF EndAmendedLease, static
<1>2. lease' \in Lease
  BY InvTypes, LeaseTypes DEF EndAmendedLease, LeaseStatus, FileTypes
<1>3. FileTypes'
  BY <1>2, InvTypes DEF EndAmendedLease, static, FileTypes
<1> QED
  BY <1>1, <1>3, ReplyKeeps

LEMMA ProposeAmendmentKeeps ==
  ASSUME MissionInv, NEW c \in Clients, ProposeAmendment(c) PROVE Keeps
<1>1. UNCHANGED <<session, op>> /\ Goto(c, "request")
  BY DEF ProposeAmendment, static
<1>2. lease' \in Lease
  BY LeaseTypes DEF ProposeAmendment, LeaseStatus
<1>3. FileTypes'
  BY <1>2, InvTypes DEF ProposeAmendment, static, FileTypes
<1> QED
  BY <1>1, <1>3, GotoKeeps

LEMMA ReadForReviewKeeps ==
  ASSUME MissionInv, NEW c \in Clients, ReadForReview(c) PROVE Keeps
<1>1. UNCHANGED <<session, op>> /\ FileTypes'
  BY InvTypes DEF ReadForReview, static, FileTypes
<1>2. client' \in [Clients -> Request] /\ client'[c].pc = "review"
      /\ client'[c].held = session
      /\ \A d \in Clients \ {c} : client'[d] = client[d]
  BY InvTypes, ZenonT(60) DEF ReadForReview, Request
<1>3. LicensedRequest(client'[c])
  BY <1>2 DEF LicensedRequest
<1> QED
  BY <1>1, <1>2, <1>3, ClientMoves

LEMMA RequestReviewKeeps ==
  ASSUME MissionInv, NEW c \in Clients, RequestReview(c) PROVE Keeps
<1>1. UNCHANGED op /\ FileTypes' /\ Reply(c)
  BY InvTypes DEF RequestReview, static, FileTypes
<1>2. CASE UNCHANGED session
  BY <1>1, <1>2, ReplyKeeps
<1>3. CASE /\ session.stage \in Reviewable
           /\ session' = MoveTo(session, "amendment_review")
  <2>1. SessionLogOf!Next
    BY <1>3, InvTypes, ReviewAdvances
  <2> QED
    BY <1>1, <2>1, ReplyKeeps
<1> QED
  BY <1>2, <1>3 DEF RequestReview

LEMMA ClientKeeps ==
  ASSUME MissionInv, NEW c \in Clients, ClientRequest(c) \/ ClientStep(c)
  PROVE  Keeps
  BY RequestExternalKeeps, BeginExternalKeeps, ReportExternalBlockerKeeps, CheckEvidenceKeeps,
     ApplyDesignKeeps, ProposeAmendmentKeeps, AcceptTaskKeeps,
     ReadSessionKeeps, SaveProgressKeeps, ReleaseLeaseKeeps,
     RecordAmendmentKeeps, MarkPendingKeeps, RequireReviewKeeps,
     EndAmendedLeaseKeeps, ReadForReviewKeeps, RequestReviewKeeps
     DEF ClientRequest, ClientStep

-----------------------------------------------------------------------------
(* The whole mission. *)

LEMMA SubmitKeeps ==
  ASSUME MissionInv, NEW kind \in Kind, Submit(kind) PROVE Keeps
<1>1. UNCHANGED <<session, client>> /\ FileTypes'
  BY InvTypes DEF Submit, files, FileTypes
<1>2. op' = [NoOp EXCEPT !.kind = kind, !.pc = "start", !.held = session]
  BY DEF Submit
<1>3. op' \in Op /\ op'.held = session /\ op'.pc = "start"
  BY <1>2, InvTypes, NothingHeld DEF Op, Pc
<1> QED
  BY <1>1, <1>3, OpMoves DEF ReasonedOp

LEMMA CrashKeeps == ASSUME MissionInv, Crash PROVE Keeps
<1>1. crashes + 1 \in Nat
  <2>1. crashes \in Nat
    BY InvTypes DEF FileTypes
  <2> QED
    BY <2>1
<1>2. UNCHANGED session /\ FileTypes'
  BY <1>1, InvTypes DEF Crash, files, FileTypes
<1>3. op' \in Op /\ op'.held = FreshSession /\ ReasonedOp(op')
  BY NothingHeld DEF Crash, ReasonedOp
<1>4. client' \in [Clients -> Request]
  BY NothingHeld DEF Crash
<1>5. \A c \in Clients : client'[c].held = FreshSession /\ LicensedRequest(client'[c])
  BY NothingHeld DEF Crash, LicensedRequest
<1> QED
  BY <1>2, <1>3, <1>4, <1>5, StepKeeps

LEMMA MissionInit == Init => MissionInv
<1> SUFFICES ASSUME Init PROVE MissionInv
  OBVIOUS
<1>1. session = FreshSession /\ op = NoOp
      /\ client = [c \in Clients |-> NoRequest]
  BY DEF Init
<1>2. lease \in Lease
  BY NothingHeld DEF Init
<1>3. FileTypes
  BY <1>2 DEF Init, FileTypes, TaskStatus, NoSnapshot
<1>4. TypeOK
  BY <1>1, <1>3, FreshIsSession, NothingHeld DEF TypeOK, FileTypes
<1>5. CopyOf(FreshSession, FreshSession)
  BY FreshIsSession DEF CopyOf
<1>6. Chain
  BY <1>1, <1>5, NothingHeld DEF Chain
<1>7. ReasonedOp(op) /\ \A c \in Clients : LicensedRequest(client[c])
  BY <1>1, NothingHeld DEF ReasonedOp, LicensedRequest
<1> QED
  BY <1>4, <1>6, <1>7 DEF MissionInv

LEMMA MissionNext == MissionInv /\ [Next]_vars => Keeps
<1> SUFFICES ASSUME MissionInv, [Next]_vars PROVE Keeps
  OBVIOUS
<1>1. CASE SaveIdea
  BY <1>1, SaveIdeaKeeps
<1>2. CASE \E kind \in Kind : Submit(kind)
  BY <1>2, SubmitKeeps
<1>3. CASE OpStep
  BY <1>3, PreparationKeeps, TaskKeeps DEF OpStep
<1>4. CASE AgentProposes
  BY <1>4, AgentProposesKeeps
<1>5. CASE \E c \in Clients : ClientRequest(c) \/ ClientStep(c)
  BY <1>5, ClientKeeps
<1>6. CASE Crash
  BY <1>6, CrashKeeps
<1>7. CASE UNCHANGED vars
  <2>1. UNCHANGED <<session, client, op>> /\ FileTypes'
    BY <1>7, InvTypes DEF vars, files, FileTypes
  <2> QED
    BY <2>1, InvTypes, OpMoves DEF MissionInv
<1> QED
  BY <1>1, <1>2, <1>3, <1>4, <1>5, <1>6, <1>7 DEF Next

\* Every variable keeps its type, whatever the WorkPlan, the number of HTTP
\* threads and the interleaving of their writes with the running action.
THEOREM MissionIsTyped == Spec => []TypeOK
<1>1. MissionInv /\ [Next]_vars => MissionInv'
  BY MissionNext DEF Keeps
<1>2. MissionInv => TypeOK
  BY DEF MissionInv
<1> QED
  BY MissionInit, <1>1, <1>2, PTL DEF Spec

\* session_store.py keeps one chain of legal revisions: no writer's update is
\* lost and none skips the table, although four components save copies of the
\* session that they read before they called an agent or took another lock.
THEOREM SessionIsLog == Spec => ImplementsSessionLog
<1>1. Init => SessionLogOf!Init
  BY SameRules DEF Init, SessionLogOf!Init
<1>2. MissionInv /\ [Next]_vars => MissionInv' /\ [SessionLogOf!Next]_session
  BY MissionNext DEF Keeps
<1> QED
  BY MissionInit, <1>1, <1>2, PTL DEF Spec, ImplementsSessionLog, SessionLogOf!Spec
=============================================================================
