------------------------- MODULE WorkerSafetyProofs -------------------------
(***************************************************************************)
(* What the clients of a worker can rely on, for every number of threads,     *)
(* commands, repetitions and restarts, and for writers at the same time: an   *)
(* answer is what the store has on record, an applied save is a version, an   *)
(* action runs once, every revision has its batch on the log, only agents     *)
(* leave drafts in the document, and every capture is accounted for.         *)
(*                                                                         *)
(* The argument: no step takes back what is on record (Lasting), so what an   *)
(* answer says of it stays true (RecordsInv), and what a thread or a phase    *)
(* has found there is still there when it writes (RevisionInv, DocumentInv).  *)
(***************************************************************************)
EXTENDS WorkerProofs

-----------------------------------------------------------------------------
(* What is on record. *)

\* What a client was told of a change is what the store has on record.
AnswersRecorded ==
    \A a \in answers :
        /\ issued[a.cmd] # Unissued
        /\ issued[a.cmd].kind = "apply" => /\ log[a.cmd] # Unlogged
                                          /\ a.rev = log[a.cmd].rev
        /\ issued[a.cmd].kind = "save" => /\ writes[a.cmd] # Unwritten
                                         /\ a.rev = writes[a.cmd].rev

IsVersion(r, text) == r \in 1 .. Len(versions) /\ versions[r] = text

\* What the catalogue has applied for a client is a version for good.
SavesKept ==
    \A c \in Command : writes[c].status = "APPLIED" =>
        issued[c].kind = "save" /\ IsVersion(writes[c].rev, issued[c].text)

\* A thread between the catalogue and the alias knows what was recorded.
SavesHeld ==
    \A t \in Thread : thread[t].pc = "alias" =>
        writes[thread[t].cmd] = [status |-> "APPLIED", rev |-> thread[t].rev]

RecordsInv == WorkerInv /\ AnswersRecorded /\ SavesKept /\ SavesHeld

\* Only the active operation of the runner runs.
RunnerInv ==
    \A c \in Command : runner.status[c] = "running" => runner.active = c

-----------------------------------------------------------------------------
(* What the threads and the phase have found there. *)

HoldingPc == {"savepoint", "batch", "conflict", "rejected", "applied"}

\* Up to n each revision has its batch on the log.
Reached(n) ==
    \A r \in 1 .. n : \E c \in Command : log[c] = [status |-> "APPLIED", rev |-> r]

\* A thread holds a revision that was reached, and has compared it with its base.
RevisionHeld(t) ==
    /\ thread[t].pc \in HoldingPc => Reached(thread[t].rev)
    /\ thread[t].pc \in HoldingPc \ {"conflict"} => thread[t].rev = Body(t).base
    /\ thread[t].pc = "conflict" => thread[t].rev # Body(t).base

\* What the log says of a command is said of its base.
LogAgrees(c) ==
    /\ log[c] # Unlogged => issued[c].kind = "apply"
    /\ log[c].status = "APPLIED" => log[c].rev = issued[c].base + 1
    /\ log[c].status = "REJECTED" => log[c].rev = issued[c].base
    /\ log[c].status = "CONFLICT" => log[c].rev # issued[c].base

RevisionInv ==
    /\ WorkerInv /\ Reached(revision)
    /\ \A t \in Thread : RevisionHeld(t)
    /\ \A c \in Command : LogAgrees(c)

HasVersion(text) == \E r \in 1 .. Len(versions) : versions[r] = text

\* A capture that is on record was applied or refused.
CapturesKept ==
    \A x \in Text : writes[CaptureId(x)] # Unwritten =>
        HasVersion(x) \/ writes[CaptureId(x)].status = "CONFLICT"

\* While a capture is under way the document holds its text, or a version that
\* was written over it; before, there is no text.
PhaseHolds ==
    /\ phase.pc \in {"compare", "save", "alias"} => alias = phase.text \/ HasVersion(alias)
    /\ phase.pc = "alias" => HasVersion(phase.text)
    /\ phase.pc \in {"agent", "read"} => phase.text = NoText

DocumentInv == RecordsInv /\ CapturesKept /\ PhaseHolds
-----------------------------------------------------------------------------
(* The threads: one step moves one thread, and nobody starts to write in it. *)

MapPc == {"apply", "compare", "savepoint", "batch", "conflict", "rejected",
          "applied"}
LEMMA Threads ==
  ASSUME WorkerInv
  PROVE  /\ thread \in [Thread -> Hand]
         /\ \A t \in Thread : thread[t].pc \in Pc
<1>1. thread \in [Thread -> Hand]
  BY DEF WorkerInv, ThreadsInv
<1>2. \A t \in Thread : thread[t].pc \in Pc
  BY <1>1 DEF Hand
<1> QED
  BY <1>1, <1>2

\* The places a thread may come to in a step of its own.
Moved(t) ==
    /\ thread[t].pc # "idle"
    /\ thread'[t].pc \in MapPc => thread[t].pc \in MapPc
    /\ thread'[t].pc \in {"save", "alias"} => thread[t].pc = "save"
    /\ thread'[t].pc \in HoldingPc =>
            \/ thread[t].pc \in HoldingPc /\ thread'[t].rev = thread[t].rev
            \/ thread[t].pc = "compare" /\ thread'[t].rev = revision

LEMMA ThreadStepMoves ==
  ASSUME WorkerInv, NEW t \in Thread, ThreadStep(t)
  PROVE  /\ \A u \in Thread : u # t => thread'[u] = thread[u]
         /\ Moved(t)
         /\ UNCHANGED <<phase, issued, sends, restarts>>
<1>t. thread \in [Thread -> Hand] /\ thread[t] \in Hand
  BY Threads
<1>i. Idle.pc = "idle"
  BY DEF Idle
<1> USE DEF Serves, Moved, MapPc, HoldingPc, otherFiles, otherState, stores, clients
<1>1. CASE LookUp(t)
  BY <1>t, <1>i, <1>1 DEF LookUp, Answer, Drop, Go, Hand
<1>2. CASE CompareRevision(t)
  BY <1>t, <1>i, <1>2 DEF CompareRevision, Hand
<1>3. CASE OpenSavepoint(t)
  BY <1>t, <1>i, <1>3 DEF OpenSavepoint, Raise, Drop, Hand
<1>4. CASE ApplyNext(t)
  <2>1. /\ thread[t].pc = "batch" /\ UNCHANGED otherFiles
    BY <1>4 DEF ApplyNext, InSavepoint
  <2>2. CASE thread' = [thread EXCEPT ![t].pc = "rejected", ![t].work = EmptyMap,
                                      ![t].left = <<>>]
    BY <1>t, <2>1, <2>2 DEF Hand
  <2>3. ASSUME NEW m,
               thread' = [thread EXCEPT ![t].work = m, ![t].left = Tail(@)]
        PROVE  /\ \A u \in Thread : u # t => thread'[u] = thread[u]
               /\ thread'[t].pc = "batch" /\ thread'[t].rev = thread[t].rev
    BY <1>t, <2>1, <2>3 DEF Hand
  <2> QED
    BY <1>4, <2>1, <2>2, <2>3 DEF ApplyNext
<1>5. CASE Release(t)
  BY <1>t, <1>5 DEF Release, InSavepoint, Hand
<1>6. CASE Record(t)
  <2>1. Drop(t) /\ thread[t].pc \in {"conflict", "rejected", "applied"}
    BY <1>6 DEF Record, Raise, Answer, Outcome
  <2> QED
    BY <1>t, <1>i, <1>6, <2>1 DEF Record, Drop
<1>7. CASE CompareApproved(t)
  BY <1>t, <1>i, <1>7 DEF CompareApproved, Answer, Drop, Hand
<1>8. CASE ReadNodes(t)
  BY <1>t, <1>8 DEF ReadNodes, Hand
<1>9. CASE ReadEdgesAndApprove(t)
  BY <1>t, <1>i, <1>9 DEF ReadEdgesAndApprove, Answer, Drop
<1>10. CASE Save(t)
  <2>1. \/ Drop(t)
        \/ \E r : thread' = [thread EXCEPT ![t].pc = "alias", ![t].rev = r]
    BY <1>10 DEF Save, Answer
  <2> QED
    BY <1>t, <1>i, <1>10, <2>1 DEF Save, Drop, Hand
<1>11. CASE WriteAlias(t)
  BY <1>t, <1>i, <1>11 DEF WriteAlias, Answer, Drop
<1>12. CASE Submit(t)
  <2>1. Drop(t) /\ thread[t].pc = "action" /\ UNCHANGED stores
    BY <1>12 DEF Submit, Answer
  <2> QED
    BY <1>t, <1>i, <2>1 DEF Drop
<1>13. CASE Ask(t)
  <2>1. Drop(t) /\ thread[t].pc = "question" /\ UNCHANGED stores
    BY <1>13 DEF Ask, Answer
  <2> QED
    BY <1>t, <1>i, <2>1 DEF Drop
<1> QED
  BY <1>1, <1>2, <1>3, <1>4, <1>5, <1>6, <1>7, <1>8, <1>9, <1>10, <1>11, <1>12,
     <1>13
     DEF ThreadStep, DesignStep, ApplyStep, ApproveStep, SaveStep, DeskStep

\* A request is taken up by a thread that is idle, and keeps the command's body.
LEMMA SendTakesUp ==
  ASSUME WorkerInv, NEW t \in Thread, NEW c \in Command, Send(t, c)
  PROVE  /\ thread[t].pc = "idle"
         /\ thread'[t].pc \in {"apply", "approve", "save", "action", "question"}
         /\ \A u \in Thread : u # t => thread'[u] = thread[u]
         /\ issued'[c] # Unissued
         /\ \A d \in Command : issued[d] # Unissued => issued'[d] = issued[d]
         /\ UNCHANGED <<designDb, documentsDb, alias, phase, runner, slot, answers,
                        restarts>>
<1>1. PICK request \in (IF issued[c] = Unissued THEN NewRequest ELSE {issued[c]}) :
        /\ issued' = [issued EXCEPT ![c] = request]
        /\ thread' = [thread EXCEPT ![t] = [Idle EXCEPT !.pc = request.kind,
                                                        !.cmd = c]]
  BY DEF Send
<1>2. issued \in [Command -> Request \cup {Unissued}] /\ thread \in [Thread -> Hand]
  BY Threads DEF WorkerInv, ClientsTyped
<1>3. request.kind \in {"apply", "approve", "save", "action", "question"}
  <2>1. CASE issued[c] = Unissued
    BY <2>1 DEF NewRequest, Action, Question
  <2>2. CASE issued[c] # Unissued
    BY <1>2, <2>2 DEF Request, Apply, Approve, SaveDocument, Action, Question
  <2> QED
    BY <2>1, <2>2
<1>4. issued'[c] = request /\ \A d \in Command : d # c => issued'[d] = issued[d]
  BY <1>1, <1>2
<1>5. request # Unissued
  BY <1>3 DEF Unissued
<1>6. \A d \in Command : issued[d] # Unissued => issued'[d] = issued[d]
  BY <1>1, <1>4
<1>7. /\ thread'[t].pc = request.kind
      /\ \A u \in Thread : u # t => thread'[u] = thread[u]
  <2>1. thread'[t] = [Idle EXCEPT !.pc = request.kind, !.cmd = c]
    BY <1>1, <1>2
  <2>2. thread'[t].pc = request.kind
    BY <2>1 DEF Idle
  <2> QED
    BY <1>1, <1>2, <2>2
<1> QED
  BY <1>1, <1>3, <1>4, <1>5, <1>6, <1>7 DEF Send, Serves
-----------------------------------------------------------------------------
(* What is on record stays: commands, answers and versions. *)

Lasting ==
    /\ \A c \in Command : issued[c] # Unissued => issued'[c] = issued[c]
    /\ \A c \in Command : log[c] # Unlogged => log'[c] = log[c]
    /\ \A c \in CatalogCommand : writes[c] # Unwritten => writes'[c] = writes[c]
    /\ \A r \in Nat : \A text : IsVersion(r, text) => IsVersion(r, text)'

\* One transaction of the catalogue: either nothing new, or one new record and,
\* if it was applied, one new version.
LEMMA CatalogSaveSteps ==
  ASSUME DocumentsTyped, NEW id \in CatalogCommand, NEW base \in Nat,
         NEW text \in Text, CatalogSave(id, base, text)
  PROVE  LET status == SaveStatus(id, base)
             rev == SaveRevision(id, base)
         IN  /\ \/ /\ status = "DUPLICATE" /\ writes[id] # Unwritten
                   /\ rev = writes[id].rev
                   /\ UNCHANGED <<writes, versions>>
                \/ /\ status \in {"CONFLICT", "APPLIED"} /\ writes[id] = Unwritten
                   /\ writes' = [writes EXCEPT ![id] = [status |-> status, rev |-> rev]]
                   /\ status = "APPLIED" <=> base = Len(versions)
                   /\ status = "CONFLICT" => versions' = versions
                   /\ status = "APPLIED" =>
                        versions' = Append(versions, text) /\ rev = Len(versions) + 1
             /\ \A c \in CatalogCommand : c # id => writes'[c] = writes[c]
             /\ writes'[id] # Unwritten /\ writes'[id].rev = rev
             /\ status # "DUPLICATE" => writes'[id].status = status
<1> DEFINE status == SaveStatus(id, base)
           rev == SaveRevision(id, base)
<1>1. /\ writes \in [CatalogCommand -> [status : Status \cup {"none"}, rev : Nat]]
      /\ versions' = IF status = "APPLIED" THEN WithVersion(text) ELSE versions
      /\ writes' = IF status = "DUPLICATE" THEN writes
                   ELSE [writes EXCEPT ![id] = [status |-> status, rev |-> rev]]
  BY DEF CatalogSave, DocumentsTyped
<1>2. CASE writes[id] # Unwritten
  <2>1. status = "DUPLICATE" /\ rev = writes[id].rev
    BY <1>2 DEF SaveStatus, SaveRevision
  <2> QED
    BY <1>1, <1>2, <2>1
<1>3. CASE writes[id] = Unwritten
  <2>1. status = IF base = HeadRevision THEN "APPLIED" ELSE "CONFLICT"
    BY <1>3 DEF SaveStatus
  <2>2. status = "APPLIED" => rev = HeadRevision + 1
    BY <2>1 DEF SaveRevision
  <2>3. writes' = [writes EXCEPT ![id] = [status |-> status, rev |-> rev]]
    BY <1>1, <2>1
  <2> HIDE DEF status, rev
  <2>4. writes'[id] = [status |-> status, rev |-> rev]
    BY <1>1, <2>3
  <2>5. writes'[id] # Unwritten
    BY <2>1, <2>4 DEF Unwritten
  <2>6. \A c \in CatalogCommand : c # id => writes'[c] = writes[c]
    BY <1>1, <2>3
  <2> QED
    BY <1>1, <1>3, <2>1, <2>2, <2>3, <2>4, <2>5, <2>6
       DEF HeadRevision, WithVersion, status, rev
<1> QED
  BY <1>2, <1>3

LEMMA CatalogSaveLasts ==
  ASSUME DocumentsTyped, NEW id \in CatalogCommand, NEW base \in Nat,
         NEW text \in Text, CatalogSave(id, base, text)
  PROVE  /\ \A c \in CatalogCommand : writes[c] # Unwritten => writes'[c] = writes[c]
         /\ \A r \in Nat : \A x : IsVersion(r, x) => IsVersion(r, x)'
         /\ SaveStatus(id, base) = "APPLIED" =>
                \A r : r = SaveRevision(id, base) => IsVersion(r, text)'
<1> DEFINE status == SaveStatus(id, base)
           rev == SaveRevision(id, base)
<1>1. \A c \in CatalogCommand : writes[c] # Unwritten => writes'[c] = writes[c]
  BY CatalogSaveSteps
<1>2. \/ versions' = versions /\ status # "APPLIED"
      \/ versions' = Append(versions, text) /\ rev = Len(versions) + 1
  BY CatalogSaveSteps
<1>3. versions \in Seq(Text)
  BY DEF DocumentsTyped
<1> HIDE DEF status, rev
<1>4. CASE versions' = versions /\ status # "APPLIED"
  BY <1>1, <1>4 DEF IsVersion, status
<1>5. CASE versions' = Append(versions, text) /\ rev = Len(versions) + 1
  <2>1. /\ Len(versions') = Len(versions) + 1 /\ versions'[Len(versions) + 1] = text
        /\ \A r \in 1 .. Len(versions) : versions'[r] = versions[r]
        /\ Len(versions) \in Nat
    BY <1>3, <1>5, AppendProperties
  <2>2. \A r \in Nat : \A x : IsVersion(r, x) => IsVersion(r, x)'
    BY <2>1 DEF IsVersion
  <2>3. \A r : r = rev => IsVersion(r, text)'
    BY <1>5, <2>1 DEF IsVersion
  <2> QED
    BY <1>1, <2>2, <2>3 DEF rev
<1> QED
  BY <1>2, <1>4, <1>5

\* The body of the request a thread has in hand.
LEMMA SaveInHand ==
  ASSUME WorkerInv, NEW t \in Thread, thread[t].pc \in {"save", "alias"}
  PROVE  /\ thread[t].cmd \in Command /\ thread[t].cmd \in CatalogCommand
         /\ issued[thread[t].cmd].kind = "save"
         /\ issued[thread[t].cmd] # Unissued
         /\ Body(t).base \in Nat /\ Body(t).text \in Text
<1>1. ClientsTyped /\ ThreadsInv /\ thread[t].pc # "idle"
  BY DEF WorkerInv
<1>2. /\ thread[t].cmd \in Command /\ Body(t).base \in Nat /\ Body(t).text \in Text
  BY <1>1, SaveRequest
<1>3. issued[thread[t].cmd].kind = KindAt[thread[t].pc]
  BY <1>1, RequestInHand DEF Body
<1>4. KindAt[thread[t].pc] = "save"
  BY DEF KindAt, Pc
<1> QED
  BY <1>2, <1>3, <1>4 DEF CatalogCommand, Unissued

\* What each step does to the files that clients ask about.
LEMMA StepsOnRecords ==
  ASSUME WorkerInv, [Next]_vars
  PROVE  \/ \E t \in Thread : Record(t) \/ Save(t)
         \/ CaptureSave
         \/ UNCHANGED <<log, revision, writes, versions>>
<1>1. ASSUME NEW t \in Thread, ThreadStep(t), ~Record(t), ~Save(t)
      PROVE  UNCHANGED <<log, revision, writes, versions>>
  BY <1>1 DEF ThreadStep, DesignStep, ApplyStep, LookUp, CompareRevision,
              OpenSavepoint, ApplyNext, Release, ApproveStep, CompareApproved,
              ReadNodes, ReadEdgesAndApprove, SaveStep, WriteAlias, DeskStep,
              Submit, Ask, designDb, documentsDb, otherFiles, otherState, stores
<1>2. ASSUME NEW c \in Command, BackgroundStep(c)
      PROVE  UNCHANGED <<log, revision, writes, versions>>
  BY <1>2 DEF BackgroundStep, FinishAction, EndQuestion, StoreAnswer, FreeSlot,
              stores, designDb, documentsDb
<1>3. ASSUME PhaseStep, ~CaptureSave
      PROVE  UNCHANGED <<log, revision, writes, versions>>
  BY <1>3 DEF PhaseStep, AgentWrites, ReadAlias, CompareHead, CaptureAlias,
              otherState, designDb, documentsDb
<1>4. CASE StartPhase \/ Restart \/ UNCHANGED vars
  BY <1>4 DEF StartPhase, Restart, vars, designDb, documentsDb
<1>5. ASSUME NEW t \in Thread, NEW c \in Command, Send(t, c)
      PROVE  UNCHANGED <<log, revision, writes, versions>>
  BY <1>5 DEF Send, designDb, documentsDb
<1> QED
  BY <1>1, <1>2, <1>3, <1>4, <1>5 DEF Next

\* Only a client changes what was issued.
LEMMA StepsOnRequests ==
  ASSUME WorkerInv, [Next]_vars
  PROVE  UNCHANGED issued \/ \E t \in Thread, c \in Command : Send(t, c)
<1>1. ASSUME NEW t \in Thread, ThreadStep(t) PROVE UNCHANGED issued
  BY <1>1, ThreadStepMoves
<1>2. ASSUME NEW c \in Command, BackgroundStep(c) PROVE UNCHANGED issued
  BY <1>2 DEF BackgroundStep, FinishAction, EndQuestion, StoreAnswer, FreeSlot,
              stores, clients
<1>3. CASE PhaseStep \/ StartPhase \/ Restart \/ UNCHANGED vars
  BY <1>3 DEF PhaseStep, AgentWrites, ReadAlias, CompareHead, CaptureSave,
              CaptureAlias, StartPhase, Restart, vars, otherState, clients
<1> QED
  BY <1>1, <1>2, <1>3 DEF Next

LEMMA CaptureInHand ==
  ASSUME WorkerInv, CaptureSave
  PROVE  /\ phase.pc = "save" /\ phase.text \in Text /\ phase.base \in Nat
         /\ CaptureId(phase.text) \in CatalogCommand
         /\ CatalogSave(CaptureId(phase.text), phase.base, phase.text)
<1>1. phase.text \in Text /\ phase.base \in Nat
  BY DEF CaptureSave, WorkerInv, PhaseTyped
<1> QED
  BY <1>1 DEF CaptureSave, CaptureId, CatalogCommand

\* A capture and a client's command are never the same.
LEMMA IdsApart ==
  /\ \A c \in Command, x \in Text : c # CaptureId(x)
  /\ \A x, y \in Text : CaptureId(x) = CaptureId(y) => x = y
<1>1. \A c \in Command, x \in Text : c # CaptureId(x)
  BY CaptureAssumption DEF CaptureId
<1>2. \A x, y \in Text : CaptureId(x) = CaptureId(y) => x = y
  BY DEF CaptureId
<1> QED
  BY <1>1, <1>2

LEMMA RecordsLast == ASSUME WorkerInv, [Next]_vars PROVE Lasting
<1>1. \A c \in Command : issued[c] # Unissued => issued'[c] = issued[c]
  BY StepsOnRequests, SendTakesUp
<1>2. CASE UNCHANGED <<log, revision, writes, versions>>
  BY <1>1, <1>2 DEF Lasting, IsVersion
<1>3. ASSUME NEW t \in Thread, Record(t) PROVE Lasting
  <2>1. UNCHANGED <<writes, versions>>
    BY <1>3 DEF Record, otherFiles, documentsDb
  <2>2. \A c \in Command : log[c] # Unlogged => log'[c] = log[c]
    <3>1. log \in [Command -> [status : Status \cup {"none"}, rev : Nat]]
      BY DEF WorkerInv, DesignTyped
    <3>2. UNCHANGED log \/ (/\ ~Logged(thread[t].cmd)
                            /\ \E e : log' = [log EXCEPT ![thread[t].cmd] = e])
      BY <1>3 DEF Record
    <3> QED
      BY <3>1, <3>2 DEF Logged
  <2> QED
    BY <1>1, <2>1, <2>2 DEF Lasting, IsVersion
<1>4. ASSUME NEW t \in Thread, Save(t) PROVE Lasting
  <2>1. /\ thread[t].pc = "save" /\ UNCHANGED log /\ DocumentsTyped
        /\ CatalogSave(thread[t].cmd, Body(t).base, Body(t).text)
    BY <1>4 DEF Save, Serves, otherState, designDb, WorkerInv
  <2> QED
    BY <1>1, <2>1, SaveInHand, CatalogSaveLasts DEF Lasting
<1>5. CASE CaptureSave
  <2>1. UNCHANGED log /\ DocumentsTyped
    BY <1>5 DEF CaptureSave, otherState, designDb, WorkerInv
  <2> QED
    BY <1>1, <1>5, <2>1, CaptureInHand, CatalogSaveLasts DEF Lasting
<1> QED
  BY <1>2, <1>3, <1>4, <1>5, StepsOnRecords
-----------------------------------------------------------------------------
(* Answers agree with the records. *)

Recorded(a) ==
    /\ issued[a.cmd] # Unissued
    /\ issued[a.cmd].kind = "apply" => /\ log[a.cmd] # Unlogged
                                       /\ a.rev = log[a.cmd].rev
    /\ issued[a.cmd].kind = "save" => /\ writes[a.cmd] # Unwritten
                                      /\ a.rev = writes[a.cmd].rev

LEMMA KindInHand ==
  ASSUME WorkerInv, NEW t \in Thread, thread[t].pc # "idle"
  PROVE  /\ thread[t].cmd \in Command /\ thread[t].cmd \in CatalogCommand
         /\ issued[thread[t].cmd] # Unissued
         /\ issued[thread[t].cmd].kind = KindAt[thread[t].pc]
<1>1. /\ thread[t].cmd \in Command /\ issued[thread[t].cmd] \in Request
      /\ issued[thread[t].cmd].kind = KindAt[thread[t].pc]
  BY RequestInHand DEF WorkerInv, Body
<1>2. issued[thread[t].cmd] # Unissued
  BY <1>1 DEF Unissued, Request, Apply, Approve, SaveDocument, Action, Question
<1> QED
  BY <1>1, <1>2 DEF CatalogCommand

LEMMA Kinds ==
  /\ \A pc \in MapPc : KindAt[pc] = "apply"
  /\ \A pc \in {"approve", "nodes", "edges", "action", "question"} :
        KindAt[pc] \notin {"apply", "save"}
  /\ \A pc \in {"save", "alias"} : KindAt[pc] = "save"
  BY DEF KindAt, Pc, MapPc

LEMMA OldAnswers ==
  ASSUME WorkerInv, AnswersRecorded, Lasting
  PROVE  \A a \in answers : Recorded(a)'
<1> SUFFICES ASSUME NEW a \in answers PROVE Recorded(a)'
  OBVIOUS
<1>1. a.cmd \in Command /\ a.cmd \in CatalogCommand
  BY DEF WorkerInv, ClientsTyped, CatalogCommand
<1>2. Recorded(a)
  BY DEF AnswersRecorded, Recorded
<1>3. issued'[a.cmd] = issued[a.cmd]
  BY <1>1, <1>2 DEF Recorded, Lasting
<1>4. /\ log[a.cmd] # Unlogged => log'[a.cmd] = log[a.cmd]
      /\ writes[a.cmd] # Unwritten => writes'[a.cmd] = writes[a.cmd]
  BY <1>1 DEF Lasting
<1> QED
  BY <1>2, <1>3, <1>4 DEF Recorded

\* One more answer, of what is then on record.
LEMMA AnswerAdded ==
  ASSUME \A a \in answers : Recorded(a)',
         NEW t \in Thread, NEW status, NEW rev, Answer(t, status, rev),
         issued'[thread[t].cmd] # Unissued,
         issued'[thread[t].cmd].kind = "apply" =>
                /\ log'[thread[t].cmd] # Unlogged
                /\ rev = log'[thread[t].cmd].rev,
         issued'[thread[t].cmd].kind = "save" =>
                /\ writes'[thread[t].cmd] # Unwritten
                /\ rev = writes'[thread[t].cmd].rev
  PROVE  AnswersRecorded'
<1> DEFINE new == [cmd |-> thread[t].cmd, status |-> status, rev |-> rev,
                   life |-> restarts]
<1>1. answers' = answers \cup {new}
  BY DEF Answer
<1>2. new.cmd = thread[t].cmd /\ new.rev = rev
  OBVIOUS
<1> HIDE DEF new
<1>3. \A a : a = new => Recorded(a)'
  BY <1>2 DEF Recorded
<1>4. \A a \in answers' : Recorded(a)'
  BY <1>1, <1>3
<1> QED
  BY <1>4 DEF Recorded, AnswersRecorded

LEMMA OldAnswersOnly ==
  ASSUME \A a \in answers : Recorded(a)', UNCHANGED answers
  PROVE  AnswersRecorded'
  BY DEF Recorded, AnswersRecorded

LEMMA ThreadKeepsAnswers ==
  ASSUME RecordsInv, Lasting, NEW t \in Thread, ThreadStep(t)
  PROVE  AnswersRecorded'
<1> DEFINE cmd == thread[t].cmd
<1>1. WorkerInv /\ \A a \in answers : Recorded(a)'
  BY OldAnswers DEF RecordsInv
<1>2. UNCHANGED issued /\ thread[t].pc # "idle"
  BY <1>1, ThreadStepMoves DEF Moved
<1>3. /\ cmd \in Command /\ cmd \in CatalogCommand
      /\ issued'[cmd] # Unissued /\ issued'[cmd].kind = KindAt[thread[t].pc]
  BY <1>1, <1>2, KindInHand
<1>4. CASE LookUp(t)
  <2>1. thread[t].pc = "apply" /\ UNCHANGED <<designDb, otherFiles>>
    BY <1>4 DEF LookUp, Serves
  <2>2. KindAt[thread[t].pc] = "apply"
    BY <2>1, Kinds DEF MapPc
  <2>3. CASE Logged(cmd)
    <3>1. Answer(t, "DUPLICATE", log[cmd].rev)
      BY <1>4, <2>3 DEF LookUp
    <3>2. log'[cmd] = log[cmd] /\ log[cmd] # Unlogged
      BY <2>1, <2>3 DEF designDb, Logged
    <3> QED
      BY <1>1, <1>3, <2>2, <3>1, <3>2, AnswerAdded
  <2>4. CASE ~Logged(cmd)
    BY <1>1, <1>4, <2>4, OldAnswersOnly DEF LookUp
  <2> QED
    BY <2>3, <2>4
<1>5. CASE Record(t)
  <2> DEFINE rev == IF Serves(t, "applied") THEN thread[t].rev + 1 ELSE thread[t].rev
             status == Outcome[thread[t].pc]
  <2>1. thread[t].pc \in {"conflict", "rejected", "applied"}
    BY <1>5 DEF Record, Outcome
  <2>2. CASE Logged(cmd)
    BY <1>1, <1>5, <2>2, OldAnswersOnly DEF Record, Raise
  <2>3. CASE ~Logged(cmd)
    <3>1. /\ Answer(t, status, rev)
          /\ log' = [log EXCEPT ![cmd] = [status |-> status, rev |-> rev]]
      BY <1>5, <2>3 DEF Record
    <3>2. status \in {"CONFLICT", "REJECTED", "APPLIED"}
      BY <2>1 DEF Outcome
    <3> HIDE DEF status, rev
    <3>3. log'[cmd] = [status |-> status, rev |-> rev]
      BY <1>1, <1>3, <3>1 DEF WorkerInv, DesignTyped
    <3>4. log'[cmd] # Unlogged /\ log'[cmd].rev = rev
      BY <3>2, <3>3 DEF Unlogged
    <3>5. KindAt[thread[t].pc] = "apply"
      BY <2>1, Kinds DEF MapPc
    <3> QED
      BY <1>1, <1>3, <3>1, <3>4, <3>5, AnswerAdded
  <2> QED
    BY <2>2, <2>3
<1>6. CASE Save(t)
  <2> DEFINE status == SaveStatus(cmd, Body(t).base)
             rev == SaveRevision(cmd, Body(t).base)
  <2>1. /\ thread[t].pc = "save"
        /\ CatalogSave(cmd, Body(t).base, Body(t).text)
        /\ UNCHANGED answers \/ Answer(t, status, rev)
    BY <1>6 DEF Save, Serves
  <2>2. KindAt[thread[t].pc] = "save"
    BY <2>1, Kinds
  <2>3. Body(t).base \in Nat /\ Body(t).text \in Text /\ DocumentsTyped
    BY <1>1, <2>1, SaveInHand DEF WorkerInv
  <2>4. writes'[cmd] # Unwritten /\ writes'[cmd].rev = rev
    BY <1>3, <2>1, <2>3, CatalogSaveSteps
  <2> HIDE DEF status, rev
  <2> QED
    BY <1>1, <1>3, <2>1, <2>2, <2>4, AnswerAdded, OldAnswersOnly
<1>7. CASE WriteAlias(t)
  <2>1. /\ thread[t].pc = "alias" /\ Answer(t, "APPLIED", thread[t].rev)
        /\ UNCHANGED writes
    BY <1>7 DEF WriteAlias, Serves, documentsDb
  <2>2. KindAt[thread[t].pc] = "save"
    BY <2>1, Kinds
  <2>3. writes[cmd] = [status |-> "APPLIED", rev |-> thread[t].rev]
    BY <2>1 DEF RecordsInv, SavesHeld
  <2>4. writes'[cmd] # Unwritten /\ writes'[cmd].rev = thread[t].rev
    BY <2>1, <2>3 DEF Unwritten
  <2> QED
    BY <1>1, <1>3, <2>1, <2>2, <2>4, AnswerAdded
<1>8. CASE ApproveStep(t) \/ DeskStep(t)
  <2>1. /\ thread[t].pc \in {"approve", "nodes", "edges", "action", "question"}
        /\ UNCHANGED answers \/ \E status, rev : Answer(t, status, rev)
    BY <1>8 DEF ApproveStep, CompareApproved, ReadNodes, ReadEdgesAndApprove,
                DeskStep, Submit, Ask, Serves
  <2>2. KindAt[thread[t].pc] \notin {"apply", "save"}
    BY <2>1, Kinds
  <2> QED
    BY <1>1, <1>3, <2>1, <2>2, AnswerAdded, OldAnswersOnly
<1>9. CASE CompareRevision(t) \/ OpenSavepoint(t) \/ ApplyNext(t) \/ Release(t)
  <2>1. UNCHANGED answers
    BY <1>9 DEF CompareRevision, OpenSavepoint, Raise, ApplyNext, Release
  <2> QED
    BY <1>1, <2>1, OldAnswersOnly
<1> QED
  BY <1>4, <1>5, <1>6, <1>7, <1>8, <1>9
     DEF ThreadStep, DesignStep, ApplyStep, SaveStep

\* Only threads answer.
LEMMA OthersAnswerNothing ==
  ASSUME [Next]_vars, ~\E t \in Thread : ThreadStep(t)
  PROVE  UNCHANGED answers
<1>1. ASSUME NEW c \in Command, BackgroundStep(c) PROVE UNCHANGED answers
  BY <1>1 DEF BackgroundStep, FinishAction, EndQuestion, StoreAnswer, FreeSlot
<1>2. CASE PhaseStep \/ StartPhase \/ Restart \/ UNCHANGED vars
  BY <1>2 DEF PhaseStep, AgentWrites, ReadAlias, CompareHead, CaptureSave,
              CaptureAlias, StartPhase, Restart, vars
<1>3. ASSUME NEW t \in Thread, NEW c \in Command, Send(t, c)
      PROVE  UNCHANGED answers
  BY <1>3 DEF Send
<1> QED
  BY <1>1, <1>2, <1>3 DEF Next

LEMMA NextAnswers == RecordsInv /\ [Next]_vars => AnswersRecorded'
<1> SUFFICES ASSUME RecordsInv, [Next]_vars PROVE AnswersRecorded'
  OBVIOUS
<1>1. WorkerInv /\ AnswersRecorded /\ Lasting
  BY RecordsLast DEF RecordsInv
<1>2. CASE \E t \in Thread : ThreadStep(t)
  BY <1>1, <1>2, ThreadKeepsAnswers
<1>3. CASE ~\E t \in Thread : ThreadStep(t)
  BY <1>1, <1>3, OthersAnswerNothing, OldAnswers, OldAnswersOnly
<1> QED
  BY <1>2, <1>3
-----------------------------------------------------------------------------
(* What the catalogue has applied for a client. *)

\* A step records something new for a client only when it is that client's save.
LEMMA NewWrite ==
  ASSUME WorkerInv, [Next]_vars, NEW c \in Command, writes'[c] # writes[c]
  PROVE  \E t \in Thread : Save(t) /\ thread[t].cmd = c
<1>1. \E t \in Thread : Save(t)
  <2>1. CASE CaptureSave
    <3>1. c \in CatalogCommand /\ c # CaptureId(phase.text)
      BY <2>1, CaptureInHand, IdsApart DEF CatalogCommand
    <3> QED
      BY <2>1, <3>1, CaptureInHand, CatalogSaveSteps DEF WorkerInv
  <2>2. ASSUME NEW t \in Thread, Record(t) PROVE FALSE
    BY <2>2 DEF Record, otherFiles, documentsDb
  <2> QED
    BY <2>1, <2>2, StepsOnRecords
<1>2. PICK t \in Thread : Save(t)
  BY <1>1
<1>3. thread[t].pc = "save" /\ CatalogSave(thread[t].cmd, Body(t).base, Body(t).text)
  BY <1>2 DEF Save, Serves
<1>4. \A d \in CatalogCommand : d # thread[t].cmd => writes'[d] = writes[d]
  BY <1>3, SaveInHand, CatalogSaveSteps DEF WorkerInv
<1>5. c \in CatalogCommand
  BY DEF CatalogCommand
<1> QED
  BY <1>2, <1>4, <1>5

LEMMA NextSavesKept == RecordsInv /\ [Next]_vars => SavesKept'
<1> SUFFICES ASSUME RecordsInv, [Next]_vars, NEW c \in Command,
                    writes'[c].status = "APPLIED"
             PROVE  /\ issued'[c].kind = "save"
                    /\ IsVersion(writes[c].rev, issued[c].text)'
  BY DEF SavesKept
<1>1. WorkerInv /\ Lasting /\ SavesKept
  BY RecordsLast DEF RecordsInv
<1>2. c \in CatalogCommand
  BY DEF CatalogCommand
<1>3. CASE writes'[c] = writes[c]
  <2>1. issued[c].kind = "save" /\ IsVersion(writes[c].rev, issued[c].text)
    BY <1>1, <1>3 DEF SavesKept
  <2>2. issued'[c] = issued[c]
    BY <1>1, <2>1 DEF Lasting, Unissued
  <2>3. writes[c].rev \in Nat
    BY <1>1, <1>2 DEF WorkerInv, DocumentsTyped
  <2>4. \A r \in Nat : \A x : IsVersion(r, x) => IsVersion(r, x)'
    BY <1>1 DEF Lasting
  <2> QED
    BY <1>3, <2>1, <2>2, <2>3, <2>4 DEF IsVersion
<1>4. CASE writes'[c] # writes[c]
  <2>1. PICK t \in Thread : Save(t) /\ thread[t].cmd = c
    BY <1>1, <1>4, NewWrite
  <2>2. PICK base, text : base = Body(t).base /\ text = Body(t).text
    OBVIOUS
  <2>3. /\ thread[t].pc = "save" /\ CatalogSave(c, base, text) /\ issued' = issued
    BY <2>1, <2>2 DEF Save, Serves, otherState, clients
  <2>4. /\ issued[c].kind = "save" /\ base \in Nat /\ text \in Text
        /\ DocumentsTyped /\ issued'[c].text = text
    BY <1>1, <2>1, <2>2, <2>3, SaveInHand DEF WorkerInv, Body
  <2>5. PICK status, rev : status = SaveStatus(c, base) /\ rev = SaveRevision(c, base)
    OBVIOUS
  <2>6. /\ writes'[c].rev = rev
        /\ status # "DUPLICATE" => writes'[c].status = status
        /\ status = "DUPLICATE" => writes' = writes
    BY <1>2, <2>3, <2>4, <2>5, CatalogSaveSteps
  <2>7. status = "APPLIED"
    BY <1>4, <2>6
  <2>8. IsVersion(rev, text)'
    BY <1>2, <2>3, <2>4, <2>5, <2>7, CatalogSaveLasts
  <2> QED
    BY <2>3, <2>4, <2>6, <2>8 DEF IsVersion
<1> QED
  BY <1>3, <1>4

LEMMA NextSavesHeld == RecordsInv /\ [Next]_vars => SavesHeld'
<1> SUFFICES ASSUME RecordsInv, [Next]_vars, NEW u \in Thread,
                    thread'[u].pc = "alias"
             PROVE  writes'[thread'[u].cmd] =
                        [status |-> "APPLIED", rev |-> thread'[u].rev]
  BY DEF SavesHeld
<1>1. WorkerInv /\ Lasting /\ SavesHeld
  BY RecordsLast DEF RecordsInv
<1>2. CASE thread'[u] = thread[u]
  <2>1. writes[thread[u].cmd] = [status |-> "APPLIED", rev |-> thread[u].rev]
    BY <1>1, <1>2 DEF SavesHeld
  <2>2. writes[thread[u].cmd] # Unwritten /\ thread[u].cmd \in CatalogCommand
    BY <1>1, <1>2, <2>1, SaveInHand DEF Unwritten
  <2> QED
    BY <1>1, <1>2, <2>1, <2>2 DEF Lasting
<1>3. ASSUME NEW t \in Thread, ThreadStep(t), thread'[u] # thread[u]
      PROVE  writes'[thread'[u].cmd] = [status |-> "APPLIED", rev |-> thread'[u].rev]
  <2>1. u = t /\ thread[t].pc = "save"
    BY <1>1, <1>3, ThreadStepMoves DEF Moved
  <2>2. Save(t)
    BY <1>3, <2>1
       DEF ThreadStep, DesignStep, ApplyStep, LookUp, CompareRevision,
           OpenSavepoint, ApplyNext, Release, Record, ApproveStep, CompareApproved,
           ReadNodes, ReadEdgesAndApprove, SaveStep, WriteAlias, DeskStep,
           Submit, Ask, Serves, InSavepoint, Outcome
  <2>3. PICK base, text, status, rev :
            /\ base = Body(t).base /\ text = Body(t).text
            /\ status = SaveStatus(thread[t].cmd, base)
            /\ rev = SaveRevision(thread[t].cmd, base)
    OBVIOUS
  <2>4. /\ CatalogSave(thread[t].cmd, base, text)
        /\ \/ /\ status = "APPLIED"
              /\ thread' = [thread EXCEPT ![t].pc = "alias", ![t].rev = rev]
           \/ Drop(t)
    BY <2>2, <2>3 DEF Save, Answer
  <2>5. thread \in [Thread -> Hand]
    BY <1>1, Threads
  <2>6. /\ status = "APPLIED" /\ thread'[t].rev = rev
        /\ thread'[t].cmd = thread[t].cmd
    <3>1. ~Drop(t)
      BY <2>1, <2>5 DEF Drop, Idle
    <3> QED
      BY <2>4, <2>5, <3>1 DEF Hand
  <2>7. /\ thread[t].cmd \in CatalogCommand /\ base \in Nat /\ text \in Text
        /\ DocumentsTyped
    BY <1>1, <2>1, <2>3, SaveInHand DEF WorkerInv
  <2>8. writes' = [writes EXCEPT ![thread[t].cmd] = [status |-> status, rev |-> rev]]
    <3>1. SaveStatus(thread[t].cmd, base) # "DUPLICATE"
      BY <2>3, <2>6
    <3>2. writes' = [writes EXCEPT ![thread[t].cmd] =
                        [status |-> SaveStatus(thread[t].cmd, base),
                         rev |-> SaveRevision(thread[t].cmd, base)]]
      BY <2>4, <3>1 DEF CatalogSave
    <3> QED
      BY <2>3, <3>2
  <2> QED
    BY <2>1, <2>6, <2>7, <2>8 DEF DocumentsTyped
<1>4. ASSUME NEW t \in Thread, NEW c \in Command, Send(t, c)
      PROVE  thread'[u] = thread[u]
  BY <1>1, <1>4, SendTakesUp
<1>5. CASE Restart
  BY <1>5 DEF Restart, Idle
<1>6. ASSUME NEW c \in Command, BackgroundStep(c)
      PROVE  thread'[u] = thread[u]
  BY <1>6 DEF BackgroundStep, FinishAction, EndQuestion, StoreAnswer, FreeSlot
<1>7. CASE PhaseStep \/ StartPhase \/ UNCHANGED vars
  <2>1. UNCHANGED thread
    BY <1>7 DEF PhaseStep, AgentWrites, ReadAlias, CompareHead, CaptureSave,
                CaptureAlias, StartPhase, vars
  <2> QED
    BY <1>2, <2>1
<1> QED
  BY <1>2, <1>3, <1>4, <1>5, <1>6, <1>7 DEF Next

LEMMA InitRecords == Init => RecordsInv
<1> SUFFICES ASSUME Init PROVE RecordsInv
  OBVIOUS
<1>1. AnswersRecorded
  BY DEF Init, AnswersRecorded
<1>2. SavesKept
  <2>1. \A c \in Command : writes[c] = Unwritten
    BY DEF Init, CatalogCommand
  <2> QED
    BY <2>1 DEF SavesKept, Unwritten
<1>3. SavesHeld
  BY DEF Init, SavesHeld, Idle
<1> QED
  BY <1>1, <1>2, <1>3, InitWorker DEF RecordsInv

LEMMA NextRecords == RecordsInv /\ [Next]_vars => RecordsInv'
  BY NextWorker, NextAnswers, NextSavesKept, NextSavesHeld DEF RecordsInv

\* A client that repeats a command is told the revision it was told before, for
\* any number of clients that write at the same time and any number of restarts.
THEOREM AnswersAreRepeated == Spec => []AnswersAgree
<1>1. RecordsInv => AnswersAgree
  BY DEF RecordsInv, AnswersRecorded, AnswersAgree, Durable
<1> QED
  BY InitRecords, NextRecords, <1>1, PTL DEF Spec

\* A save that was applied is a version of the catalogue, at the revision the
\* client was told, however many clients save at the same time.
THEOREM SavesAreVersions == Spec => []SavedTextIsVersion
<1>1. RecordsInv => SavedTextIsVersion
  <2> SUFFICES ASSUME RecordsInv, NEW a \in answers, issued[a.cmd].kind = "save",
                      writes[a.cmd].status = "APPLIED"
               PROVE  a.rev \in DOMAIN versions /\ versions[a.rev] = issued[a.cmd].text
    BY DEF SavedTextIsVersion
  <2>1. a.cmd \in Command /\ versions \in Seq(Text)
    BY DEF RecordsInv, WorkerInv, ClientsTyped, DocumentsTyped
  <2>2. a.rev = writes[a.cmd].rev /\ IsVersion(writes[a.cmd].rev, issued[a.cmd].text)
    BY <2>1 DEF RecordsInv, AnswersRecorded, SavesKept
  <2> QED
    BY <2>1, <2>2 DEF IsVersion
<1> QED
  BY InitRecords, NextRecords, <1>1, PTL DEF Spec

-----------------------------------------------------------------------------
(* The action runner. *)

LEMMA InitRunner == Init => RunnerInv
  BY DEF Init, IdleRunner, RunnerInv

\* What a step does to the runner, unless it is a restart.
RunnerMoves ==
    \/ UNCHANGED runner
    \/ \E c \in Command, status \in Finished :
            /\ runner.status[c] = "running"
            /\ runner' = [runner EXCEPT !.status[c] = status]
    \/ \E c \in Command : ~Known(c) /\ ~Busy /\ StartAction(c)

LEMMA StepsOnRunner ==
  ASSUME WorkerInv, [Next]_vars
  PROVE  \/ RunnerMoves
         \/ runner' = IdleRunner /\ restarts' # restarts
<1>1. ASSUME NEW t \in Thread, ThreadStep(t) PROVE RunnerMoves
  <2>1. CASE Submit(t)
    <3>1. thread[t].cmd \in Command
      BY <2>1, KindInHand DEF Submit, Serves
    <3>2. \/ UNCHANGED runner
          \/ ~Known(thread[t].cmd) /\ ~Busy /\ StartAction(thread[t].cmd)
      BY <2>1 DEF Submit
    <3> QED
      BY <3>1, <3>2 DEF RunnerMoves
  <2>2. CASE ~Submit(t)
    <3>1. UNCHANGED runner
      BY <1>1, <2>2
         DEF ThreadStep, DesignStep, ApplyStep, LookUp, CompareRevision,
             OpenSavepoint, ApplyNext, Release, Record, ApproveStep,
             CompareApproved, ReadNodes, ReadEdgesAndApprove, SaveStep, Save,
             WriteAlias, DeskStep, Ask, otherFiles, otherState
    <3> QED
      BY <3>1 DEF RunnerMoves
  <2> QED
    BY <2>1, <2>2
<1>2. ASSUME NEW c \in Command, BackgroundStep(c) PROVE RunnerMoves
  <2>1. CASE FinishAction(c)
    BY <2>1 DEF FinishAction, RunnerMoves
  <2>2. CASE ~FinishAction(c)
    BY <1>2, <2>2 DEF BackgroundStep, EndQuestion, StoreAnswer, FreeSlot, RunnerMoves
  <2> QED
    BY <2>1, <2>2
<1>3. CASE PhaseStep \/ StartPhase \/ UNCHANGED vars
  BY <1>3 DEF PhaseStep, AgentWrites, ReadAlias, CompareHead, CaptureSave,
              CaptureAlias, StartPhase, vars, otherState, RunnerMoves
<1>4. CASE Restart
  <2>1. restarts \in Nat
    BY WorkerAssumption DEF WorkerInv, ClientsTyped
  <2> QED
    BY <1>4, <2>1 DEF Restart
<1>5. ASSUME NEW t \in Thread, NEW c \in Command, Send(t, c) PROVE RunnerMoves
  BY <1>5 DEF Send, RunnerMoves
<1> QED
  BY <1>1, <1>2, <1>3, <1>4, <1>5 DEF Next

LEMMA RunnerFields ==
  ASSUME WorkerInv
  PROVE  /\ runner.status \in [Command -> Status \cup {"none"}]
         /\ runner = [active |-> runner.active, status |-> runner.status]
  BY DEF WorkerInv, DeskTyped

LEMMA NextRunner == WorkerInv /\ RunnerInv /\ [Next]_vars => RunnerInv'
<1> SUFFICES ASSUME WorkerInv, RunnerInv, [Next]_vars PROVE RunnerInv'
  OBVIOUS
<1>1. CASE UNCHANGED runner
  BY <1>1 DEF RunnerInv
<1>2. ASSUME NEW c \in Command, NEW status \in Finished,
             runner.status[c] = "running",
             runner' = [runner EXCEPT !.status[c] = status]
      PROVE  RunnerInv'
  <2>1. /\ runner'.active = runner.active
        /\ runner'.status = [runner.status EXCEPT ![c] = status]
    BY <1>2, RunnerFields
  <2> QED
    BY <2>1, RunnerFields DEF RunnerInv, Finished
<1>3. ASSUME NEW c \in Command, ~Busy, StartAction(c)
      PROVE  RunnerInv'
  <2>1. /\ runner'.active = c
        /\ runner'.status = [runner.status EXCEPT ![c] = "running"]
    BY <1>3 DEF StartAction
  <2>2. \A d \in Command : runner.status[d] # "running"
    BY <1>3, WorkerAssumption DEF Busy, RunnerInv
  <2> QED
    BY <2>1, <2>2, RunnerFields DEF RunnerInv
<1>4. CASE runner' = IdleRunner
  BY <1>4 DEF IdleRunner, RunnerInv
<1> QED
  BY <1>1, <1>2, <1>3, <1>4, StepsOnRunner DEF RunnerMoves

\* However often and from however many threads a command is sent, its action is
\* run once in the life of a worker, and alone.
THEOREM ActionsRunAlone == Spec => ActionsRunOnce
<1> DEFINE Once ==
        restarts' = restarts => \A c \in Command :
            /\ runner.status[c] \in Finished => runner'.status[c] = runner.status[c]
            /\ runner'.status[c] = "running" /\ runner.status[c] # "running" =>
                \A d \in Command : runner.status[d] # "running"
<1>1. WorkerInv /\ RunnerInv /\ [Next]_vars => [Once]_vars
  <2> SUFFICES ASSUME WorkerInv, RunnerInv, [Next]_vars, restarts' = restarts
               PROVE  \A c \in Command :
                        /\ runner.status[c] \in Finished =>
                                runner'.status[c] = runner.status[c]
                        /\ runner'.status[c] = "running"
                             /\ runner.status[c] # "running" =>
                                \A d \in Command : runner.status[d] # "running"
    OBVIOUS
  <2>1. CASE UNCHANGED runner
    BY <2>1
  <2>2. ASSUME NEW c \in Command, NEW status \in Finished,
               runner.status[c] = "running",
               runner' = [runner EXCEPT !.status[c] = status]
        PROVE  \A d \in Command : runner'.status[d] = runner.status[d]
                    \/ /\ runner.status[d] \notin Finished
                       /\ runner'.status[d] # "running"
    <3>1. runner'.status = [runner.status EXCEPT ![c] = status]
      BY <2>2, RunnerFields
    <3> QED
      BY <2>2, <3>1, RunnerFields DEF Finished
  <2>3. ASSUME NEW c \in Command, ~Known(c), ~Busy, StartAction(c)
        PROVE  /\ \A d \in Command : runner.status[d] # "running"
               /\ \A d \in Command : runner'.status[d] = runner.status[d]
                        \/ runner.status[d] \notin Finished
    <3>1. runner'.status = [runner.status EXCEPT ![c] = "running"]
      BY <2>3 DEF StartAction
    <3>2. \A d \in Command : runner.status[d] # "running"
      BY <2>3, WorkerAssumption DEF Busy, RunnerInv
    <3> QED
      BY <2>3, <3>1, <3>2, RunnerFields DEF Known, Finished
  <2> QED
    BY <2>1, <2>2, <2>3, StepsOnRunner DEF RunnerMoves
<1> QED
  BY InitWorker, NextWorker, InitRunner, NextRunner, <1>1, PTL
     DEF Spec, ActionsRunOnce
-----------------------------------------------------------------------------
(* The revision of the design. *)

LEMMA ReachedLasts ==
  ASSUME Lasting, NEW n \in Nat, Reached(n)
  PROVE  Reached(n)'
<1> SUFFICES ASSUME NEW r \in 1 .. n
             PROVE  \E c \in Command : log'[c] = [status |-> "APPLIED", rev |-> r]
  BY DEF Reached
<1>1. PICK c \in Command : log[c] = [status |-> "APPLIED", rev |-> r]
  BY DEF Reached
<1>2. log[c] # Unlogged
  BY <1>1 DEF Unlogged
<1> QED
  BY <1>1, <1>2 DEF Lasting

\* A thread keeps its command while it holds a revision, and has compared it.
LEMMA HoldingMoves ==
  ASSUME WorkerInv, NEW t \in Thread, ThreadStep(t), thread'[t].pc \in HoldingPc
  PROVE  /\ thread'[t].cmd = thread[t].cmd
         /\ \/ /\ thread[t].pc \in HoldingPc \ {"conflict"}
               /\ thread'[t].pc # "conflict" /\ thread'[t].rev = thread[t].rev
            \/ /\ thread'[t].rev = revision
               /\ thread'[t].pc = "conflict" <=> revision # Body(t).base
<1>t. thread \in [Thread -> Hand] /\ thread[t] \in Hand
  BY Threads
<1>i. ~Drop(t)
  BY <1>t DEF Drop, Idle, HoldingPc
<1> USE DEF Serves, HoldingPc
<1>1. CASE LookUp(t)
  BY <1>t, <1>i, <1>1 DEF LookUp, Answer, Go, Hand
<1>2. CASE CompareRevision(t)
  <2> DEFINE pc == IF revision = Body(t).base THEN "savepoint" ELSE "conflict"
  <2>1. thread' = [thread EXCEPT ![t].pc = pc, ![t].rev = revision]
    BY <1>2 DEF CompareRevision
  <2>2. thread'[t] = [thread[t] EXCEPT !.pc = pc, !.rev = revision]
    BY <1>t, <2>1
  <2> HIDE DEF pc
  <2>3. thread'[t].pc = pc /\ thread'[t].rev = revision /\ thread'[t].cmd = thread[t].cmd
    BY <1>t, <2>2 DEF Hand
  <2> QED
    BY <2>3 DEF pc
<1>3. CASE OpenSavepoint(t)
  BY <1>t, <1>i, <1>3 DEF OpenSavepoint, Raise, Hand
<1>4. CASE ApplyNext(t)
  <2>1. thread[t].pc = "batch"
    BY <1>4 DEF ApplyNext, InSavepoint
  <2>2. CASE thread' = [thread EXCEPT ![t].pc = "rejected", ![t].work = EmptyMap,
                                      ![t].left = <<>>]
    BY <1>t, <2>1, <2>2 DEF Hand
  <2>3. ASSUME NEW m,
               thread' = [thread EXCEPT ![t].work = m, ![t].left = Tail(@)]
        PROVE  /\ thread'[t].cmd = thread[t].cmd /\ thread'[t].pc = "batch"
               /\ thread'[t].rev = thread[t].rev
    BY <1>t, <2>1, <2>3 DEF Hand
  <2> QED
    BY <1>4, <2>1, <2>2, <2>3 DEF ApplyNext
<1>5. CASE Release(t)
  BY <1>t, <1>5 DEF Release, InSavepoint, Hand
<1>6. CASE Record(t)
  BY <1>i, <1>6 DEF Record, Raise, Answer
<1>7. CASE ApproveStep(t)
  <2>1. CASE CompareApproved(t)
    BY <1>t, <1>i, <2>1 DEF CompareApproved, Answer, Hand
  <2>2. CASE ReadNodes(t)
    BY <1>t, <2>2 DEF ReadNodes, Hand
  <2> QED
    BY <1>i, <1>7, <2>1, <2>2 DEF ApproveStep, ReadEdgesAndApprove, Answer
<1>8. CASE SaveStep(t) \/ DeskStep(t)
  <2>1. thread'[t].pc \notin MapPc
    BY <1>8, ThreadStepMoves DEF ThreadStep, Moved, SaveStep, Save, WriteAlias,
                                 DeskStep, Submit, Ask, MapPc
  <2> QED
    BY <2>1 DEF MapPc
<1> QED
  BY <1>1, <1>2, <1>3, <1>4, <1>5, <1>6, <1>7, <1>8
     DEF ThreadStep, DesignStep, ApplyStep

\* A request in hand keeps its body.
LEMMA BodyStays ==
  ASSUME WorkerInv, [Next]_vars, NEW t \in Thread, thread[t].pc # "idle",
         thread'[t].cmd = thread[t].cmd
  PROVE  Body(t)' = Body(t)
  BY KindInHand, RecordsLast DEF Lasting, Body

\* The threads that no step of their own has moved.
LEMMA OthersStay ==
  ASSUME WorkerInv, [Next]_vars, NEW t \in Thread, thread'[t].pc \in HoldingPc,
         ~ThreadStep(t)
  PROVE  thread'[t] = thread[t]
<1>1. ASSUME NEW u \in Thread, ThreadStep(u) PROVE thread'[t] = thread[t]
  BY <1>1, ThreadStepMoves
<1>2. ASSUME NEW u \in Thread, NEW c \in Command, Send(u, c)
      PROVE  thread'[t] = thread[t]
  BY <1>2, SendTakesUp DEF HoldingPc
<1>3. ASSUME NEW c \in Command, BackgroundStep(c) PROVE thread'[t] = thread[t]
  BY <1>3 DEF BackgroundStep, FinishAction, EndQuestion, StoreAnswer, FreeSlot
<1>4. CASE PhaseStep \/ StartPhase \/ UNCHANGED vars
  <2>1. UNCHANGED thread
    BY <1>4 DEF PhaseStep, AgentWrites, ReadAlias, CompareHead, CaptureSave,
                CaptureAlias, StartPhase, vars
  <2> QED
    BY <2>1
<1>5. CASE Restart
  BY <1>5 DEF Restart, Idle, HoldingPc
<1> QED
  BY <1>1, <1>2, <1>3, <1>4, <1>5 DEF Next

LEMMA NextRevisionHeld ==
  ASSUME RevisionInv, [Next]_vars, NEW t \in Thread
  PROVE  RevisionHeld(t)'
<1> SUFFICES ASSUME thread'[t].pc \in HoldingPc PROVE RevisionHeld(t)'
  BY DEF RevisionHeld, HoldingPc
<1>1. /\ WorkerInv /\ Lasting /\ RevisionHeld(t) /\ Reached(revision)
      /\ revision \in Nat /\ thread[t].rev \in Nat
  BY RecordsLast, Threads DEF RevisionInv, WorkerInv, DesignTyped, Hand
<1>2. CASE ThreadStep(t)
  <2>1. /\ thread[t].pc # "idle" /\ thread'[t].cmd = thread[t].cmd
        /\ \/ /\ thread[t].pc \in HoldingPc \ {"conflict"}
              /\ thread'[t].pc # "conflict" /\ thread'[t].rev = thread[t].rev
           \/ /\ thread'[t].rev = revision
              /\ thread'[t].pc = "conflict" <=> revision # Body(t).base
    BY <1>1, <1>2, ThreadStepMoves, HoldingMoves DEF Moved
  <2>2. Body(t)' = Body(t)
    BY <1>1, <2>1, BodyStays
  <2>3. PICK n : n = thread'[t].rev
    OBVIOUS
  <2>4. n \in Nat /\ Reached(n)
    BY <1>1, <2>1, <2>3 DEF RevisionHeld
  <2>5. Reached(n)'
    BY <1>1, <2>4, ReachedLasts
  <2>6. Reached(thread[t].rev)'
    BY <2>3, <2>5 DEF Reached
  <2> QED
    BY <1>1, <2>1, <2>2, <2>6 DEF RevisionHeld
<1>3. CASE ~ThreadStep(t)
  <2>1. thread'[t] = thread[t]
    BY <1>1, <1>3, OthersStay
  <2>2. Body(t)' = Body(t)
    BY <1>1, <2>1, BodyStays DEF HoldingPc
  <2>3. PICK n : n = thread[t].rev
    OBVIOUS
  <2>4. Reached(n)'
    BY <1>1, <2>1, <2>3, ReachedLasts DEF RevisionHeld
  <2>5. Reached(thread[t].rev)'
    BY <2>1, <2>3, <2>4 DEF Reached
  <2> QED
    BY <1>1, <2>1, <2>2, <2>5 DEF RevisionHeld
<1> QED
  BY <1>2, <1>3

\* What a record writes.
LEMMA RecordWrites ==
  ASSUME RevisionInv, NEW t \in Thread, Record(t), ~UNCHANGED <<log, revision>>
  PROVE  \E cmd \in Command, rev \in Nat, status \in {"CONFLICT", "REJECTED", "APPLIED"} :
             /\ issued' = issued /\ issued[cmd].kind = "apply"
             /\ log'[cmd] = [status |-> status, rev |-> rev]
             /\ \A c \in Command : c # cmd => log'[c] = log[c]
             /\ status = "APPLIED" => rev = issued[cmd].base + 1
             /\ status = "REJECTED" => rev = issued[cmd].base
             /\ status = "CONFLICT" => rev # issued[cmd].base
             /\ revision' # revision => revision' = rev /\ status = "APPLIED"
             /\ status = "APPLIED" => \E n \in Nat : rev = n + 1 /\ Reached(n)
<1>0. PICK cmd, rev, status :
         /\ cmd = thread[t].cmd
         /\ rev = IF thread[t].pc = "applied" THEN thread[t].rev + 1 ELSE thread[t].rev
         /\ status = Outcome[thread[t].pc]
  OBVIOUS
<1>1. /\ thread[t].pc \in {"conflict", "rejected", "applied"}
      /\ ~Logged(cmd) /\ UNCHANGED issued
      /\ revision' = IF thread[t].pc = "applied" THEN rev ELSE revision
      /\ log' = [log EXCEPT ![cmd] = [status |-> status, rev |-> rev]]
  BY <1>0 DEF Record, Outcome, Serves, otherFiles, clients
<1>2. /\ WorkerInv /\ RevisionHeld(t) /\ thread[t].rev \in Nat
      /\ log \in [Command -> [status : Status \cup {"none"}, rev : Nat]]
  BY Threads DEF RevisionInv, WorkerInv, DesignTyped, Hand
<1>3. cmd \in Command /\ issued[cmd].kind = "apply"
  BY <1>0, <1>1, <1>2, KindInHand, Kinds DEF MapPc
<1>4. Reached(thread[t].rev)
  BY <1>1, <1>2 DEF RevisionHeld, HoldingPc
<1>5. /\ log'[cmd] = [status |-> status, rev |-> rev]
      /\ \A c \in Command : c # cmd => log'[c] = log[c]
  BY <1>1, <1>2, <1>3
<1>6. /\ status = "APPLIED" => rev = issued[cmd].base + 1
      /\ status = "REJECTED" => rev = issued[cmd].base
      /\ status = "CONFLICT" => rev # issued[cmd].base
  BY <1>0, <1>1, <1>2 DEF RevisionHeld, HoldingPc, Body, Outcome
<1>7. /\ rev \in Nat
      /\ revision' # revision => revision' = rev /\ status = "APPLIED"
  BY <1>0, <1>1, <1>2 DEF Outcome
<1>10. status \in {"CONFLICT", "REJECTED", "APPLIED"}
  BY <1>0, <1>1 DEF Outcome
<1>8. ASSUME status = "APPLIED"
      PROVE  \E n \in Nat : rev = n + 1 /\ Reached(n)
  <2>1. PICK n : n = thread[t].rev
    OBVIOUS
  <2>2. n \in Nat /\ rev = n + 1 /\ Reached(n)
    BY <1>0, <1>1, <1>2, <1>4, <1>8, <2>1 DEF Outcome
  <2> QED
    BY <2>2
<1>9. issued' = issued
  BY <1>1
<1> QED
  BY <1>3, <1>5, <1>6, <1>7, <1>8, <1>9, <1>10

LEMMA StepsOnLog ==
  ASSUME WorkerInv, [Next]_vars, ~UNCHANGED <<log, revision>>
  PROVE  \E t \in Thread : Record(t)
<1>1. ASSUME NEW t \in Thread, Save(t) PROVE UNCHANGED <<log, revision>>
  BY <1>1 DEF Save, otherState, designDb
<1>2. CaptureSave => UNCHANGED <<log, revision>>
  BY DEF CaptureSave, otherState, designDb
<1> QED
  BY <1>1, <1>2, StepsOnRecords

LEMMA NextReached == ASSUME RevisionInv, [Next]_vars PROVE Reached(revision)'
<1>1. Lasting /\ WorkerInv /\ Reached(revision) /\ revision \in Nat
  BY RecordsLast DEF RevisionInv, WorkerInv, DesignTyped
<1>2. PICK n : n = revision'
  OBVIOUS
<1> SUFFICES Reached(n)'
  BY <1>2 DEF Reached
<1>3. CASE revision' = revision
  BY <1>1, <1>2, <1>3, ReachedLasts
<1>4. CASE revision' # revision
  <2>1. PICK t \in Thread : Record(t)
    BY <1>1, <1>4, StepsOnLog
  <2>2. PICK cmd \in Command, held \in Nat :
           /\ log'[cmd] = [status |-> "APPLIED", rev |-> n]
           /\ n = held + 1 /\ Reached(held)
    BY <1>2, <1>4, <2>1, RecordWrites
  <2>3. Reached(held)'
    BY <1>1, <2>2, ReachedLasts
  <2>4. \A r \in 1 .. n : r \in 1 .. held \/ r = n
    BY <2>2
  <2> QED
    BY <2>2, <2>3, <2>4 DEF Reached
<1> QED
  BY <1>3, <1>4

LEMMA NextLogAgrees ==
  ASSUME RevisionInv, [Next]_vars, NEW c \in Command
  PROVE  LogAgrees(c)'
<1>1. Lasting /\ WorkerInv /\ LogAgrees(c)
  BY RecordsLast DEF RevisionInv
<1>2. CASE log'[c] = log[c]
  <2>1. CASE log[c] = Unlogged
    BY <1>2, <2>1 DEF LogAgrees, Unlogged
  <2>2. CASE log[c] # Unlogged
    <3>1. issued'[c] = issued[c]
      BY <1>1, <2>2 DEF LogAgrees, Lasting, Unissued
    <3> QED
      BY <1>1, <1>2, <3>1 DEF LogAgrees
  <2> QED
    BY <2>1, <2>2
<1>3. CASE log'[c] # log[c]
  <2>1. PICK t \in Thread : Record(t)
    BY <1>1, <1>3, StepsOnLog
  <2>2. PICK rev \in Nat, status \in {"CONFLICT", "REJECTED", "APPLIED"} :
           /\ issued' = issued /\ issued[c].kind = "apply"
           /\ log'[c] = [status |-> status, rev |-> rev]
           /\ status = "APPLIED" => rev = issued[c].base + 1
           /\ status = "REJECTED" => rev = issued[c].base
           /\ status = "CONFLICT" => rev # issued[c].base
    BY <1>3, <2>1, RecordWrites
  <2> QED
    BY <2>2 DEF LogAgrees
<1> QED
  BY <1>2, <1>3

LEMMA InitRevision == Init => RevisionInv
  BY InitWorker DEF Init, Idle, RevisionInv, RevisionHeld, LogAgrees, Reached,
                    Unlogged, HoldingPc

LEMMA NextRevision == RevisionInv /\ [Next]_vars => RevisionInv'
  BY NextWorker, NextReached, NextRevisionHeld, NextLogAgrees DEF RevisionInv

\* Every revision up to the present one is that of a batch on the log that was
\* applied on the revision before, however many clients propose at the same time
\* and whenever the worker restarts (DesignStore.apply).
THEOREM RevisionsAreKept == Spec => []RevisionsAreRecorded
<1>1. RevisionInv => RevisionsAreRecorded
  BY DEF RevisionInv, Reached, LogAgrees, RevisionsAreRecorded
<1> QED
  BY InitRevision, NextRevision, <1>1, PTL DEF Spec
-----------------------------------------------------------------------------
(* The document and its alias. *)

LEMMA VersionsLast ==
  ASSUME WorkerInv, [Next]_vars, NEW x, HasVersion(x)
  PROVE  HasVersion(x)'
<1>1. PICK r \in 1 .. Len(versions) : versions[r] = x
  BY DEF HasVersion
<1>2. r \in Nat /\ IsVersion(r, x)
  BY <1>1 DEF IsVersion
<1>3. IsVersion(r, x)'
  BY <1>2, RecordsLast DEF Lasting
<1> QED
  BY <1>3 DEF IsVersion, HasVersion

\* A capture is on record when it has been tried, and goes on if it was applied.
LEMMA NextCapturesKept ==
  ASSUME WorkerInv, CapturesKept, [Next]_vars
  PROVE  CapturesKept'
<1> SUFFICES ASSUME NEW x \in Text, writes'[CaptureId(x)] # Unwritten
             PROVE  HasVersion(x)' \/ writes'[CaptureId(x)].status = "CONFLICT"
  BY DEF CapturesKept, CaptureId
<1>1. CaptureId(x) \in CatalogCommand
  BY DEF CaptureId, CatalogCommand
<1>2. CASE writes[CaptureId(x)] # Unwritten
  <2>1. writes'[CaptureId(x)] = writes[CaptureId(x)]
    BY <1>1, <1>2, RecordsLast DEF Lasting
  <2> QED
    BY <1>2, <2>1, VersionsLast DEF CapturesKept
<1>3. CASE writes[CaptureId(x)] = Unwritten
  <2>1. ASSUME NEW t \in Thread, Record(t) PROVE writes' = writes
    BY <2>1 DEF Record, otherFiles, documentsDb
  <2>2. ASSUME NEW t \in Thread, Save(t)
        PROVE  writes'[CaptureId(x)] = writes[CaptureId(x)]
    <3>1. /\ thread[t].pc = "save" /\ DocumentsTyped
          /\ CatalogSave(thread[t].cmd, Body(t).base, Body(t).text)
      BY <2>2 DEF Save, Serves, WorkerInv
    <3>2. CaptureId(x) # thread[t].cmd
      BY <3>1, SaveInHand, IdsApart
    <3> QED
      BY <1>1, <3>1, <3>2, SaveInHand, CatalogSaveSteps
  <2>3. CASE CaptureSave
    <3>1. x = phase.text
      <4>1. CASE CaptureId(x) = CaptureId(phase.text)
        BY <2>3, <4>1, CaptureInHand, IdsApart
      <4>2. CASE CaptureId(x) # CaptureId(phase.text)
        BY <1>1, <1>3, <2>3, <4>2, CaptureInHand, CatalogSaveSteps DEF WorkerInv
      <4> QED
        BY <4>1, <4>2
    <3>2. PICK base, status, rev :
            /\ base = phase.base /\ status = SaveStatus(CaptureId(x), base)
            /\ rev = SaveRevision(CaptureId(x), base)
      OBVIOUS
    <3>3. /\ CatalogSave(CaptureId(x), base, x) /\ base \in Nat /\ DocumentsTyped
      BY <2>3, <3>1, <3>2, CaptureInHand DEF WorkerInv
    <3>4. /\ status \in {"CONFLICT", "APPLIED"}
          /\ writes'[CaptureId(x)].status = status
      BY <1>1, <1>3, <3>2, <3>3, CatalogSaveSteps
    <3>5. status = "APPLIED" => IsVersion(rev, x)'
      BY <1>1, <3>2, <3>3, CatalogSaveLasts
    <3> QED
      BY <3>4, <3>5 DEF IsVersion, HasVersion
  <2> QED
    BY <1>3, <2>1, <2>2, <2>3, StepsOnRecords
<1> QED
  BY <1>2, <1>3

LEMMA CaptureEnds ==
  ASSUME WorkerInv, CapturesKept, CaptureSave, [Next]_vars,
         NEW text, text = phase.text
  PROVE  /\ HasVersion(text)' \/ writes'[CaptureId(text)].status = "CONFLICT"
         /\ phase'.pc = "alias" => HasVersion(text)'
<1>1. PICK base : base = phase.base
  OBVIOUS
<1>2. /\ text \in Text /\ base \in Nat /\ CaptureId(text) \in CatalogCommand
      /\ CatalogSave(CaptureId(text), base, text) /\ DocumentsTyped
  BY <1>1, CaptureInHand DEF WorkerInv
<1>3. writes'[CaptureId(text)] # Unwritten
  BY <1>2, CatalogSaveSteps
<1>4. HasVersion(text)' \/ writes'[CaptureId(text)].status = "CONFLICT"
  BY <1>2, <1>3, NextCapturesKept DEF CapturesKept, CaptureId
<1>5. ASSUME phase'.pc = "alias" PROVE HasVersion(text)'
  <2>1. SaveStatus(CaptureId(text), base) = "APPLIED"
    BY <1>1, <1>5 DEF CaptureSave, NoPhase
  <2>2. PICK r : r = SaveRevision(CaptureId(text), base)
    OBVIOUS
  <2>3. IsVersion(r, text)'
    BY <1>2, <2>1, <2>2, CatalogSaveLasts
  <2> QED
    BY <2>3 DEF IsVersion, HasVersion
<1> QED
  BY <1>4, <1>5

\* A thread that does not serve a save leaves the document alone.
LEMMA ThreadsOnDocument ==
  ASSUME WorkerInv, NEW t \in Thread, ThreadStep(t)
  PROVE  \/ Save(t) /\ thread[t].pc = "save" /\ alias' = alias
         \/ WriteAlias(t) /\ thread[t].pc = "alias"
         \/ UNCHANGED <<alias, versions>>
<1>1. CASE Save(t)
  BY <1>1 DEF Save, Serves
<1>2. CASE WriteAlias(t)
  BY <1>2 DEF WriteAlias, Serves
<1>3. CASE ~Save(t) /\ ~WriteAlias(t)
  BY <1>3 DEF ThreadStep, DesignStep, ApplyStep, LookUp, CompareRevision,
              OpenSavepoint, ApplyNext, Release, Record, ApproveStep,
              CompareApproved, ReadNodes, ReadEdgesAndApprove, SaveStep, DeskStep,
              Submit, Ask, documentsDb, otherFiles, stores
<1> QED
  BY <1>1, <1>2, <1>3

\* What a save writes to the document is a version by then.
LEMMA AliasIsSaved ==
  ASSUME RecordsInv, NEW t \in Thread, WriteAlias(t), NEW text, text = alias'
  PROVE  HasVersion(text)
<1>1. thread[t].pc = "alias" /\ alias' = Body(t).text /\ WorkerInv
  BY DEF WriteAlias, Serves, RecordsInv
<1>2. writes[thread[t].cmd] = [status |-> "APPLIED", rev |-> thread[t].rev]
  BY <1>1 DEF RecordsInv, SavesHeld
<1>3. thread[t].cmd \in Command /\ writes[thread[t].cmd].status = "APPLIED"
  BY <1>1, <1>2, SaveInHand
<1> QED
  BY <1>1, <1>3 DEF RecordsInv, SavesKept, IsVersion, HasVersion, Body

LEMMA NextPhaseHolds ==
  ASSUME RecordsInv, CapturesKept, PhaseHolds, [Next]_vars
  PROVE  PhaseHolds'
<1>w. WorkerInv /\ phase \in [pc : {"idle", "agent", "read", "compare", "save", "alias"},
                              text : Text \cup {NoText}, base : Nat]
  BY DEF RecordsInv, WorkerInv, PhaseTyped
<1>a. PICK old, new, held : old = alias /\ new = alias' /\ held = phase.text
  OBVIOUS
<1>v. \A x : HasVersion(x) => HasVersion(x)'
  BY <1>w, VersionsLast
\* Where the phase stays as it is.
<1>1. ASSUME phase' = phase, new = old \/ HasVersion(new)
      PROVE  PhaseHolds'
  <2>1. phase.pc \in {"compare", "save", "alias"} => new = held \/ HasVersion(new)'
    BY <1>1, <1>a, <1>v DEF PhaseHolds
  <2>2. phase.pc = "alias" => HasVersion(held)'
    BY <1>a, <1>v DEF PhaseHolds
  <2> QED
    BY <1>1, <1>a, <2>1, <2>2 DEF PhaseHolds, HasVersion
<1>2. ASSUME phase' = NoPhase PROVE PhaseHolds'
  BY <1>2 DEF PhaseHolds, NoPhase
<1>3. ASSUME NEW t \in Thread, ThreadStep(t) PROVE PhaseHolds'
  <2>1. phase' = phase
    BY <1>w, <1>3, ThreadStepMoves
  <2>2. CASE WriteAlias(t)
    BY <1>1, <1>a, <2>1, <2>2, AliasIsSaved
  <2>3. CASE ~WriteAlias(t)
    BY <1>w, <1>1, <1>3, <1>a, <2>1, <2>3, ThreadsOnDocument
  <2> QED
    BY <2>2, <2>3
<1>4. ASSUME NEW text, AgentWrites(text) PROVE PhaseHolds'
  <2>1. /\ phase'.pc = "read" /\ phase'.text = phase.text /\ phase.pc = "agent"
    BY <1>w, <1>4 DEF AgentWrites
  <2> QED
    BY <2>1 DEF PhaseHolds
<1>5. CASE ReadAlias
  <2>1. CASE phase' = [phase EXCEPT !.pc = "compare", !.text = alias]
    <3>1. phase'.pc = "compare" /\ phase'.text = alias /\ alias' = alias
      BY <1>w, <1>5, <2>1 DEF ReadAlias
    <3> QED
      BY <3>1 DEF PhaseHolds
  <2> QED
    BY <1>2, <1>5, <2>1 DEF ReadAlias
<1>6. CASE CompareHead
  <2>1. CASE phase' = [phase EXCEPT !.pc = "save", !.base = HeadRevision]
    <3>1. /\ phase'.pc = "save" /\ phase'.text = phase.text /\ phase.pc = "compare"
          /\ UNCHANGED <<alias, versions>>
      BY <1>w, <1>6, <2>1 DEF CompareHead, documentsDb
    <3> QED
      BY <3>1 DEF PhaseHolds, HasVersion
  <2> QED
    BY <1>2, <1>6, <2>1 DEF CompareHead
<1>7. CASE CaptureSave
  <2>1. CASE phase' = [phase EXCEPT !.pc = "alias"]
    <3>1. /\ phase'.pc = "alias" /\ phase'.text = phase.text /\ phase.pc = "save"
          /\ alias' = alias
      BY <1>w, <1>7, <2>1 DEF CaptureSave
    <3>2. HasVersion(held)'
      BY <1>w, <1>7, <1>a, <3>1, CaptureEnds
    <3>3. old = held \/ HasVersion(old)'
      BY <1>a, <1>v, <3>1 DEF PhaseHolds
    <3> QED
      BY <1>a, <3>1, <3>2, <3>3 DEF PhaseHolds, HasVersion
  <2> QED
    BY <1>2, <1>7, <2>1 DEF CaptureSave
<1>8. CASE CaptureAlias \/ Restart
  BY <1>2, <1>8 DEF CaptureAlias, Restart
<1>9. CASE StartPhase
  <2>1. phase'.pc = "agent" /\ phase'.text = NoText
    BY <1>9 DEF StartPhase, NoPhase
  <2> QED
    BY <2>1 DEF PhaseHolds
<1>10. ASSUME NEW c \in Command, BackgroundStep(c) PROVE PhaseHolds'
  <2>1. UNCHANGED <<phase, alias>>
    BY <1>10 DEF BackgroundStep, FinishAction, EndQuestion, StoreAnswer, FreeSlot,
                 stores
  <2> QED
    BY <1>1, <1>a, <2>1
<1>11. ASSUME NEW t \in Thread, NEW c \in Command, Send(t, c) PROVE PhaseHolds'
  BY <1>1, <1>11, <1>a DEF Send
<1>12. CASE UNCHANGED vars
  BY <1>1, <1>12, <1>a DEF vars
<1> QED
  BY <1>3, <1>4, <1>5, <1>6, <1>7, <1>8, <1>9, <1>10, <1>11, <1>12
     DEF Next, PhaseStep

LEMMA InitDocument == Init => DocumentInv
<1> SUFFICES ASSUME Init PROVE DocumentInv
  OBVIOUS
<1>1. CapturesKept
  <2>1. \A c \in CatalogCommand : writes[c] = Unwritten
    BY DEF Init
  <2> QED
    BY <2>1 DEF CapturesKept, CaptureId, CatalogCommand
<1>2. PhaseHolds
  BY DEF Init, NoPhase, PhaseHolds
<1> QED
  BY <1>1, <1>2, InitRecords DEF DocumentInv

LEMMA NextDocument == DocumentInv /\ [Next]_vars => DocumentInv'
  BY NextRecords, NextCapturesKept, NextPhaseHolds DEF DocumentInv, RecordsInv

\* Who writes the document.
LEMMA StepsOnAlias ==
  ASSUME WorkerInv, [Next]_vars
  PROVE  \/ alias' = alias
         \/ \E t \in Thread : WriteAlias(t)
         \/ \E x : AgentWrites(x)
         \/ CaptureAlias
<1>1. ASSUME NEW t \in Thread, ThreadStep(t)
      PROVE  alias' = alias \/ WriteAlias(t)
  BY <1>1, ThreadsOnDocument
<1>2. ASSUME NEW c \in Command, BackgroundStep(c) PROVE alias' = alias
  BY <1>2 DEF BackgroundStep, FinishAction, EndQuestion, StoreAnswer, FreeSlot,
              stores
<1>3. ASSUME NEW t \in Thread, NEW c \in Command, Send(t, c) PROVE alias' = alias
  BY <1>3 DEF Send
<1>4. CASE ReadAlias \/ CompareHead \/ CaptureSave \/ StartPhase \/ Restart
             \/ UNCHANGED vars
  BY <1>4 DEF ReadAlias, CompareHead, CaptureSave, StartPhase, Restart, vars
<1> QED
  BY <1>1, <1>2, <1>3, <1>4 DEF Next, PhaseStep

\* Whatever is saved at the same time and whenever the worker restarts, a text that
\* the catalogue does not have is put into the document by an agent, never by a save
\* that was refused or by a capture (MissionDocumentService.save writes it last).
THEOREM DraftsAreAgents == Spec => OnlyAgentsDraft
<1> DEFINE Drafted ==
        alias' # alias =>
          \/ phase.pc = "agent" /\ phase'.pc = "read"
          \/ \E r \in DOMAIN versions : versions[r] = alias'
<1>1. DocumentInv /\ [Next]_vars => [Drafted]_vars
  <2> SUFFICES ASSUME DocumentInv, [Next]_vars, alias' # alias
               PROVE  \/ phase.pc = "agent" /\ phase'.pc = "read"
                      \/ \E r \in DOMAIN versions : versions[r] = alias'
    OBVIOUS
  <2>1. RecordsInv /\ WorkerInv /\ versions \in Seq(Text)
    BY DEF DocumentInv, RecordsInv, WorkerInv, DocumentsTyped
  <2>2. PICK new : new = alias'
    OBVIOUS
  <2>3. HasVersion(new) => \E r \in DOMAIN versions : versions[r] = alias'
    BY <2>1, <2>2 DEF HasVersion
  <2>4. ASSUME NEW t \in Thread, WriteAlias(t) PROVE HasVersion(new)
    BY <2>1, <2>2, <2>4, AliasIsSaved
  <2>5. ASSUME NEW x, AgentWrites(x) PROVE phase.pc = "agent" /\ phase'.pc = "read"
    BY <2>1, <2>5 DEF AgentWrites, WorkerInv, PhaseTyped
  <2>6. CaptureAlias => HasVersion(new)
    BY <2>2 DEF CaptureAlias, DocumentInv, PhaseHolds
  <2> QED
    BY <2>1, <2>3, <2>4, <2>5, <2>6, StepsOnAlias
<1> QED
  BY InitDocument, NextDocument, <1>1, PTL DEF Spec, OnlyAgentsDraft

\* When a phase ends, the text its capture read and the text the document then
\* holds are in the catalogue or on record as refused, whoever saves meanwhile
\* (capture_alias).
THEOREM CapturesAreKept == Spec => CaptureIsAccounted
<1> DEFINE Captured ==
        InPhase /\ phase'.pc = "idle" /\ restarts' = restarts =>
          \A text \in {phase.text, alias'} \ {NoText} : Accounted(text)'
<1>1. DocumentInv /\ [Next]_vars => [Captured]_vars
  <2> SUFFICES ASSUME DocumentInv, [Next]_vars, phase.pc # "idle",
                      phase'.pc = "idle", restarts' = restarts,
                      NEW text \in {phase.text, alias'} \ {NoText}
               PROVE  Accounted(text)'
    BY DEF InPhase
  <2>1. WorkerInv /\ WorkerInv' /\ PhaseHolds /\ CapturesKept
    BY NextWorker DEF DocumentInv, RecordsInv
  <2>2. HasVersion(text)' => Accounted(text)'
    BY <2>1 DEF HasVersion, Accounted, WorkerInv, DocumentsTyped
  <2>3. HasVersion(text) => HasVersion(text)'
    BY <2>1, VersionsLast
  <2>4. CASE ReadAlias
    <3>1. phase.pc = "read" /\ alias' = alias /\ alias = NoText
      BY <2>1, <2>4 DEF ReadAlias, WorkerInv, PhaseTyped
    <3> QED
      BY <2>1, <3>1 DEF PhaseHolds
  <2>5. CASE CompareHead
    <3>1. /\ phase.pc = "compare" /\ alias' = alias
          /\ HeadRevision > 0 /\ versions[HeadRevision] = phase.text
      BY <2>1, <2>5 DEF CompareHead, WorkerInv, PhaseTyped
    <3>2. HeadRevision \in 1 .. Len(versions)
      BY <2>1, <3>1 DEF HeadRevision, WorkerInv, DocumentsTyped
    <3>3. HasVersion(text)
      BY <2>1, <3>1, <3>2 DEF PhaseHolds, HasVersion
    <3> QED
      BY <2>2, <2>3, <3>3
  <2>6. CASE CaptureSave
    <3>1. phase.pc = "save" /\ alias' = alias
      BY <2>6 DEF CaptureSave
    <3>2. CASE text = phase.text
      <4>1. HasVersion(text)' \/ writes'[CaptureId(text)].status = "CONFLICT"
        BY <2>1, <2>6, <3>2, CaptureEnds
      <4> QED
        BY <2>2, <4>1 DEF Accounted, CaptureId
    <3>3. CASE text # phase.text
      BY <2>1, <2>2, <2>3, <3>1, <3>3 DEF PhaseHolds
    <3> QED
      BY <3>2, <3>3
  <2>7. CASE CaptureAlias
    BY <2>1, <2>2, <2>3, <2>7 DEF CaptureAlias, PhaseHolds
  <2>8. ASSUME NEW t \in Thread, ThreadStep(t) PROVE FALSE
    BY <2>1, <2>8, ThreadStepMoves
  <2>9. ASSUME NEW t \in Thread, NEW c \in Command, Send(t, c) PROVE FALSE
    BY <2>9 DEF Send
  <2>10. ASSUME NEW c \in Command, BackgroundStep(c) PROVE FALSE
    BY <2>10 DEF BackgroundStep, FinishAction, EndQuestion, StoreAnswer, FreeSlot,
                 stores
  <2>11. ~Restart
    BY <2>1, WorkerAssumption DEF Restart, WorkerInv, ClientsTyped
  <2>12. ~StartPhase /\ (\A x : ~AgentWrites(x)) /\ ~UNCHANGED vars
    BY <2>1 DEF StartPhase, InPhase, AgentWrites, vars, WorkerInv, PhaseTyped
  <2> QED
    BY <2>4, <2>5, <2>6, <2>7, <2>8, <2>9, <2>10, <2>11, <2>12 DEF Next, PhaseStep
<1> QED
  BY InitDocument, NextDocument, <1>1, PTL DEF Spec, CaptureIsAccounted
=============================================================================
