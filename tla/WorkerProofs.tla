---------------------------- MODULE WorkerProofs ----------------------------
(***************************************************************************)
(* For every number of threads, commands, nodes and batches, and any number   *)
(* of them at the same time: whatever clients propose, repeat and approve,    *)
(* and wherever a restart cuts them off, the design map never refers to a     *)
(* node that is gone.                                                        *)
(*                                                                         *)
(* The argument: a map that is closed stays so under each operation           *)
(* (OperationKeepsMap); hence the copy a batch works on is closed at every    *)
(* operation, also in the middle (WorkerInv), and it is what a commit writes. *)
(***************************************************************************)
EXTENDS Worker, SequenceTheorems, TLAPS

Closed(m) ==
    /\ \A e \in m.edges : {e[1], e[2]} \subseteq m.nodes
    /\ \A n \in Node : m.parent[n] \in m.nodes \cup {NoNode}

Hand == [pc : Pc, cmd : Command \cup {NoCommand}, rev : Nat, work : Map,
         left : Seq(Operation)]

\* The kind of request a thread serves at each place of its code.
KindAt ==
    [pc \in Pc \ {"idle"} |->
        CASE pc \in {"approve", "nodes", "edges"} -> "approve"
          [] pc \in {"save", "alias"} -> "save"
          [] pc = "action" -> "action"
          [] pc = "question" -> "question"
          [] OTHER -> "apply"]

\* What a thread does is what its request asks for.
Placed(h) ==
    h.pc # "idle" => /\ h.cmd \in Command
                     /\ issued[h.cmd].kind = KindAt[h.pc]

-----------------------------------------------------------------------------
(* The inductive invariant, one conjunct per file or service. *)

MapInv == map \in Map /\ Closed(map)

DesignTyped ==
    /\ revision \in Nat
    /\ snapshots \subseteq [rev : Nat, map : Map]
    /\ log \in [Command -> [status : Status \cup {"none"}, rev : Nat]]

DocumentsTyped ==
    /\ versions \in Seq(Text) /\ alias \in Text \cup {NoText}
    /\ writes \in [CatalogCommand -> [status : Status \cup {"none"}, rev : Nat]]

\* A capture has something to capture.
PhaseTyped ==
    /\ phase \in [pc : {"idle", "agent", "read", "compare", "save", "alias"},
                  text : Text \cup {NoText}, base : Nat]
    /\ phase.pc \in {"compare", "save", "alias"} => phase.text \in Text

DeskTyped ==
    /\ runner \in [active : Command \cup {NoCommand},
                   status : [Command -> Status \cup {"none"}]]
    /\ slot \in [holder : Command \cup {NoCommand}, answered : SUBSET Command,
                 status : [Command -> {"none", "running"} \cup Ended]]

ClientsTyped ==
    /\ issued \in [Command -> Request \cup {Unissued}]
    /\ answers \subseteq [cmd : Command, status : Status, rev : Nat, life : Nat]
    /\ restarts \in 0 .. MaxRestarts

ThreadsInv ==
    /\ thread \in [Thread -> Hand]
    /\ \A t \in Thread : Closed(thread[t].work) /\ Placed(thread[t])

WorkerInv ==
    /\ MapInv /\ DesignTyped /\ DocumentsTyped /\ PhaseTyped /\ DeskTyped
    /\ ClientsTyped /\ ThreadsInv

-----------------------------------------------------------------------------
(* Maps. *)

LEMMA EmptyMapIsClosed == EmptyMap \in Map /\ Closed(EmptyMap)
  BY DEF EmptyMap, Map, Closed

\* A closed map stays closed under whatever operation is let through.
LEMMA OperationKeepsMap ==
  ASSUME NEW m \in Map, Closed(m), NEW o \in Operation,
         NEW r \in ApplyOperation(m, o)
  PROVE  r \in Map /\ Closed(r)
<1>o. o.id \in Node /\ o.other \in Node \cup {NoNode}
  BY DEF Operation
<1>m. /\ m.nodes \subseteq Node /\ m.parent \in [Node -> Node \cup {NoNode}]
      /\ m.edges \subseteq Node \X Node
  BY DEF Map
<1>c. /\ \A e \in m.edges : e[1] \in m.nodes /\ e[2] \in m.nodes
      /\ \A n \in Node : m.parent[n] \in m.nodes \cup {NoNode}
  BY DEF Closed
<1>1. CASE r \in AddNode(m, o)
  <2>1. /\ o.other \in m.nodes \cup {NoNode}
        /\ r = [m EXCEPT !.nodes = @ \cup {o.id}, !.parent[o.id] = o.other]
    BY <1>1 DEF AddNode
  <2>2. /\ r \in Map /\ r.nodes = m.nodes \cup {o.id} /\ r.edges = m.edges
        /\ r.parent = [m.parent EXCEPT ![o.id] = o.other]
    BY <2>1, <1>o, <1>m DEF Map
  <2>3. \A n \in Node : r.parent[n] \in r.nodes \cup {NoNode}
    BY <2>1, <2>2, <1>o, <1>m, <1>c
  <2> QED
    BY <2>2, <2>3, <1>c DEF Closed
<1>2. CASE r \in UpdateNode(m, o)
  <2>1. /\ o.other \in m.nodes \cup {NoNode}
        /\ r = [m EXCEPT !.parent[o.id] = o.other]
    BY <1>2 DEF UpdateNode
  <2>2. /\ r \in Map /\ r.nodes = m.nodes /\ r.edges = m.edges
        /\ r.parent = [m.parent EXCEPT ![o.id] = o.other]
    BY <2>1, <1>o, <1>m DEF Map
  <2>3. \A n \in Node : r.parent[n] \in r.nodes \cup {NoNode}
    BY <2>1, <2>2, <1>o, <1>m, <1>c
  <2> QED
    BY <2>2, <2>3, <1>c DEF Closed
<1>3. CASE r \in RemoveNode(m, o)
  <2>1. r = [nodes |-> m.nodes \ {o.id}, parent |-> Orphaned(m, o.id),
             edges |-> {e \in m.edges : o.id \notin {e[1], e[2]}}]
    BY <1>3 DEF RemoveNode
  <2>2. \A n \in Node : Orphaned(m, o.id)[n] \in (m.nodes \ {o.id}) \cup {NoNode}
    BY <1>c DEF Orphaned
  <2>3. Orphaned(m, o.id) \in [Node -> Node \cup {NoNode}]
    BY <2>2, <1>m DEF Orphaned
  <2>4. r \in Map
    BY <2>1, <2>3, <1>m DEF Map
  <2>5. \A e \in r.edges : {e[1], e[2]} \subseteq r.nodes
    BY <2>1, <1>c
  <2> QED
    BY <2>1, <2>2, <2>4, <2>5 DEF Closed
<1>4. CASE r \in AddEdge(m, o)
  <2>1. /\ {o.id, o.other} \subseteq m.nodes
        /\ r = [m EXCEPT !.edges = @ \cup {<<o.id, o.other>>}]
    BY <1>4 DEF AddEdge
  <2>2. /\ r.nodes = m.nodes /\ r.parent = m.parent
        /\ r.edges = m.edges \cup {<<o.id, o.other>>}
    BY <2>1 DEF Map
  <2>3. r \in Map
    BY <2>1, <1>m DEF Map
  <2>4. \A e \in r.edges : e[1] \in r.nodes /\ e[2] \in r.nodes
    BY <2>1, <2>2, <1>c
  <2> QED
    BY <2>2, <2>3, <2>4, <1>c DEF Closed
<1>5. CASE r \in RemoveEdge(m, o)
  <2>1. r = [m EXCEPT !.edges = @ \ {<<o.id, o.other>>}]
    BY <1>5 DEF RemoveEdge
  <2>2. /\ r.nodes = m.nodes /\ r.parent = m.parent /\ r \in Map
        /\ r.edges \subseteq m.edges
    BY <2>1, <1>m DEF Map
  <2> QED
    BY <2>2, <1>c DEF Closed
<1> QED
  BY <1>1, <1>2, <1>3, <1>4, <1>5 DEF ApplyOperation

-----------------------------------------------------------------------------
(* Threads. *)

\* A thread in the middle of a request has one that was issued.
LEMMA RequestInHand ==
  ASSUME ClientsTyped, ThreadsInv, NEW t \in Thread, thread[t].pc # "idle"
  PROVE  /\ thread[t] \in Hand /\ thread[t].cmd \in Command
         /\ issued[thread[t].cmd] \in Request
         /\ Body(t).kind = KindAt[thread[t].pc]
<1>1. /\ thread[t] \in Hand /\ thread[t].cmd \in Command
      /\ issued[thread[t].cmd].kind = KindAt[thread[t].pc]
  BY DEF ThreadsInv, Placed
<1>2. thread[t].pc \in Pc \ {"idle"}
  BY <1>1 DEF Hand
<1>3. KindAt[thread[t].pc] # "none"
  BY <1>2 DEF KindAt
<1>4. issued[thread[t].cmd] # Unissued
  BY <1>1, <1>3 DEF Unissued
<1>5. issued[thread[t].cmd] \in Request
  BY <1>1, <1>4 DEF ClientsTyped
<1> QED
  BY <1>1, <1>5 DEF Body

\* A thread may change what it has in hand to anything its request allows.
LEMMA HandKept ==
  ASSUME ThreadsInv, NEW t \in Thread, NEW h \in Hand, Closed(h.work), Placed(h),
         thread' = [thread EXCEPT ![t] = h], UNCHANGED issued
  PROVE  ThreadsInv'
<1>1. thread' \in [Thread -> Hand]
  BY DEF ThreadsInv
<1>2. \A u \in Thread : thread'[u] = h \/ thread'[u] = thread[u]
  BY DEF ThreadsInv
<1>3. \A u \in Thread : Closed(thread'[u].work)
  BY <1>2 DEF ThreadsInv
<1>4. \A u \in Thread : Placed(thread'[u])
  BY <1>2 DEF ThreadsInv
<1> QED
  BY <1>1, <1>3, <1>4 DEF ThreadsInv, Closed, Placed

LEMMA IdleHand == Idle \in Hand /\ Closed(Idle.work) /\ Placed(Idle)
<1>1. <<>> \in Seq(Operation)
  OBVIOUS
<1>2. Idle \in Hand
  BY <1>1, EmptyMapIsClosed DEF Idle, Hand, Pc
<1> QED
  BY <1>2, EmptyMapIsClosed DEF Idle, Placed

LEMMA ThreadEnds ==
  ASSUME ThreadsInv, NEW t \in Thread, Drop(t), UNCHANGED issued
  PROVE  ThreadsInv'
  BY IdleHand, HandKept DEF Drop

\* The thread goes on to another place that serves the same kind of request.
LEMMA ThreadGoesOn ==
  ASSUME ThreadsInv, NEW t \in Thread, thread[t].pc # "idle",
         NEW pc \in Pc \ {"idle"}, KindAt[pc] = KindAt[thread[t].pc],
         Go(t, pc), UNCHANGED issued
  PROVE  ThreadsInv'
<1> DEFINE h == [thread[t] EXCEPT !.pc = pc]
<1>1. thread[t] \in Hand /\ Closed(thread[t].work) /\ Placed(thread[t])
  BY DEF ThreadsInv
<1>2. h \in Hand /\ h.work = thread[t].work /\ h.pc = pc /\ h.cmd = thread[t].cmd
  BY <1>1 DEF Hand
<1>3. thread' = [thread EXCEPT ![t] = h]
  BY DEF Go
<1>4. Closed(h.work) /\ Placed(h)
  BY <1>1, <1>2 DEF Placed
<1> HIDE DEF h
<1> QED
  BY <1>2, <1>3, <1>4, HandKept

LEMMA ThreadAnswers ==
  ASSUME ClientsTyped, ThreadsInv, NEW t \in Thread, thread[t].pc # "idle",
         NEW status \in Status, NEW rev \in Nat,
         Answer(t, status, rev), UNCHANGED <<issued, restarts>>
  PROVE  ClientsTyped' /\ ThreadsInv'
<1>1. ThreadsInv'
  BY ThreadEnds DEF Answer
<1>2. thread[t].cmd \in Command
  BY RequestInHand
<1>3. restarts \in Nat
  BY WorkerAssumption DEF ClientsTyped
<1>4. ClientsTyped'
  BY <1>2, <1>3 DEF ClientsTyped, Answer
<1> QED
  BY <1>1, <1>4

LEMMA ThreadRaises ==
  ASSUME ClientsTyped, ThreadsInv, NEW t \in Thread, Raise(t),
         UNCHANGED <<issued, restarts>>
  PROVE  ClientsTyped' /\ ThreadsInv'
  BY ThreadEnds DEF Raise, ClientsTyped

-----------------------------------------------------------------------------
(* The design store. *)

LEMMA LookUpKeepsInv ==
  ASSUME WorkerInv, NEW t \in Thread, LookUp(t)
  PROVE  WorkerInv'
<1>1. /\ thread[t].pc = "apply" /\ ClientsTyped /\ ThreadsInv
      /\ UNCHANGED <<designDb, otherFiles>>
  BY DEF LookUp, Serves, WorkerInv
<1>2. ClientsTyped' /\ ThreadsInv'
  <2>1. CASE Logged(thread[t].cmd)
    <3>1. log[thread[t].cmd].rev \in Nat
      BY <1>1, RequestInHand DEF WorkerInv, DesignTyped
    <3> QED
      BY <1>1, <2>1, <3>1, ThreadAnswers
         DEF LookUp, Status, otherFiles, clients
  <2>2. CASE ~Logged(thread[t].cmd)
    <3>1. KindAt["compare"] = KindAt[thread[t].pc] /\ "compare" \in Pc \ {"idle"}
      BY <1>1 DEF KindAt, Pc
    <3>2. Go(t, "compare") /\ UNCHANGED <<answers, issued, restarts>>
      BY <2>2 DEF LookUp, otherFiles, clients
    <3> QED
      BY <1>1, <3>1, <3>2, ThreadGoesOn DEF ClientsTyped
  <2> QED
    BY <2>1, <2>2
<1> QED
  BY <1>1, <1>2
     DEF WorkerInv, MapInv, Closed, DesignTyped, DocumentsTyped, PhaseTyped,
         DeskTyped, designDb, otherFiles, documentsDb, clients

LEMMA CompareRevisionKeepsInv ==
  ASSUME WorkerInv, NEW t \in Thread, CompareRevision(t)
  PROVE  WorkerInv'
<1> DEFINE pc == IF revision = Body(t).base THEN "savepoint" ELSE "conflict"
           h == [thread[t] EXCEPT !.pc = pc, !.rev = revision]
<1>1. /\ thread[t].pc = "compare" /\ ThreadsInv
      /\ thread' = [thread EXCEPT ![t] = h]
      /\ UNCHANGED <<designDb, answers, otherFiles>>
  BY DEF CompareRevision, Serves, WorkerInv
<1>2. thread[t] \in Hand /\ Closed(thread[t].work) /\ Placed(thread[t])
  BY <1>1 DEF ThreadsInv
<1>3. /\ h \in Hand /\ h.work = thread[t].work /\ h.pc = pc
      /\ h.cmd = thread[t].cmd
  BY <1>2 DEF Hand, Pc, WorkerInv, DesignTyped
<1>4. KindAt[pc] = KindAt["compare"]
  BY DEF KindAt, Pc
<1>5. Closed(h.work) /\ Placed(h)
  BY <1>1, <1>2, <1>3, <1>4 DEF Placed
<1> HIDE DEF h
<1>6. ThreadsInv'
  BY <1>1, <1>3, <1>5, HandKept DEF otherFiles, clients
<1> QED
  BY <1>1, <1>6
     DEF WorkerInv, MapInv, Closed, DesignTyped, DocumentsTyped, PhaseTyped,
         DeskTyped, ClientsTyped, designDb, otherFiles, documentsDb, clients

LEMMA OpenSavepointKeepsInv ==
  ASSUME WorkerInv, NEW t \in Thread, OpenSavepoint(t)
  PROVE  WorkerInv'
<1> DEFINE h == [thread[t] EXCEPT !.pc = "batch", !.work = map,
                                  !.left = Body(t).batch]
<1>1. /\ thread[t].pc = "savepoint" /\ ClientsTyped /\ ThreadsInv
      /\ UNCHANGED <<designDb, otherFiles>>
  BY DEF OpenSavepoint, Serves, WorkerInv
<1>2. ClientsTyped' /\ ThreadsInv'
  <2>1. CASE Raise(t)
    BY <1>1, <2>1, ThreadRaises DEF otherFiles, clients
  <2>2. CASE thread' = [thread EXCEPT ![t] = h] /\ UNCHANGED answers
    <3>1. thread[t] \in Hand /\ thread[t].cmd \in Command
      BY <1>1, RequestInHand
    <3>2. Body(t) \in Request /\ Body(t).kind = "apply"
      BY <1>1, RequestInHand DEF KindAt, Pc, Body
    <3>3. Body(t).batch \in Seq(Operation)
      BY <3>2, WorkerAssumption
         DEF Request, Apply, Approve, SaveDocument, Action, Question
    <3>4. h \in Hand /\ h.work = map /\ h.pc = "batch" /\ h.cmd = thread[t].cmd
      BY <3>1, <3>3 DEF Hand, Pc, WorkerInv, MapInv
    <3>5. Closed(h.work) /\ Placed(h)
      BY <3>1, <3>2, <3>4 DEF WorkerInv, MapInv, Placed, KindAt, Pc, Body
    <3> HIDE DEF h
    <3> QED
      BY <1>1, <2>2, <3>4, <3>5, HandKept DEF ClientsTyped, otherFiles, clients
  <2> QED
    BY <2>1, <2>2 DEF OpenSavepoint
<1> QED
  BY <1>1, <1>2
     DEF WorkerInv, MapInv, Closed, DesignTyped, DocumentsTyped, PhaseTyped,
         DeskTyped, designDb, otherFiles, documentsDb, clients

LEMMA ApplyNextKeepsInv ==
  ASSUME WorkerInv, NEW t \in Thread, ApplyNext(t)
  PROVE  WorkerInv'
<1> DEFINE refused == [thread[t] EXCEPT !.pc = "rejected", !.work = EmptyMap,
                                        !.left = <<>>]
           went(m) == [thread[t] EXCEPT !.work = m, !.left = Tail(@)]
<1>1. /\ thread[t].pc = "batch" /\ thread[t].left # <<>> /\ ThreadsInv
      /\ UNCHANGED <<designDb, answers, otherFiles>>
  BY DEF ApplyNext, InSavepoint, Serves, WorkerInv
<1>2. thread[t] \in Hand /\ Closed(thread[t].work) /\ Placed(thread[t])
  BY <1>1 DEF ThreadsInv
<1>3. ThreadsInv'
  <2>1. CASE thread' = [thread EXCEPT ![t] = refused]
    <3>1. /\ refused \in Hand /\ refused.work = EmptyMap
          /\ refused.pc = "rejected" /\ refused.cmd = thread[t].cmd
      <4>1. <<>> \in Seq(Operation)
        OBVIOUS
      <4> QED
        BY <1>2, <4>1, EmptyMapIsClosed DEF Hand, Pc
    <3>2. Closed(refused.work) /\ Placed(refused)
      BY <1>1, <1>2, <3>1, EmptyMapIsClosed DEF Placed, KindAt, Pc
    <3> HIDE DEF refused
    <3> QED
      BY <1>1, <2>1, <3>1, <3>2, HandKept DEF otherFiles, clients
  <2>2. ASSUME NEW m \in ApplyOperation(thread[t].work, Head(thread[t].left)),
               thread' = [thread EXCEPT ![t] = went(m)]
        PROVE  ThreadsInv'
    <3>1. /\ thread[t].work \in Map /\ thread[t].left \in Seq(Operation)
          /\ Head(thread[t].left) \in Operation
          /\ Tail(thread[t].left) \in Seq(Operation)
      BY <1>1, <1>2 DEF Hand
    <3>2. m \in Map /\ Closed(m)
      BY <1>2, <3>1, OperationKeepsMap
    <3>3. /\ went(m) \in Hand /\ went(m).work = m
          /\ went(m).pc = thread[t].pc /\ went(m).cmd = thread[t].cmd
      BY <1>2, <3>1, <3>2 DEF Hand
    <3>4. Closed(went(m).work) /\ Placed(went(m))
      BY <1>2, <3>2, <3>3 DEF Placed
    <3> HIDE DEF went
    <3> QED
      BY <1>1, <2>2, <3>3, <3>4, HandKept DEF otherFiles, clients
  <2> QED
    BY <2>1, <2>2 DEF ApplyNext
<1> QED
  BY <1>1, <1>3
     DEF WorkerInv, MapInv, Closed, DesignTyped, DocumentsTyped, PhaseTyped,
         DeskTyped, ClientsTyped, designDb, otherFiles, documentsDb, clients

\* The commit: what was closed in the thread's hands is closed in the file.
LEMMA ReleaseKeepsInv ==
  ASSUME WorkerInv, NEW t \in Thread, Release(t)
  PROVE  WorkerInv'
<1> DEFINE h == [thread[t] EXCEPT !.pc = "applied", !.work = EmptyMap]
<1>1. /\ thread[t].pc = "batch" /\ ThreadsInv /\ map' = thread[t].work
      /\ thread' = [thread EXCEPT ![t] = h]
      /\ UNCHANGED <<revision, log, snapshots, answers, otherFiles>>
  BY DEF Release, InSavepoint, Serves, WorkerInv
<1>2. thread[t] \in Hand /\ Closed(thread[t].work) /\ Placed(thread[t])
  BY <1>1 DEF ThreadsInv
<1>3. MapInv'
  BY <1>1, <1>2 DEF MapInv, Closed, Hand
<1>4. /\ h \in Hand /\ h.work = EmptyMap /\ h.pc = "applied"
      /\ h.cmd = thread[t].cmd
  BY <1>2, EmptyMapIsClosed DEF Hand, Pc
<1>5. Closed(h.work) /\ Placed(h)
  BY <1>1, <1>2, <1>4, EmptyMapIsClosed DEF Placed, KindAt, Pc
<1> HIDE DEF h
<1>6. ThreadsInv'
  BY <1>1, <1>4, <1>5, HandKept DEF otherFiles, clients
<1> QED
  BY <1>1, <1>3, <1>6
     DEF WorkerInv, DesignTyped, DocumentsTyped, PhaseTyped, DeskTyped,
         ClientsTyped, otherFiles, documentsDb, clients

LEMMA RecordKeepsInv ==
  ASSUME WorkerInv, NEW t \in Thread, Record(t)
  PROVE  WorkerInv'
<1> DEFINE cmd == thread[t].cmd
           applied == Serves(t, "applied")
           rev == IF applied THEN thread[t].rev + 1 ELSE thread[t].rev
           status == Outcome[thread[t].pc]
<1>1. /\ thread[t].pc \in {"conflict", "rejected", "applied"}
      /\ thread[t].pc # "idle" /\ ClientsTyped /\ ThreadsInv
      /\ UNCHANGED <<map, snapshots, otherFiles>>
  BY DEF Record, Outcome, WorkerInv
<1>2. thread[t] \in Hand /\ cmd \in Command
  BY <1>1, RequestInHand
<1>3. rev \in Nat /\ status \in Status
  BY <1>1, <1>2 DEF Hand, Outcome, Status
<1>4. ClientsTyped' /\ ThreadsInv' /\ DesignTyped'
  <2>1. CASE Logged(cmd)
    <3>1. Raise(t) /\ UNCHANGED <<revision, log>>
      BY <2>1 DEF Record
    <3> QED
      BY <1>1, <3>1, ThreadRaises
         DEF WorkerInv, DesignTyped, otherFiles, clients
  <2>2. CASE ~Logged(cmd)
    <3>1. /\ revision' = IF applied THEN rev ELSE revision
          /\ log' = [log EXCEPT ![cmd] = [status |-> status, rev |-> rev]]
          /\ Answer(t, status, rev)
      BY <2>2 DEF Record
    <3>2. DesignTyped'
      BY <1>1, <1>2, <1>3, <3>1 DEF WorkerInv, DesignTyped
    <3> HIDE DEF rev, status
    <3> QED
      BY <1>1, <1>3, <3>1, <3>2, ThreadAnswers DEF otherFiles, clients
  <2> QED
    BY <2>1, <2>2
<1> QED
  BY <1>1, <1>4
     DEF WorkerInv, MapInv, Closed, DocumentsTyped, PhaseTyped, DeskTyped,
         otherFiles, documentsDb, clients

LEMMA CompareApprovedKeepsInv ==
  ASSUME WorkerInv, NEW t \in Thread, CompareApproved(t)
  PROVE  WorkerInv'
<1> DEFINE h == [thread[t] EXCEPT !.pc = "nodes", !.rev = revision]
<1>1. /\ thread[t].pc = "approve" /\ ClientsTyped /\ ThreadsInv
      /\ UNCHANGED <<designDb, otherFiles>>
  BY DEF CompareApproved, Serves, WorkerInv
<1>2. ClientsTyped' /\ ThreadsInv'
  <2>1. CASE Answer(t, "CONFLICT", 0)
    <3>1. "CONFLICT" \in Status
      BY DEF Status
    <3> QED
      BY <1>1, <2>1, <3>1, ThreadAnswers DEF otherFiles, clients
  <2>2. CASE thread' = [thread EXCEPT ![t] = h] /\ UNCHANGED answers
    <3>1. thread[t] \in Hand /\ Closed(thread[t].work) /\ Placed(thread[t])
      BY <1>1 DEF ThreadsInv
    <3>2. /\ h \in Hand /\ h.work = thread[t].work /\ h.pc = "nodes"
          /\ h.cmd = thread[t].cmd
      BY <3>1 DEF Hand, Pc, WorkerInv, DesignTyped
    <3>3. Closed(h.work) /\ Placed(h)
      BY <1>1, <3>1, <3>2 DEF Placed, KindAt, Pc
    <3> HIDE DEF h
    <3> QED
      BY <1>1, <2>2, <3>2, <3>3, HandKept DEF ClientsTyped, otherFiles, clients
  <2> QED
    BY <2>1, <2>2 DEF CompareApproved
<1> QED
  BY <1>1, <1>2
     DEF WorkerInv, MapInv, Closed, DesignTyped, DocumentsTyped, PhaseTyped,
         DeskTyped, designDb, otherFiles, documentsDb, clients

LEMMA ReadNodesKeepsInv ==
  ASSUME WorkerInv, NEW t \in Thread, ReadNodes(t)
  PROVE  WorkerInv'
<1> DEFINE nodes == [map EXCEPT !.edges = {}]
           h == [thread[t] EXCEPT !.pc = "edges", !.work = nodes]
<1>1. /\ thread[t].pc = "nodes" /\ ThreadsInv
      /\ thread' = [thread EXCEPT ![t] = h]
      /\ UNCHANGED <<designDb, answers, otherFiles>>
  BY DEF ReadNodes, Serves, WorkerInv
<1>2. nodes \in Map /\ Closed(nodes)
  BY DEF WorkerInv, MapInv, Map, Closed
<1>3. thread[t] \in Hand /\ Placed(thread[t])
  BY <1>1 DEF ThreadsInv
<1>4. h \in Hand /\ h.work = nodes /\ h.pc = "edges" /\ h.cmd = thread[t].cmd
  <2> HIDE DEF nodes
  <2> QED
    BY <1>2, <1>3 DEF Hand, Pc
<1>5. Closed(h.work) /\ Placed(h)
  BY <1>1, <1>2, <1>3, <1>4 DEF Placed, KindAt, Pc
<1> HIDE DEF h
<1>6. ThreadsInv'
  BY <1>1, <1>4, <1>5, HandKept DEF otherFiles, clients
<1> QED
  BY <1>1, <1>6
     DEF WorkerInv, MapInv, Closed, DesignTyped, DocumentsTyped, PhaseTyped,
         DeskTyped, ClientsTyped, designDb, otherFiles, documentsDb, clients

LEMMA ReadEdgesAndApproveKeepsInv ==
  ASSUME WorkerInv, NEW t \in Thread, ReadEdgesAndApprove(t)
  PROVE  WorkerInv'
<1> DEFINE seen == [thread[t].work EXCEPT !.edges = map.edges]
<1>1. /\ thread[t].pc = "edges" /\ thread[t].pc # "idle"
      /\ ClientsTyped /\ ThreadsInv
      /\ snapshots' = snapshots \cup {[rev |-> thread[t].rev, map |-> seen]}
      /\ Answer(t, "APPLIED", thread[t].rev)
      /\ UNCHANGED <<map, revision, log, otherFiles>>
  BY DEF ReadEdgesAndApprove, Serves, WorkerInv
<1>2. thread[t] \in Hand
  BY <1>1 DEF ThreadsInv
<1>3. thread[t].rev \in Nat /\ seen \in Map /\ "APPLIED" \in Status
  BY <1>2 DEF Hand, Map, WorkerInv, MapInv, Status
<1>4. DesignTyped'
  <2> HIDE DEF seen
  <2> QED
    BY <1>1, <1>3 DEF WorkerInv, DesignTyped
<1>5. ClientsTyped' /\ ThreadsInv'
  BY <1>1, <1>3, ThreadAnswers DEF otherFiles, clients
<1> QED
  BY <1>1, <1>4, <1>5
     DEF WorkerInv, MapInv, Closed, DocumentsTyped, PhaseTyped, DeskTyped,
         otherFiles, documentsDb, clients

-----------------------------------------------------------------------------
(* The document. *)

\* One transaction of the catalogue keeps its types.
LEMMA CatalogSaveKeepsTypes ==
  ASSUME DocumentsTyped, NEW id \in CatalogCommand, NEW base \in Nat,
         NEW text \in Text, CatalogSave(id, base, text), alias' \in Text \cup {NoText}
  PROVE  /\ DocumentsTyped'
         /\ SaveStatus(id, base) \in Status /\ SaveRevision(id, base) \in Nat
<1>1. HeadRevision \in Nat
  BY DEF HeadRevision, DocumentsTyped
<1>2. SaveStatus(id, base) \in Status
  BY DEF SaveStatus, Status
<1>3. SaveRevision(id, base) \in Nat
  BY <1>1 DEF SaveRevision, DocumentsTyped
<1>4. versions' \in Seq(Text)
  BY AppendProperties DEF CatalogSave, WithVersion, DocumentsTyped
<1>5. writes' \in [CatalogCommand -> [status : Status \cup {"none"}, rev : Nat]]
  <2> DEFINE status == SaveStatus(id, base)
             rev == SaveRevision(id, base)
  <2>1. \/ writes' = writes
        \/ writes' = [writes EXCEPT ![id] = [status |-> status, rev |-> rev]]
    BY DEF CatalogSave
  <2>2. status \in Status /\ rev \in Nat
    BY <1>2, <1>3
  <2> HIDE DEF status, rev
  <2> QED
    BY <2>1, <2>2 DEF DocumentsTyped
<1> QED
  BY <1>2, <1>3, <1>4, <1>5 DEF DocumentsTyped

LEMMA SaveRequest ==
  ASSUME ClientsTyped, ThreadsInv, NEW t \in Thread,
         thread[t].pc \in {"save", "alias"}
  PROVE  /\ thread[t] \in Hand /\ thread[t].cmd \in Command
         /\ Body(t).base \in Nat /\ Body(t).text \in Text
<1>1. thread[t].pc # "idle"
  OBVIOUS
<1>2. /\ thread[t] \in Hand /\ thread[t].cmd \in Command
      /\ Body(t) \in Request /\ Body(t).kind = "save"
  BY <1>1, RequestInHand DEF KindAt, Pc, Body
<1> QED
  BY <1>2 DEF Request, Apply, Approve, SaveDocument, Action, Question

LEMMA SaveKeepsInv ==
  ASSUME WorkerInv, NEW t \in Thread, Save(t)
  PROVE  WorkerInv'
<1> DEFINE cmd == thread[t].cmd
           status == SaveStatus(cmd, Body(t).base)
           rev == SaveRevision(cmd, Body(t).base)
           h == [thread[t] EXCEPT !.pc = "alias", !.rev = rev]
<1>1. /\ thread[t].pc = "save" /\ thread[t].pc # "idle"
      /\ ClientsTyped /\ ThreadsInv /\ DocumentsTyped
      /\ CatalogSave(cmd, Body(t).base, Body(t).text)
      /\ UNCHANGED <<alias, phase, otherState>>
      /\ \/ thread' = [thread EXCEPT ![t] = h] /\ UNCHANGED answers
         \/ Answer(t, status, rev)
  BY DEF Save, Serves, WorkerInv
<1>2. /\ thread[t] \in Hand /\ cmd \in CatalogCommand
      /\ Body(t).base \in Nat /\ Body(t).text \in Text
  BY <1>1, SaveRequest DEF CatalogCommand
<1>3. DocumentsTyped' /\ status \in Status /\ rev \in Nat
  <2>1. alias' \in Text \cup {NoText}
    BY <1>1 DEF DocumentsTyped
  <2> QED
    BY <1>1, <1>2, <2>1, CatalogSaveKeepsTypes
<1>4. ClientsTyped' /\ ThreadsInv'
  <2> HIDE DEF rev, status
  <2>1. CASE thread' = [thread EXCEPT ![t] = h] /\ UNCHANGED answers
    <3>1. Closed(thread[t].work) /\ Placed(thread[t])
      BY <1>1 DEF ThreadsInv
    <3>2. /\ h \in Hand /\ h.work = thread[t].work /\ h.pc = "alias"
          /\ h.cmd = cmd
      BY <1>2, <1>3 DEF Hand, Pc
    <3>3. Closed(h.work) /\ Placed(h)
      BY <1>1, <3>1, <3>2 DEF Placed, KindAt, Pc
    <3> HIDE DEF h
    <3> QED
      BY <1>1, <2>1, <3>2, <3>3, HandKept DEF ClientsTyped, otherState, clients
  <2>2. CASE Answer(t, status, rev)
    BY <1>1, <1>3, <2>2, ThreadAnswers DEF otherState, clients
  <2> QED
    BY <1>1, <2>1, <2>2
<1> QED
  BY <1>1, <1>3, <1>4
     DEF WorkerInv, MapInv, Closed, DesignTyped, PhaseTyped, DeskTyped,
         otherState, designDb, clients

LEMMA WriteAliasKeepsInv ==
  ASSUME WorkerInv, NEW t \in Thread, WriteAlias(t)
  PROVE  WorkerInv'
<1>1. /\ thread[t].pc = "alias" /\ thread[t].pc # "idle"
      /\ ClientsTyped /\ ThreadsInv
      /\ alias' = Body(t).text
      /\ Answer(t, "APPLIED", thread[t].rev)
      /\ UNCHANGED <<documentsDb, phase, otherState>>
  BY DEF WriteAlias, Serves, WorkerInv
<1>2. thread[t] \in Hand /\ Body(t).text \in Text
  BY <1>1, SaveRequest
<1>3. ClientsTyped' /\ ThreadsInv'
  <2>1. "APPLIED" \in Status /\ thread[t].rev \in Nat
    BY <1>2 DEF Status, Hand
  <2> QED
    BY <1>1, <2>1, ThreadAnswers DEF otherState, clients
<1> QED
  BY <1>1, <1>2, <1>3
     DEF WorkerInv, MapInv, Closed, DesignTyped, DocumentsTyped, PhaseTyped,
         DeskTyped, otherState, documentsDb, designDb, clients

LEMMA PhaseStepKeepsInv == WorkerInv /\ PhaseStep => WorkerInv'
<1> SUFFICES ASSUME WorkerInv, PhaseStep PROVE WorkerInv'
  OBVIOUS
<1>1. DocumentsTyped /\ PhaseTyped
  BY DEF WorkerInv
<1>2. UNCHANGED <<thread, answers, otherState>>
  BY DEF PhaseStep, AgentWrites, ReadAlias, CompareHead, CaptureSave, CaptureAlias
<1>3. DocumentsTyped' /\ PhaseTyped'
  <2>1. ASSUME NEW text \in Text \cup {alias}, AgentWrites(text)
        PROVE  DocumentsTyped' /\ PhaseTyped'
    BY <1>1, <2>1 DEF AgentWrites, DocumentsTyped, PhaseTyped, documentsDb
  <2>2. CASE ReadAlias
    BY <1>1, <2>2 DEF ReadAlias, NoPhase, DocumentsTyped, PhaseTyped, documentsDb
  <2>3. CASE CompareHead
    <3>1. HeadRevision \in Nat
      BY <1>1 DEF HeadRevision, DocumentsTyped
    <3> QED
      BY <1>1, <2>3, <3>1
         DEF CompareHead, NoPhase, DocumentsTyped, PhaseTyped, documentsDb
  <2>4. CASE CaptureSave
    <3>1. PhaseTyped'
      BY <1>1, <2>4 DEF CaptureSave, NoPhase, PhaseTyped
    <3>2. DocumentsTyped'
      <4>1. /\ phase.text \in Text /\ phase.base \in Nat
            /\ CatalogSave(CaptureId(phase.text), phase.base, phase.text)
            /\ alias' \in Text \cup {NoText}
        BY <1>1, <2>4 DEF PhaseTyped, CaptureSave, DocumentsTyped
      <4>2. CaptureId(phase.text) \in CatalogCommand
        BY <4>1 DEF CaptureId, CatalogCommand
      <4> QED
        BY <1>1, <4>1, <4>2, CatalogSaveKeepsTypes
    <3> QED
      BY <3>1, <3>2
  <2>5. CASE CaptureAlias
    BY <1>1, <2>5 DEF CaptureAlias, NoPhase, DocumentsTyped, PhaseTyped, documentsDb
  <2> QED
    BY <2>1, <2>2, <2>3, <2>4, <2>5 DEF PhaseStep
<1> QED
  BY <1>2, <1>3
     DEF WorkerInv, MapInv, Closed, DesignTyped, DeskTyped, ClientsTyped,
         ThreadsInv, Placed, otherState, designDb, clients

-----------------------------------------------------------------------------
(* The action runner and the code questions. *)

LEMMA SubmitKeepsInv ==
  ASSUME WorkerInv, NEW t \in Thread, Submit(t)
  PROVE  WorkerInv'
<1> DEFINE cmd == thread[t].cmd
<1>1. /\ thread[t].pc = "action" /\ thread[t].pc # "idle"
      /\ ClientsTyped /\ ThreadsInv /\ DeskTyped
      /\ UNCHANGED <<stores, slot>>
  BY DEF Submit, Serves, WorkerInv
<1>2. cmd \in Command
  BY <1>1, RequestInHand
<1>3. {"running", "in_progress"} \subseteq Status
  BY DEF Status
<1>4. \/ Known(cmd) /\ Answer(t, runner.status[cmd], 0) /\ UNCHANGED runner
      \/ Answer(t, "in_progress", 0) /\ UNCHANGED runner
      \/ StartAction(cmd) /\ Answer(t, "running", 0)
  BY DEF Submit
<1>5. DeskTyped'
  BY <1>1, <1>2, <1>3, <1>4 DEF DeskTyped, StartAction
<1>6. ClientsTyped' /\ ThreadsInv'
  <2>1. Known(cmd) => runner.status[cmd] \in Status
    BY <1>1, <1>2 DEF Known, DeskTyped
  <2> QED
    BY <1>1, <1>3, <1>4, <2>1, ThreadAnswers DEF stores, clients
<1> QED
  BY <1>1, <1>5, <1>6
     DEF WorkerInv, MapInv, Closed, DesignTyped, DocumentsTyped, PhaseTyped,
         stores, designDb, documentsDb, clients

LEMMA AskKeepsInv ==
  ASSUME WorkerInv, NEW t \in Thread, Ask(t)
  PROVE  WorkerInv'
<1> DEFINE cmd == thread[t].cmd
           status == IF slot.holder = NoCommand THEN "running" ELSE "busy"
<1>1. /\ thread[t].pc = "question" /\ thread[t].pc # "idle"
      /\ ClientsTyped /\ ThreadsInv /\ DeskTyped
      /\ slot' = IF status = "busy" THEN slot
                 ELSE [slot EXCEPT !.holder = cmd, !.status[cmd] = status,
                                   !.answered = @ \ {cmd}]
      /\ Answer(t, status, 0)
      /\ UNCHANGED <<stores, runner>>
  BY DEF Ask, Serves, WorkerInv
<1>2. cmd \in Command
  BY <1>1, RequestInHand
<1>3. status \in Status
  BY DEF Status
<1>4. ClientsTyped' /\ ThreadsInv'
  <2> HIDE DEF status
  <2> QED
    BY <1>1, <1>3, ThreadAnswers DEF stores, clients
<1>5. DeskTyped'
  BY <1>1, <1>2 DEF DeskTyped
<1> QED
  BY <1>1, <1>4, <1>5
     DEF WorkerInv, MapInv, Closed, DesignTyped, DocumentsTyped, PhaseTyped,
         stores, designDb, documentsDb, clients

LEMMA BackgroundStepKeepsInv ==
  ASSUME WorkerInv, NEW c \in Command, BackgroundStep(c)
  PROVE  WorkerInv'
<1>1. UNCHANGED <<stores, thread, answers>>
  BY DEF BackgroundStep, FinishAction, EndQuestion, StoreAnswer, FreeSlot
<1>2. DeskTyped'
  <2>1. CASE FinishAction(c)
    BY <2>1 DEF FinishAction, Finished, Status, WorkerInv, DeskTyped
  <2>2. CASE EndQuestion(c)
    BY <2>2 DEF EndQuestion, WorkerInv, DeskTyped
  <2>3. CASE StoreAnswer(c)
    BY <2>3 DEF StoreAnswer, WorkerInv, DeskTyped
  <2>4. CASE FreeSlot(c)
    BY <2>4 DEF FreeSlot, WorkerInv, DeskTyped
  <2> QED
    BY <2>1, <2>2, <2>3, <2>4 DEF BackgroundStep
<1> QED
  BY <1>1, <1>2
     DEF WorkerInv, MapInv, Closed, DesignTyped, DocumentsTyped, PhaseTyped,
         ClientsTyped, ThreadsInv, Placed, stores, designDb, documentsDb, clients

-----------------------------------------------------------------------------
(* Clients, phases and restarts. *)

\* A command that is sent again has the body it had, so what other threads do
\* with it is still what it asks for.
LEMMA SendKeepsInv ==
  ASSUME WorkerInv, NEW t \in Thread, NEW c \in Command, Send(t, c)
  PROVE  WorkerInv'
<1>1. PICK request \in (IF issued[c] = Unissued THEN NewRequest ELSE {issued[c]}) :
        /\ issued' = [issued EXCEPT ![c] = request]
        /\ thread' = [thread EXCEPT ![t] = [Idle EXCEPT !.pc = request.kind,
                                                        !.cmd = c]]
  BY DEF Send
<1> DEFINE h == [Idle EXCEPT !.pc = request.kind, !.cmd = c]
<1>2. /\ ClientsTyped /\ ThreadsInv /\ DesignTyped /\ DocumentsTyped
      /\ UNCHANGED <<designDb, documentsDb, alias, phase, runner, slot, answers,
                     restarts>>
  BY DEF Send, WorkerInv
<1>3. request \in Request
  <2>1. CASE issued[c] = Unissued
    <3>1. revision \in Nat /\ HeadRevision \in Nat
      BY <1>2 DEF DesignTyped, DocumentsTyped, HeadRevision
    <3>2. NewRequest \subseteq Request
      <4>1. 0 .. revision \subseteq Nat /\ 0 .. HeadRevision \subseteq Nat
        BY <3>1
      <4> QED
        BY <4>1 DEF NewRequest, Request, Apply, Approve, SaveDocument
    <3> QED
      BY <2>1, <3>2
  <2>2. CASE issued[c] # Unissued
    BY <1>2, <2>2 DEF ClientsTyped
  <2> QED
    BY <2>1, <2>2
<1>4. request.kind \in {"apply", "approve", "save", "action", "question"}
  BY <1>3 DEF Request, Apply, Approve, SaveDocument, Action, Question
<1>5. request.kind \in Pc \ {"idle"} /\ KindAt[request.kind] = request.kind
  BY <1>4 DEF Pc, KindAt
<1>6. ClientsTyped'
  BY <1>1, <1>2, <1>3 DEF ClientsTyped
<1>7. issued'[c] = request /\ \A d \in Command : d # c => issued'[d] = issued[d]
  BY <1>1, <1>2 DEF ClientsTyped
<1>8. /\ h \in Hand /\ h.work = EmptyMap /\ h.pc = request.kind /\ h.cmd = c
  <2>1. Idle \in Hand /\ Idle.work = EmptyMap
    BY IdleHand DEF Idle
  <2> QED
    BY <1>5, <2>1 DEF Hand
<1>9. thread' \in [Thread -> Hand]
  <2> HIDE DEF h
  <2> QED
    BY <1>1, <1>2, <1>8 DEF ThreadsInv, h
<1>10. \A u \in Thread : Closed(thread'[u].work) /\ Placed(thread[u])'
  <2> SUFFICES ASSUME NEW u \in Thread
               PROVE  Closed(thread'[u].work) /\ Placed(thread[u])'
    OBVIOUS
  <2>1. CASE u = t
    <3>1. thread'[u] = h
      BY <1>1, <1>2, <2>1 DEF ThreadsInv
    <3> HIDE DEF h
    <3> QED
      BY <1>5, <1>7, <1>8, <3>1, EmptyMapIsClosed DEF Placed
  <2>2. CASE u # t
    <3>1. thread'[u] = thread[u] /\ Closed(thread[u].work) /\ Placed(thread[u])
      BY <1>1, <1>2, <2>2 DEF ThreadsInv
    <3>2. ASSUME thread[u].pc # "idle"
          PROVE  issued'[thread[u].cmd] = issued[thread[u].cmd]
      <4>1. thread[u].cmd \in Command /\ issued[thread[u].cmd] \in Request
        BY <1>2, <3>2, RequestInHand
      <4>2. issued[thread[u].cmd] # Unissued
        BY <4>1 DEF Unissued, Request, Apply, Approve, SaveDocument, Action,
                    Question
      <4> QED
        BY <1>7, <4>1, <4>2
    <3> QED
      BY <3>1, <3>2 DEF Placed
  <2> QED
    BY <2>1, <2>2
<1>11. ThreadsInv'
  BY <1>9, <1>10 DEF ThreadsInv, Closed
<1> QED
  BY <1>2, <1>6, <1>11
     DEF WorkerInv, MapInv, Closed, DesignTyped, DocumentsTyped, PhaseTyped,
         DeskTyped, designDb, documentsDb

LEMMA StartPhaseKeepsInv == WorkerInv /\ StartPhase => WorkerInv'
<1> SUFFICES ASSUME WorkerInv, StartPhase PROVE WorkerInv'
  OBVIOUS
<1>1. UNCHANGED <<designDb, documentsDb, alias, thread, runner, slot, clients,
                  answers, restarts>>
  BY DEF StartPhase
<1>2. MapInv' /\ DesignTyped' /\ DocumentsTyped' /\ DeskTyped'
  BY <1>1 DEF WorkerInv, MapInv, Closed, DesignTyped, DocumentsTyped, DeskTyped,
              designDb, documentsDb
<1>3. ClientsTyped' /\ ThreadsInv'
  BY <1>1 DEF WorkerInv, ClientsTyped, ThreadsInv, Placed, Closed, clients
<1>4. PhaseTyped'
  BY DEF StartPhase, NoPhase, PhaseTyped
<1> QED
  BY <1>2, <1>3, <1>4 DEF WorkerInv

LEMMA IdleServices == IdleRunner \in [active : Command \cup {NoCommand},
                                      status : [Command -> Status \cup {"none"}]]
                      /\ NoQuestion \in [holder : Command \cup {NoCommand},
                            answered : SUBSET Command,
                            status : [Command -> {"none", "running"} \cup Ended]]
  BY DEF IdleRunner, NoQuestion

LEMMA RestartKeepsInv == WorkerInv /\ Restart => WorkerInv'
<1> SUFFICES ASSUME WorkerInv, Restart PROVE WorkerInv'
  OBVIOUS
<1>1. ThreadsInv'
  BY IdleHand DEF Restart, ThreadsInv, Placed, Closed, Idle
<1>2. ClientsTyped'
  BY WorkerAssumption DEF Restart, WorkerInv, ClientsTyped, clients
<1>3. DeskTyped' /\ PhaseTyped'
  BY IdleServices DEF Restart, DeskTyped, PhaseTyped, NoPhase
<1> QED
  BY <1>1, <1>2, <1>3
     DEF Restart, WorkerInv, MapInv, Closed, DesignTyped, DocumentsTyped,
         designDb, documentsDb

-----------------------------------------------------------------------------
(* The theorems. *)

LEMMA InitWorker == Init => WorkerInv
<1> SUFFICES ASSUME Init PROVE WorkerInv
  OBVIOUS
<1>1. MapInv
  BY EmptyMapIsClosed DEF Init, MapInv
<1>2. DesignTyped
  BY DEF Init, DesignTyped, Unlogged
<1>3. DocumentsTyped
  <2>1. <<>> \in Seq(Text)
    OBVIOUS
  <2> QED
    BY <2>1 DEF Init, DocumentsTyped, Unwritten
<1>4. PhaseTyped
  BY DEF Init, PhaseTyped, NoPhase
<1>5. DeskTyped
  BY IdleServices DEF Init, DeskTyped
<1>6. ClientsTyped
  BY WorkerAssumption DEF Init, ClientsTyped
<1>7. ThreadsInv
  BY IdleHand DEF Init, ThreadsInv, Placed, Idle
<1> QED
  BY <1>1, <1>2, <1>3, <1>4, <1>5, <1>6, <1>7 DEF WorkerInv

LEMMA ThreadStepKeepsInv ==
  ASSUME WorkerInv, NEW t \in Thread, ThreadStep(t)
  PROVE  WorkerInv'
<1>1. CASE ApplyStep(t)
  BY <1>1, LookUpKeepsInv, CompareRevisionKeepsInv, OpenSavepointKeepsInv,
     ApplyNextKeepsInv, ReleaseKeepsInv, RecordKeepsInv DEF ApplyStep
<1>2. CASE ApproveStep(t)
  BY <1>2, CompareApprovedKeepsInv, ReadNodesKeepsInv,
     ReadEdgesAndApproveKeepsInv DEF ApproveStep
<1>3. CASE SaveStep(t)
  BY <1>3, SaveKeepsInv, WriteAliasKeepsInv DEF SaveStep
<1>4. CASE DeskStep(t)
  BY <1>4, SubmitKeepsInv, AskKeepsInv DEF DeskStep
<1> QED
  BY <1>1, <1>2, <1>3, <1>4 DEF ThreadStep, DesignStep

LEMMA NextWorker == WorkerInv /\ [Next]_vars => WorkerInv'
<1> SUFFICES ASSUME WorkerInv, [Next]_vars PROVE WorkerInv'
  OBVIOUS
<1>1. CASE Next
  BY <1>1, ThreadStepKeepsInv, SendKeepsInv, BackgroundStepKeepsInv,
     StartPhaseKeepsInv, PhaseStepKeepsInv, RestartKeepsInv DEF Next
<1>2. CASE UNCHANGED vars
  BY <1>2
     DEF vars, designDb, documentsDb, clients, WorkerInv, MapInv, Closed,
         DesignTyped, DocumentsTyped, PhaseTyped, DeskTyped, ClientsTyped,
         ThreadsInv, Placed
<1> QED
  BY <1>1, <1>2

\* Whatever the clients send, and wherever a restart cuts it off, every file,
\* service and thread of the worker holds a value of its type.
THEOREM WorkerIsTyped == Spec => []TypeOK
<1>1. WorkerInv => TypeOK
  BY DEF WorkerInv, TypeOK, MapInv, DesignTyped, DocumentsTyped, PhaseTyped,
         DeskTyped, ClientsTyped, ThreadsInv, Hand
<1> QED
  BY InitWorker, NextWorker, <1>1, PTL DEF Spec

\* Edges and parents of the design map name nodes that are there, for any
\* number of writers at once: also with the race that design_cas shows, the map
\* itself is never broken.
THEOREM MapStaysClosed == Spec => []MapIsClosed
<1>1. WorkerInv => MapIsClosed
  BY DEF WorkerInv, MapInv, Closed, MapIsClosed
<1> QED
  BY InitWorker, NextWorker, <1>1, PTL DEF Spec
=============================================================================
