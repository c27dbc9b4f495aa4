------------------------ MODULE ContractLeaseProofs -------------------------
(***************************************************************************)
(* For every number of HTTP threads, services, executions and patches:       *)
(* contract-executions.json holds at most one active lease, the newest; and  *)
(* when all the threads call one ContractExecutionService it implements the   *)
(* lease book.                                                              *)
(*                                                                         *)
(* The argument has two parts.  A thread writes what it has read with one     *)
(* entry changed or added: a copy in which at most the newest entry is       *)
(* active goes on to be one (CopiesInv), whoever else has written meanwhile.  *)
(* The lock of one service admits one thread to a section (Exclusive), so     *)
(* the copy that thread has read is still the file when it writes (Fresh).    *)
(***************************************************************************)
EXTENDS ContractLease, SequenceTheorems, TLAPS

\* At most the newest entry of a copy of the file is active.
NewestOnly(b) == \A id \in DOMAIN b : IsActive(b, id) => id = Len(b)

\* What the thread saw when it entered its section.
Saw(b, l) ==
    IF l.pc = "begin"
    THEN NoneActive(b) /\ l.arg \in Actors
    ELSE IsActive(b, l.id) /\ (l.pc = "end" => l.arg \in EndedBy)

\* The file, and what each thread in a section has read of it.
CopiesInv ==
    /\ TypeOK
    /\ NewestOnly(book)
    /\ \A t \in Threads : Holds(t) => /\ NewestOnly(thread[t].copy)
                                      /\ Saw(thread[t].copy, thread[t])

\* One service: its lock lets one thread in, and nobody else writes.
Exclusive == \A t, u \in Threads : Holds(t) /\ Holds(u) => t = u
Fresh == \A t \in Threads : Holds(t) => thread[t].copy = book

LeaseInv == CopiesInv /\ Exclusive /\ Fresh

-----------------------------------------------------------------------------
(* The four shapes of a step. *)

\* It enters a section, in which it holds what it has read,
Enters(t) ==
    \E l \in Local :
        /\ LockFree(t)
        /\ l.pc \in Sections /\ l.copy = book /\ Saw(book, l)
        /\ thread' = [thread EXCEPT ![t] = l]
        /\ UNCHANGED <<book, code>>

\* waits outside the lock,
Waits(t) ==
    \E l \in Local :
        /\ l.pc \notin Sections
        /\ thread' = [thread EXCEPT ![t] = l]
        /\ UNCHANGED <<book, code>>

\* writes its copy with a new lease,
Begins(t) ==
    \E e \in Entry :
        /\ Holds(t) /\ NoneActive(thread[t].copy)
        /\ e.status = "active"
        /\ book' = Append(thread[t].copy, e)
        /\ thread' = [thread EXCEPT ![t] = Idle]
        /\ UNCHANGED code

\* or writes its copy with the active lease ended, or changed but for its status.
Updates(t) ==
    \E e \in Entry, l \in Local :
        /\ Holds(t) /\ IsActive(thread[t].copy, thread[t].id)
        /\ e.actor = Mine(t).actor
        /\ e.status \in {"active", "completed"} \cup EndedBy
        /\ l.pc \notin Sections
        /\ Leave(t, e, l)
        /\ code' \in Nat

-----------------------------------------------------------------------------
LEMMA IdleIsLocal == Idle \in Local /\ Idle.pc \notin Sections
  BY DEF Idle, Local, Sections

LEMMA Types ==
  ASSUME CopiesInv, NEW t \in Threads
  PROVE  /\ book \in Seq(Entry) /\ Len(book) \in Nat /\ DOMAIN book = 1 .. Len(book)
         /\ code \in Nat /\ thread \in [Threads -> Local] /\ thread[t] \in Local
         /\ thread[t].id \in Nat /\ thread[t].copy \in Seq(Entry)
<1>1. book \in Seq(Entry) /\ code \in Nat /\ thread \in [Threads -> Local]
  BY DEF CopiesInv, TypeOK
<1>2. thread[t] \in Local
  BY <1>1
<1>3. thread[t].id \in Nat /\ thread[t].copy \in Seq(Entry)
  BY <1>2 DEF Local
<1> QED
  BY <1>1, <1>2, <1>3, LenProperties

\* The entry a thread writes back is an entry, and active in its copy.
LEMMA MineIsEntry ==
  ASSUME CopiesInv, NEW t \in Threads, Holds(t), thread[t].pc # "begin"
  PROVE  /\ Mine(t) \in Entry /\ Mine(t).status = "active"
         /\ IsActive(thread[t].copy, thread[t].id)
<1>1. IsActive(thread[t].copy, thread[t].id)
  BY DEF CopiesInv, Saw
<1>2. thread[t].id \in 1 .. Len(thread[t].copy) /\ thread[t].copy \in Seq(Entry)
  BY <1>1, Types DEF IsActive
<1>3. thread[t].copy[thread[t].id] \in Entry
  BY <1>2, ElementOfSeq
<1> QED
  BY <1>1, <1>3 DEF Mine, IsActive

\* An entry whose status and evidence change is still an entry.
LEMMA EntryUpdate ==
  ASSUME NEW e \in Entry, NEW n \in Nat, NEW s \in Status
  PROVE  /\ [e EXCEPT !.status = s] \in Entry
         /\ [e EXCEPT !.checked = n] \in Entry
         /\ [e EXCEPT !.verified = n] \in Entry
         /\ [e EXCEPT !.status = s, !.accepted = n] \in Entry
  BY DEF Entry

LEMMA BeginWriteBegins ==
  ASSUME CopiesInv, NEW t \in Threads, BeginWrite(t) PROVE Begins(t)
<1> DEFINE e == [actor |-> thread[t].arg, status |-> "active",
                 checked |-> Never, verified |-> Never, accepted |-> Never]
<1>1. Holds(t) /\ NoneActive(thread[t].copy) /\ thread[t].arg \in Actors
  BY DEF BeginWrite, Holds, Sections, CopiesInv, Saw
<1>2. e \in Entry /\ e.status = "active"
  BY <1>1 DEF Entry, Status, Never
<1>3. book' = Append(thread[t].copy, e) /\ thread' = [thread EXCEPT ![t] = Idle]
      /\ UNCHANGED code
  BY DEF BeginWrite
<1> HIDE DEF e
<1> QED
  BY <1>1, <1>2, <1>3 DEF Begins

LEMMA WritesUpdate ==
  ASSUME CopiesInv, NEW t \in Threads,
         EndWrite(t) \/ ChecksWrite(t) \/ PatchWrite(t) \/ VerifyWrite(t)
           \/ AcceptWrite(t)
  PROVE  Updates(t)
<1>1. Holds(t) /\ thread[t].pc # "begin"
  BY DEF EndWrite, ChecksWrite, PatchWrite, VerifyWrite, AcceptWrite, Holds,
         Sections
<1>2. /\ Mine(t) \in Entry /\ Mine(t).status = "active"
      /\ IsActive(thread[t].copy, thread[t].id)
      /\ code \in Nat /\ thread[t].id \in Nat
  BY <1>1, MineIsEntry, Types
<1>3. \E e \in Entry, l \in Local :
        /\ l.pc \notin Sections
        /\ Leave(t, e, l)
        /\ code' \in Nat
        /\ e.actor = Mine(t).actor
        /\ e.status \in {"active", "completed"} \cup EndedBy
  <2>1. CASE EndWrite(t)
    <3>1. thread[t].arg \in EndedBy
      BY <1>1, <2>1 DEF EndWrite, CopiesInv, Saw
    <3>2. [Mine(t) EXCEPT !.status = thread[t].arg] \in Entry
      BY <1>2, <3>1, EntryUpdate DEF Status
    <3> QED
      BY <1>2, <2>1, <3>1, <3>2, IdleIsLocal DEF EndWrite, Entry
  <2>2. CASE ChecksWrite(t)
    <3>1. PICK passed \in BOOLEAN :
            Leave(t, [Mine(t) EXCEPT !.checked = IF passed THEN code ELSE Never], Idle)
      BY <2>2 DEF ChecksWrite
    <3>2. [Mine(t) EXCEPT !.checked = IF passed THEN code ELSE Never] \in Entry
      BY <1>2, EntryUpdate DEF Never, Entry
    <3> QED
      BY <1>2, <2>2, <3>1, <3>2, IdleIsLocal DEF ChecksWrite, Entry
  <2>3. CASE PatchWrite(t)
    BY <1>2, <2>3, IdleIsLocal DEF PatchWrite
  <2>4. CASE VerifyWrite(t)
    <3> DEFINE after == [Idle EXCEPT !.pc = "verified", !.id = thread[t].id]
    <3>1. PICK passed \in BOOLEAN :
            Leave(t, [Mine(t) EXCEPT !.verified = IF passed THEN code ELSE Never],
                  IF passed THEN after ELSE Idle)
      BY <2>4 DEF VerifyWrite
    <3>2. [Mine(t) EXCEPT !.verified = IF passed THEN code ELSE Never] \in Entry
      BY <1>2, EntryUpdate DEF Never, Entry
    <3>3. after \in Local /\ after.pc \notin Sections
      BY <1>2, IdleIsLocal DEF Local, Sections
    <3> QED
      BY <1>2, <2>4, <3>1, <3>2, <3>3, IdleIsLocal DEF VerifyWrite, Entry
  <2>5. CASE AcceptWrite(t)
    <3>1. [Mine(t) EXCEPT !.status = "completed", !.accepted = code] \in Entry
      BY <1>2, EntryUpdate DEF Status
    <3> QED
      BY <1>2, <2>5, <3>1, IdleIsLocal DEF AcceptWrite, Entry
  <2> QED
    BY <2>1, <2>2, <2>3, <2>4, <2>5
<1> QED
  BY <1>1, <1>2, <1>3 DEF Updates

\* Every other step reads the file, or waits outside the lock.
LEMMA RequestsRead ==
  ASSUME CopiesInv, NEW t \in Threads,
         BeginRead(t) \/ EndRead(t) \/ ChatRead(t) \/ CompleteRequest(t)
           \/ VerifyRead(t) \/ AcceptRead(t)
  PROVE  Enters(t) \/ Waits(t)
<1>1. ASSUME NEW pc \in Sections, NEW id \in Nat,
             NEW arg \in Actors \cup EndedBy \cup {""},
             Enter(t, pc, id, arg), UNCHANGED <<book, code>>,
             Saw(book, [pc |-> pc, copy |-> book, id |-> id, arg |-> arg])
      PROVE  Enters(t)
  <2> DEFINE l == [pc |-> pc, copy |-> book, id |-> id, arg |-> arg]
  <2>1. thread' = [thread EXCEPT ![t] = l] /\ LockFree(t)
    BY <1>1 DEF Enter
  <2>2. l \in Local /\ l.pc \in Sections /\ l.copy = book
    BY <1>1, Types DEF Local
  <2>3. Saw(book, l)
    BY <1>1
  <2> HIDE DEF l
  <2> QED
    BY <1>1, <2>1, <2>2, <2>3 DEF Enters
<1>2. CASE BeginRead(t)
  <2>1. PICK actor \in Actors : Enter(t, "begin", Len(book) + 1, actor)
    BY <1>2 DEF BeginRead
  <2>2. NoneActive(book) /\ UNCHANGED <<book, code>>
    BY <1>2 DEF BeginRead
  <2>3. "begin" \in Sections /\ Len(book) + 1 \in Nat
    BY Types DEF Sections
  <2>4. Saw(book, [pc |-> "begin", copy |-> book, id |-> Len(book) + 1,
                   arg |-> actor])
    BY <2>2 DEF Saw
  <2> QED
    BY <1>1, <2>1, <2>2, <2>3, <2>4
<1>3. CASE EndRead(t)
  <2>1. PICK id \in DOMAIN book, status \in EndedBy :
          IsActive(book, id) /\ Enter(t, "end", id, status)
    BY <1>3 DEF EndRead
  <2>2. UNCHANGED <<book, code>> /\ id \in Nat
    BY <1>3, Types DEF EndRead
  <2> QED
    BY <1>1, <2>1, <2>2 DEF Saw, Sections
<1>4. CASE ChatRead(t)
  <2>1. PICK id \in DOMAIN book, what \in {"checks", "patch"} :
          IsActive(book, id) /\ Enter(t, what, id, "")
    BY <1>4 DEF ChatRead
  <2>2. UNCHANGED <<book, code>>
    BY <1>4 DEF ChatRead
  <2>3. id \in Nat
    BY Types
  <2> QED
    BY <1>1, <2>1, <2>2, <2>3 DEF Saw, Sections
<1>5. CASE CompleteRequest(t)
  <2>1. PICK id \in DOMAIN book :
          thread' = [thread EXCEPT ![t] = [Idle EXCEPT !.pc = "requested", !.id = id]]
    BY <1>5 DEF CompleteRequest
  <2> DEFINE l == [Idle EXCEPT !.pc = "requested", !.id = id]
  <2>2. id \in Nat
    BY Types
  <2>3. l \in Local /\ l.pc \notin Sections
    BY <2>2, IdleIsLocal DEF Local, Sections
  <2>4. UNCHANGED <<book, code>> /\ thread' = [thread EXCEPT ![t] = l]
    BY <1>5, <2>1 DEF CompleteRequest
  <2> HIDE DEF l
  <2> QED
    BY <2>3, <2>4 DEF Waits
<1>6. ASSUME NEW from, NEW section \in {"verify", "accept"},
             Continue(t, from, section)
      PROVE  Enters(t) \/ Waits(t)
  <2>1. UNCHANGED <<book, code>> /\ thread[t].id \in Nat
    BY <1>6, Types DEF Continue
  <2>2. CASE IsActive(book, thread[t].id)
    <3>1. Enter(t, section, thread[t].id, "")
      BY <1>6, <2>2 DEF Continue
    <3> QED
      BY <1>1, <2>1, <2>2, <3>1 DEF Saw, Sections
  <2>3. CASE ~IsActive(book, thread[t].id)
    BY <1>6, <2>1, <2>3, IdleIsLocal DEF Continue, Waits
  <2> QED
    BY <2>2, <2>3
<1> QED
  BY <1>2, <1>3, <1>4, <1>5, <1>6 DEF VerifyRead, AcceptRead

LEMMA StepShapes ==
  ASSUME CopiesInv, Next
  PROVE  \E t \in Threads : Enters(t) \/ Waits(t) \/ Begins(t) \/ Updates(t)
  BY BeginWriteBegins, WritesUpdate, RequestsRead DEF Next, Step

-----------------------------------------------------------------------------
(* At most the newest lease is active. *)

\* The file after a new lease has been added to a copy with none active.
LEMMA AppendNewest ==
  ASSUME NEW b \in Seq(Entry), NoneActive(b), NEW e \in Entry
  PROVE  /\ Append(b, e) \in Seq(Entry) /\ NewestOnly(Append(b, e))
<1>1. /\ Append(b, e) \in Seq(Entry) /\ Len(b) \in Nat
      /\ Len(Append(b, e)) = Len(b) + 1
      /\ DOMAIN Append(b, e) = 1 .. (Len(b) + 1) /\ DOMAIN b = 1 .. Len(b)
      /\ \A i \in 1 .. Len(b) : Append(b, e)[i] = b[i]
  BY AppendProperties, LenProperties
<1>2. \A i \in 1 .. Len(b) : Append(b, e)[i].status # "active"
  BY <1>1 DEF NoneActive
<1> QED
  BY <1>1, <1>2 DEF NewestOnly, IsActive

\* The file after the active lease of a copy has been written: its newest entry.
LEMMA ExceptNewest ==
  ASSUME NEW b \in Seq(Entry), NewestOnly(b), NEW id, IsActive(b, id), NEW e \in Entry
  PROVE  [b EXCEPT ![id] = e] \in Seq(Entry) /\ NewestOnly([b EXCEPT ![id] = e])
<1>1. id \in 1 .. Len(b) /\ id = Len(b) /\ DOMAIN b = 1 .. Len(b)
  BY LenProperties DEF NewestOnly, IsActive
<1>2. /\ [b EXCEPT ![id] = e] \in Seq(Entry)
      /\ Len([b EXCEPT ![id] = e]) = Len(b)
      /\ \A j \in 1 .. Len(b) : [b EXCEPT ![id] = e][j] = IF j = id THEN e ELSE b[j]
  BY <1>1, ExceptSeq
<1>3. DOMAIN [b EXCEPT ![id] = e] = 1 .. Len(b)
  BY <1>1
<1> QED
  BY <1>1, <1>2, <1>3 DEF NewestOnly, IsActive

\* A thread that writes the file b and leaves its section.
LEMMA LeavesCopies ==
  ASSUME CopiesInv, NEW t \in Threads, NEW l \in Local, l.pc \notin Sections,
         thread' = [thread EXCEPT ![t] = l], code' \in Nat,
         book' \in Seq(Entry), NewestOnly(book')
  PROVE  CopiesInv'
<1>1. TypeOK'
  BY DEF CopiesInv, TypeOK
<1>2. \A u \in Threads : Holds(u)' => Holds(u) /\ thread'[u] = thread[u]
  BY DEF Holds, CopiesInv, TypeOK
<1>3. NewestOnly(book)'
  BY DEF NewestOnly
<1>4. ASSUME NEW u \in Threads, Holds(u)'
      PROVE  NewestOnly(thread'[u].copy) /\ Saw(thread'[u].copy, thread'[u])
  BY <1>2, <1>4 DEF CopiesInv
<1>5. \A u \in Threads : Holds(u)' => /\ NewestOnly(thread[u].copy)'
                                     /\ Saw(thread[u].copy, thread[u])'
  BY <1>4 DEF NewestOnly, Saw, NoneActive, IsActive
<1> QED
  BY <1>1, <1>3, <1>5 DEF CopiesInv

LEMMA InitCopies == Init => CopiesInv
<1> SUFFICES ASSUME Init PROVE CopiesInv
  OBVIOUS
<1>1. TypeOK
  BY IdleIsLocal DEF Init, TypeOK
<1>2. \A t \in Threads : ~Holds(t)
  BY IdleIsLocal DEF Init, Holds
<1>3. NewestOnly(book)
  BY DEF Init, NewestOnly
<1> QED
  BY <1>1, <1>2, <1>3 DEF CopiesInv

\* The inductive step, whatever services the threads call.
LEMMA NextCopies == CopiesInv /\ [Next]_vars => CopiesInv'
<1> SUFFICES ASSUME CopiesInv, [Next]_vars PROVE CopiesInv'
  OBVIOUS
<1>1. CASE UNCHANGED vars
  BY <1>1 DEF vars, CopiesInv, TypeOK, NewestOnly, Holds, Saw, NoneActive, IsActive
<1>2. ASSUME NEW t \in Threads, Enters(t) PROVE CopiesInv'
  <2>1. PICK l \in Local :
          /\ l.copy = book /\ Saw(book, l)
          /\ thread' = [thread EXCEPT ![t] = l]
          /\ UNCHANGED <<book, code>>
    BY <1>2 DEF Enters
  <2>2. TypeOK'
    BY <2>1 DEF CopiesInv, TypeOK
  <2>3. \A u \in Threads \ {t} : thread'[u] = thread[u] /\ (Holds(u)' => Holds(u))
    BY <2>1 DEF Holds, CopiesInv, TypeOK
  <2>4. thread'[t] = l
    BY <2>1 DEF CopiesInv, TypeOK
  <2>5. ASSUME NEW u \in Threads, Holds(u)'
        PROVE  NewestOnly(thread'[u].copy) /\ Saw(thread'[u].copy, thread'[u])
    BY <2>1, <2>3, <2>4, <2>5 DEF CopiesInv
  <2>6. \A u \in Threads : Holds(u)' => /\ NewestOnly(thread[u].copy)'
                                       /\ Saw(thread[u].copy, thread[u])'
    BY <2>5 DEF NewestOnly, Saw, NoneActive, IsActive
  <2>7. NewestOnly(book)'
    BY <2>1 DEF CopiesInv, NewestOnly
  <2> QED
    BY <2>2, <2>6, <2>7 DEF CopiesInv
<1>3. ASSUME NEW t \in Threads, Waits(t) PROVE CopiesInv'
  <2>1. book' = book /\ code' = code /\ book \in Seq(Entry) /\ code \in Nat
        /\ NewestOnly(book)
    BY <1>3, Types DEF Waits, CopiesInv
  <2>2. NewestOnly(book')
    BY <2>1
  <2> QED
    BY <1>3, <2>1, <2>2, LeavesCopies DEF Waits
<1>4. ASSUME NEW t \in Threads, Begins(t) PROVE CopiesInv'
  <2>1. thread[t].copy \in Seq(Entry) /\ code \in Nat
    BY Types
  <2> QED
    BY <1>4, <2>1, AppendNewest, IdleIsLocal, LeavesCopies DEF Begins
<1>5. ASSUME NEW t \in Threads, Updates(t) PROVE CopiesInv'
  <2>1. thread[t].copy \in Seq(Entry) /\ (Holds(t) => NewestOnly(thread[t].copy))
    BY Types DEF CopiesInv
  <2>2. PICK e \in Entry, l \in Local :
          /\ Holds(t) /\ IsActive(thread[t].copy, thread[t].id)
          /\ l.pc \notin Sections /\ code' \in Nat
          /\ book' = [thread[t].copy EXCEPT ![thread[t].id] = e]
          /\ thread' = [thread EXCEPT ![t] = l]
    BY <1>5 DEF Updates, Leave
  <2>3. book' \in Seq(Entry) /\ NewestOnly(book')
    BY <2>1, <2>2, ExceptNewest
  <2> QED
    BY <2>2, <2>3, LeavesCopies
<1> QED
  BY <1>1, <1>2, <1>3, <1>4, <1>5, StepShapes

\* Every entry of the file and everything a thread has in hand keep their types,
\* whichever requests end in an exception.
THEOREM LeaseIsTyped == Spec => []TypeOK
<1>1. CopiesInv => TypeOK
  BY DEF CopiesInv
<1> QED
  BY <1>1, InitCopies, NextCopies, PTL DEF Spec

\* An execution is only ever active at the end of the file: the newest entry says
\* all that the readers who look for an active execution can find (_active), also
\* where a service has written over what another had begun.  It is why Mission,
\* with its two services, keeps the newest entry only.
THEOREM OnlyNewestIsActive == Spec => []NewestOnly(book)
<1>1. CopiesInv => NewestOnly(book)
  BY DEF CopiesInv
<1> QED
  BY <1>1, InitCopies, NextCopies, PTL DEF Spec

\* At most one lease is active in the file at any time, however the requests
\* interleave and whatever services they call.
THEOREM LeaseIsSingle == Spec => []SingleActiveLease
<1>1. CopiesInv => SingleActiveLease
  BY DEF CopiesInv, NewestOnly, IsActive, SingleActiveLease
<1> QED
  BY <1>1, InitCopies, NextCopies, PTL DEF Spec

-----------------------------------------------------------------------------
(* One service: nobody writes between a thread's read and its write. *)

LEMMA NextLease ==
  OneService => (LeaseInv /\ [Next]_vars => LeaseInv')
<1> SUFFICES ASSUME OneService, LeaseInv, [Next]_vars PROVE LeaseInv'
  OBVIOUS
<1>1. CopiesInv /\ CopiesInv' /\ thread \in [Threads -> Local]
  BY NextCopies DEF LeaseInv, CopiesInv, TypeOK
<1>2. CASE UNCHANGED vars
  BY <1>1, <1>2 DEF vars, LeaseInv, Exclusive, Fresh, Holds
<1>3. ASSUME NEW t \in Threads, Enters(t) PROVE LeaseInv'
  <2>1. \A u \in Threads : ~Holds(u)
    BY <1>3 DEF Enters, LockFree, OneService
  <2>2. thread'[t].copy = book' /\ \A u \in Threads \ {t} : thread'[u] = thread[u]
    BY <1>1, <1>3 DEF Enters
  <2>3. \A u \in Threads : Holds(u)' => u = t
    BY <2>1, <2>2 DEF Holds
  <2> QED
    BY <1>1, <2>2, <2>3 DEF LeaseInv, Exclusive, Fresh
<1>4. ASSUME NEW t \in Threads, Waits(t) PROVE LeaseInv'
  <2>1. \A u \in Threads : Holds(u)' => Holds(u) /\ thread'[u] = thread[u]
    BY <1>1, <1>4 DEF Waits, Holds
  <2> QED
    BY <1>1, <1>4, <2>1 DEF LeaseInv, Exclusive, Fresh, Waits
<1>5. ASSUME NEW t \in Threads, Begins(t) \/ Updates(t) PROVE LeaseInv'
  <2>1. Holds(t) /\ \E l \in Local : l.pc \notin Sections
                                  /\ thread' = [thread EXCEPT ![t] = l]
    BY <1>5, IdleIsLocal DEF Begins, Updates, Leave
  <2>2. \A u \in Threads : ~Holds(u)'
    BY <1>1, <2>1 DEF LeaseInv, Exclusive, Holds
  <2> QED
    BY <1>1, <2>2 DEF LeaseInv, Exclusive, Fresh
<1> QED
  BY <1>1, <1>2, <1>3, <1>4, <1>5, StepShapes

-----------------------------------------------------------------------------
(* The refinement of the lease book. *)

Seen == [i \in DOMAIN book |-> Visible(book[i])]

\* Writing back the active entry ends it in the book, or changes nothing there.
LEMMA UpdateRefines ==
  ASSUME LeaseInv, NEW t \in Threads, Updates(t)
  PROVE  Seen' = Seen \/ Book!End
<1> DEFINE id == thread[t].id
<1>1. PICK e \in Entry :
        /\ book' = [book EXCEPT ![id] = e]
        /\ e.actor = book[id].actor
        /\ e.status \in {"active", "completed"} \cup EndedBy
  BY DEF Updates, Leave, Mine, LeaseInv, Fresh
<1>2. DOMAIN book' = DOMAIN book /\ id \in DOMAIN book /\ book[id].status = "active"
  BY <1>1 DEF Updates, IsActive, LeaseInv, Fresh
<1>3. \A i \in DOMAIN book : book'[i] = IF i = id THEN e ELSE book[i]
  BY <1>1, <1>2
<1>4. CASE e.status = book[id].status
  <2>1. \A i \in DOMAIN book : Visible(book'[i]) = Visible(book[i])
    BY <1>1, <1>3, <1>4 DEF Visible
  <2>2. Seen' = Seen
    BY <1>2, <2>1 DEF Seen
  <2> QED
    BY <2>2
<1>5. CASE e.status \in {"completed"} \cup EndedBy
  <2>1. Seen' = [Seen EXCEPT ![id].status = e.status]
    BY <1>1, <1>2, <1>3 DEF Seen, Visible
  <2>2. id \in DOMAIN Seen /\ Seen[id].status = "active"
    BY <1>2 DEF Seen, Visible
  <2>3. e.status \in Book!EndStatus
    BY <1>5 DEF Book!EndStatus, EndedBy
  <2> QED
    BY <2>1, <2>2, <2>3 DEF Book!End, Seen
<1> QED
  BY <1>1, <1>2, <1>4, <1>5

LEMMA AppendRefines ==
  ASSUME LeaseInv, NEW t \in Threads, Begins(t)
  PROVE  Book!Begin
<1>1. PICK e \in Entry : e.status = "active" /\ book' = Append(book, e)
  BY DEF Begins, LeaseInv, Fresh
<1>2. NoneActive(book) /\ book \in Seq(Entry)
  BY Types DEF Begins, LeaseInv, Fresh
<1>3. /\ DOMAIN book' = 1 .. (Len(book) + 1)
      /\ DOMAIN book = 1 .. Len(book)
      /\ \A i \in 1 .. Len(book) : book'[i] = book[i]
      /\ book'[Len(book) + 1] = e
  BY <1>1, <1>2, AppendProperties
<1> DEFINE new == [actor |-> e.actor, status |-> "active"]
<1>4. Seen \in Seq([actor : Actors, status : Status])
  <2>1. \A i \in 1 .. Len(book) : Visible(book[i]) \in [actor : Actors, status : Status]
    <3>1. \A i \in 1 .. Len(book) : book[i] \in Entry
      BY <1>2, ElementOfSeq
    <3> QED
      BY <3>1 DEF Visible, Entry
  <2> QED
    BY <1>2, <1>3, <2>1 DEF Seen
<1>5. Len(Seen) = Len(book)
  BY <1>2, <1>3 DEF Seen
<1>6. Seen' = Append(Seen, new)
  <2>1. \A i \in 1 .. (Len(book) + 1) :
          Visible(book'[i]) = IF i = Len(book) + 1 THEN new ELSE Visible(book[i])
    BY <1>1, <1>3 DEF Visible
  <2> QED
    BY <1>2, <1>3, <1>4, <1>5, <2>1 DEF Seen
<1>7. e.actor \in Actors
  BY DEF Entry
<1>8. Book!NoneActive
  BY <1>2 DEF Book!NoneActive, NoneActive, Visible
<1> QED
  BY <1>6, <1>7, <1>8 DEF Book!Begin, Seen

\* Readers of the file see a lease book, as long as one service writes it:
\* executions are added when none is active, and one that has ended stays as it is.
THEOREM FileIsLeaseBook == OneService => (Spec => ImplementsLeaseBook)
<1> SUFFICES ASSUME OneService PROVE Spec => ImplementsLeaseBook
  OBVIOUS
<1>1. Init => LeaseInv /\ Book!Init
  <2>1. Init => Seen = <<>>
    BY DEF Init, Seen
  <2>2. Init => \A t \in Threads : ~Holds(t)
    BY IdleIsLocal DEF Init, Holds
  <2> QED
    BY <2>1, <2>2, InitCopies DEF Book!Init, Seen, LeaseInv, Exclusive, Fresh
<1>2. LeaseInv /\ [Next]_vars => LeaseInv'
  BY NextLease
<1>3. LeaseInv /\ [Next]_vars => [Book!Next]_Seen
  <2> SUFFICES ASSUME LeaseInv, [Next]_vars PROVE [Book!Next]_Seen
    OBVIOUS
  <2>1. CASE UNCHANGED book
    BY <2>1 DEF Seen
  <2>2. ASSUME NEW t \in Threads, Begins(t) PROVE Book!Next
    BY <2>2, AppendRefines DEF Book!Next
  <2>3. ASSUME NEW t \in Threads, Updates(t) PROVE [Book!Next]_Seen
    BY <2>3, UpdateRefines DEF Book!Next
  <2>4. ASSUME NEW t \in Threads, Enters(t) \/ Waits(t) PROVE UNCHANGED book
    BY <2>4 DEF Enters, Waits
  <2> QED
    BY <2>1, <2>2, <2>3, <2>4, StepShapes DEF vars, LeaseInv
<1> QED
  BY <1>1, <1>2, <1>3, PTL DEF Spec, ImplementsLeaseBook, Book!Spec, Seen
=============================================================================
