--------------------------- MODULE ContractLease ----------------------------
(***************************************************************************)
(* contract-executions.json and the threads that read, change and write it   *)
(* back (application/contract_execution.py).  Each operation reads the whole  *)
(* file, changes its copy and writes the copy, inside the lock of its own     *)
(* ContractExecutionService; complete does so in three sections with the      *)
(* lock released between them.  Who may begin (stage and task) is the         *)
(* business of the Mission module: here any request may arrive.              *)
(***************************************************************************)
EXTENDS Naturals, Sequences, FiniteSets

CONSTANTS Threads,
          Service,      \* Service[t]: the service instance that thread t calls
          Actors,       \* the actors that begin executions
          MaxBegun,     \* bounds: executions, and
          MaxCode       \*   versions of the contract's files

ASSUME LeaseAssumption ==
    /\ Actors \subseteq {"mission", "chat", "mcp"}
    /\ {MaxBegun, MaxCode} \subseteq Nat

EndedBy == {"blocked", "amendment_requested"}
Status == {"active", "completed"} \cup EndedBy
Never == 0                              \* the evidence was never produced

\* An execution: the code version its checks and its verifier last passed on,
\* and the version that was committed when it was accepted.
Entry == [actor : Actors, status : Status, checked : Nat, verified : Nat,
          accepted : Nat]

\* The HTTP threads of a worker all call the control plane's service.
OneService == \A t, u \in Threads : Service[t] = Service[u]

VARIABLES
    book,      \* the file
    code,      \* version of the files the contract owns
    thread     \* what each thread has in hand

vars == <<book, code, thread>>

Idle == [pc |-> "idle", copy |-> <<>>, id |-> 0, arg |-> ""]

\* Mutant of LockFree: the sections are not locked.
Unlocked(t) == TRUE

\* Between its read and its write a thread holds the lock of its service.
Sections == {"begin", "end", "checks", "patch", "verify", "accept"}
Holds(t) == thread[t].pc \in Sections
LockFree(t) == \A u \in Threads : Service[u] = Service[t] => ~Holds(u)

IsActive(b, id) == id \in DOMAIN b /\ b[id].status = "active"
NoneActive(b) == \A id \in DOMAIN b : b[id].status # "active"

\* Enter a section: take the lock and read the file.
Enter(t, pc, id, arg) ==
    /\ LockFree(t)
    /\ thread' = [thread EXCEPT ![t] = [pc |-> pc, copy |-> book, id |-> id,
                                        arg |-> arg]]

\* Leave it: write the changed copy back and release the lock.
Leave(t, entry, next) ==
    /\ book' = [thread[t].copy EXCEPT ![thread[t].id] = entry]
    /\ thread' = [thread EXCEPT ![t] = next]

Mine(t) == thread[t].copy[thread[t].id]
-----------------------------------------------------------------------------
Init == /\ book = <<>>
        /\ code = 1
        /\ thread = [t \in Threads |-> Idle]

\* Mutant of BeginRead: an active execution is not looked for.
BeginReadBeside(t) ==
    /\ thread[t].pc = "idle"
    /\ Len(book) < MaxBegun
    /\ \E actor \in Actors : Enter(t, "begin", Len(book) + 1, actor)
    /\ UNCHANGED <<book, code>>

\* begin: refused while an execution is active.
BeginRead(t) ==
    /\ thread[t].pc = "idle"
    /\ Len(book) < MaxBegun
    /\ NoneActive(book)
    /\ \E actor \in Actors : Enter(t, "begin", Len(book) + 1, actor)
    /\ UNCHANGED <<book, code>>

BeginWrite(t) ==
    /\ thread[t].pc = "begin"
    /\ book' = Append(thread[t].copy,
                      [actor |-> thread[t].arg, status |-> "active",
                       checked |-> Never, verified |-> Never,
                       accepted |-> Never])
    /\ thread' = [thread EXCEPT ![t] = Idle]
    /\ UNCHANGED code

\* report_blocker and propose_amendment (_end).
EndRead(t) ==
    /\ thread[t].pc = "idle"
    /\ \E id \in DOMAIN book, status \in EndedBy :
        IsActive(book, id) /\ Enter(t, "end", id, status)
    /\ UNCHANGED <<book, code>>

\* Mutant of EndWrite: it closes with a status readers do not know.
EndWriteUnknown(t) ==
    /\ thread[t].pc = "end"
    /\ Leave(t, [Mine(t) EXCEPT !.status = "closed"], Idle)
    /\ UNCHANGED code

EndWrite(t) ==
    /\ thread[t].pc = "end"
    /\ Leave(t, [Mine(t) EXCEPT !.status = thread[t].arg], Idle)
    /\ UNCHANGED code

\* run_checks and apply_patch serve a chat's lease only.
ChatRead(t) ==
    /\ thread[t].pc = "idle"
    /\ \E id \in DOMAIN book, what \in {"checks", "patch"} :
        /\ IsActive(book, id) /\ book[id].actor = "chat"
        /\ what = "patch" => code < MaxCode
        /\ Enter(t, what, id, "")
    /\ UNCHANGED <<book, code>>

ChecksWrite(t) ==
    /\ thread[t].pc = "checks"
    /\ \E passed \in BOOLEAN :
        Leave(t, [Mine(t) EXCEPT !.checked = IF passed THEN code ELSE Never], Idle)
    /\ UNCHANGED code

\* The file of the contract is replaced before the patch is recorded.
PatchWrite(t) ==
    /\ thread[t].pc = "patch"
    /\ code' = code + 1
    /\ Leave(t, Mine(t), Idle)

\* complete, first section: a chat must have passed its checks.
CompleteRequest(t) ==
    /\ thread[t].pc = "idle" /\ LockFree(t)
    /\ \E id \in DOMAIN book :
        /\ IsActive(book, id)
        /\ book[id].actor = "chat" => book[id].checked # Never
        /\ thread' = [thread EXCEPT ![t] = [Idle EXCEPT !.pc = "requested",
                                                        !.id = id]]
    /\ UNCHANGED <<book, code>>

\* Each later section begins by requiring that the lease is still active.
Continue(t, from, section) ==
    /\ thread[t].pc = from /\ LockFree(t)
    /\ IF IsActive(book, thread[t].id)
       THEN Enter(t, section, thread[t].id, "")
       ELSE thread' = [thread EXCEPT ![t] = Idle]
    /\ UNCHANGED <<book, code>>

\* validate, the second section.
VerifyRead(t) == Continue(t, "requested", "verify")

VerifyWrite(t) ==
    /\ thread[t].pc = "verify"
    /\ \E passed \in BOOLEAN :
        Leave(t, [Mine(t) EXCEPT !.verified = IF passed THEN code ELSE Never],
              IF passed THEN [Idle EXCEPT !.pc = "verified", !.id = thread[t].id]
                        ELSE Idle)
    /\ UNCHANGED code

\* The third section: the code graph has been rebuilt without the lock; commit
\* what is there, then close.
AcceptRead(t) == Continue(t, "verified", "accept")

AcceptWrite(t) ==
    /\ thread[t].pc = "accept"
    /\ Leave(t, [Mine(t) EXCEPT !.status = "completed", !.accepted = code], Idle)
    /\ UNCHANGED code

Step(t) ==
    \/ BeginRead(t) \/ BeginWrite(t) \/ EndRead(t) \/ EndWrite(t)
    \/ ChatRead(t) \/ ChecksWrite(t) \/ PatchWrite(t)
    \/ CompleteRequest(t) \/ VerifyRead(t) \/ VerifyWrite(t)
    \/ AcceptRead(t) \/ AcceptWrite(t)

Next == \E t \in Threads : Step(t)

Spec == Init /\ [][Next]_vars
-----------------------------------------------------------------------------
\* What a thread can have in hand.
Local == [pc : Sections \cup {"idle", "requested", "verified"},
          copy : Seq(Entry), id : Nat, arg : Actors \cup EndedBy \cup {""}]

\* The file, the code version and what each thread has read are well-formed.
TypeOK ==
    /\ book \in Seq(Entry)
    /\ code \in Nat
    /\ thread \in [Threads -> Local]

\* One execution at a time (CDE-008, the class docstring): the file never holds
\* two active leases, so no two executors are authorised to write code.
SingleActiveLease ==
    \A i, j \in DOMAIN book :
        book[i].status = "active" /\ book[j].status = "active" => i = j

\* The file as its readers see it: executions are only added, one at a time and
\* when none is active, and one that has ended is never active again.
Visible(e) == [actor |-> e.actor, status |-> e.status]
Book == INSTANCE LeaseBook WITH
            executions <- [i \in DOMAIN book |-> Visible(book[i])]
ImplementsLeaseBook == Book!Spec

\* "HARNESS re-runs the configured validation and the structural verifier before
\* it accepts a completion" (README): what is committed has passed both.
AcceptedCodeWasChecked ==
    \A i \in DOMAIN book :
        book[i].status = "completed" /\ book[i].actor = "chat" =>
            book[i].checked = book[i].accepted

=============================================================================
