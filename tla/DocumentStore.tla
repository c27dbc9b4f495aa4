--------------------------- MODULE DocumentStore ----------------------------
(***************************************************************************)
(* adapters/documents/sqlite_catalog.py and application/document_service.py: *)
(* one document, its versions in the catalogue and the alias file that the   *)
(* agents read and write.  The catalogue commits first, the alias follows;   *)
(* what an agent wrote in the alias is captured when its phase ends.        *)
(***************************************************************************)
EXTENDS WorkerState

otherState == <<designDb, runner, slot, clients, restarts>>

HeadRevision == Len(versions)
Unwritten == [status |-> "none", rev |-> 0]

\* Mutant of CaptureId: the command does not depend on the content.
CaptureIdOfDocument(text) == <<"capture", NoText>>

\* capture_alias derives the command from the content it captures.
CaptureId(text) == <<"capture", text>>
CatalogCommand == Command \cup {<<"capture", x>> : x \in Text \cup {NoText}}

\* The catalogue keeps both kinds of id in one table; the ids of captures have a
\* prefix of their own, which a client that makes up its ids does not choose.
ASSUME CaptureAssumption == \A x \in Text \cup {NoText} : <<"capture", x>> \notin Command

-----------------------------------------------------------------------------
(* SqliteDocumentCatalog.save: one transaction (BEGIN IMMEDIATE). *)

SaveStatus(id, base) ==
    CASE writes[id] # Unwritten -> "DUPLICATE"
      [] writes[id] = Unwritten /\ base # HeadRevision -> "CONFLICT"
      [] OTHER -> "APPLIED"

SaveRevision(id, base) ==
    CASE SaveStatus(id, base) = "DUPLICATE" -> writes[id].rev
      [] SaveStatus(id, base) = "CONFLICT" -> HeadRevision
      [] OTHER -> HeadRevision + 1

\* Mutant of WithVersion: a document keeps its latest text only.
WithVersionOnly(text) == [r \in 1 .. (HeadRevision + 1) |-> text]

WithVersion(text) == Append(versions, text)

CatalogSave(id, base, text) ==
    LET status == SaveStatus(id, base)
    IN  /\ versions' = IF status = "APPLIED" THEN WithVersion(text)
                                             ELSE versions
        /\ writes' = IF status = "DUPLICATE" THEN writes
                     ELSE [writes EXCEPT ![id] =
                            [status |-> status, rev |-> SaveRevision(id, base)]]
-----------------------------------------------------------------------------
(* save_document: a person saves through HTTP.  The alias is not written for  *)
(* the document of a task that is not the active one.                        *)

\* Mutant of Save: the alias is written on a conflict too.
SaveAliasingConflict(t) ==
    /\ Serves(t, "save")
    /\ LET cmd == thread[t].cmd
           status == SaveStatus(cmd, Body(t).base)
           rev == SaveRevision(cmd, Body(t).base)
       IN  /\ CatalogSave(cmd, Body(t).base, Body(t).text)
           /\ IF status # "DUPLICATE" /\ Body(t).aliased
              THEN /\ thread' = [thread EXCEPT ![t].pc = "alias",
                                               ![t].rev = rev]
                   /\ UNCHANGED answers
              ELSE Answer(t, status, rev)
    /\ UNCHANGED <<alias, phase, otherState>>

Save(t) ==
    /\ Serves(t, "save")
    /\ LET cmd == thread[t].cmd
           status == SaveStatus(cmd, Body(t).base)
           rev == SaveRevision(cmd, Body(t).base)
       IN  /\ CatalogSave(cmd, Body(t).base, Body(t).text)
           /\ IF status = "APPLIED" /\ Body(t).aliased
              THEN /\ thread' = [thread EXCEPT ![t].pc = "alias",
                                               ![t].rev = rev]
                   /\ UNCHANGED answers
              ELSE Answer(t, status, rev)
    /\ UNCHANGED <<alias, phase, otherState>>

WriteAlias(t) ==
    /\ Serves(t, "alias")
    /\ alias' = Body(t).text
    /\ Answer(t, "APPLIED", thread[t].rev)
    /\ UNCHANGED <<documentsDb, phase, otherState>>

SaveStep(t) == Save(t) \/ WriteAlias(t)
-----------------------------------------------------------------------------
(* A phase of an agent, and capture_alias at its end. *)

NoPhase == [pc |-> "idle", text |-> NoText, base |-> 0]
InPhase == phase.pc # "idle"

\* The agent leaves its text in the alias, or leaves the alias as it was.
AgentWrites(text) ==
    /\ phase.pc = "agent"
    /\ alias' = text
    /\ phase' = [phase EXCEPT !.pc = "read"]
    /\ UNCHANGED <<documentsDb, thread, answers, otherState>>

ReadAlias ==
    /\ phase.pc = "read"
    /\ phase' = IF alias = NoText THEN NoPhase
                ELSE [phase EXCEPT !.pc = "compare", !.text = alias]
    /\ UNCHANGED <<documentsDb, alias, thread, answers, otherState>>

\* Nothing to capture when the alias is the latest version.
CompareHead ==
    /\ phase.pc = "compare"
    /\ phase' = IF HeadRevision > 0 /\ versions[HeadRevision] = phase.text THEN NoPhase
                ELSE [phase EXCEPT !.pc = "save", !.base = HeadRevision]
    /\ UNCHANGED <<documentsDb, alias, thread, answers, otherState>>

CaptureSave ==
    /\ phase.pc = "save"
    /\ CatalogSave(CaptureId(phase.text), phase.base, phase.text)
    /\ phase' = IF SaveStatus(CaptureId(phase.text), phase.base) = "APPLIED"
                THEN [phase EXCEPT !.pc = "alias"] ELSE NoPhase
    /\ UNCHANGED <<alias, thread, answers, otherState>>

CaptureAlias ==
    /\ phase.pc = "alias"
    /\ alias' = phase.text
    /\ phase' = NoPhase
    /\ UNCHANGED <<documentsDb, thread, answers, otherState>>

PhaseStep ==
    \/ \E text \in Text \cup {alias} : AgentWrites(text)
    \/ ReadAlias \/ CompareHead \/ CaptureSave \/ CaptureAlias
=============================================================================
