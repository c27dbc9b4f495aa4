----------------------------- MODULE ReviewGate -----------------------------
(***************************************************************************)
(* What lets a review through (application/gate_evaluator.py,                *)
(* review_evidence.py, markdown_contracts.py): the audit that the reviewer    *)
(* wrote, its evidence, and the receipt of the trusted validation.            *)
(***************************************************************************)
EXTENDS Naturals

Verdict == {"APPROVED", "MINOR_CHANGES", "CHANGES_REQUESTED", "UNKNOWN"}

Review == [verdict : Verdict,       \* the first of the words the audit contains
           complete : BOOLEAN,      \* it ends in DONE and has a verdict section
           sound : BOOLEAN,         \* review-evidence.json has the right form
           clean : BOOLEAN,         \* claims are supported, checks pass
           failures : BOOLEAN,      \* it lists failures
           receipt : {"pass", "fail", "not_run", "missing"}]

\* _validation_check: a task whose contract has acceptance criteria needs a
\* receipt that says "pass", whenever it was written.
ValidationError(obliged, review) == obliged /\ review.receipt # "pass"

\* ReviewEvidence.gate_error: the evidence agrees with the verdict.
EvidenceError(review) ==
    \/ ~review.sound
    \/ review.verdict = "UNKNOWN"
    \/ review.verdict = "APPROVED" /\ (~review.clean \/ review.failures)
    \/ review.verdict \notin {"APPROVED", "UNKNOWN"} /\ ~review.failures

\* evaluate, for the review phase.
GatePasses(obliged, review) ==
    /\ review.complete
    /\ ~ValidationError(obliged, review)
    /\ ~EvidenceError(review)
=============================================================================
