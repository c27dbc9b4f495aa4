------------------------------- MODULE MCBatch -------------------------------
(* Small instances of Batch for TLC. *)
EXTENDS Batch

Item(size, obliged, deps) == [size |-> size, obliged |-> obliged, deps |-> deps]

\* A reviewed task and one that waits for it; a task in bursts with acceptance
\* criteria and one without a review.
MCPlans == {<<Item("M", FALSE, {}), Item("M", FALSE, {1})>>,
            <<Item("L", TRUE, {}), Item("S", FALSE, {})>>}

Audit(verdict, clean, failures, receipt) ==
    [verdict |-> verdict, complete |-> TRUE, sound |-> TRUE, clean |-> clean,
     failures |-> failures, receipt |-> receipt]

\* What passes the gate, and what misses it by one thing.
MCReviews == {Audit("APPROVED", TRUE, FALSE, "pass"),
              Audit("APPROVED", TRUE, FALSE, "missing"),
              Audit("APPROVED", TRUE, TRUE, "pass"),
              Audit("MINOR_CHANGES", FALSE, TRUE, "pass"),
              Audit("CHANGES_REQUESTED", FALSE, TRUE, "fail"),
              Audit("UNKNOWN", TRUE, FALSE, "pass")}
=============================================================================
