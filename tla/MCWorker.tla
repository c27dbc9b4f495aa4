------------------------------ MODULE MCWorker ------------------------------
(* Small instances of Worker for TLC. *)
EXTENDS Worker, TLC

CONSTANTS n1, n2

Op(op, id, other) == [op |-> op, id |-> id, other |-> other]

\* A batch that builds, one that removes, one whose second operation is refused
\* because of its first, and one that changes what is there.
MCBatch == {<<Op("add_node", n1, NoNode), Op("add_node", n2, n1),
              Op("add_edge", n1, n2)>>,
            <<Op("remove_node", n1, NoNode)>>,
            <<Op("remove_edge", n1, n2), Op("remove_edge", n1, n2)>>,
            <<Op("update_node", n2, NoNode), Op("remove_edge", n1, n2)>>}

Symmetry == Permutations(Thread) \cup Permutations(Command)
=============================================================================
