------------------------------ MODULE Changeset ------------------------------
(***************************************************************************)
(* domain/changeset.py: what has to be done so that the observed code        *)
(* becomes the approved design.  A design gives each node an intent and a     *)
(* way to find it in the repository; the code gives each node a declaration.  *)
(***************************************************************************)
EXTENDS Naturals, FiniteSets, Sequences

CONSTANTS
    Node,       \* ids of design nodes
    NoNode,
    Kind,       \* [Node -> {"package", "module", "symbol", "system"}]
    Parent,     \* [Node -> Node or NoNode], without cycles
    File        \* [Node -> the file, or directory, a node belongs to]

ASSUME NodeAssumption ==
    /\ NoNode \notin Node
    /\ Kind \in [Node -> {"package", "module", "symbol", "system"}]
    /\ Parent \in [Node -> Node \cup {NoNode}]
    /\ DOMAIN File = Node

Intent == {"KEEP", "CREATE", "CHANGE", "REMOVE"}

\* How a node names its place: by target_path and qualified_name, by a label
\* that is a path, by a label that its parent's place completes, or not at all.
How == {"exact", "label", "parent", "none"}

Relation == {"contains", "inherits", "imports"}
Edge == [source : Node, target : Node, relation : Relation, intent : Intent]

\* system nodes are of a level above CODE and PACKAGE.
Design == [node : [Node -> [intent : Intent, how : How, external : BOOLEAN]],
           edges : SUBSET Edge]

\* A declaration is missing, differs from the design's signature, docstring or
\* kind, or agrees with it; bases: who inherits from whom in the code.
Code == [decl : [Node -> {"absent", "wrong", "right"}],
         bases : SUBSET (Node \X Node)]

-----------------------------------------------------------------------------
(* Places. *)

InRepository(d, n) == ~d.node[n].external

\* A parent completes a file name, or a symbol when it is itself a source file.
Completes(n) == Kind[n] = "module" \/ Kind[Parent[n]] \in {"module", "symbol"}

\* _prepare_target_node: the nodes whose place is known or can be derived.
Located(d) ==
    LET located[n \in Node] ==
            \/ d.node[n].how \in {"exact", "label"}
            \/ /\ d.node[n].how = "parent" /\ Parent[n] # NoNode
               /\ located[Parent[n]] /\ Completes(n)
    IN  {n \in Node : located[n]}

\* The analyser extracts Python modules and their symbols, nothing else.
Observed(code) == {n \in Node : /\ Kind[n] \in {"module", "symbol"}
                                /\ code.decl[n] # "absent"}

-----------------------------------------------------------------------------
(* compile_changeset. *)

NodeOp(kind, n) == [kind |-> kind, at |-> <<n>>]
EdgeOp(kind, e) == [kind |-> kind, at |-> <<e.source, e.target, e.relation>>]
IsNodeOp(op) == op.kind \in {"CREATE_NODE", "MODIFY_NODE", "REMOVE_NODE"}

WithIntent(d, intent) == {n \in Node : d.node[n].intent = intent}

RequiresTarget(d, n) == InRepository(d, n) /\ Kind[n] # "system"

\* The nodes whose place is observed.
Resolved(d, obs) == Located(d) \cap obs

Issues(d, obs) ==
    {n \in WithIntent(d, "CREATE") : RequiresTarget(d, n) /\ n \notin Located(d)}
    \cup ((WithIntent(d, "CHANGE") \cup WithIntent(d, "REMOVE"))
            \ Resolved(d, obs))

Skipped(d, obs) == WithIntent(d, "CREATE") \cap Resolved(d, obs)

\* Mutant of Operations: what exists is created again.
OperationsAgain(d, obs) ==
    {NodeOp("CREATE_NODE", n) : n \in WithIntent(d, "CREATE") \ Issues(d, obs)}
    \cup {NodeOp("MODIFY_NODE", n) :
            n \in WithIntent(d, "CHANGE") \cap Resolved(d, obs)}
    \cup {NodeOp("REMOVE_NODE", n) :
            n \in WithIntent(d, "REMOVE") \cap Resolved(d, obs)}
    \cup {EdgeOp("CONNECT", e) : e \in {x \in d.edges : x.intent = "CREATE"}}
    \cup {EdgeOp("DISCONNECT", e) : e \in {x \in d.edges : x.intent = "REMOVE"}}

Operations(d, obs) ==
    {NodeOp("CREATE_NODE", n) : n \in WithIntent(d, "CREATE")
                                  \ (Skipped(d, obs) \cup Issues(d, obs))}
    \cup {NodeOp("MODIFY_NODE", n) :
            n \in WithIntent(d, "CHANGE") \cap Resolved(d, obs)}
    \cup {NodeOp("REMOVE_NODE", n) :
            n \in WithIntent(d, "REMOVE") \cap Resolved(d, obs)}
    \cup {EdgeOp("CONNECT", e) : e \in {x \in d.edges : x.intent = "CREATE"}}
    \cup {EdgeOp("DISCONNECT", e) : e \in {x \in d.edges : x.intent = "REMOVE"}}

Compile(d, obs) == [operations |-> Operations(d, obs),
                    skipped |-> Skipped(d, obs), issues |-> Issues(d, obs)]

\* verification_level of an operation.
HardRelation == {"contains", "inherits"}
IsHard(d, op) == IF IsNodeOp(op) THEN InRepository(d, op.at[1])
                                 ELSE op.at[3] \in HardRelation
=============================================================================
