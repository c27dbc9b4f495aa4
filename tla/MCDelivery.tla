----------------------------- MODULE MCDelivery -----------------------------
(* Small instances of Delivery for TLC. *)
EXTENDS Delivery

CONSTANTS m, c, b      \* a module and two of its classes

MCKind == [n \in Node |-> IF n = m THEN "module" ELSE "symbol"]
MCParent == [n \in Node |-> IF n = m THEN NoNode ELSE m]
MCFile == [n \in Node |-> m]
MCUnknown == [kind |-> "CREATE_NODE", at |-> <<NoNode>>]

Place(intent, how) == [intent |-> intent, how |-> how, external |-> FALSE]
Outside(intent) == [intent |-> intent, how |-> "none", external |-> TRUE]
Kept == Place("KEEP", "exact")

Drawing(atM, atC, atB, edges) ==
    [node |-> [n \in Node |-> CASE n = m -> atM [] n = c -> atC [] n = b -> atB],
     edges |-> edges]

Inheritance(intent) == [source |-> c, target |-> b, relation |-> "inherits",
                        intent |-> intent]
Containment(intent) == [source |-> m, target |-> c, relation |-> "contains",
                        intent |-> intent]
Import(intent) == [source |-> c, target |-> b, relation |-> "imports",
                   intent |-> intent]

\* A class and its base, drawn exactly or placed by label or parent; a change
\* and a removal; things outside the repository; edges of each relation.
MCDesigns ==
    {Drawing(Kept, Place("CREATE", how), Kept, edges) :
        how \in {"exact", "parent"},
        edges \in {{}, {Inheritance("CREATE")}, {Containment("CREATE")}}}
    \cup {Drawing(Place("CREATE", "exact"), Place("CREATE", "exact"), Kept, {}),
          Drawing(Place("CREATE", "label"), Place("CREATE", "parent"), Kept, {}),
          Drawing(Kept, Place("CHANGE", "exact"), Place("REMOVE", "exact"), {}),
          Drawing(Kept, Place("CHANGE", "exact"), Kept, {Inheritance("REMOVE")}),
          Drawing(Kept, Kept, Place("REMOVE", "parent"), {Import("CREATE")}),
          Drawing(Kept, Place("CREATE", "none"), Outside("CREATE"),
                  {Import("REMOVE")}),
          Drawing(Kept, Place("CREATE", "exact"), Outside("CREATE"),
                  {Inheritance("CHANGE")})}

Tree(atM, atC, atB, bases) ==
    [decl |-> [n \in Node |-> CASE n = m -> atM [] n = c -> atC [] n = b -> atB],
     bases |-> bases]

\* Without the module there is nothing; a class may be missing, wrong or right.
MCCodes ==
    {Tree("absent", "absent", "absent", {})}
    \cup ({Tree("right", atC, atB, bases) :
            atC \in {"absent", "wrong", "right"}, atB \in {"absent", "right"},
            bases \in {{}, {<<c, b>>}}}
    \ {Tree("right", "absent", atB, {<<c, b>>}) : atB \in {"absent", "right"}})

\* In any order, the second before the first and before a task that is not in
\* the plan, each waiting for the other.
MCDeps == {[t \in Task |-> {}],
           [t \in Task |-> IF t = 1 THEN {2, Stranger} ELSE {}],
           [t \in Task |-> IF t = 1 THEN {2} ELSE {}],
           [t \in Task |-> Task \ {t}]}
=============================================================================
