---------------------------- MODULE MCStructurer ----------------------------
(***************************************************************************)
(* Structurer over families of graphs.  A block that cannot be reached has *)
(* no targets, and at most one block throws.                               *)
(***************************************************************************)
EXTENDS Structurer

CONSTANT Shapes

\* A shape: the entry, the regions by try block, the other blocks in use, where
\* these may lead, and to how many targets.
Plain(n, most) ==
    {[entry |-> 1, tries |-> <<>>, free |-> 0 .. n, targets |-> 0 .. n, most |-> most]}

OneRegion(start, free, targets, caught) ==
    {[entry |-> start,
      tries |-> [t \in {1} |-> [entry |-> 2, handler |-> 3, exit |-> x, catches |-> caught]],
      free |-> free, targets |-> targets, most |-> 2] : x \in {NoBlock, 4}}

NestedRegions(inner, outer) ==
    {[entry |-> 0,
      tries |-> [t \in {0, 1} |->
                    IF t = 0 THEN [entry |-> 1, handler |-> 4, exit |-> NoBlock, catches |-> outer]
                    ELSE [entry |-> 2, handler |-> 3, exit |-> x, catches |-> inner]],
      free |-> {2, 3, 4, 5}, targets |-> {0, 5}, most |-> 2] : x \in {NoBlock, 5}}

SmallGraphs == Plain(2, 2)
AllGraphs == Plain(3, 3)
             \cup OneRegion(0, {0, 2, 3, 4}, {0, 1, 4}, {"x"})
             \cup OneRegion(1, {2, 3, 4, 5}, {4, 5}, {"x"})
             \cup NestedRegions({"x"}, {"x", "y"})

MCInit ==
    /\ \E s \in Shapes : \E g \in [s.free -> {T \in SUBSET s.targets : Cardinality(T) <= s.most}] :
          LET succ == [b \in Blocks |-> IF b \in DOMAIN s.tries THEN {s.tries[b].entry}
                                        ELSE IF b \in s.free THEN g[b] ELSE {}]
              made(T) == [entry |-> s.entry, succ |-> succ, throws |-> T, tries |-> s.tries,
                          raw |-> <<>>, edges |-> <<>>]
              reached == Reachable(made({}), SeedEdges(made({})))
          IN  /\ \A b \in Blocks \ reached : succ[b] = {}
              /\ DOMAIN s.tries \subseteq reached
              /\ \E T \in {{}} \cup {{b} : b \in {b \in reached : succ[b] = {}}} : function = made(T)
    /\ Lowered(function)
    /\ Start

MCSpec == MCInit /\ [][Next]_vars
=============================================================================
