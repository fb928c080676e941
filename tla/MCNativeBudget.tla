--------------------------- MODULE MCNativeBudget ---------------------------
(***************************************************************************)
(* Main guards its calls with a catch_all; f has a region that names the   *)
(* tag around one that catches everything by reference; g, in the runs     *)
(* where the dispatcher emits it, has no region.  Weights 2, 3 and 2       *)
(* against a budget of 10 give stacks of up to five lowered frames, and    *)
(* every way to exceed the budget.                                         *)
(***************************************************************************)
EXTENDS NativeBudget

CONSTANTS main, f, g, tag

MCStructured == {main, f}
MCFunctions == {main, f, g}
MCLocals == [x \in Functions |-> IF x = f THEN 2 ELSE 1]
MCTries == [x \in Functions |-> CASE x = main -> {"m"}
                                  [] x = f -> {"outer", "inner"}
                                  [] x = g -> {}]
MCEnclosing == [x \in Functions |->
                  [t \in Tries[x] |-> IF t = "inner" THEN "outer" ELSE TopLevel]]
MCClauses == [x \in Functions |->
                [t \in Tries[x] |-> CASE t = "m" -> {CatchAll}
                                      [] t = "outer" -> {tag}
                                      [] t = "inner" -> {CatchAllRef}]]
MCTags == {tag}
=============================================================================
