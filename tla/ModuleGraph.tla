---------------------------- MODULE ModuleGraph ----------------------------
(***************************************************************************)
(* The front end's walk over the modules of a program: psrs-resolve orders *)
(* them along their imports and resolves each against the interfaces of    *)
(* the ones before it; psrs-driver desugars and kind checks what resolved, *)
(* orders it again and type checks every module whose dependencies were    *)
(* checked.  A strict build stops at the first failing stage; the lenient  *)
(* checks go on with what is left; a complete build makes every consumer   *)
(* depend on the whole support prefix.                                     *)
(*                                                                         *)
(* A module is its index in the source list (ModuleId).  What a stage      *)
(* finds wrong with a module is an input.  The compiler's own modules      *)
(* have no edges and count as checked: they are left out.                  *)
(***************************************************************************)
EXTENDS Integers, Sequences, FiniteSets

CONSTANT N    \* the number of sources

ASSUME SourcesAssumption == N \in Nat

Sources == 0 .. N - 1
Modes == {"strict", "complete", "lenient"}
Stages == {"parse", "missing", "import", "resolve", "desugar", "kind", "type"}
Kinds == Stages \cup {"cycle", "dependency"}

VARIABLES
    mode, prefix,  \* which entry point, and the sources it prepended
    imports,       \* the sources every module imports
    faults,        \* what is wrong with a module: <<module, stage>>
    phase,         \* the stage that runs
    errors,        \* the diagnostics: <<module, kind>>
    root, slots,   \* the loop over the roots of the walk
    mark,          \* the state of every module in it
    path, left,    \* the open visits, and the edges each has still to follow
    order,         \* the modules in the order their visits ended
    todo,          \* the next one of them to work on
    resolved,      \* the modules that reached the next stage
    deps,          \* module_dependencies
    checked,       \* the modules with a checked interface
    visible        \* whose instances a checked module could see

inputs == <<mode, prefix, imports, faults>>
walk == <<root, slots, mark, path, left, order>>
vars == <<inputs, walk, phase, errors, todo, resolved, deps, checked, visible>>

Strict == mode # "lenient"
Found(stage) == {e \in faults : e[2] = stage}
Failing(stage) == {m \in Sources : <<m, stage>> \in faults}

-----------------------------------------------------------------------------
(* resolve_program_partial: reading *)

\* A strict build ends once a stage has reported something.
Advance(next) == phase' = IF Strict /\ errors' # {} THEN "done" ELSE next

\* A source that does not parse, or repeats a module name, ends either kind.
Unreadable == /\ phase = "read" /\ Found("parse") # {}
              /\ errors' = Found("parse")
              /\ phase' = "done"
              /\ UNCHANGED <<inputs, walk, todo, resolved, deps, checked, visible>>

\* build_edges: an import of no source is reported and has no edge.
BuildEdges == /\ phase = "read" /\ Found("parse") = {}
              /\ errors' = Found("missing")
              /\ Advance("sort")
              /\ UNCHANGED <<inputs, walk, todo, resolved, deps, checked, visible>>

-----------------------------------------------------------------------------
(* topological_order and typecheck_order: depth first, in post-order *)

Edges == IF phase = "sort" THEN imports ELSE deps
Walking == phase \in {"sort", "order"}
Top == path[Len(path)]

Entered(m) == /\ mark' = [mark EXCEPT ![m] = "visiting"]
              /\ left' = [left EXCEPT ![m] = Edges[m]]
              /\ path' = Append(path, m)

VisitRoot == /\ Walking /\ path = <<>> /\ root < slots
             /\ root' = root + 1
             /\ IF mark[root] = "unvisited" THEN Entered(root) ELSE UNCHANGED <<mark, path, left>>
             /\ UNCHANGED <<inputs, slots, order, phase, errors, todo, resolved, deps, checked,
                            visible>>

VisitEdge == /\ Walking /\ path # <<>>
             /\ \E t \in left[Top] :
                  /\ mark[t] = "unvisited"
                  /\ mark' = [mark EXCEPT ![t] = "visiting"]
                  /\ left' = [left EXCEPT ![Top] = @ \ {t}, ![t] = Edges[t]]
                  /\ path' = Append(path, t)
             /\ UNCHANGED <<inputs, root, slots, order, phase, errors, todo, resolved, deps,
                            checked, visible>>

\* Mutant: every module met before counts as done.
SkipEdgeSilently ==
    /\ Walking /\ path # <<>>
    /\ \E t \in left[Top] : mark[t] # "unvisited" /\ left' = [left EXCEPT ![Top] = @ \ {t}]
    /\ UNCHANGED <<inputs, root, slots, mark, path, order, phase, errors, todo, resolved, deps,
                   checked, visible>>

\* Only the resolver tells an open visit from an ended one.
SkipEdge == /\ Walking /\ path # <<>>
            /\ \E t \in left[Top] :
                 /\ mark[t] # "unvisited"
                 /\ left' = [left EXCEPT ![Top] = @ \ {t}]
                 /\ errors' = IF phase = "sort" /\ mark[t] = "visiting"
                              THEN errors \cup {<<Top, "cycle">>} ELSE errors
            /\ UNCHANGED <<inputs, root, slots, mark, path, order, phase, todo, resolved, deps,
                           checked, visible>>

\* Mutant: importers first.
EndVisitReversed == /\ Walking /\ path # <<>> /\ left[Top] = {}
                    /\ mark' = [mark EXCEPT ![Top] = "done"]
                    /\ order' = <<Top>> \o order
                    /\ path' = SubSeq(path, 1, Len(path) - 1)
                    /\ UNCHANGED <<inputs, root, slots, left, phase, errors, todo, resolved, deps,
                                   checked, visible>>

EndVisit == /\ Walking /\ path # <<>> /\ left[Top] = {}
            /\ mark' = [mark EXCEPT ![Top] = "done"]
            /\ order' = Append(order, Top)
            /\ path' = SubSeq(path, 1, Len(path) - 1)
            /\ UNCHANGED <<inputs, root, slots, left, phase, errors, todo, resolved, deps,
                           checked, visible>>

WalkEnds == Walking /\ path = <<>> /\ root = slots

Sorted == /\ WalkEnds /\ phase = "sort"
          /\ errors' = errors
          /\ Advance("resolve")
          /\ todo' = 1
          /\ UNCHANGED <<inputs, walk, resolved, deps, checked, visible>>

-----------------------------------------------------------------------------
(* resolve_program_partial: resolution *)

\* A module that imports what is not exported is reported and still resolved.
Resolve == /\ phase = "resolve" /\ todo <= Len(order)
           /\ errors' = errors \cup {<<order[todo], s>> : s \in {s \in {"import", "resolve"} :
                                                              <<order[todo], s>> \in faults}}
           /\ resolved' = resolved \cup ({order[todo]} \ Failing("resolve"))
           /\ todo' = todo + 1
           /\ UNCHANGED <<inputs, walk, phase, deps, checked, visible>>

Resolved == /\ phase = "resolve" /\ todo > Len(order)
            /\ errors' = errors
            /\ Advance("desugar")
            /\ UNCHANGED <<inputs, walk, todo, resolved, deps, checked, visible>>

-----------------------------------------------------------------------------
(* typecheck_resolved_program_with_warnings, check_program_types_lenient *)

\* desugar_resolved drops what does not desugar.
Desugar == /\ phase = "desugar"
           /\ errors' = errors \cup {e \in Found("desugar") : e[1] \in resolved}
           /\ resolved' = resolved \ Failing("desugar")
           /\ Advance("kinds")
           /\ UNCHANGED <<inputs, walk, todo, deps, checked, visible>>

\* The modules every source depends on: its imports and, for a consumer of a
\* complete build, the support prefix.
Needs == [m \in Sources |->
            imports[m] \cup (IF mode = "complete" /\ m >= prefix THEN 0 .. prefix - 1 ELSE {})]

\* Mutant: the tables are filled by position among the modules that are left.
DependenciesByPosition ==
    [m \in Sources |->
        UNION {Needs[r] : r \in {r \in resolved : Cardinality({q \in resolved : q < r}) = m}}]

\* module_table: a source that is absent has an empty slot.
Dependencies == [m \in Sources |-> IF m \in resolved THEN Needs[m] ELSE {}]

\* One slot for every index up to the last one that is left.
SlotCount == Cardinality({m \in Sources : \E r \in resolved : m <= r})

\* psrs_kind::check_program, for the whole program; then the tables.
CheckKinds == /\ phase = "kinds"
              /\ errors' = errors \cup {e \in Found("kind") : e[1] \in resolved}
              /\ deps' = Dependencies
              /\ slots' = SlotCount
              /\ mark' = [m \in Sources |-> IF m < SlotCount THEN "unvisited" ELSE "done"]
              /\ root' = 0 /\ order' = <<>> /\ todo' = 1
              /\ phase' = "order"
              /\ UNCHANGED <<inputs, path, left, resolved, checked, visible>>

Ordered == /\ WalkEnds /\ phase = "order"
           /\ phase' = "check"
           /\ UNCHANGED <<inputs, walk, errors, todo, resolved, deps, checked, visible>>

\* Mutant: the instances of the direct dependencies only.
DirectInstances(m) == deps[m]

\* imported_instance_declarations: a worklist over the dependencies.  It holds
\* those of m and of every visited module; a visited one is dropped.
Stacked(m, visited) == (deps[m] \cup UNION {deps[d] : d \in visited}) \ visited

Instances(m) ==
    LET seen[visited \in SUBSET Sources] ==
          IF Stacked(m, visited) = {} THEN visited
          ELSE seen[visited \cup {CHOOSE d \in Stacked(m, visited) : TRUE}]
    IN  seen[{}]

Absent(m) == m \notin resolved \/ m \in Failing("kind")

\* dependencies_checked
DependenciesChecked(m) == deps[m] \subseteq checked

\* Mutant: a module whose dependencies failed is passed over in silence.
CheckTypesSilently ==
    /\ phase = "check" /\ todo <= Len(order)
    /\ todo' = todo + 1
    /\ LET m == order[todo] IN
       \/ /\ Absent(m) \/ ~DependenciesChecked(m)
          /\ UNCHANGED <<errors, checked, visible>>
       \/ /\ ~Absent(m) /\ DependenciesChecked(m)
          /\ visible' = [visible EXCEPT ![m] = Instances(m)]
          /\ IF <<m, "type">> \in faults
             THEN errors' = errors \cup {<<m, "type">>} /\ checked' = checked
             ELSE errors' = errors /\ checked' = checked \cup {m}
    /\ UNCHANGED <<inputs, walk, phase, resolved, deps>>

\* Only what failed nowhere before, and whose dependencies passed, is checked.
CheckTypes ==
    /\ phase = "check" /\ todo <= Len(order)
    /\ todo' = todo + 1
    /\ LET m == order[todo] IN
       \/ /\ Absent(m)
          /\ UNCHANGED <<errors, checked, visible>>
       \/ /\ ~Absent(m) /\ ~DependenciesChecked(m)
          /\ errors' = IF errors = {} THEN {<<m, "dependency">>} ELSE errors
          /\ UNCHANGED <<checked, visible>>
       \/ /\ ~Absent(m) /\ DependenciesChecked(m)
          /\ visible' = [visible EXCEPT ![m] = Instances(m)]
          /\ IF <<m, "type">> \in faults
             THEN errors' = errors \cup {<<m, "type">>} /\ checked' = checked
             ELSE errors' = errors /\ checked' = checked \cup {m}
    /\ UNCHANGED <<inputs, walk, phase, resolved, deps>>

Finish == /\ phase = "check" /\ todo > Len(order)
          /\ phase' = "done"
          /\ UNCHANGED <<inputs, walk, errors, todo, resolved, deps, checked, visible>>

-----------------------------------------------------------------------------
Init == /\ mode \in Modes /\ prefix \in 0 .. N
        /\ mode # "complete" => prefix = 0
        /\ imports \in [Sources -> SUBSET Sources]
        /\ faults \in SUBSET (Sources \X Stages)
        /\ phase = "read" /\ errors = {}
        /\ root = 0 /\ slots = N
        /\ mark = [m \in Sources |-> "unvisited"]
        /\ path = <<>> /\ left = [m \in Sources |-> {}]
        /\ order = <<>> /\ todo = 1
        /\ resolved = {} /\ deps = [m \in Sources |-> {}]
        /\ checked = {} /\ visible = [m \in Sources |-> {}]

Next == \/ Unreadable \/ BuildEdges
        \/ VisitRoot \/ VisitEdge \/ SkipEdge \/ EndVisit
        \/ Sorted \/ Resolve \/ Resolved
        \/ Desugar \/ CheckKinds \/ Ordered \/ CheckTypes \/ Finish

Spec == Init /\ [][Next]_vars

-----------------------------------------------------------------------------
(* Properties *)

\* A finite graph has a cycle iff some modules all lead back among themselves.
Cyclic(graph) == \E S \in SUBSET Sources : S # {} /\ \A m \in S : graph[m] \cap S # {}

\* What m depends on, directly or transitively.
Closure(graph, m) ==
    {t \in Sources : \A S \in SUBSET Sources :
        (graph[m] \subseteq S /\ \A s \in S : graph[s] \subseteq S) => t \in S}

CycleReported == \E m \in Sources : <<m, "cycle">> \in errors

\* The resolver reports an import cycle exactly when there is one, wherever the
\* walk starts and in whichever order it follows the imports.
CyclesReported ==
    /\ CycleReported => Cyclic(imports)
    /\ phase \in {"resolve", "desugar", "kinds", "order", "check"} /\ Cyclic(imports) =>
          CycleReported

\* Dependencies come first: as long as nothing was reported a module is
\* resolved against the interfaces of all its imports, and one is checked only
\* against checked interfaces, in either kind of build.
DependenciesFirst ==
    /\ phase = "resolve" /\ todo <= Len(order) /\ errors = {} =>
          imports[order[todo]] \subseteq resolved
    /\ \A m \in checked : Needs[m] \subseteq checked

\* A module sees the instances of what it depends on, directly or not, and no
\* others, whatever else the program holds or has lost.
InstancesInScope == \A m \in checked : visible[m] = Closure(Needs, m)

\* The program is accepted exactly when no stage finds a fault and no module
\* depends on itself; then every module was checked.
VerdictIsRight ==
    phase = "done" =>
        /\ errors = {} <=> faults = {} /\ ~Cyclic(Needs)
        /\ errors = {} => checked = Sources

\* Every module the type checker passed over depends on one with a diagnostic
\* of its own, provided the support prefix imports no consumer.
SkipsExplained ==
    /\ phase = "check" /\ todo > Len(order)
    /\ mode = "complete" => \A m \in 0 .. prefix - 1 : imports[m] \subseteq 0 .. prefix - 1
    =>
    \A m \in Sources \ checked :
        \E n \in {m} \cup Closure(Needs, m) : \E k \in Kinds \ {"dependency"} : <<n, k>> \in errors
=============================================================================
