------------------------- MODULE ModuleGraphProofs -------------------------
(***************************************************************************)
(* ModuleGraph for every number of sources, every import graph and every   *)
(* choice of faults: cycles are reported exactly when there are any,       *)
(* dependencies come first, the verdict is the right one, a module that    *)
(* was passed over has a cause, and the instances a module sees are those  *)
(* of its closure.                                                         *)
(*                                                                         *)
(* The depth-first walk is proved once, over the graph Edges of the stage  *)
(* that runs it.  No path argument is needed: a cycle is a nonempty set of *)
(* modules each with an edge into it, and the ended visits never hold one. *)
(* Nor does blame need one: the modules that depend on no diagnostic are   *)
(* closed under dependencies, and each of them is checked when it comes up.*)
(***************************************************************************)
EXTENDS ModuleGraph, StackLemmas

-----------------------------------------------------------------------------
(* The inductive invariant *)

Phases == {"read", "sort", "resolve", "desugar", "kinds", "order", "check", "done"}

TypeOK ==
    /\ mode \in Modes /\ prefix \in 0 .. N
    /\ imports \in [Sources -> SUBSET Sources]
    /\ faults \subseteq Sources \X Stages
    /\ phase \in Phases /\ errors \subseteq Sources \X Kinds
    /\ root \in 0 .. N /\ slots \in 0 .. N
    /\ mark \in [Sources -> {"unvisited", "visiting", "done"}]
    /\ path \in Seq(Sources) /\ left \in [Sources -> SUBSET Sources]
    /\ order \in Seq(Sources) /\ todo \in Nat \ {0}
    /\ resolved \subseteq Sources /\ deps \in [Sources -> SUBSET Sources]
    /\ checked \subseteq Sources

Outside == {m \in Sources : m >= slots}
Done == {m \in Sources : mark[m] = "done"}
Before(i) == {order[j] : j \in 1 .. i - 1}

NoCycleIn(graph, S) == \A T \in SUBSET S : T # {} => \E m \in T : graph[m] \cap T = {}

\* The modules at which the walk has met no cycle, or can meet none.
Calm == IF phase = "sort" THEN {m \in Sources : <<m, "cycle">> \notin errors}
        ELSE {m \in Sources : NoCycleIn(deps, {m} \cup Closure(deps, m))}

\* The open visits are a path, each module on it once.
PathOK ==
    /\ \A i \in 1 .. Len(path) : mark[path[i]] = "visiting" /\ left[path[i]] \subseteq Edges[path[i]]
    /\ \A i, j \in 1 .. Len(path) : path[i] = path[j] => i = j
    /\ \A m \in Sources : mark[m] = "visiting" => \E i \in 1 .. Len(path) : path[i] = m
    /\ \A i \in 1 .. Len(path) - 1 : path[i + 1] \in Edges[path[i]]

\* An edge that was followed leads to an ended visit or to the next open one.
FollowedOK ==
    \A i \in 1 .. Len(path) : path[i] \in Calm =>
        \A t \in Edges[path[i]] \ left[path[i]] :
            mark[t] = "done" \/ (i < Len(path) /\ t = path[i + 1])

OrderHoldsDone ==
    \A m \in Sources : mark[m] = "done" <=> (m \in Outside \/ \E j \in 1 .. Len(order) : order[j] = m)

CalmFirst ==
    \A i \in 1 .. Len(order) : order[i] \in Calm => Edges[order[i]] \subseteq Before(i) \cup Outside

Topological(graph) == \A i \in 1 .. Len(order) : graph[order[i]] \subseteq Before(i) \cup Outside

RootOK == \A m \in Sources : m < root => mark[m] # "unvisited"

WalkOK == /\ PathOK /\ FollowedOK /\ OrderHoldsDone /\ RootOK
          /\ CalmFirst
          /\ \A m \in Outside : Edges[m] = {}

\* While the resolver walks, and after it.
SortOK ==
    /\ phase = "read" => errors = {}
    /\ CycleReported => Cyclic(imports)
    /\ phase \in {"read", "sort", "resolve", "desugar", "kinds"} => slots = N
    /\ phase = "sort" /\ ~CycleReported => NoCycleIn(imports, Done)
    /\ phase \in {"resolve", "desugar", "kinds", "order", "check"} /\ ~CycleReported =>
          ~Cyclic(imports)
    /\ phase = "resolve" /\ ~CycleReported => Topological(imports)
    /\ phase \in {"resolve", "desugar", "kinds"} =>
          path = <<>> /\ \A m \in Sources : \E j \in 1 .. Len(order) : order[j] = m

\* Before the first walk nothing is marked; the second one starts afresh.
StartOK ==
    phase = "read" =>
        /\ path = <<>> /\ order = <<>> /\ root = 0
        /\ mark = [m \in Sources |-> "unvisited"]

DepsOK ==
    /\ phase \in {"order", "check"} => \A m \in Sources :
          deps[m] = IF m \in resolved THEN Needs[m] ELSE {}
    /\ phase = "order" => todo = 1
    /\ phase = "check" => path = <<>> /\ root = slots

CheckedOK ==
    /\ phase \notin {"check", "done"} => checked = {}
    /\ checked \subseteq resolved
    /\ \A m \in checked : Needs[m] \subseteq checked /\ <<m, "type">> \notin faults
    /\ NoCycleIn(Needs, checked)

NoFault(stages) == \A s \in stages : Failing(s) = {}

\* As long as nothing was reported, nothing was lost.
CleanOK ==
    errors = {} =>
        /\ phase # "read" => NoFault({"parse", "missing"})
        /\ phase = "resolve" => \A m \in Before(todo) :
              m \in resolved /\ m \notin Failing("import") \cup Failing("resolve")
        /\ phase \in {"desugar", "kinds", "order", "check"} =>
              resolved = Sources /\ NoFault({"import", "resolve"})
        /\ phase \in {"kinds", "order", "check"} => NoFault({"desugar"})
        /\ phase \in {"order", "check"} => NoFault({"kind"}) /\ slots = N
        /\ phase = "check" => todo <= Len(order) + 1 /\ Before(todo) \subseteq checked
        /\ phase = "done" => checked = Sources /\ faults = {} /\ ~Cyclic(Needs)

\* A program in order is never complained about.
WellOK == faults = {} /\ ~Cyclic(Needs) => errors = {}

IInv == /\ TypeOK /\ StartOK /\ SortOK /\ DepsOK /\ CheckedOK /\ CleanOK /\ WellOK
        /\ phase \in {"sort", "order", "check"} => WalkOK
        /\ phase = "resolve" => todo <= Len(order) + 1
-----------------------------------------------------------------------------
(* What a module depends on *)

\* The dependencies of a dependency are dependencies.
LEMMA ClosureStep ==
    ASSUME NEW graph \in [Sources -> SUBSET Sources], NEW m \in Sources, NEW d \in graph[m]
    PROVE  {d} \cup Closure(graph, d) \subseteq Closure(graph, m)
<1>1. ASSUME NEW S \in SUBSET Sources, graph[m] \subseteq S, \A s \in S : graph[s] \subseteq S
      PROVE  d \in S /\ graph[d] \subseteq S
  BY <1>1
<1>2. QED BY <1>1 DEF Closure

\* They lie in every set that holds m and the dependencies of its members.
LEMMA ClosureLeast ==
    ASSUME NEW graph, NEW S \in SUBSET Sources, NEW m \in S, \A s \in S : graph[s] \subseteq S
    PROVE  {m} \cup Closure(graph, m) \subseteq S
BY DEF Closure

\* They are closed under dependencies themselves.
LEMMA ClosureClosed ==
    ASSUME NEW graph \in [Sources -> SUBSET Sources], NEW m \in Sources,
           NEW t \in {m} \cup Closure(graph, m)
    PROVE  graph[t] \subseteq Closure(graph, m)
BY DEF Closure

-----------------------------------------------------------------------------
(* The walk *)

LEMMA EdgesTyped ==
    ASSUME TypeOK PROVE Edges \in [Sources -> SUBSET Sources]
BY DEF TypeOK, Edges

\* Every module on the path is a source, and Top is the last of them.
LEMMA PathFacts ==
    ASSUME TypeOK
    PROVE  /\ Len(path) \in Nat
           /\ \A i \in 1 .. Len(path) : path[i] \in Sources
           /\ path # <<>> => Len(path) > 0 /\ Top \in Sources
           /\ Len(order) \in Nat
           /\ \A i \in 1 .. Len(order) : order[i] \in Sources
BY DEF TypeOK, Top

\* An edge back to an open visit closes a cycle, which Top and the visit are on.
LEMMA BackEdge ==
    ASSUME TypeOK, PathOK, path # <<>>, NEW k \in 1 .. Len(path), path[k] \in Edges[Top]
    PROVE  \E S \in SUBSET Sources : path[k] \in S /\ \A m \in S : Edges[m] \cap S # {}
<1> DEFINE S == {path[j] : j \in k .. Len(path)}
<1>1. S \in SUBSET Sources /\ path[k] \in S
  BY PathFacts
<1>2. ASSUME NEW m \in S PROVE Edges[m] \cap S # {}
  <2>1. PICK j \in k .. Len(path) : m = path[j]
    OBVIOUS
  <2>2. CASE j = Len(path)
    BY <2>1, <2>2, PathFacts DEF Top
  <2>3. CASE j < Len(path)
    <3>1. path[j + 1] \in Edges[path[j]]
      BY <2>3, PathFacts DEF PathOK
    <3>2. j + 1 \in k .. Len(path)
      BY <2>3, PathFacts
    <3>3. QED BY <2>1, <3>1, <3>2
  <2>4. QED BY <2>2, <2>3, PathFacts
<1>3. QED BY <1>1, <1>2

\* A module the second walk is calm at is on no cycle.
LEMMA CalmHasNoCycle ==
    ASSUME TypeOK, phase # "sort", NEW m \in Calm, NEW S \in SUBSET Sources,
           S \cap deps[m] # {}
    PROVE  \E t \in S : deps[t] \cap S = {}
<1> DEFINE C == {m} \cup Closure(deps, m)
<1>1. m \in Sources /\ NoCycleIn(deps, C)
  BY DEF Calm
<1>2. deps \in [Sources -> SUBSET Sources]
  BY DEF TypeOK
<1>3. \A t \in C : deps[t] \subseteq C
  BY <1>1, <1>2, ClosureClosed
<1>4. S \cap C # {}
  BY <1>3
<1>5. PICK t \in S \cap C : deps[t] \cap (S \cap C) = {}
  BY <1>1, <1>4 DEF NoCycleIn
<1>6. QED BY <1>3, <1>5

WalkStep == VisitRoot \/ VisitEdge \/ SkipEdge \/ EndVisit

\* What no step of a walk touches.
LEMMA WalkFrame ==
    ASSUME WalkStep
    PROVE  /\ phase' = phase /\ imports' = imports /\ deps' = deps /\ slots' = slots
           /\ mode' = mode /\ prefix' = prefix /\ faults' = faults
           /\ todo' = todo /\ resolved' = resolved /\ checked' = checked
           /\ Edges' = Edges /\ Outside' = Outside /\ Needs' = Needs
           /\ Cyclic(imports)' = Cyclic(imports)
           /\ errors' = errors => Calm' = Calm
<1>1. /\ phase' = phase /\ imports' = imports /\ deps' = deps /\ slots' = slots
      /\ mode' = mode /\ prefix' = prefix /\ faults' = faults
      /\ todo' = todo /\ resolved' = resolved /\ checked' = checked
  BY DEF WalkStep, VisitRoot, VisitEdge, SkipEdge, EndVisit, inputs
<1>2. errors' = errors => Calm' = Calm
  BY <1>1 DEF Calm, NoCycleIn, Closure
<1>3. QED BY <1>1, <1>2 DEF Edges, Outside, Cyclic, Needs

LEMMA WalkTyped ==
    ASSUME TypeOK, Walking, WalkStep
    PROVE  TypeOK'
<1>1. /\ mode' \in Modes /\ prefix' \in 0 .. N
      /\ imports' \in [Sources -> SUBSET Sources]
      /\ faults' \subseteq Sources \X Stages
      /\ phase' \in Phases /\ slots' \in 0 .. N
      /\ todo' \in Nat \ {0} /\ resolved' \subseteq Sources
      /\ deps' \in [Sources -> SUBSET Sources] /\ checked' \subseteq Sources
  BY WalkFrame DEF TypeOK
<1>2. /\ root' \in 0 .. N /\ errors' \subseteq Sources \X Kinds
      /\ mark' \in [Sources -> {"unvisited", "visiting", "done"}]
      /\ path' \in Seq(Sources) /\ left' \in [Sources -> SUBSET Sources]
      /\ order' \in Seq(Sources)
  <2>1. CASE VisitRoot
    <3>1. root \in Sources /\ root' \in 0 .. N /\ errors' = errors /\ order' = order
      BY <2>1, SourcesAssumption DEF VisitRoot, TypeOK, Sources
    <3>2. CASE mark[root] = "unvisited"
      <4>1. /\ mark' = [mark EXCEPT ![root] = "visiting"]
            /\ left' = [left EXCEPT ![root] = Edges[root]] /\ path' = Append(path, root)
        BY <2>1, <3>2 DEF VisitRoot, Entered
      <4>2. mark' \in [Sources -> {"unvisited", "visiting", "done"}]
        BY <4>1, <3>1 DEF TypeOK
      <4>3. left' \in [Sources -> SUBSET Sources]
        BY <4>1, <3>1, EdgesTyped DEF TypeOK
      <4>4. path' \in Seq(Sources)
        BY <4>1, <3>1 DEF TypeOK
      <4>5. QED BY <3>1, <4>2, <4>3, <4>4 DEF TypeOK
    <3>3. CASE mark[root] # "unvisited"
      BY <2>1, <3>1, <3>3 DEF VisitRoot, TypeOK
    <3>4. QED BY <3>2, <3>3
  <2>2. CASE VisitEdge
    <3>1. PICK t \in left[Top] :
            /\ mark' = [mark EXCEPT ![t] = "visiting"]
            /\ left' = [left EXCEPT ![Top] = @ \ {t}, ![t] = Edges[t]]
            /\ path' = Append(path, t)
      BY <2>2 DEF VisitEdge
    <3>2. Top \in Sources /\ t \in Sources /\ Edges[t] \subseteq Sources
      BY <2>2, EdgesTyped, PathFacts DEF VisitEdge, TypeOK
    <3>3. left' \in [Sources -> SUBSET Sources]
      BY <3>1, <3>2 DEF TypeOK
    <3>4. mark' \in [Sources -> {"unvisited", "visiting", "done"}] /\ path' \in Seq(Sources)
      BY <3>1, <3>2 DEF TypeOK
    <3>5. root' = root /\ errors' = errors /\ order' = order
      BY <2>2 DEF VisitEdge
    <3>6. QED BY <3>3, <3>4, <3>5 DEF TypeOK
  <2>3. CASE SkipEdge
    <3>1. Top \in Sources /\ <<Top, "cycle">> \in Sources \X Kinds
      BY <2>3, PathFacts DEF SkipEdge, Kinds
    <3>2. errors' = errors \/ errors' = errors \cup {<<Top, "cycle">>}
      BY <2>3 DEF SkipEdge
    <3>3. errors' \subseteq Sources \X Kinds
      BY <3>1, <3>2 DEF TypeOK
    <3>4. left' \in [Sources -> SUBSET Sources]
      BY <2>3, <3>1 DEF SkipEdge, TypeOK
    <3>5. root' = root /\ mark' = mark /\ path' = path /\ order' = order
      BY <2>3 DEF SkipEdge
    <3>6. QED BY <3>3, <3>4, <3>5 DEF TypeOK
  <2>4. CASE EndVisit
    BY <2>4, PathFacts, PopFacts DEF EndVisit, TypeOK
  <2>5. QED BY <2>1, <2>2, <2>3, <2>4 DEF WalkStep
<1>3. QED BY <1>1, <1>2 DEF TypeOK

\* A visit opens: of a root, when the path is empty, or along an edge of Top.
LEMMA OpenStep ==
    ASSUME TypeOK, Walking, WalkOK, WalkStep, NEW m \in Sources,
           mark[m] = "unvisited",
           mark' = [mark EXCEPT ![m] = "visiting"],
           path' = Append(path, m), order' = order, errors' = errors,
           path # <<>> => m \in left[Top],
           \A n \in Sources : left'[n] = IF n = m THEN Edges[m]
                               ELSE IF path # <<>> /\ n = Top THEN left[n] \ {m} ELSE left[n],
           \A n \in Sources : n < root' => n < root \/ n = m
    PROVE  WalkOK'
<1> USE WalkFrame, PathFacts
<1>0. /\ Len(path') = Len(path) + 1 /\ path'[Len(path) + 1] = m
      /\ \A i \in 1 .. Len(path) : path'[i] = path[i] /\ path[i] # m
  BY DEF WalkOK, PathOK, TypeOK
<1>1. PathOK'
  <2>1. ASSUME NEW i \in 1 .. Len(path')
        PROVE  mark'[path'[i]] = "visiting" /\ left'[path'[i]] \subseteq Edges[path'[i]]
    <3>1. CASE i = Len(path) + 1
      <4>1. path'[i] = m /\ Edges' = Edges
        BY <1>0, <3>1
      <4>2. mark'[m] = "visiting" /\ left'[m] = Edges[m]
        BY DEF TypeOK
      <4>3. QED BY ONLY <4>1, <4>2
    <3>2. CASE i \in 1 .. Len(path)
      <4>1. path'[i] = path[i] /\ path[i] \in Sources /\ path[i] # m
        BY <1>0, <3>2
      <4>2. left'[path[i]] \subseteq left[path[i]]
        BY <4>1
      <4>3. mark[path[i]] = "visiting" /\ left[path[i]] \subseteq Edges[path[i]]
        BY <3>2 DEF WalkOK, PathOK
      <4>4. mark'[path[i]] = mark[path[i]]
        BY <4>1 DEF TypeOK
      <4>5. mark'[path'[i]] = "visiting"
        BY <4>1, <4>3, <4>4
      <4>6. left'[path'[i]] \subseteq Edges[path'[i]]
        BY ONLY <4>1, <4>2, <4>3
      <4>7. QED BY ONLY <4>5, <4>6
    <3>3. i = Len(path) + 1 \/ i \in 1 .. Len(path)
      BY <1>0
    <3>4. QED BY ONLY <3>1, <3>2, <3>3
  <2>2. ASSUME NEW i \in 1 .. Len(path'), NEW j \in 1 .. Len(path'), path'[i] = path'[j]
        PROVE  i = j
    <3>1. \A k, l \in 1 .. Len(path) : path[k] = path[l] => k = l
      BY DEF WalkOK, PathOK
    <3>2. QED BY <1>0, <2>2, <3>1
  <2>3. ASSUME NEW n \in Sources, mark'[n] = "visiting"
        PROVE  \E i \in 1 .. Len(path') : path'[i] = n
    <3>1. CASE n = m
      BY <1>0, <3>1
    <3>2. CASE n # m
      <4>1. PICK i \in 1 .. Len(path) : path[i] = n
        BY <2>3, <3>2 DEF WalkOK, PathOK, TypeOK
      <4>2. QED BY <4>1, <1>0
    <3>3. QED BY <3>1, <3>2
  <2>4. ASSUME NEW i \in 1 .. Len(path') - 1
        PROVE  path'[i + 1] \in Edges[path'[i]]
    <3>1. CASE i = Len(path)
      <4>1. path # <<>> /\ path'[i] = Top
        BY <1>0, <3>1 DEF Top
      <4>2. left[Top] \subseteq Edges[Top]
        <5>1. Len(path) \in 1 .. Len(path) /\ Top = path[Len(path)]
          BY <4>1 DEF Top
        <5>2. \A k \in 1 .. Len(path) : left[path[k]] \subseteq Edges[path[k]]
          BY DEF WalkOK, PathOK
        <5>3. QED BY ONLY <5>1, <5>2
      <4>3. QED BY <1>0, <3>1, <4>1, <4>2
    <3>2. CASE i < Len(path)
      BY <1>0, <3>2 DEF WalkOK, PathOK
    <3>3. QED BY <1>0, <3>1, <3>2
  <2>5. QED BY <2>1, <2>2, <2>3, <2>4 DEF PathOK
<1>2. Calm' = Calm
  OBVIOUS
<1>3. FollowedOK'
  <2>1. SUFFICES ASSUME NEW i \in 1 .. Len(path'), path'[i] \in Calm,
                        NEW t \in Edges[path'[i]] \ left'[path'[i]]
                 PROVE  mark'[t] = "done" \/ (i < Len(path') /\ t = path'[i + 1])
    BY <1>2 DEF FollowedOK
  <2>2. t \in Sources
    BY <1>0, EdgesTyped
  <2>3. i # Len(path) + 1
    BY <1>0, <2>1
  <2>4. i \in 1 .. Len(path) /\ path'[i] = path[i] /\ path[i] # m
    BY <1>0, <2>3
  <2>5. CASE t = m /\ i = Len(path)
    BY <1>0, <2>5
  <2>6. CASE ~(t = m /\ i = Len(path))
    <3>1. t \in Edges[path[i]] \ left[path[i]]
      <4>1. CASE path[i] = Top
        <5>1. i = Len(path)
          BY <2>4, <4>1 DEF WalkOK, PathOK, Top
        <5>2. QED BY <2>1, <2>4, <2>6, <4>1, <5>1
      <4>2. CASE path[i] # Top
        BY <2>1, <2>4, <4>2
      <4>3. QED BY <4>1, <4>2
    <3>2. mark[t] = "done" \/ (i < Len(path) /\ t = path[i + 1])
      BY <2>1, <2>4, <3>1 DEF WalkOK, FollowedOK
    <3>3. mark[t] = "done" => mark'[t] = "done"
      BY <2>2 DEF TypeOK
    <3>4. i < Len(path) => path'[i + 1] = path[i + 1]
      BY <1>0, <2>4
    <3>5. QED BY <1>0, <2>4, <3>2, <3>3, <3>4
  <2>7. QED BY <2>5, <2>6
<1>4. OrderHoldsDone' /\ RootOK'
  BY DEF WalkOK, OrderHoldsDone, RootOK, TypeOK
<1>5. CalmFirst'
  BY <1>2 DEF WalkOK, CalmFirst, Before
<1>6. \A n \in Outside' : Edges'[n] = {}
  BY DEF WalkOK
<1>7. QED BY <1>1, <1>3, <1>4, <1>5, <1>6 DEF WalkOK
\* An edge is followed to a module met before.
LEMMA SkipStep ==
    ASSUME TypeOK, Walking, WalkOK, SkipEdge
    PROVE  /\ WalkOK' /\ mark' = mark
           /\ \/ errors' = errors
              \/ /\ phase = "sort" /\ Cyclic(imports)
                 /\ \E m \in Sources : errors' = errors \cup {<<m, "cycle">>}
<1>1. WalkStep
  BY DEF WalkStep
<1> USE WalkFrame, PathFacts
<1>2. path # <<>> /\ path' = path /\ mark' = mark /\ order' = order /\ root' = root
  BY DEF SkipEdge
<1>3. PICK t \in left[Top] :
        /\ mark[t] # "unvisited"
        /\ left' = [left EXCEPT ![Top] = @ \ {t}]
        /\ errors' = IF phase = "sort" /\ mark[t] = "visiting"
                     THEN errors \cup {<<Top, "cycle">>} ELSE errors
  BY DEF SkipEdge
<1>4. Top \in Sources /\ Top = path[Len(path)] /\ Len(path) \in 1 .. Len(path)
  BY <1>2 DEF Top
<1>5. t \in Edges[Top] /\ t \in Sources
  <2>1. left[Top] \subseteq Edges[Top]
    BY <1>4 DEF WalkOK, PathOK
  <2>2. QED BY <1>3, <1>4, <2>1, EdgesTyped
<1>6. ASSUME mark[t] = "visiting"
      PROVE  \E S \in SUBSET Sources : t \in S /\ \A m \in S : Edges[m] \cap S # {}
  <2>1. PICK k \in 1 .. Len(path) : path[k] = t
    BY <1>5, <1>6 DEF WalkOK, PathOK
  <2>2. QED BY <1>2, <1>5, <2>1, BackEdge DEF WalkOK
<1>7. errors \subseteq errors' /\ (mark[t] = "visiting" /\ phase = "sort" => <<Top, "cycle">> \in errors')
  BY <1>3
<1>8. Calm' \subseteq Calm /\ (Top \in Calm' => mark[t] = "done")
  <2>1. CASE phase = "sort"
    BY <1>1, <1>3, <1>4, <1>5, <1>7, <2>1 DEF Calm, TypeOK
  <2>2. CASE phase # "sort"
    <3>1. errors' = errors /\ Calm' = Calm /\ Edges = deps
      BY <1>1, <1>3, <2>2 DEF Edges
    <3>2. ASSUME Top \in Calm, mark[t] = "visiting" PROVE FALSE
      <4>1. PICK S \in SUBSET Sources : t \in S /\ \A m \in S : deps[m] \cap S # {}
        BY <1>6, <3>1, <3>2
      <4>2. QED BY <1>5, <2>2, <3>1, <3>2, <4>1, CalmHasNoCycle
    <3>3. mark[t] \in {"visiting", "done"}
      BY <1>3, <1>5 DEF TypeOK
    <3>4. QED BY <3>1, <3>2, <3>3
  <2>3. QED BY <2>1, <2>2
<1>9. \A n \in Sources : left'[n] = IF n = Top THEN left[n] \ {t} ELSE left[n]
  BY <1>3, <1>4 DEF TypeOK
<1>10. PathOK'
  <2>1. ASSUME NEW i \in 1 .. Len(path)
        PROVE  mark[path[i]] = "visiting" /\ left'[path[i]] \subseteq Edges[path[i]]
    <3>1. left'[path[i]] \subseteq left[path[i]]
      BY <1>9
    <3>2. mark[path[i]] = "visiting" /\ left[path[i]] \subseteq Edges[path[i]]
      BY DEF WalkOK, PathOK
    <3>3. QED BY ONLY <3>1, <3>2
  <2>2. QED BY <1>1, <1>2, <2>1 DEF WalkOK, PathOK
<1>11. FollowedOK'
  <2>1. ASSUME NEW i \in 1 .. Len(path), path[i] \in Calm',
               NEW s \in Edges[path[i]] \ left'[path[i]]
        PROVE  mark[s] = "done" \/ (i < Len(path) /\ s = path[i + 1])
    <3>1. CASE s = t /\ path[i] = Top
      BY <1>8, <2>1, <3>1
    <3>2. CASE s # t \/ path[i] # Top
      <4>1. path[i] \in Sources /\ s \in Edges[path[i]] \ left[path[i]]
        BY <1>9, <2>1, <3>2
      <4>2. QED BY <1>8, <2>1, <4>1 DEF WalkOK, FollowedOK
    <3>3. QED BY <3>1, <3>2
  <2>2. QED BY <1>1, <1>2, <2>1 DEF FollowedOK
<1>12. OrderHoldsDone' /\ RootOK' /\ CalmFirst'
  BY <1>1, <1>2, <1>8 DEF WalkOK, OrderHoldsDone, RootOK, CalmFirst, Before
<1>13. WalkOK'
  BY <1>1, <1>10, <1>11, <1>12 DEF WalkOK
<1>14. CASE phase = "sort" /\ mark[t] = "visiting"
  <2>1. Cyclic(imports)
    BY <1>6, <1>14 DEF Edges, Cyclic
  <2>2. QED BY <1>2, <1>3, <1>4, <1>13, <1>14, <2>1
<1>15. QED BY <1>2, <1>3, <1>13, <1>14

\* What an ended visit depends on has ended too.
LEMMA DoneClosed ==
    ASSUME TypeOK, WalkOK, NEW m \in Done \cap Calm
    PROVE  Edges[m] \subseteq Done
<1>1. Before(Len(order) + 1) \cup Outside \subseteq Done
  BY PathFacts DEF WalkOK, OrderHoldsDone, Before, Outside, Done
<1>2. CASE m \in Outside
  BY <1>2 DEF WalkOK
<1>3. CASE m \notin Outside
  <2>1. PICK j \in 1 .. Len(order) : order[j] = m
    BY <1>3 DEF WalkOK, OrderHoldsDone, Done
  <2>2. Edges[m] \subseteq Before(j) \cup Outside
    BY <2>1 DEF WalkOK, CalmFirst
  <2>3. Before(j) \subseteq Before(Len(order) + 1)
    BY <2>1, PathFacts DEF Before
  <2>4. QED BY <1>1, <2>2, <2>3
<1>4. QED BY <1>2, <1>3

\* A visit ends: everything its module depends on ended before.
LEMMA EndStep ==
    ASSUME TypeOK, Walking, WalkOK, EndVisit
    PROVE  /\ WalkOK' /\ errors' = errors
           /\ Top \in Sources \ Done /\ Done' = Done \cup {Top}
           /\ Top \in Calm => Edges[Top] \subseteq Done
<1>1. WalkStep
  BY DEF WalkStep
<1> USE WalkFrame, PathFacts
<1> DEFINE n == Len(path)
<1>2. /\ path # <<>> /\ left[Top] = {} /\ left' = left /\ errors' = errors /\ root' = root
      /\ mark' = [mark EXCEPT ![Top] = "done"]
      /\ order' = Append(order, Top) /\ path' = SubSeq(path, 1, n - 1)
  BY DEF EndVisit
<1>3. Top \in Sources /\ Top = path[n] /\ n \in Nat \ {0} /\ mark[Top] = "visiting"
  BY <1>2 DEF Top, WalkOK, PathOK
<1>4. Len(path') = n - 1 /\ \A i \in 1 .. n - 1 : path'[i] = path[i] /\ path[i] # Top
  <2>1. Len(path') = n - 1 /\ \A i \in 1 .. n - 1 : path'[i] = path[i]
    BY <1>2, <1>3, PopFacts DEF TypeOK
  <2>2. \A i \in 1 .. n - 1 : path[i] # Top
    BY <1>3 DEF WalkOK, PathOK
  <2>3. QED BY <2>1, <2>2
<1>5. \A m \in Sources : mark'[m] = IF m = Top THEN "done" ELSE mark[m]
  BY <1>2, <1>3 DEF TypeOK
<1>6. /\ Len(order') = Len(order) + 1 /\ order'[Len(order) + 1] = Top
      /\ \A i \in 1 .. Len(order) : order'[i] = order[i]
  BY <1>2, <1>3 DEF TypeOK
<1>7. Calm' = Calm
  BY <1>1, <1>2
<1>8. Top \notin Done /\ Done' = Done \cup {Top}
  BY <1>3, <1>5 DEF Done
<1>9. Top \in Calm => Edges[Top] \subseteq Done
  <2>1. HAVE Top \in Calm
  <2>2. \A t \in Edges[Top] : mark[t] = "done"
    BY <1>2, <1>3, <2>1 DEF WalkOK, FollowedOK
  <2>3. QED BY <1>3, <2>2, EdgesTyped DEF Done
<1>10. PathOK'
  <2>1. ASSUME NEW m \in Sources, mark'[m] = "visiting"
        PROVE  \E i \in 1 .. n - 1 : path'[i] = m
    <3>1. m # Top /\ mark[m] = "visiting"
      BY <1>5, <2>1
    <3>2. PICK i \in 1 .. n : path[i] = m
      BY <3>1 DEF WalkOK, PathOK
    <3>3. QED BY <1>3, <1>4, <3>1, <3>2
  <2>2. ASSUME NEW i \in 1 .. n - 1
        PROVE  mark'[path'[i]] = "visiting" /\ left'[path'[i]] \subseteq Edges[path'[i]]
    <3>1. path'[i] = path[i] /\ path[i] # Top /\ path[i] \in Sources /\ i \in 1 .. n
      BY <1>3, <1>4
    <3>2. mark[path[i]] = "visiting" /\ left[path[i]] \subseteq Edges[path[i]]
      BY <3>1 DEF WalkOK, PathOK
    <3>3. QED BY <1>2, <1>5, <3>1, <3>2
  <2>3. ASSUME NEW i \in 1 .. n - 1, NEW j \in 1 .. n - 1, path'[i] = path'[j]
        PROVE  i = j
    BY <1>3, <1>4, <2>3 DEF WalkOK, PathOK
  <2>4. ASSUME NEW i \in 1 .. n - 2 PROVE path'[i + 1] \in Edges[path'[i]]
    <3>1. i \in 1 .. n - 1 /\ i + 1 \in 1 .. n - 1
      BY <1>3
    <3>2. path[i + 1] \in Edges[path[i]]
      BY <3>1 DEF WalkOK, PathOK
    <3>3. QED BY <1>4, <3>1, <3>2
  <2>5. n - 2 = Len(path') - 1 /\ Edges' = Edges
    BY <1>1, <1>3, <1>4
  <2>6. QED BY <1>4, <2>1, <2>2, <2>3, <2>4, <2>5 DEF PathOK
<1>11. FollowedOK'
  <2>1. ASSUME NEW i \in 1 .. n - 1, path'[i] \in Calm,
               NEW t \in Edges[path'[i]] \ left'[path'[i]]
        PROVE  mark'[t] = "done" \/ (i < n - 1 /\ t = path'[i + 1])
    <3>1. path'[i] = path[i] /\ i \in 1 .. n /\ t \in Edges[path[i]] \ left[path[i]]
      BY <1>2, <1>3, <1>4, <2>1
    <3>2. t \in Sources
      BY <3>1, EdgesTyped
    <3>3. mark[t] = "done" \/ t = path[i + 1]
      BY <2>1, <3>1 DEF WalkOK, FollowedOK
    <3>4. CASE i = n - 1
      BY <1>3, <1>5, <3>2, <3>3, <3>4
    <3>5. CASE i < n - 1
      <4>1. path'[i + 1] = path[i + 1]
        BY <1>3, <1>4, <3>5
      <4>2. QED BY <1>5, <3>2, <3>3, <3>5, <4>1
    <3>6. QED BY <1>3, <3>4, <3>5
  <2>2. QED BY <1>1, <1>4, <1>7, <2>1 DEF FollowedOK
<1>12. OrderHoldsDone'
  <2>1. ASSUME NEW m \in Sources
        PROVE  mark'[m] = "done" <=> (m \in Outside \/ \E j \in 1 .. Len(order') : order'[j] = m)
    <3>1. (\E j \in 1 .. Len(order') : order'[j] = m)
            <=> (m = Top \/ \E j \in 1 .. Len(order) : order[j] = m)
      BY <1>6
    <3>2. mark[m] = "done" <=> (m \in Outside \/ \E j \in 1 .. Len(order) : order[j] = m)
      BY DEF WalkOK, OrderHoldsDone
    <3>3. mark'[m] = "done" <=> (m = Top \/ mark[m] = "done")
      BY <1>5
    <3>4. QED BY ONLY <3>1, <3>2, <3>3
  <2>2. QED BY <1>1, <2>1 DEF OrderHoldsDone
<1>13. RootOK'
  BY <1>2, <1>5 DEF WalkOK, RootOK
<1>14. CalmFirst'
  <2>1. ASSUME NEW i \in 1 .. Len(order) + 1, order'[i] \in Calm
        PROVE  Edges[order'[i]] \subseteq {order'[j] : j \in 1 .. i - 1} \cup Outside
    <3>0. ASSUME NEW k \in 1 .. Len(order) + 1
          PROVE  {order'[j] : j \in 1 .. k - 1} = Before(k)
      <4>1. \A j \in 1 .. k - 1 : j \in 1 .. Len(order) /\ order'[j] = order[j]
        BY <1>6, <3>0
      <4>2. QED BY <4>1 DEF Before
    <3>1. CASE i = Len(order) + 1
      <4>1. Done \subseteq Before(i) \cup Outside
        BY <3>1 DEF WalkOK, OrderHoldsDone, Done, Before
      <4>2. QED BY <1>6, <1>9, <2>1, <3>0, <3>1, <4>1
    <3>2. CASE i \in 1 .. Len(order)
      <4>1. Edges[order[i]] \subseteq Before(i) \cup Outside
        BY <1>6, <2>1, <3>2 DEF WalkOK, CalmFirst
      <4>2. QED BY <1>6, <3>0, <3>2, <4>1
    <3>3. QED BY <3>1, <3>2
  <2>2. QED BY <1>1, <1>6, <1>7, <2>1 DEF CalmFirst, Before
<1>15. WalkOK'
  BY <1>1, <1>10, <1>11, <1>12, <1>13, <1>14 DEF WalkOK
<1>16. QED BY <1>2, <1>3, <1>8, <1>9, <1>15

-----------------------------------------------------------------------------
(* The steps *)

\* A set without a cycle stays so when a module is added whose edges lead
\* into it.
LEMMA NoCycleGrows ==
    ASSUME NEW S \in SUBSET Sources, NEW graph \in [Sources -> SUBSET Sources], NEW a \in Sources,
           NoCycleIn(graph, S), \A m \in S : graph[m] \subseteq S, graph[a] \subseteq S
    PROVE  NoCycleIn(graph, S \cup {a})
<1>1. CASE a \in S
  <2>1. S \cup {a} = S
    BY <1>1
  <2>2. QED BY <2>1
<1>2. CASE a \notin S
  <2>1. SUFFICES ASSUME NEW T \in SUBSET (S \cup {a}), T # {}
                 PROVE  \E m \in T : graph[m] \cap T = {}
    BY DEF NoCycleIn
  <2>2. CASE T \ {a} = {}
    <3>1. T = {a}
      BY <2>1, <2>2
    <3>2. QED BY <1>2, <3>1
  <2>3. CASE T \ {a} # {}
    <3>1. PICK m \in T \ {a} : graph[m] \cap (T \ {a}) = {}
      BY <2>3 DEF NoCycleIn
    <3>2. m \in S /\ a \notin graph[m]
      BY <1>2
    <3>3. QED BY <3>1, <3>2
  <2>4. QED BY <2>2, <2>3
<1>3. QED BY <1>1, <1>2

LEMMA InputFrame ==
    ASSUME UNCHANGED inputs
    PROVE  /\ mode' = mode /\ prefix' = prefix /\ imports' = imports /\ faults' = faults
           /\ Needs' = Needs /\ Cyclic(imports)' = Cyclic(imports) /\ Cyclic(Needs)' = Cyclic(Needs)
           /\ \A S : NoFault(S)' = NoFault(S)
BY DEF inputs, Needs, Cyclic, NoFault, Failing

LEMMA NeedsFacts ==
    ASSUME TypeOK
    PROVE  /\ Needs \in [Sources -> SUBSET Sources]
           /\ Cyclic(imports) => Cyclic(Needs)
<1>1. \A m \in Sources : Needs[m] \subseteq Sources /\ imports[m] \subseteq Needs[m]
  BY SourcesAssumption DEF TypeOK, Needs, Sources
<1>2. Needs \in [Sources -> SUBSET Sources]
  BY <1>1 DEF Needs
<1>3. QED BY <1>1, <1>2 DEF Cyclic

\* When a walk ends every source that has a slot is in the order.
LEMMA AllEnded ==
    ASSUME TypeOK, WalkOK, path = <<>>, root = slots
    PROVE  \A m \in Sources : mark[m] = "done" /\ (m \in Outside \/ \E j \in 1 .. Len(order) : order[j] = m)
<1>1. \A m \in Sources : mark[m] # "visiting"
  BY DEF WalkOK, PathOK
<1>2. \A m \in Sources : m < slots => mark[m] # "unvisited"
  BY DEF WalkOK, RootOK
<1>3. \A m \in Sources : m < slots \/ m \in Outside
  BY SourcesAssumption DEF TypeOK, Outside, Sources
<1>4. \A m \in Outside : mark[m] = "done"
  BY DEF WalkOK, OrderHoldsDone, Outside
<1>5. \A m \in Sources : mark[m] = "done"
  BY <1>1, <1>2, <1>3, <1>4 DEF TypeOK
<1>6. QED BY <1>5 DEF WalkOK, OrderHoldsDone

LEMMA WalkKept ==
    ASSUME TypeOK, Walking, WalkOK, WalkStep
    PROVE  /\ WalkOK'
           /\ \/ Done' = Done
              \/ \E m \in Sources : Done' = Done \cup {m} /\ (m \in Calm => Edges[m] \subseteq Done)
           /\ \/ errors' = errors
              \/ /\ phase = "sort" /\ Cyclic(imports) /\ Done' = Done
                 /\ \E m \in Sources : errors' = errors \cup {<<m, "cycle">>}
<1> USE WalkFrame
<1>2. CASE VisitRoot
  <2>1. /\ path = <<>> /\ root < slots /\ root' = root + 1 /\ order' = order /\ errors' = errors
        /\ root \in Sources
    BY <1>2, SourcesAssumption DEF VisitRoot, TypeOK, Sources
  <2>2. CASE mark[root] = "unvisited"
    <3>1. /\ mark' = [mark EXCEPT ![root] = "visiting"] /\ path' = Append(path, root)
          /\ left' = [left EXCEPT ![root] = Edges[root]]
      BY <1>2, <2>2 DEF VisitRoot, Entered
    <3>2. \A k \in Sources : left'[k] = IF k = root THEN Edges[root] ELSE left[k]
      BY <3>1 DEF TypeOK
    <3>3. \A k \in Sources : k < root' => k < root \/ k = root
      BY <2>1 DEF TypeOK, Sources
    <3>4. WalkOK'
      BY <2>1, <2>2, <3>1, <3>2, <3>3, OpenStep
    <3>5. Done' = Done
      BY <2>1, <2>2, <3>1 DEF TypeOK, Done
    <3>6. QED BY <2>1, <3>4, <3>5
  <2>3. CASE mark[root] # "unvisited"
    <3>1. UNCHANGED <<mark, path, left>>
      BY <1>2, <2>3 DEF VisitRoot
    <3>2. RootOK'
      BY <2>1, <2>3, <3>1 DEF WalkOK, RootOK, TypeOK, Sources
    <3>3. Calm' = Calm
      BY <2>1
    <3>4. WalkOK'
      BY <2>1, <3>1, <3>2, <3>3
         DEF WalkOK, PathOK, FollowedOK, OrderHoldsDone, CalmFirst, Before
    <3>5. QED BY <2>1, <3>1, <3>4 DEF Done
  <2>4. QED BY <2>2, <2>3
<1>3. CASE VisitEdge
  <2>1. path # <<>> /\ root' = root /\ order' = order /\ errors' = errors
    BY <1>3 DEF VisitEdge
  <2>2. PICK t \in left[Top] :
          /\ mark[t] = "unvisited" /\ mark' = [mark EXCEPT ![t] = "visiting"]
          /\ left' = [left EXCEPT ![Top] = @ \ {t}, ![t] = Edges[t]]
          /\ path' = Append(path, t)
    BY <1>3 DEF VisitEdge
  <2>3. Top \in Sources /\ t \in Sources
    BY <2>1, <2>2, PathFacts DEF TypeOK
  <2>4. \A k \in Sources : left'[k] = IF k = t THEN Edges[t]
                                     ELSE IF path # <<>> /\ k = Top THEN left[k] \ {t} ELSE left[k]
    BY <2>1, <2>2, <2>3 DEF TypeOK
  <2>5. WalkOK'
    BY <2>1, <2>2, <2>3, <2>4, OpenStep
  <2>6. Done' = Done
    BY <2>2, <2>3 DEF TypeOK, Done
  <2>7. QED BY <2>1, <2>5, <2>6
<1>4. CASE SkipEdge
  BY <1>4, SkipStep DEF Done
<1>5. CASE EndVisit
  BY <1>5, EndStep
<1>6. QED BY <1>2, <1>3, <1>4, <1>5 DEF WalkStep

LEMMA WalkInv ==
    ASSUME IInv, Walking, WalkStep
    PROVE  IInv'
<1>0. TypeOK /\ WalkOK /\ (phase = "sort" \/ phase = "order") /\ UNCHANGED inputs
  BY DEF IInv, Walking, WalkStep, VisitRoot, VisitEdge, SkipEdge, EndVisit
<1> USE WalkFrame
<1>1. TypeOK'
  BY <1>0, WalkTyped
<1>2. /\ WalkOK'
      /\ \/ Done' = Done
         \/ \E m \in Sources : Done' = Done \cup {m} /\ (m \in Calm => Edges[m] \subseteq Done)
      /\ \/ errors' = errors
         \/ /\ phase = "sort" /\ Cyclic(imports) /\ Done' = Done
            /\ \E m \in Sources : errors' = errors \cup {<<m, "cycle">>}
  BY <1>0, WalkKept
<1>3. SortOK'
  <2>1. phase = "sort" /\ ~CycleReported' => NoCycleIn(imports, Done')
    <3>1. SUFFICES ASSUME phase = "sort", ~CycleReported' PROVE NoCycleIn(imports, Done')
      OBVIOUS
    <3>2. ~CycleReported /\ Calm = Sources /\ Edges = imports
      BY <1>2, <3>1 DEF CycleReported, Calm, Edges
    <3>3. NoCycleIn(imports, Done) /\ Done \in SUBSET Sources
      BY <3>1, <3>2 DEF IInv, SortOK, Done
    <3>4. \A m \in Done : imports[m] \subseteq Done
      BY <1>0, <3>2, <3>3, DoneClosed
    <3>5. imports \in [Sources -> SUBSET Sources]
      BY <1>0 DEF TypeOK
    <3>6. QED BY <1>2, <3>2, <3>3, <3>4, <3>5, NoCycleGrows
  <2>2. CycleReported' => Cyclic(imports)
    BY <1>2 DEF IInv, SortOK, CycleReported
  <2>3. phase = "order" => CycleReported' = CycleReported
    BY <1>2 DEF CycleReported
  <2>4. QED BY <1>0, <2>1, <2>2, <2>3 DEF IInv, SortOK
<1>4. StartOK' /\ DepsOK' /\ CheckedOK'
  BY <1>0, InputFrame DEF IInv, StartOK, DepsOK, CheckedOK
<1>5. CleanOK'
  BY <1>0, <1>2, InputFrame DEF IInv, CleanOK
<1>6. WellOK'
  BY <1>0, <1>2, InputFrame, NeedsFacts DEF IInv, WellOK
<1>7. QED BY <1>0, <1>1, <1>2, <1>3, <1>4, <1>5, <1>6 DEF IInv

LEMMA WalkUntouched ==
    ASSUME WalkOK, UNCHANGED walk, Edges' = Edges, Outside' = Outside, Calm' = Calm
    PROVE  WalkOK'
<1>1. UNCHANGED <<root, mark, path, left, order>>
  BY DEF walk
<1>2. PathOK' /\ FollowedOK'
  BY <1>1 DEF WalkOK, PathOK, FollowedOK
<1>3. OrderHoldsDone' /\ RootOK'
  BY <1>1 DEF WalkOK, OrderHoldsDone, RootOK
<1>4. CalmFirst'
  BY <1>1 DEF WalkOK, CalmFirst, Before
<1>5. QED BY <1>2, <1>3, <1>4 DEF WalkOK

\* A walk that has not begun.
Fresh == /\ TypeOK /\ path = <<>> /\ order = <<>> /\ root = 0
         /\ \A m \in Sources : mark[m] = IF m < slots THEN "unvisited" ELSE "done"
         /\ \A m \in Outside : Edges[m] = {}

LEMMA FreshIsWalk == Fresh => WalkOK
<1> SUFFICES ASSUME Fresh PROVE WalkOK
  OBVIOUS
<1>1. \A m \in Sources : mark[m] # "visiting" /\ (mark[m] = "done" <=> m \in Outside)
  BY SourcesAssumption DEF Fresh, TypeOK, Sources, Outside
<1>2. PathOK
  BY <1>1 DEF Fresh, PathOK
<1>3. FollowedOK /\ CalmFirst
  BY DEF Fresh, FollowedOK, CalmFirst
<1>4. OrderHoldsDone
  BY <1>1 DEF Fresh, OrderHoldsDone
<1>5. RootOK
  BY SourcesAssumption DEF Fresh, RootOK, Sources
<1>6. \A m \in Outside : Edges[m] = {}
  BY DEF Fresh
<1>7. QED BY <1>2, <1>3, <1>4, <1>5, <1>6 DEF WalkOK

\* The same of the state a step leads to.
LEMMA FreshWalk == Fresh' => WalkOK'
BY FreshIsWalk, PTL

LEMMA InitInv ==
    ASSUME Init PROVE IInv
<1>1. TypeOK
  BY SourcesAssumption DEF Init, TypeOK, Phases, Sources
<1>2. ~CycleReported
  BY DEF Init, CycleReported
<1>3. QED BY <1>1, <1>2 DEF Init, IInv, StartOK, SortOK, DepsOK, CheckedOK, CleanOK, WellOK,
                            NoCycleIn

LEMMA ReadInv ==
    ASSUME IInv, Unreadable \/ BuildEdges
    PROVE  IInv'
<1>0. /\ phase = "read" /\ UNCHANGED <<inputs, walk, todo, resolved, deps, checked>>
      /\ errors' = Found("parse") \/ errors' = Found("missing")
      /\ phase' \in {"done", "sort"}
  BY DEF Unreadable, BuildEdges, Advance
<1>1. TypeOK'
  BY <1>0 DEF IInv, TypeOK, Found, Kinds, Phases, inputs, walk
<1>2. ~CycleReported'
  <2>1. \A m : <<m, "cycle">>[2] = "cycle"
    OBVIOUS
  <2>2. \A e \in errors' : e[2] \in {"parse", "missing"}
    BY <1>0 DEF Found
  <2>3. QED BY <2>1, <2>2 DEF CycleReported
<1>3. phase' = "sort" => WalkOK'
  <2>1. HAVE phase' = "sort"
  <2>2. /\ path' = <<>> /\ order' = <<>> /\ root' = 0 /\ slots' = N
        /\ mark' = [m \in Sources |-> "unvisited"]
    BY <1>0 DEF IInv, StartOK, SortOK, walk
  <2>3. \A m \in Sources : mark'[m] = IF m < slots' THEN "unvisited" ELSE "done"
    BY <2>2, SourcesAssumption DEF Sources
  <2>4. Outside' = {}
    BY <2>2, SourcesAssumption DEF Outside, Sources
  <2>5. QED BY <1>1, <2>2, <2>3, <2>4, FreshWalk DEF Fresh
<1>4. SortOK'
  <2>1. phase' = "sort" => Done' = {}
    BY <1>0 DEF IInv, StartOK, Done, walk
  <2>2. slots' = N
    BY <1>0 DEF IInv, SortOK, walk
  <2>3. QED BY <1>0, <1>2, <2>1, <2>2 DEF SortOK, NoCycleIn
<1>5. StartOK' /\ DepsOK' /\ CheckedOK'
  BY <1>0, InputFrame DEF IInv, StartOK, DepsOK, CheckedOK
<1>6. CleanOK' /\ WellOK'
  <2>1. CASE Unreadable
    <3>1. errors' # {} /\ faults # {}
      BY <2>1 DEF Unreadable, Found
    <3>2. QED BY <1>0, <3>1, InputFrame DEF CleanOK, WellOK
  <2>2. CASE BuildEdges
    <3>1. Found("parse") = {} /\ errors' = Found("missing") /\ (errors' = {} => phase' = "sort")
      BY <2>2 DEF BuildEdges, Advance
    <3>2. errors' = {} => NoFault({"parse", "missing"})
      BY <3>1 DEF NoFault, Failing, Found
    <3>3. faults = {} => errors' = {}
      BY <3>1 DEF Found
    <3>4. QED BY <1>0, <3>1, <3>2, <3>3, InputFrame DEF CleanOK, WellOK
  <2>3. QED BY <2>1, <2>2
<1>7. QED BY <1>0, <1>1, <1>3, <1>4, <1>5, <1>6 DEF IInv

LEMMA SortedInv ==
    ASSUME IInv, Sorted
    PROVE  IInv'
<1>0. /\ phase = "sort" /\ path = <<>> /\ root = slots
      /\ UNCHANGED <<inputs, walk, errors, resolved, deps, checked>>
      /\ todo' = 1 /\ phase' \in {"done", "resolve"} /\ (phase' = "done" => errors # {})
  BY DEF Sorted, WalkEnds, Advance
<1>1. TypeOK /\ WalkOK /\ slots = N /\ Outside = {} /\ Edges = imports
  BY <1>0, SourcesAssumption DEF IInv, SortOK, Outside, Sources, Edges
<1>2. TypeOK'
  BY <1>0, <1>1 DEF TypeOK, Phases, inputs, walk
<1>3. \A m \in Sources : mark[m] = "done" /\ \E j \in 1 .. Len(order) : order[j] = m
  BY <1>0, <1>1, AllEnded
<1>4. CycleReported' = CycleReported
  BY <1>0 DEF CycleReported
<1>5. ~CycleReported => ~Cyclic(imports) /\ Topological(imports)
  <2>1. HAVE ~CycleReported
  <2>2. NoCycleIn(imports, Sources)
    <3>1. Done = Sources
      BY <1>3 DEF Done
    <3>2. QED BY <1>0, <2>1, <3>1 DEF IInv, SortOK
  <2>3. Topological(imports)
    <3>1. Calm = Sources
      BY <1>0, <2>1 DEF Calm, CycleReported
    <3>2. QED BY <1>1, <3>1, PathFacts DEF WalkOK, CalmFirst, Topological
  <2>4. QED BY <2>2, <2>3 DEF NoCycleIn, Cyclic
<1>6. Topological(imports) => Topological(imports)'
  BY <1>0 DEF Topological, Before, Outside, inputs, walk
<1>7. SortOK'
  BY <1>0, <1>1, <1>3, <1>4, <1>5, <1>6, InputFrame DEF IInv, SortOK, walk
<1>8. StartOK' /\ DepsOK' /\ CheckedOK' /\ WellOK'
  BY <1>0, InputFrame DEF IInv, StartOK, DepsOK, CheckedOK, WellOK
<1>9. CleanOK'
  <2>1. Before(todo)' = {}
    BY <1>0 DEF Before
  <2>2. QED BY <1>0, <2>1, InputFrame DEF IInv, CleanOK
<1>10. todo' <= Len(order') + 1
  BY <1>0, <1>2 DEF TypeOK
<1>11. QED BY <1>0, <1>2, <1>7, <1>8, <1>9, <1>10 DEF IInv

LEMMA ResolveInv ==
    ASSUME IInv, Resolve
    PROVE  IInv'
<1> DEFINE m == order[todo]
<1>0. /\ phase = "resolve" /\ todo <= Len(order) /\ todo' = todo + 1
      /\ UNCHANGED <<inputs, walk, phase, deps, checked>>
      /\ errors' = errors \cup {<<m, s>> : s \in {s \in {"import", "resolve"} : <<m, s>> \in faults}}
      /\ resolved' = resolved \cup ({m} \ Failing("resolve"))
  BY DEF Resolve
<1>1. TypeOK /\ m \in Sources /\ todo \in 1 .. Len(order) /\ Len(order) \in Nat
  BY <1>0, PathFacts DEF IInv, TypeOK
<1>2. TypeOK'
  <2>1. errors' \subseteq Sources \X Kinds
    <3>1. \A s \in {"import", "resolve"} : <<m, s>> \in Sources \X Kinds
      BY <1>1 DEF Kinds, Stages
    <3>2. errors \subseteq Sources \X Kinds
      BY <1>1 DEF TypeOK
    <3>3. QED BY ONLY <1>0, <3>1, <3>2
  <2>2. resolved' \subseteq Sources
    BY <1>0, <1>1 DEF TypeOK
  <2>3. QED BY <1>0, <1>1, <2>1, <2>2 DEF TypeOK, inputs, walk
<1>3. CycleReported' = CycleReported
  <2>1. \A l, n : \A s \in {"import", "resolve"} : <<l, "cycle">> # <<n, s>>
    OBVIOUS
  <2>2. QED BY <1>0, <2>1 DEF CycleReported
<1>4. SortOK'
  <2>1. Topological(imports) => Topological(imports)'
    BY <1>0 DEF Topological, Before, Outside, inputs, walk
  <2>2. QED BY <1>0, <1>3, <2>1, InputFrame DEF IInv, SortOK, walk
<1>5. StartOK' /\ DepsOK' /\ WellOK'
  BY <1>0, InputFrame DEF IInv, StartOK, DepsOK, WellOK
<1>6. CheckedOK'
  BY <1>0, InputFrame DEF IInv, CheckedOK
<1>7. CleanOK'
  <2>1. Before(todo)' = Before(todo) \cup {m}
    BY <1>0, <1>1 DEF Before, walk
  <2>2. errors' = {} => errors = {} /\ m \notin Failing("import") \cup Failing("resolve")
    BY <1>0 DEF Failing
  <2>3. /\ m \notin Failing("resolve") => m \in resolved'
        /\ \A s : Failing(s)' = Failing(s)
    BY <1>0, InputFrame DEF Failing
  <2>4. QED BY <1>0, <2>1, <2>2, <2>3, InputFrame DEF IInv, CleanOK
<1>8. QED BY <1>0, <1>1, <1>2, <1>4, <1>5, <1>6, <1>7 DEF IInv, walk

LEMMA ResolvedInv ==
    ASSUME IInv, Resolved
    PROVE  IInv'
<1>0. /\ phase = "resolve" /\ todo > Len(order)
      /\ UNCHANGED <<inputs, walk, errors, todo, resolved, deps, checked>>
      /\ phase' \in {"done", "desugar"} /\ (phase' = "done" => errors # {})
  BY DEF Resolved, Advance
<1>1. TypeOK /\ Len(order) \in Nat /\ todo = Len(order) + 1
  BY <1>0 DEF IInv, TypeOK
<1>2. TypeOK'
  BY <1>0, <1>1 DEF TypeOK, Phases, inputs, walk
<1>3. SortOK'
  BY <1>0, InputFrame DEF IInv, SortOK, walk, CycleReported
<1>4. StartOK' /\ DepsOK' /\ CheckedOK' /\ WellOK'
  BY <1>0, InputFrame DEF IInv, StartOK, DepsOK, CheckedOK, WellOK
<1>5. CleanOK'
  <2>1. Sources \subseteq Before(todo)
    BY <1>0, <1>1 DEF IInv, SortOK, Before
  <2>2. errors = {} => resolved = Sources /\ NoFault({"import", "resolve"})
    BY <1>0, <1>1, <2>1 DEF IInv, CleanOK, TypeOK, NoFault, Failing
  <2>3. QED BY <1>0, <2>2, InputFrame DEF IInv, CleanOK
<1>6. QED BY <1>0, <1>2, <1>3, <1>4, <1>5 DEF IInv

LEMMA DesugarInv ==
    ASSUME IInv, Desugar
    PROVE  IInv'
<1>0. /\ phase = "desugar"
      /\ errors' = errors \cup {e \in Found("desugar") : e[1] \in resolved}
      /\ resolved' = resolved \ Failing("desugar")
      /\ UNCHANGED <<inputs, walk, todo, deps, checked>>
      /\ phase' \in {"done", "kinds"} /\ (phase' = "done" => errors' # {})
  BY DEF Desugar, Advance
<1>1. TypeOK'
  BY <1>0 DEF IInv, TypeOK, Found, Kinds, Phases, inputs, walk
<1>2. CycleReported' = CycleReported
  BY <1>0 DEF CycleReported, Found
<1>3. SortOK'
  BY <1>0, <1>2, InputFrame DEF IInv, SortOK, walk
<1>4. StartOK' /\ DepsOK'
  BY <1>0, InputFrame DEF IInv, StartOK, DepsOK
<1>5. CheckedOK' /\ WellOK'
  <2>1. checked = {}
    BY <1>0 DEF IInv, CheckedOK
  <2>2. faults = {} => errors' = errors
    BY <1>0 DEF Found
  <2>3. QED BY <1>0, <2>1, <2>2, InputFrame DEF IInv, CheckedOK, WellOK
<1>6. CleanOK'
  <2>1. SUFFICES ASSUME errors' = {} PROVE CleanOK'
    BY DEF CleanOK
  <2>2. errors = {} /\ {e \in Found("desugar") : e[1] \in resolved} = {}
    BY <1>0, <2>1
  <2>3. resolved = Sources /\ NoFault({"parse", "missing"}) /\ NoFault({"import", "resolve"})
    BY <1>0, <2>2 DEF IInv, CleanOK
  <2>4. Failing("desugar") = {}
    BY <2>2, <2>3 DEF Failing, Found
  <2>5. resolved' = Sources /\ phase' = "kinds"
    BY <1>0, <2>1, <2>3, <2>4
  <2>6. NoFault({"parse", "missing"})' /\ NoFault({"import", "resolve"})' /\ NoFault({"desugar"})'
    <3>1. NoFault({"desugar"})
      BY <2>4 DEF NoFault
    <3>2. QED BY <1>0, <2>3, <3>1, InputFrame
  <2>7. QED BY <2>5, <2>6 DEF CleanOK
<1>7. QED BY <1>0, <1>1, <1>3, <1>4, <1>5, <1>6 DEF IInv

\* There is a slot for every module that is left, and for no index past N.
LEMMA SlotFacts ==
    ASSUME TypeOK
    PROVE  /\ SlotCount \in 0 .. N
           /\ \A r \in resolved : r < SlotCount
           /\ resolved = Sources => SlotCount = N
<1> DEFINE Q == {m \in Sources : \E r \in resolved : m <= r}
<1>1. IsFiniteSet(Sources) /\ Cardinality(Sources) = N
  BY SourcesAssumption, FS_Interval DEF Sources
<1>2. IsFiniteSet(Q) /\ Cardinality(Q) <= N /\ Cardinality(Q) \in Nat
  BY <1>1, FS_Subset, FS_CardinalityType
<1>3. ASSUME NEW r \in resolved PROVE r < Cardinality(Q)
  <2>1. r \in Sources /\ r \in Int /\ r >= 0
    BY SourcesAssumption DEF TypeOK, Sources
  <2>2. IsFiniteSet(0 .. r) /\ Cardinality(0 .. r) = r + 1
    BY <2>1, FS_Interval
  <2>3. 0 .. r \subseteq Q
    BY <2>1, SourcesAssumption DEF Sources
  <2>4. Cardinality(0 .. r) <= Cardinality(Q)
    BY <1>2, <2>3, FS_Subset
  <2>5. QED BY <1>2, <2>1, <2>2, <2>4
<1>4. ASSUME resolved = Sources PROVE Cardinality(Q) = N
  <2>1. \A m \in Sources : m <= m
    BY SourcesAssumption DEF Sources
  <2>2. Q = Sources
    BY <1>4, <2>1
  <2>3. QED BY <1>1, <2>2
<1>5. QED BY <1>2, <1>3, <1>4, SourcesAssumption DEF SlotCount

LEMMA CheckKindsInv ==
    ASSUME IInv, CheckKinds
    PROVE  IInv'
<1>0. /\ phase = "kinds" /\ phase' = "order"
      /\ errors' = errors \cup {e \in Found("kind") : e[1] \in resolved}
      /\ deps' = Dependencies /\ slots' = SlotCount
      /\ mark' = [m \in Sources |-> IF m < SlotCount THEN "unvisited" ELSE "done"]
      /\ root' = 0 /\ order' = <<>> /\ todo' = 1
      /\ UNCHANGED <<inputs, path, left, resolved, checked>>
  BY DEF CheckKinds
<1>1. TypeOK /\ path = <<>> /\ checked = {}
  BY <1>0 DEF IInv, SortOK, CheckedOK
<1>2. /\ SlotCount \in 0 .. N
      /\ \A r \in resolved : r < SlotCount
      /\ resolved = Sources => SlotCount = N
  BY <1>1, SlotFacts
<1>3. TypeOK'
  <2>1. deps' \in [Sources -> SUBSET Sources]
    BY <1>0, <1>1, NeedsFacts DEF Dependencies
  <2>2. errors' \subseteq Sources \X Kinds
    BY <1>0, <1>1 DEF TypeOK, Found, Kinds
  <2>3. QED BY <1>0, <1>1, <1>2, <2>1, <2>2, SourcesAssumption DEF TypeOK, inputs, Phases
<1>4. WalkOK'
  <2>1. \A m \in Outside' : Edges'[m] = {}
    <3>1. Edges' = Dependencies
      BY <1>0 DEF Edges
    <3>2. ASSUME NEW m \in Outside' PROVE m \in Sources /\ m \notin resolved
      <4>1. m \in Sources /\ m >= SlotCount
        BY <1>0 DEF Outside
      <4>2. QED BY <1>2, <4>1, SourcesAssumption DEF Sources
    <3>3. QED BY <3>1, <3>2 DEF Dependencies
  <2>2. \A m \in Sources : mark'[m] = IF m < slots' THEN "unvisited" ELSE "done"
    BY <1>0
  <2>3. path' = <<>> /\ order' = <<>> /\ root' = 0
    BY <1>0, <1>1
  <2>4. QED BY <1>3, <2>1, <2>2, <2>3, FreshWalk DEF Fresh
<1>5. CycleReported' = CycleReported
  <2>1. \A m : <<m, "cycle">>[2] = "cycle"
    OBVIOUS
  <2>2. \A e \in errors' : e \in errors \/ e[2] = "kind"
    BY <1>0 DEF Found
  <2>3. errors \subseteq errors'
    BY <1>0
  <2>4. QED BY <2>1, <2>2, <2>3 DEF CycleReported
<1>6. SortOK'
  BY <1>0, <1>5, InputFrame DEF IInv, SortOK
<1>7. StartOK' /\ CheckedOK'
  BY <1>0, <1>1, InputFrame DEF IInv, StartOK, CheckedOK
<1>8. DepsOK'
  BY <1>0, InputFrame DEF DepsOK, Dependencies
<1>9. WellOK'
  <2>1. faults = {} => errors' = errors
    BY <1>0 DEF Found
  <2>2. QED BY <1>0, <2>1, InputFrame DEF IInv, WellOK
<1>10. CleanOK'
  <2>1. SUFFICES ASSUME errors' = {} PROVE CleanOK'
    BY DEF CleanOK
  <2>2. errors = {} /\ {e \in Found("kind") : e[1] \in resolved} = {}
    BY <1>0, <2>1
  <2>3. resolved = Sources /\ NoFault({"parse", "missing"}) /\ NoFault({"import", "resolve"}) /\ NoFault({"desugar"})
    BY <1>0, <2>2 DEF IInv, CleanOK
  <2>4. NoFault({"kind"})
    BY <2>2, <2>3 DEF Failing, Found, NoFault
  <2>5. slots' = N
    BY <1>0, <1>2, <2>3
  <2>6. /\ NoFault({"parse", "missing"})' /\ NoFault({"import", "resolve"})' /\ NoFault({"desugar"})'
        /\ NoFault({"kind"})' /\ resolved' = Sources
    BY <1>0, <2>3, <2>4, InputFrame
  <2>7. QED BY <1>0, <2>5, <2>6 DEF CleanOK
<1>11. QED BY <1>0, <1>3, <1>4, <1>6, <1>7, <1>8, <1>9, <1>10 DEF IInv

LEMMA OrderedInv ==
    ASSUME IInv, Ordered
    PROVE  IInv'
<1>0. /\ phase = "order" /\ phase' = "check" /\ path = <<>> /\ root = slots
      /\ UNCHANGED <<inputs, walk, errors, todo, resolved, deps, checked>>
  BY DEF Ordered, WalkEnds
<1>1. TypeOK' /\ StartOK' /\ DepsOK' /\ CheckedOK' /\ WellOK'
  BY <1>0, InputFrame DEF IInv, TypeOK, StartOK, DepsOK, CheckedOK, WellOK, Phases, inputs, walk
<1>2. CycleReported' = CycleReported
  BY <1>0 DEF CycleReported
<1>3. SortOK'
  BY <1>0, <1>2, InputFrame DEF IInv, SortOK
<1>4. WalkOK'
  <2>1. Edges' = Edges /\ Outside' = Outside /\ Calm' = Calm
    BY <1>0 DEF Edges, Outside, Calm, NoCycleIn, Closure, walk
  <2>2. WalkOK
    BY <1>0 DEF IInv
  <2>3. QED BY <1>0, <2>1, <2>2, WalkUntouched
<1>5. CleanOK'
  <2>1. todo = 1 /\ Len(order) \in Nat
    BY <1>0, PathFacts DEF IInv, DepsOK
  <2>2. Before(todo)' = {} /\ todo' <= Len(order') + 1
    BY <1>0, <2>1 DEF Before, walk
  <2>3. QED BY <1>0, <2>2, InputFrame DEF IInv, CleanOK, walk
<1>6. QED BY <1>0, <1>1, <1>3, <1>4, <1>5 DEF IInv

\* As long as nothing was reported the modules before m in the order are its
\* dependencies at least.
LEMMA NothingSkipped ==
    ASSUME IInv, phase = "check", todo <= Len(order), errors = {}, ~Cyclic(Needs)
    PROVE  deps[order[todo]] \subseteq checked
<1>1. TypeOK /\ WalkOK /\ resolved = Sources /\ slots = N /\ Before(todo) \subseteq checked
  BY DEF IInv, CleanOK
<1>2. deps = Needs
  <2>1. \A m \in Sources : deps[m] = Needs[m]
    BY <1>1 DEF IInv, DepsOK
  <2>2. QED BY <1>1, <2>1, NeedsFacts DEF TypeOK
<1>3. Calm = Sources /\ Edges = deps
  <2>1. NoCycleIn(deps, Sources)
    BY <1>2 DEF NoCycleIn, Cyclic
  <2>2. \A m \in Sources : {m} \cup Closure(deps, m) \subseteq Sources
    BY DEF Closure
  <2>3. \A m \in Sources : NoCycleIn(deps, {m} \cup Closure(deps, m))
    BY <2>1, <2>2 DEF NoCycleIn
  <2>4. QED BY <2>3 DEF Calm, Edges
<1>4. Outside = {}
  BY <1>1, SourcesAssumption DEF Outside, Sources
<1>5. todo \in 1 .. Len(order)
  BY <1>1, PathFacts DEF TypeOK
<1>6. QED BY <1>1, <1>3, <1>4, <1>5, PathFacts DEF WalkOK, CalmFirst

LEMMA CheckTypesInv ==
    ASSUME IInv, CheckTypes
    PROVE  IInv'
<1> DEFINE m == order[todo]
<1>0. /\ phase = "check" /\ todo <= Len(order) /\ todo' = todo + 1
      /\ UNCHANGED <<inputs, walk, phase, resolved, deps>>
      /\ \/ Absent(m) /\ errors' = errors /\ checked' = checked
         \/ /\ ~DependenciesChecked(m) /\ checked' = checked
            /\ errors' = IF errors = {} THEN {<<m, "dependency">>} ELSE errors
         \/ /\ ~Absent(m) /\ DependenciesChecked(m)
            /\ \/ /\ <<m, "type">> \in faults /\ checked' = checked
                  /\ errors' = errors \cup {<<m, "type">>}
               \/ <<m, "type">> \notin faults /\ errors' = errors /\ checked' = checked \cup {m}
  BY DEF CheckTypes
<1>1. TypeOK /\ m \in Sources /\ todo \in 1 .. Len(order) /\ Len(order) \in Nat
  BY <1>0, PathFacts DEF IInv, TypeOK
<1>2. TypeOK'
  <2>1. errors' \subseteq Sources \X Kinds
    BY <1>0, <1>1 DEF TypeOK, Kinds, Stages
  <2>2. checked' \subseteq Sources
    BY <1>0, <1>1 DEF TypeOK
  <2>3. QED BY <1>0, <1>1, <2>1, <2>2 DEF TypeOK, inputs, walk
<1>3. WalkOK'
  <2>1. Edges' = Edges /\ Outside' = Outside /\ Calm' = Calm
    BY <1>0 DEF Edges, Outside, Calm, NoCycleIn, Closure, walk
  <2>2. WalkOK
    BY <1>0 DEF IInv
  <2>3. QED BY <1>0, <2>1, <2>2, WalkUntouched
<1>4. CycleReported' = CycleReported
  <2>1. \A l, n : \A k \in {"dependency", "type"} : <<l, "cycle">> # <<n, k>>
    OBVIOUS
  <2>2. \A e \in errors' : e \in errors \/ e = <<m, "dependency">> \/ e = <<m, "type">>
    BY <1>0
  <2>3. errors \subseteq errors'
    BY <1>0
  <2>4. QED BY <1>1, <2>1, <2>2, <2>3 DEF CycleReported
<1>5. SortOK' /\ StartOK' /\ DepsOK'
  BY <1>0, <1>4, InputFrame DEF IInv, SortOK, StartOK, DepsOK, walk
<1>6. CheckedOK'
  <2>1. CheckedOK
    BY DEF IInv
  <2>2. CASE checked' = checked
    BY <1>0, <2>1, <2>2, InputFrame DEF CheckedOK
  <2>3. CASE checked' # checked
    <3>1. /\ m \in resolved /\ deps[m] \subseteq checked /\ <<m, "type">> \notin faults
          /\ checked' = checked \cup {m}
      BY <1>0, <2>3 DEF Absent, DependenciesChecked
    <3>2. Needs[m] \subseteq checked
      BY <1>0, <1>1, <3>1 DEF IInv, DepsOK
    <3>3. NoCycleIn(Needs, checked \cup {m})
      BY <1>1, <2>1, <3>2, NeedsFacts, NoCycleGrows DEF CheckedOK, TypeOK
    <3>4. QED BY <1>0, <2>1, <3>1, <3>2, <3>3, InputFrame DEF CheckedOK
  <2>4. QED BY <2>2, <2>3
<1>7. WellOK'
  <2>1. SUFFICES ASSUME faults = {}, ~Cyclic(Needs) PROVE errors' = {}
    BY <1>0, InputFrame DEF WellOK
  <2>2. errors = {}
    BY <2>1 DEF IInv, WellOK
  <2>3. DependenciesChecked(m)
    BY <1>0, <2>1, <2>2, NothingSkipped DEF DependenciesChecked
  <2>4. QED BY <1>0, <2>1, <2>2, <2>3
<1>8. CleanOK'
  <2>1. SUFFICES ASSUME errors' = {} PROVE CleanOK'
    BY DEF CleanOK
  <2>2. errors = {}
    BY <1>0, <2>1
  <2>3. /\ resolved = Sources /\ NoFault({"parse", "missing"}) /\ NoFault({"import", "resolve"})
        /\ NoFault({"desugar"}) /\ NoFault({"kind"}) /\ slots = N /\ Before(todo) \subseteq checked
    BY <1>0, <2>2 DEF IInv, CleanOK
  <2>4. ~Absent(m)
    BY <1>1, <2>3 DEF Absent, NoFault
  <2>5. checked' = checked \cup {m}
    BY <1>0, <2>1, <2>4
  <2>6. Before(todo)' = Before(todo) \cup {m}
    BY <1>0, <1>1 DEF Before, walk
  <2>7. /\ NoFault({"parse", "missing"})' /\ NoFault({"import", "resolve"})' /\ NoFault({"desugar"})'
        /\ NoFault({"kind"})' /\ slots' = N /\ resolved' = Sources
    BY <1>0, <2>3, InputFrame DEF walk
  <2>8. todo' <= Len(order') + 1
    BY <1>0, <1>1 DEF walk
  <2>9. QED BY <1>0, <2>3, <2>5, <2>6, <2>7, <2>8 DEF CleanOK
<1>9. QED BY <1>0, <1>2, <1>3, <1>5, <1>6, <1>7, <1>8 DEF IInv

LEMMA FinishInv ==
    ASSUME IInv, Finish
    PROVE  IInv'
<1>0. /\ phase = "check" /\ todo > Len(order) /\ phase' = "done"
      /\ UNCHANGED <<inputs, walk, errors, todo, resolved, deps, checked>>
  BY DEF Finish
<1>1. TypeOK /\ WalkOK /\ Len(order) \in Nat /\ todo \in Nat /\ path = <<>> /\ root = slots
  BY <1>0, PathFacts DEF IInv, DepsOK, TypeOK
<1>2. TypeOK' /\ StartOK' /\ DepsOK' /\ CheckedOK' /\ WellOK'
  BY <1>0, InputFrame DEF IInv, TypeOK, StartOK, DepsOK, CheckedOK, WellOK, Phases, inputs, walk
<1>3. CycleReported' = CycleReported
  BY <1>0 DEF CycleReported
<1>4. SortOK'
  BY <1>0, <1>3, InputFrame DEF IInv, SortOK
<1>5. CleanOK'
  <2>1. SUFFICES ASSUME errors = {} PROVE checked = Sources /\ faults = {} /\ ~Cyclic(Needs)
    BY <1>0, <1>1, InputFrame DEF IInv, CleanOK
  <2>2. /\ NoFault({"parse", "missing"}) /\ NoFault({"import", "resolve"}) /\ NoFault({"desugar"})
        /\ NoFault({"kind"}) /\ slots = N /\ todo <= Len(order) + 1 /\ Before(todo) \subseteq checked
    BY <1>0, <2>1 DEF IInv, CleanOK
  <2>3. checked = Sources
    <3>1. Outside = {}
      BY <2>2, SourcesAssumption DEF Outside, Sources
    <3>2. \A m \in Sources : \E j \in 1 .. Len(order) : order[j] = m
      BY <1>1, <3>1, AllEnded
    <3>3. todo = Len(order) + 1
      BY <1>0, <1>1, <2>2
    <3>4. Sources \subseteq Before(todo)
      BY <1>1, <3>2, <3>3 DEF Before
    <3>5. QED BY <1>1, <2>2, <3>4 DEF TypeOK
  <2>4. \A m \in Sources, s \in Stages : <<m, s>> \notin faults
    <3>1. \A m \in Sources : <<m, "type">> \notin faults
      BY <2>3 DEF IInv, CheckedOK
    <3>2. \A m \in Sources, s \in {"parse", "missing", "import", "resolve", "desugar", "kind"} :
             <<m, s>> \notin faults
      BY <2>2 DEF NoFault, Failing
    <3>3. QED BY <3>1, <3>2 DEF Stages
  <2>5. faults = {}
    BY <1>1, <2>4 DEF TypeOK
  <2>6. ~Cyclic(Needs)
    BY <2>3 DEF IInv, CheckedOK, NoCycleIn, Cyclic
  <2>7. QED BY <2>3, <2>5, <2>6
<1>6. QED BY <1>0, <1>2, <1>4, <1>5 DEF IInv

LEMMA NextInv ==
    ASSUME IInv, [Next]_vars
    PROVE  IInv'
<1>1. CASE UNCHANGED vars
  <2>1. /\ Edges' = Edges /\ Outside' = Outside /\ Done' = Done /\ Calm' = Calm
        /\ CycleReported' = CycleReported
    BY <1>1 DEF vars, inputs, walk, Edges, Outside, Done, Calm, NoCycleIn, Closure, CycleReported
  <2>2. UNCHANGED inputs
    BY <1>1 DEF vars
  <2>3. TypeOK' /\ StartOK' /\ DepsOK' /\ CheckedOK' /\ WellOK'
    BY <1>1, <2>2, InputFrame
       DEF vars, inputs, walk, IInv, TypeOK, StartOK, DepsOK, CheckedOK, WellOK
  <2>4. (WalkOK => WalkOK') /\ (Topological(imports) => Topological(imports)')
    <3>1. UNCHANGED walk /\ UNCHANGED <<order, imports>>
      BY <1>1 DEF vars, inputs, walk
    <3>2. Topological(imports) => Topological(imports)'
      BY <2>1, <3>1 DEF Topological, Before
    <3>3. QED BY <2>1, <3>1, <3>2, WalkUntouched
  <2>5. SortOK'
    BY <1>1, <2>1, <2>2, <2>4, InputFrame DEF vars, walk, IInv, SortOK
  <2>6. CleanOK'
    <3>1. Before(todo)' = Before(todo)
      BY <1>1 DEF vars, walk, Before
    <3>2. \A s : Failing(s)' = Failing(s)
      BY <2>2, InputFrame DEF Failing
    <3>3. QED BY <1>1, <2>2, <3>1, <3>2, InputFrame DEF vars, walk, IInv, CleanOK
  <2>7. QED BY <1>1, <2>3, <2>4, <2>5, <2>6 DEF vars, walk, IInv
<1>2. CASE WalkStep
  BY <1>2, WalkInv DEF WalkStep, Walking, VisitRoot, VisitEdge, SkipEdge, EndVisit
<1>3. CASE Unreadable \/ BuildEdges
  BY <1>3, ReadInv
<1>4. CASE Sorted
  BY <1>4, SortedInv
<1>5. CASE Resolve
  BY <1>5, ResolveInv
<1>6. CASE Resolved
  BY <1>6, ResolvedInv
<1>7. CASE Desugar
  BY <1>7, DesugarInv
<1>8. CASE CheckKinds
  BY <1>8, CheckKindsInv
<1>9. CASE Ordered
  BY <1>9, OrderedInv
<1>10. CASE CheckTypes
  BY <1>10, CheckTypesInv
<1>11. CASE Finish
  BY <1>11, FinishInv
<1>12. QED
  BY <1>1, <1>2, <1>3, <1>4, <1>5, <1>6, <1>7, <1>8, <1>9, <1>10, <1>11 DEF Next, WalkStep

LEMMA Inductive == Spec => []IInv
<1>1. Init => IInv
  BY InitInv
<1>2. IInv /\ [Next]_vars => IInv'
  BY NextInv
<1>3. QED BY <1>1, <1>2, PTL DEF Spec

-----------------------------------------------------------------------------
(* Who is to blame for a module that was passed over *)

Blamed(m) == \E k \in Kinds \ {"dependency"} : <<m, k>> \in errors

\* The modules that neither have a diagnostic of these kinds nor depend on one
\* that has.
Spared(graph, kinds) ==
    {m \in Sources : \A n \in {m} \cup Closure(graph, m) : \A k \in kinds : <<n, k>> \notin errors}
CycleFree == Spared(imports, {"cycle"})
Blameless == Spared(Needs, Kinds \ {"dependency"})

PrefixAlone == mode = "complete" => \A m \in 0 .. prefix - 1 : imports[m] \subseteq 0 .. prefix - 1

Later == {"resolve", "desugar", "kinds", "order", "check"}

\* Every cycle leads to a module that was reported for one.
CycleOK ==
    /\ phase = "sort" => NoCycleIn(imports, Done \cap CycleFree)
    /\ phase \in Later => NoCycleIn(imports, CycleFree) /\ (Strict => ~Cyclic(imports))

\* A module that a stage dropped has a diagnostic.
LossOK ==
    /\ phase = "resolve" => \A m \in Before(todo) \ resolved : Blamed(m)
    /\ phase \in Later \ {"resolve"} => \A m \in Sources \ resolved : Blamed(m)
    /\ phase \in {"order", "check"} =>
          /\ \A m \in resolved \cap Failing("kind") : Blamed(m)
          /\ \A m \in resolved : m < slots

\* What comes up and depends on no diagnostic is checked.
PassedOK == phase = "check" /\ PrefixAlone => Before(todo) \cap Blameless \subseteq checked

BlameInv == IInv /\ CycleOK /\ LossOK /\ PassedOK

LEMMA SparedClosed ==
    ASSUME NEW graph \in [Sources -> SUBSET Sources], NEW kinds, NEW m \in Spared(graph, kinds)
    PROVE  graph[m] \subseteq Spared(graph, kinds)
<1>1. ASSUME NEW d \in graph[m] PROVE d \in Spared(graph, kinds)
  <2>1. m \in Sources /\ d \in Sources
    BY DEF Spared
  <2>2. {d} \cup Closure(graph, d) \subseteq Closure(graph, m)
    BY <2>1, ClosureStep
  <2>3. QED BY <2>1, <2>2 DEF Spared
<1>2. QED BY <1>1

\* Diagnostics are only ever added.
LEMMA BlameGrows ==
    ASSUME UNCHANGED inputs, errors \subseteq errors'
    PROVE  /\ CycleFree' \subseteq CycleFree /\ Blameless' \subseteq Blameless
           /\ \A m : Blamed(m) => Blamed(m)'
           /\ \A s : Failing(s)' = Failing(s)
           /\ PrefixAlone' = PrefixAlone
<1>1. imports' = imports /\ Needs' = Needs /\ UNCHANGED <<mode, prefix, faults>>
  BY InputFrame DEF inputs
<1>2. \A m : Closure(imports, m)' = Closure(imports, m) /\ Closure(Needs, m)' = Closure(Needs, m)
  BY <1>1 DEF Closure
<1>3. CycleFree' \subseteq CycleFree /\ Blameless' \subseteq Blameless
  BY <1>1, <1>2 DEF CycleFree, Blameless, Spared
<1>4. QED BY <1>1, <1>3 DEF Blamed, Failing, PrefixAlone

LEMMA CycleKept ==
    ASSUME CycleOK, UNCHANGED inputs, errors \subseteq errors', phase \in Later,
           phase' \in Later \cup {"done"}
    PROVE  CycleOK'
<1>1. CycleFree' \subseteq CycleFree /\ imports' = imports /\ Cyclic(imports)' = Cyclic(imports)
      /\ Strict' = Strict
  BY BlameGrows, InputFrame DEF Strict, inputs
<1>2. QED BY <1>1 DEF CycleOK, NoCycleIn, Later

LEMMA WalkBlame ==
    ASSUME BlameInv, Walking, WalkStep
    PROVE  CycleOK' /\ LossOK' /\ PassedOK'
<1> USE WalkFrame
<1>1. TypeOK /\ WalkOK /\ UNCHANGED inputs /\ phase \in {"sort", "order"}
  BY DEF BlameInv, IInv, Walking, WalkStep, VisitRoot, VisitEdge, SkipEdge, EndVisit
<1>2. /\ \/ Done' = Done
         \/ \E m \in Sources : Done' = Done \cup {m} /\ (m \in Calm => Edges[m] \subseteq Done)
      /\ \/ errors' = errors
         \/ Done' = Done /\ \E m \in Sources : errors' = errors \cup {<<m, "cycle">>}
  BY <1>1, WalkKept
<1>3. errors \subseteq errors'
  BY <1>2
<1>4. CycleFree' \subseteq CycleFree /\ \A m : Blamed(m) => Blamed(m)'
  BY <1>1, <1>3, BlameGrows
<1>5. CASE phase = "order"
  <2>1. CycleOK'
    BY <1>1, <1>3, <1>5, CycleKept DEF BlameInv, Later
  <2>2. Failing("kind")' = Failing("kind")
    BY <1>1 DEF Failing
  <2>3. QED BY <1>4, <1>5, <2>1, <2>2 DEF BlameInv, LossOK, PassedOK, Later
<1>6. CASE phase = "sort"
  <2>1. NoCycleIn(imports, Done \cap CycleFree)
    BY <1>6 DEF BlameInv, CycleOK
  <2>2. CASE Done' = Done
    BY <1>4, <1>6, <2>1, <2>2 DEF CycleOK, LossOK, PassedOK, Later, NoCycleIn
  <2>3. CASE Done' # Done
    <3>1. PICK m \in Sources : Done' = Done \cup {m} /\ (m \in Calm => Edges[m] \subseteq Done)
      BY <1>2, <2>3
    <3>2. errors' = errors
      BY <1>2, <2>3
    <3>3. Edges = imports /\ imports \in [Sources -> SUBSET Sources]
      BY <1>1, <1>6 DEF Edges, TypeOK
    <3>4. CycleFree \subseteq Calm
      BY <1>6 DEF CycleFree, Spared, Calm
    <3>5. \A s \in CycleFree : imports[s] \subseteq CycleFree
      BY <3>3, SparedClosed DEF CycleFree
    <3>6. \A s \in Done \cap CycleFree : imports[s] \subseteq Done
      BY <1>1, <3>3, <3>4, DoneClosed
    <3>7. CASE m \in CycleFree
      <4>1. imports[m] \subseteq Done \cap CycleFree
        BY <3>1, <3>3, <3>4, <3>5, <3>7
      <4>2. Done \cap CycleFree \in SUBSET Sources
        BY DEF Done
      <4>3. NoCycleIn(imports, (Done \cap CycleFree) \cup {m})
        BY <2>1, <3>3, <3>5, <3>6, <4>1, <4>2, NoCycleGrows
      <4>4. Done' \cap CycleFree' \subseteq (Done \cap CycleFree) \cup {m}
        BY <1>4, <3>1
      <4>5. QED BY <1>6, <4>3, <4>4 DEF CycleOK, LossOK, PassedOK, Later, NoCycleIn
    <3>8. CASE m \notin CycleFree
      <4>1. Done' \cap CycleFree' \subseteq Done \cap CycleFree
        BY <1>4, <3>1, <3>8
      <4>2. QED BY <1>6, <2>1, <4>1 DEF CycleOK, LossOK, PassedOK, Later, NoCycleIn
    <3>9. QED BY <3>7, <3>8
  <2>4. QED BY <2>2, <2>3
<1>7. QED BY <1>1, <1>5, <1>6

LEMMA SortBlame ==
    ASSUME BlameInv, Unreadable \/ BuildEdges \/ Sorted
    PROVE  CycleOK' /\ LossOK' /\ PassedOK'
<1>1. CASE Unreadable \/ BuildEdges
  <2>1. phase = "read" /\ phase' \in {"done", "sort"} /\ UNCHANGED <<inputs, walk>>
    BY <1>1 DEF Unreadable, BuildEdges, Advance
  <2>2. Done' = {}
    BY <2>1 DEF BlameInv, IInv, StartOK, Done, walk
  <2>3. QED BY <2>1, <2>2 DEF CycleOK, LossOK, PassedOK, Later, NoCycleIn
<1>2. CASE Sorted
  <2>1. /\ phase = "sort" /\ path = <<>> /\ root = slots
        /\ UNCHANGED <<inputs, walk, errors, resolved, checked>>
        /\ todo' = 1 /\ phase' \in {"done", "resolve"} /\ (Strict /\ errors # {} => phase' = "done")
    BY <1>2 DEF Sorted, WalkEnds, Advance
  <2>2. TypeOK /\ WalkOK
    BY <2>1 DEF BlameInv, IInv
  <2>3. Done = Sources
    BY <2>1, <2>2, AllEnded DEF Done
  <2>4. CycleFree \subseteq Sources /\ CycleFree' \subseteq CycleFree /\ imports' = imports
        /\ Cyclic(imports)' = Cyclic(imports)
    BY <2>1, BlameGrows, InputFrame DEF CycleFree, Spared
  <2>5. NoCycleIn(imports, CycleFree)
    BY <2>1, <2>3, <2>4 DEF BlameInv, CycleOK, NoCycleIn
  <2>6. errors = {} => ~Cyclic(imports)
    <3>1. errors = {} => CycleFree = Sources
      BY DEF CycleFree, Spared
    <3>2. QED BY <2>5, <3>1 DEF NoCycleIn, Cyclic
  <2>7. Strict' = Strict
    BY <2>1 DEF Strict, inputs
  <2>8. CycleOK'
    <3>1. NoCycleIn(imports, CycleFree')
      BY <2>4, <2>5 DEF NoCycleIn
    <3>2. NoCycleIn(imports, CycleFree)'
      BY <2>4, <3>1 DEF NoCycleIn
    <3>3. phase' # "sort" /\ (phase' \in Later => phase' # "done")
      BY <2>1 DEF Later
    <3>4. phase' \in Later /\ Strict => ~Cyclic(imports)
      BY <2>1, <2>6, <3>3
    <3>5. QED BY <2>4, <2>7, <3>2, <3>3, <3>4 DEF CycleOK
  <2>9. Before(todo)' = {}
    BY <2>1 DEF Before
  <2>10. QED BY <2>1, <2>8, <2>9 DEF LossOK, PassedOK, Later
<1>3. QED BY <1>1, <1>2

LEMMA ResolveBlame ==
    ASSUME BlameInv, Resolve \/ Resolved
    PROVE  CycleOK' /\ LossOK' /\ PassedOK'
<1>0. TypeOK
  BY DEF BlameInv, IInv
<1>1. CASE Resolve
  <2> DEFINE m == order[todo]
  <2>1. /\ phase = "resolve" /\ phase' = phase /\ todo <= Len(order) /\ todo' = todo + 1
        /\ UNCHANGED <<inputs, walk>>
        /\ errors' = errors \cup {<<m, s>> : s \in {s \in {"import", "resolve"} : <<m, s>> \in faults}}
        /\ resolved' = resolved \cup ({m} \ Failing("resolve"))
    BY <1>1 DEF Resolve
  <2>2. errors \subseteq errors'
    BY <2>1
  <2>3. todo \in 1 .. Len(order) /\ Len(order) \in Nat /\ m \in Sources
    BY <1>0, <2>1, PathFacts DEF TypeOK
  <2>4. Before(todo)' = Before(todo) \cup {m}
    BY <2>1, <2>3 DEF Before, walk
  <2>5. \A n : n = m /\ n \notin resolved' => Blamed(n)'
    <3>1. SUFFICES ASSUME NEW n, n = m, n \notin resolved' PROVE Blamed(n)'
      OBVIOUS
    <3>2. <<n, "resolve">> \in faults
      BY <2>1, <2>3, <3>1 DEF Failing
    <3>3. <<n, "resolve">> \in errors'
      BY <2>1, <3>1, <3>2
    <3>4. QED BY <3>3 DEF Blamed, Kinds, Stages
  <2>6. \A n : Blamed(n) => Blamed(n)'
    BY <2>1, <2>2, BlameGrows
  <2>7. ASSUME NEW n \in Before(todo)', n \notin resolved' PROVE Blamed(n)'
    <3>1. n \in Before(todo) \/ n = m
      BY <2>4
    <3>2. n \notin resolved
      BY <2>1, <2>7
    <3>3. n \in Before(todo) => Blamed(n)
      BY <2>1, <3>2 DEF BlameInv, LossOK
    <3>4. QED BY <2>5, <2>6, <2>7, <3>1, <3>3
  <2>8. CycleOK'
    BY <2>1, <2>2, CycleKept DEF BlameInv, Later
  <2>9. QED BY <2>1, <2>7, <2>8 DEF LossOK, PassedOK, Later
<1>2. CASE Resolved
  <2>1. /\ phase = "resolve" /\ todo > Len(order) /\ phase' \in {"done", "desugar"}
        /\ UNCHANGED <<inputs, walk, errors, resolved>>
    BY <1>2 DEF Resolved, Advance
  <2>2. ASSUME NEW n \in Sources PROVE n \in Before(todo)
    <3>1. PICK j \in 1 .. Len(order) : order[j] = n
      BY <2>1 DEF BlameInv, IInv, SortOK
    <3>2. Len(order) \in Nat /\ todo \in Nat
      BY <1>0 DEF TypeOK
    <3>3. j \in 1 .. todo - 1
      BY <2>1, <3>2
    <3>4. QED BY <3>1, <3>3 DEF Before
  <2>3. \A n : Blamed(n) => Blamed(n)'
    BY <2>1, BlameGrows
  <2>4. \A n \in Sources \ resolved' : Blamed(n)'
    BY <2>1, <2>2, <2>3 DEF BlameInv, LossOK
  <2>5. CycleOK'
    BY <2>1, CycleKept DEF BlameInv, Later
  <2>6. QED BY <2>1, <2>4, <2>5 DEF LossOK, PassedOK, Later
<1>3. QED BY <1>1, <1>2

LEMMA StageBlame ==
    ASSUME BlameInv, Desugar \/ CheckKinds \/ Ordered \/ Finish
    PROVE  CycleOK' /\ LossOK' /\ PassedOK'
<1>0. TypeOK
  BY DEF BlameInv, IInv
<1>1. CASE Desugar
  <2>1. /\ phase = "desugar" /\ phase' \in {"done", "kinds"} /\ UNCHANGED inputs
        /\ errors' = errors \cup {e \in Found("desugar") : e[1] \in resolved}
        /\ resolved' = resolved \ Failing("desugar")
    BY <1>1 DEF Desugar, Advance
  <2>2. errors \subseteq errors'
    BY <2>1
  <2>3. ASSUME NEW m \in Sources \ resolved' PROVE Blamed(m)'
    <3>1. CASE m \notin resolved
      BY <2>1, <2>2, <3>1, BlameGrows DEF BlameInv, LossOK, Later
    <3>2. CASE m \in resolved
      <4>1. <<m, "desugar">> \in Found("desugar") /\ <<m, "desugar">>[1] = m
        BY <2>1, <2>3, <3>2 DEF Failing, Found
      <4>2. <<m, "desugar">> \in errors'
        BY <2>1, <3>2, <4>1
      <4>3. QED BY <4>2 DEF Blamed, Kinds, Stages
    <3>3. QED BY <3>1, <3>2
  <2>4. CycleOK'
    BY <2>1, <2>2, CycleKept DEF BlameInv, Later
  <2>5. QED BY <2>1, <2>3, <2>4 DEF LossOK, PassedOK, Later
<1>2. CASE CheckKinds
  <2>1. /\ phase = "kinds" /\ phase' = "order" /\ UNCHANGED inputs
        /\ errors' = errors \cup {e \in Found("kind") : e[1] \in resolved}
        /\ resolved' = resolved /\ slots' = SlotCount
    BY <1>2 DEF CheckKinds
  <2>2. errors \subseteq errors'
    BY <2>1
  <2>3. \A m \in Sources \ resolved' : Blamed(m)'
    BY <2>1, <2>2, BlameGrows DEF BlameInv, LossOK, Later
  <2>4. ASSUME NEW m \in resolved' \cap Failing("kind")' PROVE Blamed(m)'
    <3>1. m \in resolved /\ <<m, "kind">> \in faults
      BY <2>1, <2>2, <2>4, BlameGrows DEF Failing
    <3>2. <<m, "kind">> \in Found("kind") /\ <<m, "kind">>[1] = m
      BY <3>1 DEF Found
    <3>3. <<m, "kind">> \in errors'
      BY <2>1, <3>1, <3>2
    <3>4. QED BY <3>3 DEF Blamed, Kinds, Stages
  <2>5. \A m \in resolved' : m < slots'
    BY <1>0, <2>1, SlotFacts
  <2>6. CycleOK'
    BY <2>1, <2>2, CycleKept DEF BlameInv, Later
  <2>7. QED BY <2>1, <2>3, <2>4, <2>5, <2>6 DEF LossOK, PassedOK, Later
<1>3. CASE Ordered
  <2>1. /\ phase = "order" /\ phase' = "check"
        /\ UNCHANGED <<inputs, walk, errors, todo, resolved, checked>>
    BY <1>3 DEF Ordered
  <2>2. CycleOK'
    BY <2>1, CycleKept DEF BlameInv, Later
  <2>3. (\A m : Blamed(m) => Blamed(m)') /\ (\A s : Failing(s)' = Failing(s)) /\ slots' = slots
    BY <2>1, BlameGrows DEF walk
  <2>4. LossOK'
    BY <2>1, <2>3 DEF BlameInv, LossOK, Later
  <2>5. Before(todo)' = {}
    BY <2>1 DEF BlameInv, IInv, DepsOK, Before
  <2>6. QED BY <2>2, <2>4, <2>5 DEF PassedOK
<1>4. CASE Finish
  BY <1>4 DEF Finish, CycleOK, LossOK, PassedOK, Later
<1>5. QED BY <1>1, <1>2, <1>3, <1>4

\* The graph of a build whose prefix imports no consumer has no cycle but those
\* among the imports.
LEMMA PrefixAddsNoCycle ==
    ASSUME TypeOK, PrefixAlone, mode = "complete", ~Cyclic(imports)
    PROVE  ~Cyclic(Needs)
<1> SUFFICES ASSUME NEW S \in SUBSET Sources, S # {}, \A m \in S : Needs[m] \cap S # {}
             PROVE  Cyclic(imports)
  BY DEF Cyclic
<1> DEFINE P == 0 .. prefix - 1
<1>0. prefix \in Nat /\ \A m \in Sources : m \in Int /\ m >= 0
  BY SourcesAssumption DEF TypeOK, Sources
<1>1. \A m \in Sources : Needs[m] = imports[m] \cup (IF m >= prefix THEN P ELSE {})
  BY DEF Needs
<1>2. \A m \in P : imports[m] \subseteq P
  BY DEF PrefixAlone
<1>3. CASE S \cap P # {}
  <2>1. \A m \in S \cap P : imports[m] \cap (S \cap P) # {}
    BY <1>0, <1>1, <1>2
  <2>2. S \cap P \in SUBSET Sources
    OBVIOUS
  <2>3. QED BY <1>3, <2>1, <2>2 DEF Cyclic
<1>4. CASE S \cap P = {}
  <2>1. \A m \in S : imports[m] \cap S # {}
    BY <1>1, <1>4
  <2>2. QED BY <2>1 DEF Cyclic
<1>5. QED BY <1>3, <1>4

\* What depends on no diagnostic is not on a cycle, has lost nothing and comes
\* after what it depends on.
LEMMA BlamelessFacts ==
    ASSUME BlameInv, phase = "check", PrefixAlone, NEW m \in Blameless
    PROVE  /\ m \in Calm /\ m \in resolved /\ m \notin Failing("kind") /\ m \notin Outside
           /\ deps[m] = Needs[m] /\ Needs[m] \subseteq Blameless
<1>0. TypeOK /\ Needs \in [Sources -> SUBSET Sources] /\ deps \in [Sources -> SUBSET Sources]
  BY NeedsFacts DEF BlameInv, IInv, TypeOK
<1>1. ASSUME NEW n \in Blameless
      PROVE  /\ n \in Sources /\ n \in resolved /\ n \notin Failing("kind") /\ n \notin Outside
             /\ deps[n] = Needs[n] /\ Needs[n] \subseteq Blameless
  <2>1. n \in Sources /\ ~Blamed(n)
    BY DEF Blameless, Spared, Blamed
  <2>2. n \in resolved /\ n \notin Failing("kind") /\ n < slots
    BY <2>1 DEF BlameInv, LossOK, Later
  <2>3. n \notin Outside
    BY <1>0, <2>1, <2>2, SourcesAssumption DEF Outside, TypeOK, Sources
  <2>4. deps[n] = Needs[n]
    BY <2>1, <2>2 DEF BlameInv, IInv, DepsOK
  <2>5. Needs[n] \subseteq Blameless
    BY <1>0, SparedClosed DEF Blameless
  <2>6. QED BY <2>1, <2>2, <2>3, <2>4, <2>5
<1>2. NoCycleIn(Needs, Blameless)
  <2>1. NoCycleIn(imports, CycleFree) /\ (Strict => ~Cyclic(imports))
    BY DEF BlameInv, CycleOK, Later
  <2>2. CASE mode = "complete"
    <3>1. ~Cyclic(Needs)
      BY <1>0, <2>1, <2>2, PrefixAddsNoCycle DEF Strict
    <3>2. Blameless \subseteq Sources
      BY <1>1
    <3>3. QED BY <3>1, <3>2 DEF NoCycleIn, Cyclic
  <2>3. CASE mode # "complete"
    <3>1. Needs = imports
      <4>1. \A n \in Sources : Needs[n] = imports[n]
        BY <2>3 DEF Needs
      <4>2. QED BY <1>0, <4>1 DEF TypeOK
    <3>2. "cycle" \in Kinds \ {"dependency"}
      BY DEF Kinds
    <3>3. Blameless \subseteq CycleFree
      BY <3>1, <3>2 DEF Blameless, CycleFree, Spared
    <3>4. QED BY <2>1, <3>1, <3>3 DEF NoCycleIn
  <2>4. QED BY <2>2, <2>3
<1>3. {m} \cup Closure(deps, m) \subseteq Blameless
  <2>1. \A n \in Blameless : deps[n] \subseteq Blameless
    BY <1>1
  <2>2. Blameless \in SUBSET Sources
    BY <1>1
  <2>3. QED BY <2>1, <2>2, ClosureLeast
<1>4. NoCycleIn(deps, {m} \cup Closure(deps, m))
  BY <1>1, <1>2, <1>3 DEF NoCycleIn
<1>5. m \in Calm
  BY <1>1, <1>4 DEF Calm
<1>6. QED BY <1>1, <1>5

LEMMA CheckBlame ==
    ASSUME BlameInv, CheckTypes
    PROVE  CycleOK' /\ LossOK' /\ PassedOK'
<1> DEFINE m == order[todo]
<1>0. /\ phase = "check" /\ phase' = phase /\ todo <= Len(order) /\ todo' = todo + 1
      /\ UNCHANGED <<inputs, walk, resolved>>
      /\ \/ Absent(m) /\ errors' = errors /\ checked' = checked
         \/ /\ ~DependenciesChecked(m) /\ checked' = checked
            /\ errors' = IF errors = {} THEN {<<m, "dependency">>} ELSE errors
         \/ /\ ~Absent(m) /\ DependenciesChecked(m)
            /\ \/ checked' = checked /\ errors' = errors \cup {<<m, "type">>}
               \/ errors' = errors /\ checked' = checked \cup {m}
  BY DEF CheckTypes
<1>1. TypeOK /\ WalkOK /\ m \in Sources /\ todo \in 1 .. Len(order) /\ Len(order) \in Nat
  BY <1>0, PathFacts DEF BlameInv, IInv, TypeOK
<1>2. errors \subseteq errors' /\ checked \subseteq checked'
  BY <1>0
<1>3. /\ Blameless' \subseteq Blameless /\ PrefixAlone' = PrefixAlone
      /\ \A n : Blamed(n) => Blamed(n)'
      /\ \A s : Failing(s)' = Failing(s)
  BY <1>0, <1>2, BlameGrows
<1>4. CycleOK'
  BY <1>0, <1>2, CycleKept DEF BlameInv, Later
<1>5. LossOK'
  BY <1>0, <1>3 DEF BlameInv, LossOK, Later, walk
<1>6. PassedOK'
  <2>1. SUFFICES ASSUME PrefixAlone PROVE Before(todo)' \cap Blameless' \subseteq checked'
    BY <1>3 DEF PassedOK
  <2>2. Before(todo)' = Before(todo) \cup {m}
    BY <1>0, <1>1 DEF Before, walk
  <2>3. Before(todo) \cap Blameless \subseteq checked
    BY <1>0, <2>1 DEF BlameInv, PassedOK
  <2>4. ASSUME m \in Blameless' PROVE m \in checked'
    <3>1. /\ m \in Calm /\ m \in resolved /\ m \notin Failing("kind")
          /\ deps[m] = Needs[m] /\ Needs[m] \subseteq Blameless
      BY <1>0, <1>3, <2>1, <2>4, BlamelessFacts
    <3>2. deps[m] \subseteq Before(todo) \cup Outside
      BY <1>0, <1>1, <3>1 DEF WalkOK, CalmFirst, Edges
    <3>3. Outside \cap Blameless = {}
      BY <1>0, <2>1, BlamelessFacts
    <3>4. ~Absent(m) /\ DependenciesChecked(m)
      BY <2>3, <3>1, <3>2, <3>3 DEF Absent, DependenciesChecked
    <3>5. <<m, "type">> \notin errors'
      BY <2>4 DEF Blameless, Spared, Kinds, Stages
    <3>6. QED BY <1>0, <3>4, <3>5
  <2>5. QED BY <1>2, <1>3, <2>2, <2>3, <2>4
<1>7. QED BY <1>4, <1>5, <1>6

LEMMA BlameInductive == Spec => []BlameInv
<1>1. Init => CycleOK /\ LossOK /\ PassedOK
  BY DEF Init, CycleOK, LossOK, PassedOK, Later
<1>2. BlameInv /\ [Next]_vars => CycleOK' /\ LossOK' /\ PassedOK'
  <2>1. SUFFICES ASSUME BlameInv, [Next]_vars PROVE CycleOK' /\ LossOK' /\ PassedOK'
    OBVIOUS
  <2>2. CASE UNCHANGED vars
    <3>1. /\ UNCHANGED <<inputs, errors, phase, todo, resolved, checked, order, slots>>
          /\ Done' = Done /\ imports' = imports /\ Before(todo)' = Before(todo) /\ Strict' = Strict
      BY <2>2 DEF vars, walk, inputs, Done, Before, Strict
    <3>2. /\ CycleFree' \subseteq CycleFree /\ Blameless' \subseteq Blameless
          /\ PrefixAlone' = PrefixAlone
          /\ \A n : Blamed(n) => Blamed(n)'
          /\ \A s : Failing(s)' = Failing(s)
          /\ Cyclic(imports)' = Cyclic(imports)
      BY <3>1, BlameGrows, InputFrame
    <3>3. CycleOK'
      BY <2>1, <3>1, <3>2 DEF BlameInv, CycleOK, NoCycleIn
    <3>4. QED BY <2>1, <3>1, <3>2, <3>3 DEF BlameInv, LossOK, PassedOK
  <2>3. CASE WalkStep
    BY <2>1, <2>3, WalkBlame DEF WalkStep, Walking, VisitRoot, VisitEdge, SkipEdge, EndVisit
  <2>4. CASE Unreadable \/ BuildEdges \/ Sorted
    BY <2>1, <2>4, SortBlame
  <2>5. CASE Resolve \/ Resolved
    BY <2>1, <2>5, ResolveBlame
  <2>6. CASE Desugar \/ CheckKinds \/ Ordered \/ Finish
    BY <2>1, <2>6, StageBlame
  <2>7. CASE CheckTypes
    BY <2>1, <2>7, CheckBlame
  <2>8. QED BY <2>1, <2>2, <2>3, <2>4, <2>5, <2>6, <2>7 DEF Next, WalkStep
<1>3. QED BY <1>1, <1>2, InitInv, NextInv, PTL DEF Spec, BlameInv

-----------------------------------------------------------------------------
(* Whose instances a module sees *)

\* The least set that holds the dependencies of m and of its members, and R.
Reached(m, R) ==
    {t \in Sources : \A S \in SUBSET Sources :
        (R \cup deps[m] \subseteq S /\ \A s \in S : deps[s] \subseteq S) => t \in S}

\* The worklist ends with exactly the modules that can be reached, whichever
\* module is popped first.
LEMMA InstancesReached ==
    ASSUME deps \in [Sources -> SUBSET Sources], NEW m \in Sources
    PROVE  Instances(m) = Closure(deps, m)
<1> DEFINE Step(v) == v \cup {CHOOSE d \in Stacked(m, v) : TRUE}
           Run(f) == [v \in SUBSET Sources |-> IF Stacked(m, v) = {} THEN v ELSE f[Step(v)]]
           seen == CHOOSE f : f = Run(f)
           reached == [v \in SUBSET Sources |-> Reached(m, v)]
<1>1. Instances(m) = seen[{}]
  BY DEF Instances
<1>2. ASSUME NEW v \in SUBSET Sources, Stacked(m, v) = {}
      PROVE  Reached(m, v) = v
  <2>1. v \cup deps[m] \subseteq v /\ \A s \in v : deps[s] \subseteq v
    BY <1>2 DEF Stacked
  <2>2. QED BY <2>1 DEF Reached
<1>3. ASSUME NEW v \in SUBSET Sources, Stacked(m, v) # {}
      PROVE  /\ Step(v) \in SUBSET Sources /\ v \subseteq Step(v) /\ v # Step(v)
             /\ Reached(m, Step(v)) = Reached(m, v)
  <2>1. PICK d : d = (CHOOSE s \in Stacked(m, v) : TRUE) /\ d \in Stacked(m, v) /\ Step(v) = v \cup {d}
    BY <1>3
  <2>2. d \in Sources /\ d \notin v
    BY <2>1 DEF Stacked
  <2>3. ASSUME NEW S \in SUBSET Sources, v \cup deps[m] \subseteq S, \A s \in S : deps[s] \subseteq S
        PROVE  d \in S
    BY <2>1, <2>3 DEF Stacked
  <2>4. \A S \in SUBSET Sources :
          (v \cup deps[m] \subseteq S /\ \A s \in S : deps[s] \subseteq S)
            <=> ((v \cup {d}) \cup deps[m] \subseteq S /\ \A s \in S : deps[s] \subseteq S)
    BY <2>3
  <2>5. Reached(m, v \cup {d}) = Reached(m, v)
    BY <2>4 DEF Reached
  <2>6. QED BY <2>1, <2>2, <2>5
<1> HIDE DEF Step
<1>4. reached = Run(reached)
  <2>1. ASSUME NEW v \in SUBSET Sources
        PROVE  reached[v] = IF Stacked(m, v) = {} THEN v ELSE reached[Step(v)]
    BY <1>2, <1>3
  <2>2. QED BY <2>1
<1>5. seen = Run(seen)
  <2> HIDE DEF Run, reached
  <2> QED BY <1>4
<1> HIDE DEF seen
<1>6. \A v \in SUBSET Sources : seen[v] = Reached(m, v)
  <2> DEFINE Wrong == {w \in SUBSET Sources : seen[Sources \ w] # Reached(m, Sources \ w)}
  <2>1. SUFFICES ASSUME Wrong # {} PROVE FALSE
    <3>1. ASSUME NEW v \in SUBSET Sources, seen[v] # Reached(m, v) PROVE FALSE
      <4>1. Sources \ v \in SUBSET Sources /\ Sources \ (Sources \ v) = v
        OBVIOUS
      <4>2. QED BY <2>1, <3>1, <4>1
    <3>2. QED BY <3>1
  <2>2. FiniteSubsetsOf(Sources) = SUBSET Sources
    <3>1. IsFiniteSet(Sources)
      BY SourcesAssumption, FS_Interval DEF Sources
    <3>2. QED BY <3>1, FS_FiniteSubsetsOfFinite
  <2>3. PICK w \in Wrong : \A u \in Wrong : ~ (<<u, w>> \in StrictSubsetOrdering(Sources))
    <3>1. IsWellFoundedOn(StrictSubsetOrdering(Sources), SUBSET Sources) /\ Wrong \subseteq SUBSET Sources
      BY <2>2, FS_StrictSubsetOrderingWellFounded
    <3> HIDE DEF Wrong
    <3>2. QED BY <2>1, <3>1, WFMin
  <2> DEFINE v == Sources \ w
  <2>4. v \in SUBSET Sources /\ seen[v] = IF Stacked(m, v) = {} THEN v ELSE seen[Step(v)]
    BY <1>5
  <2>5. Stacked(m, v) # {}
    BY <1>2, <2>4
  <2>6. Step(v) \in SUBSET Sources /\ seen[Step(v)] # Reached(m, Step(v))
    BY <1>3, <2>4, <2>5
  <2> DEFINE u == Sources \ Step(v)
  <2>7. u \in Wrong
    <3>1. u \in SUBSET Sources /\ Sources \ u = Step(v)
      BY <2>6
    <3>2. QED BY <2>6, <3>1
  <2>8. <<u, w>> \in StrictSubsetOrdering(Sources)
    <3>1. u \subseteq w /\ u # w /\ u \in SUBSET Sources /\ w \in SUBSET Sources
      BY <1>3, <2>4, <2>5
    <3>2. QED BY <3>1 DEF StrictSubsetOrdering
  <2>9. QED BY <2>3, <2>7, <2>8
<1>7. Reached(m, {}) = Closure(deps, m)
  BY DEF Reached, Closure
<1>8. QED BY <1>1, <1>6, <1>7

\* Two graphs that agree on a closed set lead to the same modules from it.
LEMMA ClosureAgrees ==
    ASSUME NEW g \in [Sources -> SUBSET Sources], NEW h \in [Sources -> SUBSET Sources],
           NEW C \in SUBSET Sources, NEW m \in Sources, g[m] = h[m], g[m] \subseteq C,
           \A c \in C : g[c] = h[c] /\ g[c] \subseteq C
    PROVE  Closure(g, m) \subseteq Closure(h, m)
<1>1. SUFFICES ASSUME NEW t \in Closure(g, m), NEW S \in SUBSET Sources,
                      h[m] \subseteq S, \A s \in S : h[s] \subseteq S
               PROVE  t \in S
  BY DEF Closure
<1>2. S \cap C \in SUBSET Sources /\ g[m] \subseteq S \cap C /\ \A s \in S \cap C : g[s] \subseteq S \cap C
  BY <1>1
<1>3. QED BY <1>1, <1>2 DEF Closure

ScopeOK == visible \in [Sources -> SUBSET Sources] /\ InstancesInScope

\* Where the checker has come to a module, its closure over the tables it works
\* with is the one over the program's own dependencies.
LEMMA CheckScope ==
    ASSUME IInv, ScopeOK, CheckTypes
    PROVE  ScopeOK'
<1>0. /\ TypeOK /\ phase = "check" /\ UNCHANGED inputs
      /\ \A m \in Sources : deps[m] = IF m \in resolved THEN Needs[m] ELSE {}
      /\ checked \subseteq resolved /\ \A m \in checked : Needs[m] \subseteq checked
  BY DEF IInv, CheckTypes, DepsOK, CheckedOK
<1>1. Needs' = Needs /\ Needs \in [Sources -> SUBSET Sources] /\ deps \in [Sources -> SUBSET Sources]
      /\ checked \subseteq Sources
  BY <1>0, InputFrame, NeedsFacts DEF TypeOK
<1>2. PICK m \in Sources : m = order[todo]
  BY <1>0, PathFacts DEF CheckTypes, TypeOK
<1>3. CASE UNCHANGED <<checked, visible>>
  BY <1>1, <1>3 DEF ScopeOK, InstancesInScope, Closure
<1>4. CASE /\ ~Absent(m) /\ DependenciesChecked(m)
           /\ visible' = [visible EXCEPT ![m] = Instances(m)]
           /\ checked' \subseteq checked \cup {m}
  <2>1. m \in resolved /\ deps[m] \subseteq checked
    BY <1>4 DEF Absent, DependenciesChecked
  <2>2. \A c \in checked : deps[c] = Needs[c] /\ deps[c] \subseteq checked
    BY <1>0, <1>1
  <2>3. deps[m] = Needs[m]
    BY <1>0, <2>1
  <2>4. Closure(deps, m) = Closure(Needs, m)
    <3>1. Closure(deps, m) \subseteq Closure(Needs, m)
      BY <1>1, <2>1, <2>2, <2>3, ClosureAgrees
    <3>2. Closure(Needs, m) \subseteq Closure(deps, m)
      BY <1>1, <2>1, <2>2, <2>3, ClosureAgrees
    <3>3. QED BY <3>1, <3>2
  <2>5. Instances(m) = Closure(Needs, m)
    BY <1>1, <2>4, InstancesReached
  <2>6. Closure(Needs, m) \in SUBSET Sources
    BY DEF Closure
  <2>7. \A d \in Sources : visible'[d] = IF d = m THEN Closure(Needs, m) ELSE visible[d]
    BY <1>4, <2>5 DEF ScopeOK
  <2>8. visible' \in [Sources -> SUBSET Sources]
    BY <1>4, <2>5, <2>6 DEF ScopeOK
  <2>9. \A d \in checked' : visible'[d] = Closure(Needs, d)
    BY <1>1, <1>4, <2>7 DEF ScopeOK, InstancesInScope
  <2>10. \A d \in checked' : Closure(Needs, d)' = Closure(Needs, d)
    BY <1>1 DEF Closure
  <2>11. QED BY <2>8, <2>9, <2>10 DEF ScopeOK, InstancesInScope
<1>5. QED BY <1>2, <1>3, <1>4 DEF CheckTypes

LEMMA ScopeInductive == Spec => []ScopeOK
<1>1. Init => ScopeOK
  BY DEF Init, ScopeOK, InstancesInScope
<1>2. IInv /\ ScopeOK /\ [Next]_vars => ScopeOK'
  <2>1. SUFFICES ASSUME IInv, ScopeOK, [Next]_vars PROVE ScopeOK'
    OBVIOUS
  <2>2. CASE CheckTypes
    BY <2>1, <2>2, CheckScope
  <2>3. CASE UNCHANGED <<inputs, checked, visible>>
    <3>1. Needs' = Needs /\ checked' = checked /\ visible' = visible
      BY <2>3, InputFrame
    <3>2. QED BY <2>1, <3>1 DEF ScopeOK, InstancesInScope, Closure
  <2>4. [Next]_vars => CheckTypes \/ UNCHANGED <<inputs, checked, visible>>
    BY DEF Next, vars, Unreadable, BuildEdges, VisitRoot, VisitEdge, SkipEdge, EndVisit,
           Sorted, Resolve, Resolved, Desugar, CheckKinds, Ordered, Finish
  <2>5. QED BY <2>1, <2>2, <2>3, <2>4
<1>3. QED BY <1>1, <1>2, Inductive, PTL DEF Spec

-----------------------------------------------------------------------------
(* The theorems *)

\* Whatever the graph, the roots and the order the imports are followed in,
\* the resolver reports an import cycle exactly when there is one.
THEOREM CyclesFound == Spec => []CyclesReported
<1>1. IInv => CyclesReported
  BY DEF IInv, SortOK, CyclesReported
<1>2. QED BY <1>1, Inductive, PTL

\* A module is resolved after its imports and checked after what it depends on.
THEOREM DependenciesComeFirst == Spec => []DependenciesFirst
<1>1. IInv => DependenciesFirst
  <2>1. SUFFICES ASSUME IInv PROVE DependenciesFirst
    OBVIOUS
  <2>2. ASSUME phase = "resolve", todo <= Len(order), errors = {}
        PROVE  imports[order[todo]] \subseteq resolved
    <3>1. todo \in 1 .. Len(order)
      BY <2>1, <2>2, PathFacts DEF IInv, TypeOK
    <3>2. Topological(imports) /\ slots = N
      BY <2>1, <2>2 DEF IInv, SortOK, CycleReported
    <3>3. Outside = {}
      BY <3>2, SourcesAssumption DEF Outside, Sources
    <3>4. Before(todo) \subseteq resolved
      BY <2>1, <2>2 DEF IInv, CleanOK
    <3>5. QED BY <3>1, <3>2, <3>3, <3>4 DEF Topological
  <2>3. QED BY <2>1, <2>2 DEF DependenciesFirst, IInv, CheckedOK
<1>2. QED BY <1>1, Inductive, PTL

\* The driver accepts a program exactly when no stage finds a fault in it and
\* no module depends on itself, and then it has checked every module.
THEOREM VerdictCorrect == Spec => []VerdictIsRight
<1>1. IInv => VerdictIsRight
  BY DEF IInv, CleanOK, WellOK, VerdictIsRight
<1>2. QED BY <1>1, Inductive, PTL

\* No module is passed over without cause: when the type checker has come to
\* the end, each one it did not check depends on a module that has a diagnostic
\* of its own, also where imports are cyclic and the lenient check went on.
THEOREM SkipsHaveCause == Spec => []SkipsExplained
<1>1. BlameInv => SkipsExplained
  <2>1. SUFFICES ASSUME BlameInv, phase = "check", todo > Len(order), PrefixAlone,
                        NEW m \in Sources \ checked
                 PROVE  \E n \in {m} \cup Closure(Needs, m) :
                           \E k \in Kinds \ {"dependency"} : <<n, k>> \in errors
    BY DEF SkipsExplained, PrefixAlone
  <2>2. SUFFICES ASSUME m \in Blameless PROVE FALSE
    BY DEF Blameless, Spared
  <2>3. TypeOK /\ WalkOK /\ path = <<>> /\ root = slots
    BY <2>1 DEF BlameInv, IInv, DepsOK
  <2>4. m \notin Outside
    BY <2>1, <2>2, BlamelessFacts
  <2>5. m \in Before(todo)
    BY <2>1, <2>3, <2>4, AllEnded, PathFacts DEF Before, TypeOK
  <2>6. QED BY <2>1, <2>2, <2>5 DEF BlameInv, PassedOK
<1>2. QED BY <1>1, BlameInductive, PTL

\* A module is checked against the instances of exactly the modules it depends
\* on, directly or not, whatever else the program holds or has lost.
THEOREM ScopeIsClosure == Spec => []InstancesInScope
<1>1. ScopeOK => InstancesInScope
  BY DEF ScopeOK
<1>2. QED BY <1>1, ScopeInductive, PTL
=============================================================================
