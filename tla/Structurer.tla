----------------------------- MODULE Structurer -----------------------------
(***************************************************************************)
(* psrs-backend's Wasm structurer: the control-flow graph of a function    *)
(* becomes nested Wasm blocks, loops and try_tables (wasm/lower/           *)
(* structure).  A graph with a cycle of several entries becomes a          *)
(* dispatcher loop instead.                                                *)
(*                                                                         *)
(* A behaviour takes one graph, emits its code, and then runs that code as *)
(* Wasm does, with branches counted in enclosing labels.  What a block     *)
(* computes is left out: a branch may take any of its edges, and the calls *)
(* of any block may raise an exception.  All clauses of a region deliver   *)
(* to one handler, as the structurer demands.                              *)
(***************************************************************************)
EXTENDS Integers, FiniteSets, SequencesExt

CONSTANTS Blocks,   \* the block ids of a function
          Tags      \* the exceptions

ASSUME BlocksAssumption == Blocks \subseteq Nat /\ IsFiniteSet(Blocks)

VARIABLES
    function,       \* entry: the entry block; succ: the targets of every block;
                    \* throws: the blocks that end in a throw, others without targets
                    \* return; tries: by try block, the protected entry, the handler,
                    \* the normal exit and the tags that are caught; and what the
                    \* verifier finds: raw, the blocks of every region, and edges,
                    \* where control goes from every block, unwinding included
    phase,          \* "built", "graph", "code", "run", "left", "invalid", "rejected"
    form,           \* what the graph became
    frames,         \* the Wasm control stack: what is left of every open body
    selector,       \* the dispatcher's state local
    at, chosen      \* the block control is in, and the one it was to go to

vars == <<function, phase, form, frames, selector, at, chosen>>

NoBlock == -1       \* for at: control is on its way to a block
Nowhere == -2       \* control left the code, or hit an unreachable instruction

TryBlocks(f) == DOMAIN f.tries

-----------------------------------------------------------------------------
(* Analysis *)

\* Everything some of the blocks S lead to along next, S included.
Spread(T, next) == T \cup UNION {next[b] : b \in T}
Closure(S, next) ==
    LET grow[T \in SUBSET DOMAIN next] ==
          IF Spread(T, next) = T THEN T ELSE grow[Spread(T, next)]
    IN  grow[S]

Reachable(f, next) == Closure({f.entry}, next)
Predecessors(f, next) ==
    LET reached == Reachable(f, next) IN [b \in reached |-> {s \in reached : b \in next[s]}]

\* Sweeps over the blocks narrow what may dominate them until none changes.
Narrowed(preds, dom) ==
    [b \in DOMAIN preds |-> {x \in dom[b] : \/ x = b
                                            \/ preds[b] # {} /\ \A p \in preds[b] : x \in dom[p]}]
Dominators(f, preds) ==
    LET settled[dom \in [DOMAIN preds -> SUBSET DOMAIN preds]] ==
          IF Narrowed(preds, dom) = dom THEN dom ELSE settled[Narrowed(preds, dom)]
    IN  settled[[b \in DOMAIN preds |-> IF b = f.entry THEN {b} ELSE DOMAIN preds]]

\* The edges with what a Try announces: its handler and its normal exit.
SeedEdges(f) ==
    [b \in Blocks |-> IF b \in TryBlocks(f)
                      THEN f.succ[b] \cup ({f.tries[b].handler, f.tries[b].exit} \ {NoBlock})
                      ELSE f.succ[b]]

\* try_region::plan: the blocks of every region, which its entry dominates.
RawRegions(f, dom) == [t \in TryBlocks(f) |-> {b \in DOMAIN dom : f.tries[t].entry \in dom[b]}]

\* The handler of the innermost of the regions around b that catches tag.
Landing(f, b, tag) ==
    LET catching == {t \in TryBlocks(f) : /\ b \in f.raw[t] /\ b # f.tries[t].handler
                                          /\ tag \in f.tries[t].catches}
    IN  IF catching = {} THEN Nowhere
        ELSE f.tries[CHOOSE t \in catching : \A u \in catching : f.raw[t] \subseteq f.raw[u]].handler

\* UnwindGraph: a throw is opaque and leads wherever one of its tags lands.
UnwindEdges(f) ==
    [b \in Blocks |-> SeedEdges(f)[b] \cup
        (IF b \in f.throws THEN {Landing(f, b, x) : x \in Tags} \ {Nowhere} ELSE {})]

\* has_irreducible_component: a strongly connected component with a cycle and
\* more than one block that is entered from outside.
HasIrreducibleComponent(f, preds) ==
    LET back == [b \in DOMAIN preds |-> Closure({b}, preds)]
        component(b) == {c \in back[b] : b \in back[c]}
        entries(C) == {b \in C : b = f.entry \/ preds[b] \ C # {}}
    IN  \E b \in DOMAIN preds : Cardinality(entries(component(b))) > 1

Latches(f, preds, dom, h) == {s \in DOMAIN preds : h \in f.succ[s] /\ h \in dom[s]}

\* Mutant: one loop per back edge.
LoopPerBackEdge(f, preds, dom) ==
    UNION {{[header |-> h, blocks |-> Closure({h, s}, [preds EXCEPT ![h] = {}])]
               : s \in Latches(f, preds, dom, h)} : h \in DOMAIN preds}

\* One loop per header: the blocks that reach a back edge to it without passing it.
NaturalLoops(f, preds, dom) ==
    LET latches(h) == Latches(f, preds, dom, h)
    IN  {[header |-> h, blocks |-> Closure({h} \cup latches(h), [preds EXCEPT ![h] = {}])]
            : h \in {h \in DOMAIN preds : latches(h) # {}}}

LoopsNest(loops) ==
    \A l, r \in loops :
        \/ l = r
        \/ l.blocks \cap r.blocks = {}
        \/ l.blocks # r.blocks /\ (l.blocks \subseteq r.blocks \/ r.blocks \subseteq l.blocks)

HeadersDominate(loops, dom) == \A l \in loops : \A b \in l.blocks : l.header \in dom[b]

\* What a try unit protects, with its try block; and all it emits: this, its
\* handler, and what the tries within it emit.
Extent(f, t) == f.raw[t] \cup {t}
Within(f) == [u \in TryBlocks(f) |-> TryBlocks(f) \cap f.raw[u]]
Claim(f, t) == UNION {Extent(f, u) \cup {f.tries[u].handler} : u \in Closure({t}, Within(f))}

\* validate_try_loop_nesting
TriesNest(f, loops) ==
    \A t \in TryBlocks(f), l \in loops :
        \/ Extent(f, t) \cap l.blocks = {} \/ Extent(f, t) \subseteq l.blocks
        \/ l.blocks \subseteq f.raw[t] \/ t \in l.blocks

-----------------------------------------------------------------------------
(* build_region: a unit per outermost loop or try and per block outside them. *)
(* The whole function, every loop and every try stand for a region.           *)

\* `within' is what decides which units contain which, `blocks' what is emitted.
RootUnit(f) ==
    [kind |-> "root", header |-> f.entry, within |-> Reachable(f, f.edges),
     blocks |-> Reachable(f, f.edges)]
LoopUnit(f, l) ==
    [kind |-> "loop", header |-> l.header, within |-> l.blocks,
     blocks |-> l.blocks \cup UNION {Claim(f, t) : t \in TryBlocks(f) \cap l.blocks}]
TryUnit(f, t) ==
    [kind |-> "try", header |-> t, within |-> Extent(f, t), blocks |-> Claim(f, t)]
BlockUnit(b) == [kind |-> "block", header |-> b, within |-> {b}, blocks |-> {b}]

Regions(f, loops) ==
    {RootUnit(f)} \cup {LoopUnit(f, l) : l \in loops} \cup {TryUnit(f, t) : t \in TryBlocks(f)}

\* The blocks of a unit's region, the header it loops to, and where it starts.
Members(f, u) == IF u.kind = "try" THEN f.raw[u.header] ELSE u.within
Header(u) == IF u.kind = "loop" THEN u.header ELSE NoBlock
First(f, u) == IF u.kind = "try" THEN f.tries[u.header].entry ELSE u.header

\* contained_in
Contained(f, c, o) ==
    CASE c.kind = "try" /\ o.kind = "loop" -> c.header \in o.within
      [] c.kind = "loop" /\ o.kind = "try" -> c.within \subseteq f.raw[o.header]
      [] OTHER -> c.within \subseteq o.within /\ c.within # o.within

Candidates(f, loops, u) ==
    {LoopUnit(f, l) : l \in {l \in loops : /\ l.header # Header(u) /\ l.blocks \subseteq Members(f, u)
                                           /\ Header(u) = NoBlock \/ l.blocks # Members(f, u)}}
    \cup {TryUnit(f, t) : t \in TryBlocks(f) \cap Members(f, u)}

DirectChildren(f, loops, u) ==
    LET candidates == Candidates(f, loops, u)
    IN  {c \in candidates : \A o \in candidates : c = o \/ ~Contained(f, c, o)}

NoCode == <<>>      \* also the units of a region that was given up

Leads(f, u, v, w) == v # w /\ \E s \in v.blocks : \E t \in w.blocks \cap Members(f, u) :
                                  t # Header(u) /\ t \in f.succ[s]

\* Of the units nothing else leads to, that of the region's first block or else
\* that of the lowest.
Ready(f, u, units) == {w \in units : \A v \in units : ~Leads(f, u, v, w)}
NextUnit(f, u, ready) ==
    LET starts == {v \in ready : First(f, u) \in v.blocks}
    IN  IF starts # {} THEN CHOOSE v \in starts : TRUE
        ELSE CHOOSE v \in ready : \A w \in ready : v.header <= w.header

\* The units in topological order; none when there is no order.
Ordered(f, u, units) ==
    LET order[left \in SUBSET units] ==
          LET next == NextUnit(f, u, Ready(f, u, left))
              rest == order[left \ {next}]
          IN  IF Ready(f, u, left) = {} THEN NoCode
              ELSE IF left = {next} THEN <<next>>
              ELSE IF rest = NoCode THEN NoCode ELSE <<next>> \o rest
    IN  order[units]

\* A region in which two children claim a block is given up as well.
Units(f, loops, u) ==
    LET children == DirectChildren(f, loops, u)
        alone == Members(f, u) \ UNION {c.blocks : c \in children}
    IN  IF \A c, d \in children : c = d \/ c.blocks \cap d.blocks = {}
        THEN Ordered(f, u, children \cup {BlockUnit(b) : b \in alone})
        ELSE NoCode

-----------------------------------------------------------------------------
(* Emission *)

Block(body) == [op |-> "block", body |-> body]
Loop(body) == [op |-> "loop", body |-> body]
Try(catches, body) == [op |-> "try", catches |-> catches, body |-> body]
Unreachable == [op |-> "unreachable"]
At(b) == [op |-> "at", block |-> b]
Leave == [op |-> "leave"]
Throw == [op |-> "throw"]

Label == {"block", "loop", "unwind", "try"} \X Blocks

\* Mutant: the following units are labelled from the inside out.
LabelsInOrder(u, units, i, enclosing) ==
    enclosing
    \o (IF u.kind = "loop" THEN <<<<"loop", u.header>>>> ELSE <<>>)
    \o [j \in 1 .. Len(units) - i |-> <<"block", units[i + j].header>>]

\* The labels around the i-th unit, outermost first: after every following
\* unit's block has been opened a branch to its label goes to its code.
Labels(u, units, i, enclosing) ==
    enclosing
    \o (IF u.kind = "loop" THEN <<<<"loop", u.header>>>> ELSE <<>>)
    \o [j \in 1 .. Len(units) - i |-> <<"block", units[Len(units) + 1 - j].header>>]

\* The labels a try unit adds for its region.
Armed(t, labels) == labels \o <<<<"unwind", t>>, <<"try", t>>>>

\* branch_depth: the innermost loop of that name, or else the innermost block.
\* Without either the code is given up.
BranchLabel(target, labels) ==
    LET loop == SelectLastInSeq(labels, LAMBDA l : l = <<"loop", target>>)
        block == SelectLastInSeq(labels, LAMBDA l : l = <<"block", target>>)
    IN  IF loop # 0 THEN loop ELSE block

Terminator(f, b, labels) ==
    IF b \in f.throws THEN <<Throw>>
    ELSE IF f.succ[b] = {} THEN <<Leave>>
    ELSE IF \E t \in f.succ[b] : BranchLabel(t, labels) = 0 THEN NoCode
    ELSE <<[op |-> "br", depth |-> [t \in f.succ[b] |-> Len(labels) - BranchLabel(t, labels)]]>>

EmitBlock(f, b, labels) ==
    LET end == Terminator(f, b, labels) IN IF end = NoCode THEN NoCode ELSE <<At(b)>> \o end

\* emit_try_unit: the try block, the region inside a try_table whose clauses
\* leave the block around it, and there the handler.
EmitTry(f, t, protected, labels) ==
    LET handler == EmitBlock(f, f.tries[t].handler, labels)
    IN  IF protected = NoCode \/ handler = NoCode THEN NoCode
        ELSE <<At(t), Block(<<Try(f.tries[t].catches, protected), Unreachable>>)>> \o handler

\* Parts around what is innermost, each behind a block that ends before it.
Nested(innermost, parts) ==
    LET upTo[i \in 0 .. Len(parts)] ==
          IF i = 0 THEN innermost ELSE <<Block(upTo[i - 1])>> \o parts[i]
    IN  upTo

\* emit_unit, given the code of every region by its enclosing labels.
EmitUnit(f, v, emitted, labels) ==
    CASE v.kind = "block" -> EmitBlock(f, v.header, labels)
      [] v.kind = "loop" -> LET body == emitted[<<v, labels>>]
                            IN  IF body = NoCode THEN NoCode ELSE <<Loop(body)>>
      [] v.kind = "try" ->
            EmitTry(f, v.header, emitted[<<v, Armed(v.header, labels)>>], labels)

\* emit_region.  What cannot be emitted leaves no code.
RegionCode(f, loops, emitted, u, enclosing) ==
    LET units == Units(f, loops, u)
        parts == [i \in 1 .. Len(units) |->
                    EmitUnit(f, units[i], emitted, Labels(u, units, i, enclosing))]
    IN  IF \E i \in 1 .. Len(units) : parts[i] = NoCode THEN NoCode
        ELSE Nested(NoCode, parts)[Len(units)]
EmitRegion(f, loops) ==
    LET emitted[c \in Regions(f, loops) \X Seq(Label)] ==
          RegionCode(f, loops, emitted, c[1], c[2])
    IN  emitted

\* emit_dispatcher: a loop around a table over all blocks, whose states are
\* their places in the order of the ids.
State(f) ==
    LET reached == Reachable(f, f.edges) IN [b \in reached |-> Cardinality({c \in reached : c < b})]
DispatchedBlock(f, state, b) ==
    IF f.succ[b] = {} THEN <<At(b), Leave>>
    ELSE <<At(b), [op |-> "select", state |-> [t \in f.succ[b] |-> state[t]]],
           [op |-> "jump", depth |-> state[b] + 1]>>
EmitDispatcher(f) ==
    LET state == State(f)
        n == Cardinality(DOMAIN state)
        table == [op |-> "table", depth |-> [s \in 0 .. n - 1 |-> n - s - 1]]
        parts == [i \in 1 .. n |->
                    DispatchedBlock(f, state, CHOOSE b \in DOMAIN state : state[b] = n - i)]
    IN  <<[op |-> "set", state |-> state[f.entry]],
          Loop(<<Block(Nested(<<table>>, parts)[n]), Unreachable>>)>>

-----------------------------------------------------------------------------
(* The Wasm machine *)

Frame(ops) == [ops |-> ops, again |-> NoCode, catches |-> {}]

\* A branch leaves depth bodies and then restarts a loop or leaves a block.
Branched(stack, depth) ==
    LET i == Len(stack) - depth
    IN  IF i < 1 THEN <<>>
        ELSE IF stack[i].again = NoCode THEN SubSeq(stack, 1, i - 1)
        ELSE [SubSeq(stack, 1, i) EXCEPT ![i].ops = stack[i].again]

\* An exception unwinds to the last try_table that catches it and branches to
\* the label around it.
Caught(stack, tag) ==
    LET i == SelectLastInSeq(stack, LAMBDA f : tag \in f.catches)
    IN  IF i = 0 THEN <<>> ELSE Branched(SubSeq(stack, 1, i - 1), 0)

\* One instruction on the way to the next block.
Stepped(stack, state) ==
    LET n == Len(stack)
        ops == stack[n].ops
        rest == [stack EXCEPT ![n].ops = Tail(@)]
        goes(next, value) == [frames |-> next, selector |-> value, at |-> NoBlock]
        enter(again, catches) ==
            goes(Append(rest, [ops |-> Head(ops).body, again |-> again, catches |-> catches]), state)
    IN  IF stack = <<>> THEN [frames |-> <<>>, selector |-> state, at |-> Nowhere]
        ELSE IF ops = <<>> THEN goes(Front(stack), state)
        ELSE CASE Head(ops).op = "block" -> enter(NoCode, {})
               [] Head(ops).op = "loop" -> enter(Head(ops).body, {})
               [] Head(ops).op = "try" -> enter(NoCode, Head(ops).catches)
               [] Head(ops).op = "set" -> goes(rest, Head(ops).state)
               [] Head(ops).op = "table" -> goes(Branched(stack, Head(ops).depth[state]), state)
               [] Head(ops).op = "jump" -> goes(Branched(stack, Head(ops).depth), state)
               [] Head(ops).op = "at" -> [frames |-> rest, selector |-> state, at |-> Head(ops).block]
               [] Head(ops).op = "unreachable" -> goes(<<>>, state)

GoesOn(stack, state) == frames' = stack /\ selector' = state /\ at' = NoBlock

-----------------------------------------------------------------------------
Emitted(code) == frames' = <<Frame(code)>> /\ phase' = "code"
Rejected == frames' = <<>> /\ phase' = "rejected"

\* The MIR verifier and try_region::plan.  Regions are nested or disjoint
\* because dominance is a tree order.
RegionsVerified(f, dom) ==
    \A t \in TryBlocks(f) :
        /\ f.tries[t].exit \notin {t, f.tries[t].entry, f.tries[t].handler}
        /\ f.tries[t].handler # f.entry
        /\ \A u \in TryBlocks(f) \ {t} : f.tries[u].handler # f.tries[t].handler
        /\ \A b \in Blocks : f.tries[t].handler \notin f.succ[b]
        /\ \A b \in DOMAIN dom : t \in f.succ[b] => t \notin dom[b]

Verify ==
    /\ phase = "built"
    /\ LET dom == Dominators(function, Predecessors(function, SeedEdges(function)))
           planned == [function EXCEPT !.raw = RawRegions(function, dom)]
       IN  /\ function' = [planned EXCEPT !.edges = UnwindEdges(planned)]
           /\ phase' = IF RegionsVerified(function, dom) THEN "graph" ELSE "invalid"
    /\ UNCHANGED <<form, frames, selector, at, chosen>>

\* ControlFlowPlan::build and the emission.  The dispatcher lowers neither a
\* region nor a throw.
Structure ==
    /\ phase = "graph"
    /\ LET f == function
           preds == Predecessors(f, f.edges)
           dom == Dominators(f, preds)
           loops == NaturalLoops(f, preds, dom)
           code == EmitRegion(f, loops)[<<RootUnit(f), <<>>>>]
       IN  IF HasIrreducibleComponent(f, preds)
           THEN /\ form' = "dispatcher"
                /\ IF TryBlocks(f) = {} /\ f.throws \cap DOMAIN preds = {}
                   THEN Emitted(EmitDispatcher(f)) ELSE Rejected
           ELSE /\ form' = "structured"
                /\ IF /\ LoopsNest(loops) /\ HeadersDominate(loops, dom)
                      /\ TriesNest(f, loops) /\ code # NoCode
                   THEN Emitted(code) ELSE Rejected
    /\ UNCHANGED <<function, selector, at, chosen>>

Call == /\ phase = "code"
        /\ phase' = "run"
        /\ chosen' = function.entry
        /\ UNCHANGED <<function, form, frames, selector, at>>

\* Control goes on to the next block.
Step == /\ phase = "run" /\ at = NoBlock
        /\ LET next == Stepped(frames, selector)
           IN  frames' = next.frames /\ selector' = next.selector /\ at' = next.at
        /\ UNCHANGED <<function, phase, form, chosen>>

Instruction == Head(Last(frames).ops)
Advanced == [frames EXCEPT ![Len(frames)].ops = Tail(@)]
InBlock == phase = "run" /\ at \in Blocks
Ends(op) == InBlock /\ Instruction.op = op

Take == /\ Ends("br")
        /\ \E t \in function.succ[at] :
              /\ chosen' = t
              /\ GoesOn(Branched(frames, Instruction.depth[t]), selector)
        /\ UNCHANGED <<function, phase, form>>

Select == /\ Ends("select")
          /\ \E t \in function.succ[at] :
                /\ chosen' = t
                /\ GoesOn(Advanced, Instruction.state[t])
          /\ UNCHANGED <<function, phase, form>>

\* The try block has run: its region is armed and entered.
Arm == /\ Ends("block")
       /\ chosen' = function.tries[at].entry
       /\ GoesOn(frames, selector)
       /\ UNCHANGED <<function, phase, form>>

\* The block throws, or a call in it does.
Raise == /\ InBlock
         /\ \E tag \in Tags :
               /\ chosen' = Landing(function, at, tag)
               /\ GoesOn(Caught(frames, tag), selector)
         /\ UNCHANGED <<function, phase, form>>

Exit == /\ Ends("leave")
        /\ phase' = "left" /\ frames' = <<>>
        /\ UNCHANGED <<function, form, selector, at, chosen>>

\* A Try leads to what it protects.  Lowering makes a new block for this and
\* one for the handler, whose cleanup protects nothing itself.
Lowered(f) ==
    \A t \in TryBlocks(f) :
        /\ f.succ[t] = {f.tries[t].entry}
        /\ f.tries[t].entry # f.entry /\ f.tries[t].handler \notin TryBlocks(f)
        /\ \A b \in Blocks \ {t} :
              SeedEdges(f)[b] \cap {f.tries[t].entry, f.tries[t].handler} = {}

Functions ==
    {f \in [entry : Blocks, succ : [Blocks -> SUBSET Blocks], throws : SUBSET Blocks,
            tries : UNION {[T -> [entry : Blocks, handler : Blocks, exit : Blocks \cup {NoBlock},
                                  catches : SUBSET Tags]] : T \in SUBSET Blocks},
            raw : {<<>>}, edges : {<<>>}] :
        (\A b \in f.throws : f.succ[b] = {}) /\ Lowered(f)}

Start == /\ phase = "built" /\ form = "none" /\ frames = <<>> /\ selector = 0
         /\ at = NoBlock /\ chosen = NoBlock

Init == function \in Functions /\ Start

Next == Verify \/ Structure \/ Call \/ Step \/ Arm \/ Take \/ Select \/ Raise \/ Exit

Spec == Init /\ [][Next]_vars

-----------------------------------------------------------------------------
(* Properties *)

\* Every cycle has a block that all paths from the entry to the cycle meet first.
Reducible(f) ==
    LET avoiding(h) == IF h = f.entry THEN {}
                       ELSE Closure({f.entry}, [b \in Blocks |-> IF b = h THEN {} ELSE f.edges[b] \ {h}])
        dominates(h, S) == S \cap avoiding(h) \subseteq {h}
        within(b, S) == Closure(f.edges[b] \cap S, [c \in Blocks |-> f.edges[c] \cap S])
    IN  \A S \in SUBSET Reachable(f, f.edges) :
            S # {} /\ (\A b \in S : S \subseteq within(b, S)) => \E h \in S : dominates(h, S)

\* What the code of block b goes on with: a try's region, a throw, the end of the
\* function, or a branch with a way to every target of b and to nothing else.
GoesOnAs(f, b, instruction) ==
    IF b \in TryBlocks(f) THEN instruction.op = "block"
    ELSE IF b \in f.throws THEN instruction.op = "throw"
    ELSE IF f.succ[b] = {} THEN instruction.op = "leave"
    ELSE \/ instruction.op = "br" /\ DOMAIN instruction.depth = f.succ[b]
         \/ instruction.op = "select" /\ DOMAIN instruction.state = f.succ[b]

\* The emitted code visits exactly the blocks the graph's edges lead to, from
\* its entry on, whatever the branches decide, has a way for each of a block's
\* edges, and never runs off its end; what any block raises lands at the handler
\* of the innermost region that catches it, or leaves the function.
CodeFollowsGraph ==
    phase = "run" => /\ at \in {NoBlock, chosen}
                     /\ at \in Blocks => GoesOnAs(function, at, Instruction)

\* Every reducible graph gets structured code, and without regions, which make
\* it look less reducible than its code is, no other.
ReducibleIsStructured ==
    phase \in {"code", "rejected"} =>
        LET structured == form = "structured" /\ phase = "code"
        IN  /\ Reducible(function) => structured
            /\ TryBlocks(function) = {} /\ structured => Reducible(function)

\* An irreducible graph is given the dispatcher rather than rejected.
IrreducibleIsDispatched ==
    phase = "rejected" /\ TryBlocks(function) = {} =>
        function.throws \cap Reachable(function, function.edges) # {}
=============================================================================
