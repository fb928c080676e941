------------------------ MODULE ControlMachineProofs ------------------------
(***************************************************************************)
(* Theorems about ControlMachine for every program text and every bound:   *)
(* its type invariant, who owns a live root extent, who owns a Running     *)
(* one-shot owner, how an owner's status moves, and what a queue stands    *)
(* for: the flat list of its occurrences, and the extents that list will   *)
(* close.                                                                  *)
(*                                                                         *)
(* The lists are functions defined by recursion along references to older  *)
(* objects; the lemmas about them say that they exist, what they are for   *)
(* each kind of object, and that a step keeps those of the objects it      *)
(* finds.  Being usable is having a line, a set of live extents closed     *)
(* under parents.  The pending work of an activation is linear: every item *)
(* is sound, and closing its extent leaves what comes after it usable.     *)
(* Combs are queues whose Append nodes have no Append on their left.       *)
(***************************************************************************)
EXTENDS ControlRefinement, StackLemmas, TLAPS

(* Allocation keeps the heap typed, only extends it, and returns an index  *)
(* of the allocated object.                                                *)
LEMMA AllocateFacts ==
  ASSUME NEW S, NEW heap \in Seq(S), NEW object \in S
  PROVE  LET result == Allocate(heap, object)
         IN  /\ result \in Seq(S)
             /\ Len(heap) \in Nat /\ Len(result) \in Nat
             /\ Len(heap) <= Len(result)
             /\ \A i \in 1..Len(heap) : result[i] = heap[i]
             /\ Ref(heap, object) \in 1..Len(result)
             /\ result[Ref(heap, object)] = object
             /\ \A i \in 1..Len(result) :
                  i \in 1..Len(heap) \/ (i = Len(heap) + 1 /\ result[i] = object)
<1>1. CASE Shared(heap, object)
  <2>1. Ref(heap, object) \in 1..Len(heap) /\ heap[Ref(heap, object)] = object
    BY <1>1 DEF Shared, Ref
  <2>2. QED  BY <1>1, <2>1 DEF Allocate
<1>2. CASE ~Shared(heap, object)
  BY <1>2 DEF Allocate, Ref
<1>3. QED  BY <1>1, <1>2

-----------------------------------------------------------------------------
(* No step removes or changes an immutable object, reparents an extent, or *)
(* forgets an owner.                                                       *)
Grows ==
  /\ Len(nodes) <= Len(nodes') /\ \A i \in 1..Len(nodes) : nodes'[i] = nodes[i]
  /\ Len(contexts) <= Len(contexts')
  /\ \A i \in 1..Len(contexts) : contexts'[i] = contexts[i]
  /\ Len(extents) <= Len(extents')
  /\ \A e \in 1..Len(extents) : extents'[e].parent = extents[e].parent
  /\ Len(raws) <= Len(raws') /\ \A k \in 1..Len(raws) : raws'[k] = raws[k]
  /\ Len(owners) <= Len(owners')
  /\ {Len(nodes'), Len(contexts'), Len(extents'), Len(raws'), Len(owners')} \subseteq Nat

(* The length of every heap, and of the native stack, is a natural number. *)
LEMMA LengthsAreNat ==
  TypeOK => {Len(nodes), Len(contexts), Len(extents), Len(raws), Len(owners), Depth}
              \subseteq Nat
BY DEF TypeOK, NodesOK, ContextsOK, ExtentsOK, RawsOK, StackOK, Depth

(* The Empty sequence denotes a queue of any heap.                         *)
LEMMA EmptyIsQueue == TypeOK => IsQueue(Empty)
BY LengthsAreNat DEF IsQueue, Empty

(* References stay valid while the heaps grow.                             *)
LEMMA ReferencesStayValid ==
  ASSUME TypeOK, Grows
  PROVE  /\ \A q : IsQueue(q) => IsQueue(q)'
         /\ \A e : IsExtent(e) => IsExtent(e)'
         /\ \A e : IsScoped(e) => IsScoped(e)'
         /\ \A e : IsRoot(e) => IsRoot(e)'
         /\ \A node, i : NodeOK(node, i) => NodeOK(node, i)'
         /\ \A context, i : ContextOK(context, i) => ContextOK(context, i)'
         /\ \A comp : CompOK(comp) => CompOK(comp)'
         /\ \A frame : FrameOK(frame) => FrameOK(frame)'
<1>1. \A q : IsQueue(q) => IsQueue(q)'
  BY LengthsAreNat DEF Grows, IsQueue
<1>2. \A e : IsExtent(e) => IsExtent(e)'
  BY LengthsAreNat DEF Grows, IsExtent
<1>3. \A e : IsScoped(e) => IsScoped(e)'
  BY <1>2, LengthsAreNat DEF Grows, IsScoped, IsExtent, NoExtent
<1>4. \A e : IsRoot(e) => IsRoot(e)'
  BY <1>2, LengthsAreNat DEF Grows, IsRoot, IsExtent, NoExtent
<1>5. \A node, i : NodeOK(node, i) => NodeOK(node, i)'
  BY <1>2, <1>3 DEF NodeOK
<1>6. \A context, i : ContextOK(context, i) => ContextOK(context, i)'
  BY <1>1, <1>2, <1>3, <1>4 DEF ContextOK
<1>7. \A comp : CompOK(comp) => CompOK(comp)'
  BY LengthsAreNat DEF Grows, CompOK
<1>8. \A frame : FrameOK(frame) => FrameOK(frame)'
  <2> SUFFICES ASSUME NEW frame, FrameOK(frame) PROVE FrameOK(frame)'
    OBVIOUS
  <2>1. frame.ctx \in 1..Len(contexts') /\ contexts'[frame.ctx] = contexts[frame.ctx]
    BY LengthsAreNat DEF Grows, FrameOK
  <2>2. frame.owner \in 0..Len(owners')
    BY LengthsAreNat DEF Grows, FrameOK
  <2>3. QED  BY <1>1, <1>2, <1>4, <1>7, <2>1, <2>2 DEF FrameOK
<1>9. QED  BY <1>1, <1>2, <1>3, <1>4, <1>5, <1>6, <1>7, <1>8

(* What belongs to each family of objects.                                 *)
LEMMA ComputationFacts ==
  /\ NoComp \in Computations /\ CompOK(NoComp)
  /\ \A i \in 1..Len(Text) : Text[i] \in Computations /\ CompOK(Text[i])
  /\ \A comp \in Computations :
       /\ comp.tag = "Bind" => comp.inner \in 1..Len(Text) /\ comp.then \in Callbacks
       /\ comp.tag = "Handle" => comp.source \in 1..Len(Text)
<1>1. \A i \in 1..Len(Text) : Text[i] \in Written
  BY TextAssumption
<1>2. \A comp \in Written : CompOK(comp)
  BY DEF Written, CompOK
<1>3. NoComp \in Written
  BY DEF NoComp, Written
<1>4. \A comp \in Computations :
       /\ comp.tag = "Bind" => comp.inner \in 1..Len(Text) /\ comp.then \in Callbacks
       /\ comp.tag = "Handle" => comp.source \in 1..Len(Text)
  BY DEF Computations, Written
<1>5. QED  BY <1>1, <1>2, <1>3, <1>4 DEF Computations

(* The node constructors build nodes.                                      *)
LEMMA NodeFacts ==
  ASSUME NEW node \in Nodes
  PROVE  /\ node.tag \in {"Cons", "Append", "Finish"}
         /\ node.tag = "Cons" => node.head \in Callbacks /\ node.tail \in Nat
         /\ node.tag = "Append" => node.left \in Nat /\ node.right \in Nat
         /\ node.tag = "Finish" =>
              node.extent \in Nat /\ node.rest \in Nat /\ node.parent \in Nat
BY DEF Nodes

(* The context constructors build contexts.                                *)
LEMMA ContextFacts ==
  ASSUME NEW context \in Contexts
  PROVE  /\ context.tag \in {"Root", "Scoped"}
         /\ context.extent \in Nat
         /\ context.tag = "Scoped" =>
              context.saved \in Nat /\ context.parent \in Nat /\ context.caller \in Nat
BY DEF Contexts

-----------------------------------------------------------------------------
(* The parts of the state a step leaves alone stay well formed.            *)
LEMMA UntouchedParts ==
  ASSUME TypeOK, Grows
  PROVE  /\ UNCHANGED nodes => NodesOK'
         /\ UNCHANGED contexts => ContextsOK'
         /\ UNCHANGED extents => ExtentsOK'
         /\ UNCHANGED raws => RawsOK'
         /\ UNCHANGED minted => minted' \subseteq 1..Len(raws')
         /\ UNCHANGED stack => StackOK'
         /\ UNCHANGED replay /\ replay.pc = "idle" => ReplayOK'
         /\ UNCHANGED <<replay, stack>> => ReplayOK'
<1>1. UNCHANGED nodes => NodesOK'
  BY ReferencesStayValid DEF TypeOK, NodesOK
<1>2. UNCHANGED contexts => ContextsOK'
  BY ReferencesStayValid DEF TypeOK, ContextsOK
<1>3. UNCHANGED extents => ExtentsOK'
  BY DEF TypeOK, ExtentsOK
<1>4. UNCHANGED raws => RawsOK'
  BY ReferencesStayValid DEF TypeOK, RawsOK, RawOK
<1>5. UNCHANGED minted => minted' \subseteq 1..Len(raws')
  BY LengthsAreNat DEF TypeOK, Grows
<1>6. UNCHANGED stack => StackOK'
  BY ReferencesStayValid DEF TypeOK, StackOK, Depth
<1>7. UNCHANGED replay /\ replay.pc = "idle" => ReplayOK'
  BY ReferencesStayValid DEF TypeOK, ReplayOK
<1>8. UNCHANGED <<replay, stack>> => ReplayOK'
  BY ReferencesStayValid DEF TypeOK, ReplayOK, Top, Depth
<1>9. QED  BY <1>1, <1>2, <1>3, <1>4, <1>5, <1>6, <1>7, <1>8

(* Allocating a well formed node; n and ref are its rank and its index.    *)
LEMMA NodeAllocated ==
  ASSUME TypeOK, Grows, NEW node \in Nodes, nodes' = Allocate(nodes, node),
         NEW n, n = Len(nodes) + 1, NodeOK(node, n)',
         NEW ref, ref = Ref(nodes, node)
  PROVE  NodesOK' /\ IsQueue(ref)' /\ ref # Empty
<1>1. nodes \in Seq(Nodes)
  BY DEF TypeOK, NodesOK
<1>2. /\ nodes' \in Seq(Nodes) /\ ref \in 1..Len(nodes')
      /\ \A i \in 1..Len(nodes') :
           i \in 1..Len(nodes) \/ (i = n /\ nodes'[i] = node)
  BY <1>1, AllocateFacts
<1>3. ASSUME NEW i \in 1..Len(nodes') PROVE NodeOK(nodes[i], i)'
  <2>1. CASE i \in 1..Len(nodes)
    BY <2>1, ReferencesStayValid DEF TypeOK, NodesOK, Grows
  <2>2. CASE i = n /\ nodes'[i] = node
    BY <2>2
  <2>3. QED  BY <1>2, <2>1, <2>2
<1>4. QED  BY <1>2, <1>3 DEF NodesOK, IsQueue, Empty

(* Replacing or removing the top activation.                               *)
LEMMA TopReplaced ==
  ASSUME TypeOK, Grows, Depth > 0, NEW frame \in Frames, SetTop(frame),
         FrameOK(frame)'
  PROVE  StackOK' /\ Depth' = Depth /\ Top' = frame
<1>1. stack \in Seq(Frames) /\ Depth = Len(stack)
  BY DEF TypeOK, StackOK, Depth
<1>2. /\ stack' \in Seq(Frames)
      /\ Depth' = Depth
      /\ stack'[Depth] = frame
      /\ \A d \in 1..Depth : d # Depth => stack'[d] = stack[d]
  BY <1>1, SetTopFacts DEF SetTop, Depth
<1>3. ASSUME NEW d \in 1..Depth PROVE FrameOK(stack[d])'
  <2>1. CASE d = Depth
    BY <1>2, <2>1
  <2>2. CASE d # Depth
    BY <1>2, <2>2, ReferencesStayValid DEF TypeOK, StackOK
  <2>3. QED  BY <2>1, <2>2
<1>4. QED  BY <1>2, <1>3 DEF StackOK, Top

(* Removing the top activation keeps the others well formed.               *)
LEMMA TopPopped ==
  ASSUME TypeOK, Grows, Depth > 0, Pop
  PROVE  StackOK'
<1>1. /\ stack' \in Seq(Frames)
      /\ Depth' = Depth - 1
      /\ \A d \in 1..(Depth - 1) : stack'[d] = stack[d]
  BY PopFacts DEF TypeOK, StackOK, Pop, Depth
<1>2. ASSUME NEW d \in 1..Depth' PROVE FrameOK(stack[d])'
  BY <1>1, ReferencesStayValid, LengthsAreNat DEF TypeOK, StackOK
<1>3. QED  BY <1>1, <1>2 DEF StackOK

(* What the type invariant says of the top activation.                     *)
LEMMA TopFacts ==
  ASSUME TypeOK, Depth > 0
  PROVE  /\ Top \in Frames /\ FrameOK(Top)
         /\ Depth \in Nat /\ Depth \in 1..Depth
         /\ Context \in Contexts /\ ContextOK(Context, Top.ctx)
         /\ IsExtent(ContextExtent)
<1>1. Top \in Frames /\ FrameOK(Top) /\ Depth \in Nat /\ Depth \in 1..Depth
  BY LengthsAreNat DEF TypeOK, StackOK, Top, Depth
<1>2. Context \in Contexts /\ ContextOK(Context, Top.ctx)
  BY <1>1 DEF Context, FrameOK, TypeOK, ContextsOK
<1>3. IsExtent(ContextExtent)
  BY <1>2, ContextFacts DEF ContextExtent, ContextOK, IsScoped, IsRoot
<1>4. QED  BY <1>1, <1>2, <1>3

(* The node a queue denotes, and what the node refers to.                  *)
LEMMA QueueFacts ==
  ASSUME TypeOK, NEW q, IsQueue(q), q # Empty
  PROVE  /\ nodes[q] \in Nodes /\ NodeOK(nodes[q], q)
         /\ Kind(q) = nodes[q].tag
         /\ q \in 1..Len(nodes) /\ Len(nodes) \in Nat
BY LengthsAreNat DEF TypeOK, NodesOK, IsQueue, Empty, Kind

(* A Cons queue: its head is a callback and its tail an older queue.       *)
LEMMA ConsFacts ==
  ASSUME TypeOK, NEW q, IsQueue(q), Kind(q) = "Cons"
  PROVE  nodes[q].tag = "Cons" /\ nodes[q].head \in Callbacks /\ IsQueue(nodes[q].tail)
<1>1. q # Empty
  BY DEF Kind
<1>2. QED  BY <1>1, QueueFacts, NodeFacts DEF NodeOK, IsQueue

(* An Append queue: both of its parts are older queues.                    *)
LEMMA AppendFacts ==
  ASSUME TypeOK, NEW q, IsQueue(q), Kind(q) = "Append"
  PROVE  /\ nodes[q].tag = "Append"
         /\ IsQueue(nodes[q].left) /\ IsQueue(nodes[q].right)
<1>1. q # Empty
  BY DEF Kind
<1>2. QED  BY <1>1, QueueFacts, NodeFacts DEF NodeOK, IsQueue

(* A Finish queue: its rest is an older queue and its extents exist.       *)
LEMMA FinishFacts ==
  ASSUME TypeOK, NEW q, IsQueue(q), Kind(q) = "Finish"
  PROVE  /\ nodes[q].tag = "Finish"
         /\ IsQueue(nodes[q].rest)
         /\ IsScoped(nodes[q].extent) /\ IsExtent(nodes[q].parent)
<1>1. q # Empty
  BY DEF Kind
<1>2. QED  BY <1>1, QueueFacts, NodeFacts DEF NodeOK, IsQueue

(* New nodes made of well formed parts.                                    *)
LEMMA FreshNodes ==
  ASSUME TypeOK
  PROVE  /\ \A head \in Callbacks : \A tail : IsQueue(tail) =>
              /\ ConsNode(head, tail) \in Nodes
              /\ NodeOK(ConsNode(head, tail), Len(nodes) + 1)
         /\ \A left, right : IsQueue(left) /\ IsQueue(right) =>
              /\ AppendNode(left, right) \in Nodes
              /\ NodeOK(AppendNode(left, right), Len(nodes) + 1)
         /\ \A e, rest, parent : IsScoped(e) /\ IsQueue(rest) /\ IsExtent(parent) =>
              /\ Finish(e, rest, parent) \in Nodes
              /\ NodeOK(Finish(e, rest, parent), Len(nodes) + 1)
<1>1. /\ Len(nodes) \in Nat
      /\ \A q : IsQueue(q) => q \in Nat /\ q < Len(nodes) + 1
      /\ \A e : IsScoped(e) \/ IsExtent(e) => e \in Nat
  BY LengthsAreNat DEF IsQueue, IsScoped, IsExtent
<1>2. ASSUME NEW head \in Callbacks, NEW tail, IsQueue(tail)
      PROVE  /\ ConsNode(head, tail) \in Nodes
             /\ NodeOK(ConsNode(head, tail), Len(nodes) + 1)
  BY <1>1, <1>2 DEF ConsNode, Nodes, NodeOK
<1>3. ASSUME NEW left, NEW right, IsQueue(left), IsQueue(right)
      PROVE  /\ AppendNode(left, right) \in Nodes
             /\ NodeOK(AppendNode(left, right), Len(nodes) + 1)
  BY <1>1, <1>3 DEF AppendNode, Nodes, NodeOK
<1>4. ASSUME NEW e, NEW rest, NEW parent, IsScoped(e), IsQueue(rest), IsExtent(parent)
      PROVE  /\ Finish(e, rest, parent) \in Nodes
             /\ NodeOK(Finish(e, rest, parent), Len(nodes) + 1)
  BY <1>1, <1>4 DEF Finish, Nodes, NodeOK
<1>5. QED  BY <1>2, <1>3, <1>4

(* How each heap may change.                                               *)
LEMMA NodesGrow ==
  ASSUME TypeOK, NEW a \in Nodes, nodes' = Allocate(nodes, a)
  PROVE  /\ Len(nodes) <= Len(nodes') /\ Len(nodes') \in Nat
         /\ \A i \in 1..Len(nodes) : nodes'[i] = nodes[i]
<1>1. nodes \in Seq(Nodes)
  BY DEF TypeOK, NodesOK
<1>2. QED  BY <1>1 DEF Allocate

(* Two allocations in a row extend the node heap.                          *)
LEMMA NodesGrowTwice ==
  ASSUME TypeOK, NEW a \in Nodes, NEW b \in Nodes,
         NEW heap, heap = Allocate(nodes, a), nodes' = Allocate(heap, b)
  PROVE  /\ Len(nodes) <= Len(nodes') /\ Len(nodes') \in Nat
         /\ \A i \in 1..Len(nodes) : nodes'[i] = nodes[i]
<1>1. /\ heap \in Seq(Nodes) /\ Len(nodes) \in Nat
      /\ Len(nodes) <= Len(heap)
      /\ \A i \in 1..Len(nodes) : heap[i] = nodes[i]
  <2>1. nodes \in Seq(Nodes)
    BY DEF TypeOK, NodesOK
  <2>2. QED  BY <2>1 DEF Allocate
<1>2. /\ Len(heap) <= Len(nodes') /\ Len(nodes') \in Nat
      /\ \A i \in 1..Len(heap) : nodes'[i] = heap[i]
  BY <1>1 DEF Allocate
<1>3. QED  BY <1>1, <1>2

(* Allocating a well formed context keeps the context heap well formed.    *)
LEMMA ContextsGrow ==
  ASSUME TypeOK, NEW context \in Contexts,
         contexts' = Allocate(contexts, context),
         NEW ref, ref = Ref(contexts, context)
  PROVE  /\ Len(contexts) <= Len(contexts') /\ Len(contexts') \in Nat
         /\ \A i \in 1..Len(contexts) : contexts'[i] = contexts[i]
         /\ contexts' \in Seq(Contexts)
         /\ ref \in 1..Len(contexts') /\ contexts'[ref] = context
         /\ \A i \in 1..Len(contexts') :
              i \in 1..Len(contexts) \/ (i = Len(contexts) + 1 /\ contexts'[i] = context)
<1>1. contexts \in Seq(Contexts)
  BY DEF TypeOK, ContextsOK
<1>2. contexts' \in Seq(Contexts) /\ Len(contexts) \in Nat
  BY <1>1 DEF Allocate
<1>3. /\ Len(contexts) <= Len(contexts') /\ Len(contexts') \in Nat
      /\ \A i \in 1..Len(contexts) : contexts'[i] = contexts[i]
      /\ \A i \in 1..Len(contexts') :
           i \in 1..Len(contexts) \/ (i = Len(contexts) + 1 /\ contexts'[i] = context)
  BY <1>1 DEF Allocate
<1>4. ref \in 1..Len(contexts') /\ contexts'[ref] = context
  <2>1. CASE Shared(contexts, context)
    <3>1. ref \in 1..Len(contexts) /\ contexts[ref] = context
      BY <2>1 DEF Shared, Ref
    <3>2. QED  BY <2>1, <3>1 DEF Allocate
  <2>2. CASE ~Shared(contexts, context)
    BY <1>1, <2>2 DEF Allocate, Ref
  <2>3. QED  BY <2>1, <2>2
<1>5. QED  BY <1>2, <1>3, <1>4

(* A fresh extent under an existing parent, or a fresh root, is well       *)
(* formed.                                                                 *)
LEMMA FreshExtentFacts ==
  ASSUME TypeOK, NEW p, p = NoExtent \/ IsExtent(p), extents' = FreshExtent(p),
         NEW fresh, fresh = Len(extents) + 1
  PROVE  /\ Len(extents) <= Len(extents') /\ Len(extents') \in Nat
         /\ Len(extents') = fresh /\ extents'[fresh].status = Live
         /\ \A e \in 1..Len(extents) : extents'[e].parent = extents[e].parent
         /\ \A e \in 1..Len(extents) : extents'[e].status = extents[e].status
         /\ ExtentsOK'
         /\ IF p = NoExtent THEN IsRoot(fresh)' ELSE IsScoped(fresh)'
<1>1. extents \in Seq(Extents) /\ [parent |-> p, status |-> Live] \in Extents
      /\ p < fresh
  BY LengthsAreNat DEF TypeOK, ExtentsOK, Extents, IsExtent, NoExtent, Live, Closed
<1>2. /\ extents' \in Seq(Extents)
      /\ Len(extents') = fresh /\ Len(extents) \in Nat
      /\ \A e \in 1..Len(extents) : extents'[e] = extents[e]
      /\ extents'[fresh] = [parent |-> p, status |-> Live]
  BY <1>1 DEF FreshExtent
<1>3. ExtentsOK'
  BY <1>1, <1>2 DEF TypeOK, ExtentsOK
<1>4. QED  BY <1>2, <1>3 DEF IsRoot, IsScoped, IsExtent, NoExtent

(* Closing an extent changes no parent and removes no extent.              *)
LEMMA ClosedExtentFacts ==
  ASSUME TypeOK, NEW e, IsExtent(e), CloseBoundary(e)
  PROVE  /\ Len(extents') = Len(extents) /\ Len(extents') \in Nat
         /\ \A i \in 1..Len(extents) : extents'[i].parent = extents[i].parent
         /\ \A i \in 1..Len(extents) :
              extents'[i].status = IF i = e THEN Closed ELSE extents[i].status
         /\ ExtentsOK'
<1>1. extents \in Seq(Extents) /\ e \in 1..Len(extents)
  BY DEF TypeOK, ExtentsOK, IsExtent
<1>2. /\ Len(extents') = Len(extents) /\ Len(extents') \in Nat
      /\ \A i \in 1..Len(extents) :
           extents'[i] = IF i = e THEN [extents[i] EXCEPT !.status = Closed]
                                  ELSE extents[i]
  BY <1>1 DEF CloseBoundary
<1>3. \A i \in 1..Len(extents) : extents[i] \in Extents
  BY <1>1
<1>4. /\ \A i \in 1..Len(extents) : extents'[i].parent = extents[i].parent
      /\ \A i \in 1..Len(extents) :
           extents'[i].status = IF i = e THEN Closed ELSE extents[i].status
  BY <1>2, <1>3 DEF Extents
<1>5. ExtentsOK'
  <2>1. extents' \in Seq(Extents)
    BY <1>1, <1>3, SMTT(30) DEF CloseBoundary, Extents, Closed
  <2>2. QED  BY <1>2, <1>4, <2>1 DEF TypeOK, ExtentsOK
<1>6. QED  BY <1>2, <1>4, <1>5

-----------------------------------------------------------------------------
(* Type correctness, one lemma per action.                                 *)

(* A step of the executor that replaces only the top activation.           *)
LEMMA FrameStep ==
  ASSUME TypeOK, Depth > 0, replay.pc = "idle",
         UNCHANGED <<heapVars, minted, replay, outcome>>,
         NEW frame \in Frames, SetTop(frame), FrameOK(frame)
  PROVE  TypeOK'
<1>1. Grows
  BY LengthsAreNat DEF Grows, heapVars
<1>2. StackOK'
  BY <1>1, ReferencesStayValid, TopReplaced
<1>3. QED  BY <1>1, <1>2, UntouchedParts DEF TypeOK, heapVars

(* Publish preserves TypeOK.                                               *)
LEMMA PublishTyped == ASSUME TypeOK, Publish PROVE TypeOK'
<1>1. Depth > 0 /\ replay.pc = "idle"
  BY DEF Publish, Returning, Dispatching
<1>2. IsExtent(Top.root)
  BY <1>1, TopFacts DEF FrameOK, IsRoot
<1>3. Grows /\ ExtentsOK'
  BY <1>2, ClosedExtentFacts, LengthsAreNat DEF Publish, Grows
<1>4. StackOK'
  BY <1>1, <1>3, TopPopped DEF Publish
<1>5. QED  BY <1>1, <1>3, <1>4, UntouchedParts DEF TypeOK, Publish

(* ReturnClause preserves TypeOK.                                          *)
LEMMA ReturnClauseTyped == ASSUME TypeOK, ReturnClause PROVE TypeOK'
<1>1. Depth > 0 /\ replay.pc = "idle" /\ Top.await = "none" /\ Context.tag = "Scoped"
  BY DEF ReturnClause, Returning, Dispatching
<1>2. PICK frame : frame = [Top EXCEPT !.await = "clause", !.callee = NoCallee,
                                       !.queue = Empty, !.comp = NoComp]
  OBVIOUS
<1>3. frame \in Frames
  BY <1>1, <1>2, TopFacts, ComputationFacts DEF Frames, Empty
<1>4. FrameOK(frame)
  BY <1>1, <1>2, TopFacts, ComputationFacts, EmptyIsQueue
  DEF Frames, FrameOK, Context, NoOwner
<1>5. SetTop(frame)
  BY <1>2 DEF ReturnClause, Apply
<1>6. QED  BY <1>1, <1>3, <1>4, <1>5, FrameStep DEF ReturnClause

(* ReturnCons preserves TypeOK.                                            *)
LEMMA ReturnConsTyped == ASSUME TypeOK, ReturnCons PROVE TypeOK'
<1>1. Depth > 0 /\ replay.pc = "idle" /\ Top.await = "none" /\ Kind(Top.queue) = "Cons"
  BY DEF ReturnCons, Returning, Dispatching
<1>2. PICK node : node = nodes[Top.queue]
  OBVIOUS
<1>3. node.head \in Callbacks /\ IsQueue(node.tail) /\ node.tail \in Nat
  BY <1>1, <1>2, TopFacts, ConsFacts DEF FrameOK, IsQueue
<1>4. PICK frame : frame = [Top EXCEPT !.await = "next", !.callee = node.head,
                                       !.queue = node.tail, !.comp = NoComp]
  OBVIOUS
<1>5. frame \in Frames /\ FrameOK(frame)
  BY <1>1, <1>3, <1>4, TopFacts, ComputationFacts DEF Frames, FrameOK, NoOwner
<1>6. SetTop(frame)
  BY <1>2, <1>4 DEF ReturnCons, Apply
<1>7. QED  BY <1>1, <1>5, <1>6, FrameStep DEF ReturnCons

(* A step that allocates one node and leaves it as the queue of the top    *)
(* activation; base is that activation with a queue of the old heap.       *)
LEMMA NodeStep ==
  ASSUME TypeOK, Depth > 0, replay.pc = "idle",
         UNCHANGED <<contexts, extents, raws, owners, minted, replay, outcome>>,
         NEW node \in Nodes, nodes' = Allocate(nodes, node),
         NEW n, n = Len(nodes) + 1, NodeOK(node, n),
         NEW ref, ref = Ref(nodes, node),
         NEW base \in Frames, FrameOK(base), SetTop([base EXCEPT !.queue = ref])
  PROVE  TypeOK'
<1>1. Grows
  BY NodesGrow, LengthsAreNat DEF Grows
<1>2. NodesOK' /\ IsQueue(ref)'
  BY <1>1, ReferencesStayValid, NodeAllocated
<1>3. PICK frame : frame = [base EXCEPT !.queue = ref]
  OBVIOUS
<1>4. frame \in Frames
  BY <1>2, <1>3 DEF Frames, IsQueue
<1>5. FrameOK(base)'
  BY <1>1, ReferencesStayValid
<1>6. FrameOK(frame)'
  BY <1>2, <1>3, <1>5 DEF FrameOK, Frames
<1>7. StackOK'
  BY <1>1, <1>3, <1>4, <1>6, TopReplaced
<1>8. QED  BY <1>1, <1>2, <1>7, UntouchedParts DEF TypeOK

(* ReturnAppendCons preserves TypeOK.                                      *)
LEMMA ReturnAppendConsTyped == ASSUME TypeOK, ReturnAppendCons PROVE TypeOK'
<1>1. /\ Depth > 0 /\ replay.pc = "idle" /\ Top.await = "none"
      /\ Kind(Top.queue) = "Append" /\ Kind(Left) = "Cons"
  BY DEF ReturnAppendCons, Returning, Dispatching
<1>2. PICK left : left = nodes[Left]
  OBVIOUS
<1>3. IsQueue(Left) /\ IsQueue(Right)
  BY <1>1, TopFacts, AppendFacts DEF FrameOK, Left, Right
<1>4. left.head \in Callbacks /\ IsQueue(left.tail)
  BY <1>1, <1>2, <1>3, ConsFacts
<1>5. PICK pending : pending = AppendNode(left.tail, Right)
  OBVIOUS
<1>6. PICK ref : ref = Ref(nodes, pending)
  OBVIOUS
<1>7. PICK base : base = [Top EXCEPT !.await = "next", !.callee = left.head,
                                     !.comp = NoComp]
  OBVIOUS
<1>8. pending \in Nodes /\ NodeOK(pending, Len(nodes) + 1)
  BY <1>3, <1>4, <1>5, FreshNodes
<1>9. base \in Frames /\ FrameOK(base)
  BY <1>1, <1>4, <1>7, TopFacts, ComputationFacts DEF Frames, FrameOK, NoOwner
<1>10. [base EXCEPT !.queue = ref]
         = [Top EXCEPT !.await = "next", !.callee = left.head, !.queue = ref,
                       !.comp = NoComp]
  BY <1>1, <1>7, TopFacts DEF Frames
<1>11. SetTop([base EXCEPT !.queue = ref]) /\ nodes' = Allocate(nodes, pending)
  BY <1>2, <1>5, <1>6, <1>10 DEF ReturnAppendCons, Apply
<1>12. QED
  BY <1>1, <1>6, <1>8, <1>9, <1>11, NodeStep DEF ReturnAppendCons

(* A step that only moves the first piece of an Append's left part.        *)
LEMMA RotateTyped ==
  ASSUME TypeOK, Depth > 0, replay.pc = "idle", Kind(Top.queue) = "Append",
         NEW kind \in {"Cons", "Append", "Finish"}, Rotate(kind),
         UNCHANGED <<contexts, extents, raws, owners, minted, replay, outcome>>
  PROVE  TypeOK'
<1>1. IsQueue(Left) /\ IsQueue(Right) /\ Kind(Left) = kind
  BY TopFacts, AppendFacts DEF FrameOK, Left, Right, Rotate
<1>2. PICK left : left = nodes[Left]
  OBVIOUS
<1>3. left.tag = kind /\ IsQueue(Remainder(left))
  BY <1>1, <1>2, ConsFacts, AppendFacts, FinishFacts DEF Remainder
<1>4. PICK tail : tail = AppendNode(Remainder(left), Right)
  OBVIOUS
<1>5. PICK heap : heap = Allocate(nodes, tail)
  OBVIOUS
<1>6. PICK t : t = Ref(nodes, tail)
  OBVIOUS
<1>7. PICK whole : whole = Rehead(left, t)
  OBVIOUS
<1>8. PICK ref : ref = Ref(heap, whole)
  OBVIOUS
<1>9. nodes' = Allocate(heap, whole) /\ SetTop([Top EXCEPT !.queue = ref])
  BY <1>2, <1>4, <1>5, <1>6, <1>7, <1>8 DEF Rotate
<1>10. tail \in Nodes /\ NodeOK(tail, Len(nodes) + 1)
  BY <1>1, <1>3, <1>4, FreshNodes
<1>11. /\ heap \in Seq(Nodes) /\ Len(heap) \in Nat /\ Len(nodes) \in Nat
       /\ Len(nodes) <= Len(heap)
       /\ t \in 1..Len(heap)
       /\ \A i \in 1..Len(nodes) : heap[i] = nodes[i]
       /\ \A i \in 1..Len(heap) :
            i \in 1..Len(nodes) \/ (i = Len(nodes) + 1 /\ heap[i] = tail)
  <2>1. nodes \in Seq(Nodes)
    BY DEF TypeOK, NodesOK
  <2>2. /\ heap \in Seq(Nodes) /\ Len(heap) \in Nat /\ Len(nodes) \in Nat
        /\ Len(nodes) <= Len(heap)
    BY <1>5, <1>10, <2>1, AllocateFacts
  <2>3. t \in 1..Len(heap)
    BY <1>5, <1>6, <1>10, <2>1, AllocateFacts
  <2>4. \A i \in 1..Len(nodes) : heap[i] = nodes[i]
    BY <1>5, <2>1 DEF Allocate
  <2>5. \A i \in 1..Len(heap) :
          i \in 1..Len(nodes) \/ (i = Len(nodes) + 1 /\ heap[i] = tail)
    BY <1>5, <1>10, <2>1, AllocateFacts
  <2>6. QED  BY <2>2, <2>3, <2>4, <2>5
<1>12. \A i \in 1..Len(heap) : NodeOK(heap[i], i)
  BY <1>10, <1>11 DEF TypeOK, NodesOK
<1>13. whole \in Nodes /\ NodeOK(whole, Len(heap) + 1)
  <2>1. CASE kind = "Cons"
    BY <1>1, <1>2, <1>3, <1>7, <1>11, <2>1, ConsFacts DEF Rehead, ConsNode, Nodes, NodeOK
  <2>2. CASE kind = "Append"
    <3>1. left.left \in Nat /\ left.left < Len(heap) + 1
      BY <1>1, <1>2, <1>11, <2>2, AppendFacts DEF IsQueue
    <3>2. QED  BY <1>3, <1>7, <1>11, <2>2, <3>1 DEF Rehead, AppendNode, Nodes, NodeOK
  <2>3. CASE kind = "Finish"
    <3>1. /\ IsScoped(left.extent) /\ IsExtent(left.parent)
          /\ left.extent \in Nat /\ left.parent \in Nat
      BY <1>1, <1>2, <2>3, FinishFacts DEF IsScoped, IsExtent
    <3>2. QED  BY <1>3, <1>7, <1>11, <2>3, <3>1 DEF Rehead, Finish, Nodes, NodeOK
  <2>4. QED  BY <2>1, <2>2, <2>3
<1>14. Grows
  BY <1>5, <1>9, <1>10, <1>13, NodesGrowTwice, LengthsAreNat DEF Grows
<1>15. /\ nodes' \in Seq(Nodes) /\ ref \in 1..Len(nodes')
       /\ \A i \in 1..Len(heap) : nodes'[i] = heap[i]
       /\ \A i \in 1..Len(nodes') :
            i \in 1..Len(heap) \/ (i = Len(heap) + 1 /\ nodes'[i] = whole)
  <2>1. nodes' \in Seq(Nodes)
    BY <1>9, <1>11, <1>13, AllocateFacts, SMTT(30)
  <2>2. ref \in 1..Len(nodes')
    BY <1>8, <1>9, <1>11, <1>13, AllocateFacts, SMTT(30)
  <2>3. \A i \in 1..Len(heap) : nodes'[i] = heap[i]
    BY <1>9, <1>11 DEF Allocate
  <2>4. \A i \in 1..Len(nodes') :
          i \in 1..Len(heap) \/ (i = Len(heap) + 1 /\ nodes'[i] = whole)
    BY <1>9, <1>11, <1>13 DEF Allocate
  <2>5. QED  BY <2>1, <2>2, <2>3, <2>4
<1>16. NodesOK'
  <2>1. \A i \in 1..Len(nodes') : NodeOK(nodes'[i], i)
    BY <1>12, <1>13, <1>15
  <2>2. extents' = extents
    OBVIOUS
  <2>3. QED  BY <1>15, <2>1, <2>2 DEF NodesOK, NodeOK, IsScoped, IsExtent
<1>17. PICK frame : frame = [Top EXCEPT !.queue = ref]
  OBVIOUS
<1>18. PICK top : top = Top
  OBVIOUS
<1>19. frame \in Frames /\ FrameOK(frame)'
  <2>1. top \in Frames /\ FrameOK(top)'
    BY <1>14, <1>18, TopFacts, ReferencesStayValid
  <2>2. ref \in Nat /\ IsQueue(ref)'
    BY <1>15 DEF IsQueue
  <2>3. frame = [top EXCEPT !.queue = ref]
    BY <1>17, <1>18
  <2>4. QED  BY <2>1, <2>2, <2>3 DEF Frames, FrameOK
<1>20. StackOK'
  BY <1>9, <1>14, <1>17, <1>19, TopReplaced
<1>21. QED  BY <1>14, <1>16, <1>20, UntouchedParts DEF TypeOK

(* Dropping an exhausted left part preserves TypeOK.                       *)
LEMMA RotateEmptyTyped ==
  ASSUME TypeOK, Depth > 0, replay.pc = "idle", Kind(Top.queue) = "Append",
         RotateEmpty,
         UNCHANGED <<contexts, extents, raws, owners, minted, replay, outcome>>
  PROVE  TypeOK'
<1>1. IsQueue(Right) /\ Right \in Nat
  BY TopFacts, AppendFacts DEF FrameOK, Right, IsQueue
<1>2. PICK frame : frame = [Top EXCEPT !.queue = Right]
  OBVIOUS
<1>3. frame \in Frames /\ FrameOK(frame)
  BY <1>1, <1>2, TopFacts DEF Frames, FrameOK
<1>4. SetTop(frame)
  BY <1>2 DEF RotateEmpty
<1>5. QED  BY <1>3, <1>4, FrameStep DEF heapVars, RotateEmpty

(* ReturnRotate preserves TypeOK.                                          *)
LEMMA ReturnRotateTyped == ASSUME TypeOK, ReturnRotate PROVE TypeOK'
BY RotateEmptyTyped, RotateTyped DEF ReturnRotate, Returning, Dispatching

(* HandleNormalize preserves TypeOK.                                       *)
LEMMA HandleNormalizeTyped == ASSUME TypeOK, HandleNormalize PROVE TypeOK'
BY RotateEmptyTyped, RotateTyped DEF HandleNormalize, Handling, Dispatching

(* ReturnFinish preserves TypeOK.                                          *)
LEMMA ReturnFinishTyped == ASSUME TypeOK, ReturnFinish PROVE TypeOK'
<1>1. /\ Depth > 0 /\ replay.pc = "idle" /\ Top.await = "none"
      /\ Kind(Top.queue) = "Finish"
  BY DEF ReturnFinish, Returning, Dispatching
<1>2. PICK finish : finish = nodes[Top.queue]
  OBVIOUS
<1>3. /\ IsQueue(finish.rest) /\ finish.rest \in Nat
      /\ IsExtent(finish.parent) /\ finish.parent \in Nat
      /\ IsExtent(finish.extent)
  BY <1>1, <1>2, TopFacts, FinishFacts DEF FrameOK, IsScoped, IsExtent, IsQueue
<1>4. CloseBoundary(finish.extent)
  BY <1>2 DEF ReturnFinish
<1>5. PICK frame : frame = [Top EXCEPT !.queue = finish.rest, !.extent = finish.parent]
  OBVIOUS
<1>6. SetTop(frame)
  BY <1>2, <1>5 DEF ReturnFinish
<1>7. Grows /\ ExtentsOK'
  BY <1>3, <1>4, ClosedExtentFacts, LengthsAreNat DEF ReturnFinish, Grows
<1>8. frame \in Frames /\ FrameOK(frame)
  BY <1>1, <1>3, <1>5, TopFacts DEF Frames, FrameOK
<1>9. StackOK'
  BY <1>1, <1>6, <1>7, <1>8, ReferencesStayValid, TopReplaced
<1>10. QED  BY <1>1, <1>7, <1>9, UntouchedParts DEF TypeOK, ReturnFinish

(* Perform preserves TypeOK.                                               *)
LEMMA PerformTyped == ASSUME TypeOK, Perform PROVE TypeOK'
<1>1. Depth > 0 /\ replay.pc = "idle" /\ Top.await = "none"
  BY DEF Perform, Dispatching
<1>2. PICK capture : capture = Capture
  OBVIOUS
<1>3. /\ IsQueue(capture.queue) /\ IsExtent(capture.checkpoint)
      /\ capture \in Raws
  BY <1>1, <1>2, TopFacts DEF Capture, FrameOK, Raws, IsQueue, IsExtent
<1>4. raws' = Allocate(raws, capture) /\ raws \in Seq(Raws)
  BY <1>2 DEF Perform, TypeOK, RawsOK
<1>5. /\ raws' \in Seq(Raws) /\ Len(raws') \in Nat /\ Len(raws) <= Len(raws')
  BY <1>3, <1>4, AllocateFacts
<1>6. \A k \in 1..Len(raws) : raws'[k] = raws[k]
  BY <1>4 DEF Allocate
<1>7. \A k \in 1..Len(raws') : k \in 1..Len(raws) \/ raws'[k] = capture
  BY <1>3, <1>4, AllocateFacts
<1>8. Grows
  BY <1>5, <1>6, LengthsAreNat DEF Perform, Grows
<1>9. RawsOK'
  <2>1. ASSUME NEW k \in 1..Len(raws') PROVE RawOK(k)'
    <3>1. IsQueue(raws'[k].queue) /\ IsExtent(raws'[k].checkpoint)
      BY <1>3, <1>6, <1>7 DEF TypeOK, RawsOK, RawOK
    <3>2. nodes' = nodes /\ extents' = extents
      BY DEF Perform
    <3>3. QED  BY <3>1, <3>2 DEF RawOK, IsQueue, IsExtent
  <2>2. QED  BY <1>5, <2>1 DEF RawsOK
<1>10. minted' \subseteq 1..Len(raws')
  BY <1>5, LengthsAreNat DEF Perform, TypeOK
<1>11. PICK await \in {"root", "clause"} :
         /\ await = "clause" => Context.tag = "Scoped"
         /\ Apply(await, NoCallee, Empty)
  BY <1>1, TopFacts, ContextFacts DEF Perform
<1>12. PICK frame : frame = [Top EXCEPT !.await = await, !.callee = NoCallee,
                                        !.queue = Empty, !.comp = NoComp]
  OBVIOUS
<1>13. frame \in Frames
  BY <1>1, <1>11, <1>12, TopFacts, ComputationFacts DEF Frames, Empty
<1>14. FrameOK(frame)
  BY <1>1, <1>11, <1>12, TopFacts, ComputationFacts, EmptyIsQueue
  DEF Frames, FrameOK, Context, NoOwner
<1>15. StackOK'
  BY <1>1, <1>8, <1>11, <1>12, <1>13, <1>14, ReferencesStayValid, TopReplaced DEF Apply
<1>16. QED
  BY <1>1, <1>8, <1>9, <1>10, <1>15, UntouchedParts DEF TypeOK, Perform

(* Bind preserves TypeOK.                                                  *)
LEMMA BindTyped == ASSUME TypeOK, Bind PROVE TypeOK'
<1>1. Depth > 0 /\ replay.pc = "idle" /\ Top.await = "none" /\ Top.comp.tag = "Bind"
  BY DEF Bind, Dispatching
<1>2. PICK comp : comp = Top.comp
  OBVIOUS
<1>3. comp.inner \in 1..Len(Text) /\ comp.then \in Callbacks
  BY <1>1, <1>2, TopFacts, ComputationFacts DEF Frames
<1>4. PICK pending : pending = ConsNode(comp.then, Top.queue)
  OBVIOUS
<1>5. PICK ref : ref = Ref(nodes, pending)
  OBVIOUS
<1>6. PICK base : base = [Top EXCEPT !.comp = Text[comp.inner]]
  OBVIOUS
<1>7. pending \in Nodes /\ NodeOK(pending, Len(nodes) + 1)
  BY <1>1, <1>3, <1>4, TopFacts, FreshNodes DEF FrameOK
<1>8. base \in Frames /\ FrameOK(base)
  BY <1>1, <1>3, <1>6, TopFacts, ComputationFacts DEF Frames, FrameOK
<1>9. [base EXCEPT !.queue = ref]
        = [Top EXCEPT !.comp = Text[comp.inner], !.queue = ref]
  BY <1>1, <1>6, TopFacts DEF Frames
<1>10. SetTop([base EXCEPT !.queue = ref]) /\ nodes' = Allocate(nodes, pending)
  BY <1>2, <1>4, <1>5, <1>9 DEF Bind
<1>11. QED  BY <1>1, <1>5, <1>7, <1>8, <1>10, NodeStep DEF Bind

(* Resume preserves TypeOK.                                                *)
LEMMA ResumeTyped == ASSUME TypeOK, Resume PROVE TypeOK'
<1>1. Depth > 0 /\ replay.pc = "idle" /\ Top.await = "none" /\ Top.comp.tag = "Resume"
  BY DEF Resume, Dispatching
<1>2. UNCHANGED <<heapVars, minted, stack>> /\ Grows
  BY LengthsAreNat DEF Resume, Grows, heapVars
<1>3. PICK k : k = Top.comp.raw
  OBVIOUS
<1>4. IsQueue(raws[k].queue) /\ raws[k].queue \in Nat
  BY <1>1, <1>3, TopFacts DEF FrameOK, CompOK, TypeOK, RawsOK, RawOK, IsQueue
<1>5. CASE replay' = [Idle EXCEPT !.pc = "clone", !.queue = raws[k].queue,
                                  !.active = Top.extent, !.parent = ContextExtent]
  <2>1. /\ IsExtent(Top.extent) /\ Top.extent \in Nat
        /\ IsExtent(ContextExtent) /\ ContextExtent \in Nat
    BY <1>1, TopFacts DEF FrameOK, IsExtent
  <2>2. /\ replay' \in Registers
        /\ replay'.queue = raws[k].queue
        /\ replay'.todo = Empty /\ replay'.reversed = Empty
        /\ replay'.active = Top.extent /\ replay'.parent = ContextExtent
    BY <1>4, <1>5, <2>1 DEF Idle, Registers, Empty, NoExtent
  <2>3. ReplayOK'
    BY <1>1, <1>2, <1>4, <2>1, <2>2, EmptyIsQueue
    DEF ReplayOK, IsQueue, IsExtent, heapVars, Top, Depth
  <2>4. QED  BY <1>2, <2>3, UntouchedParts DEF TypeOK, heapVars, Resume, Trap
<1>6. CASE UNCHANGED replay
  BY <1>1, <1>2, <1>6, UntouchedParts DEF TypeOK, heapVars, Resume, Trap
<1>7. QED  BY <1>3, <1>5, <1>6 DEF Resume

-----------------------------------------------------------------------------
(* Replay registers that hold valid references.                            *)
RegistersOK(r) ==
  /\ r \in Registers
  /\ IsQueue(r.queue) /\ IsQueue(r.todo) /\ IsQueue(r.reversed)
  /\ IsExtent(r.active) /\ IsExtent(r.parent)

(* While a replay runs, the activation that resumed it is on the stack.    *)
LEMMA ReplayFacts ==
  ASSUME TypeOK, replay.pc # "idle"
  PROVE  Depth > 0 /\ Top.await = "none" /\ RegistersOK(replay)
BY DEF TypeOK, ReplayOK, RegistersOK

(* The replay registers stay valid while the heaps grow.                   *)
LEMMA RegistersStayValid ==
  ASSUME TypeOK, Grows
  PROVE  \A r : RegistersOK(r) => RegistersOK(r)'
BY ReferencesStayValid DEF RegistersOK, Registers

(* A replay step that only touches nodes and the registers preserves       *)
(* TypeOK.                                                                 *)
LEMMA RegistersStep ==
  ASSUME TypeOK, Grows, replay.pc # "idle", UNCHANGED stack,
         NEW next, next = replay', RegistersOK(next)'
  PROVE  ReplayOK' /\ StackOK'
BY UntouchedParts DEF RegistersOK, ReplayOK, TypeOK, Top, Depth

(* A step that leaves the heap alone.                                      *)
LEMMA RegistersOnly ==
  ASSUME TypeOK, replay.pc # "idle", UNCHANGED <<heapVars, minted, stack>>,
         outcome' \in {"running", "trapped"},
         NEW next, next = replay', RegistersOK(next)
  PROVE  TypeOK'
<1>1. Grows
  BY LengthsAreNat DEF Grows, heapVars
<1>2. ReplayOK' /\ StackOK'
  BY <1>1, RegistersStep, RegistersStayValid
<1>3. QED  BY <1>1, <1>2, UntouchedParts DEF TypeOK, heapVars

(* A step that allocates one node and stores it in one register; base holds *)
(* the other registers.                                                    *)
LEMMA RegistersAllocate ==
  ASSUME TypeOK, replay.pc # "idle",
         UNCHANGED <<contexts, extents, raws, owners, minted, stack, outcome>>,
         NEW node \in Nodes, nodes' = Allocate(nodes, node),
         NEW n, n = Len(nodes) + 1, NodeOK(node, n),
         NEW ref, ref = Ref(nodes, node),
         NEW base, RegistersOK(base),
         \/ replay' = [base EXCEPT !.reversed = ref]
         \/ replay' = [base EXCEPT !.todo = ref]
  PROVE  TypeOK'
<1>1. Grows
  BY NodesGrow, LengthsAreNat DEF Grows
<1>2. NodesOK' /\ IsQueue(ref)'
  BY <1>1, ReferencesStayValid, NodeAllocated
<1>3. PICK next : next = replay'
  OBVIOUS
<1>4. RegistersOK(base)'
  BY <1>1, RegistersStayValid
<1>5. RegistersOK(next)'
  <2>1. ref \in Nat
    BY <1>2 DEF IsQueue
  <2>2. QED  BY <1>2, <1>3, <1>4, <2>1 DEF RegistersOK, Registers
<1>6. QED  BY <1>1, <1>2, <1>3, <1>5, RegistersStep, UntouchedParts DEF TypeOK

(* CloneCons preserves TypeOK.                                             *)
LEMMA CloneConsTyped == ASSUME TypeOK, CloneCons PROVE TypeOK'
<1>1. replay.pc = "clone" /\ Kind(replay.queue) = "Cons"
  BY DEF CloneCons, Cloning
<1>2. RegistersOK(replay)
  BY <1>1, ReplayFacts
<1>3. PICK node : node = nodes[replay.queue]
  OBVIOUS
<1>4. node.head \in Callbacks /\ IsQueue(node.tail) /\ node.tail \in Nat
  BY <1>1, <1>2, <1>3, ConsFacts DEF RegistersOK, IsQueue
<1>5. PICK seen : seen = ConsNode(node.head, replay.reversed)
  OBVIOUS
<1>6. PICK ref : ref = Ref(nodes, seen)
  OBVIOUS
<1>7. PICK base : base = [replay EXCEPT !.queue = node.tail]
  OBVIOUS
<1>8. seen \in Nodes /\ NodeOK(seen, Len(nodes) + 1)
  BY <1>2, <1>4, <1>5, FreshNodes DEF RegistersOK
<1>9. RegistersOK(base)
  BY <1>2, <1>4, <1>7 DEF RegistersOK, Registers
<1>10. nodes' = Allocate(nodes, seen) /\ replay' = [base EXCEPT !.reversed = ref]
  BY <1>2, <1>3, <1>5, <1>6, <1>7 DEF CloneCons, RegistersOK, Registers
<1>11. QED  BY <1>1, <1>6, <1>8, <1>9, <1>10, RegistersAllocate DEF CloneCons

(* CloneAppend preserves TypeOK.                                           *)
LEMMA CloneAppendTyped == ASSUME TypeOK, CloneAppend PROVE TypeOK'
<1>1. replay.pc = "clone" /\ Kind(replay.queue) = "Append"
  BY DEF CloneAppend, Cloning
<1>2. RegistersOK(replay)
  BY <1>1, ReplayFacts
<1>3. PICK node : node = nodes[replay.queue]
  OBVIOUS
<1>4. IsQueue(node.left) /\ IsQueue(node.right) /\ node.left \in Nat
  BY <1>1, <1>2, <1>3, AppendFacts DEF RegistersOK, IsQueue
<1>5. PICK todo : todo = AppendNode(node.right, replay.todo)
  OBVIOUS
<1>6. PICK ref : ref = Ref(nodes, todo)
  OBVIOUS
<1>7. PICK base : base = [replay EXCEPT !.queue = node.left]
  OBVIOUS
<1>8. todo \in Nodes /\ NodeOK(todo, Len(nodes) + 1)
  BY <1>2, <1>4, <1>5, FreshNodes DEF RegistersOK
<1>9. RegistersOK(base)
  BY <1>2, <1>4, <1>7 DEF RegistersOK, Registers
<1>10. nodes' = Allocate(nodes, todo) /\ replay' = [base EXCEPT !.todo = ref]
  BY <1>2, <1>3, <1>5, <1>6, <1>7 DEF CloneAppend, RegistersOK, Registers
<1>11. QED  BY <1>1, <1>6, <1>8, <1>9, <1>10, RegistersAllocate DEF CloneAppend

(* CloneFinish preserves TypeOK.                                           *)
LEMMA CloneFinishTyped == ASSUME TypeOK, CloneFinish PROVE TypeOK'
<1>1. replay.pc = "clone" /\ Kind(replay.queue) = "Finish"
  BY DEF CloneFinish, Cloning
<1>2. RegistersOK(replay)
  BY <1>1, ReplayFacts
<1>3. PICK node : node = nodes[replay.queue]
  OBVIOUS
<1>4. /\ IsScoped(node.extent) /\ IsQueue(node.rest) /\ node.rest \in Nat
      /\ IsExtent(node.parent)
  BY <1>1, <1>2, <1>3, FinishFacts DEF RegistersOK, IsQueue
<1>5. PICK seen : seen = Finish(node.extent, replay.reversed, replay.parent)
  OBVIOUS
<1>6. PICK ref : ref = Ref(nodes, seen)
  OBVIOUS
<1>7. PICK base : base = [replay EXCEPT !.queue = node.rest]
  OBVIOUS
<1>8. seen \in Nodes /\ NodeOK(seen, Len(nodes) + 1)
  BY <1>2, <1>4, <1>5, FreshNodes DEF RegistersOK
<1>9. RegistersOK(base)
  BY <1>2, <1>4, <1>7 DEF RegistersOK, Registers
<1>10. CASE Usable(node.extent)
  <2>1. nodes' = Allocate(nodes, seen) /\ replay' = [base EXCEPT !.reversed = ref]
        /\ UNCHANGED outcome
    BY <1>2, <1>3, <1>5, <1>6, <1>7, <1>10 DEF CloneFinish, RegistersOK, Registers
  <2>2. QED  BY <1>1, <1>6, <1>8, <1>9, <2>1, RegistersAllocate DEF CloneFinish
<1>11. CASE ~Usable(node.extent)
  BY <1>1, <1>2, <1>3, <1>11, RegistersOnly DEF CloneFinish, Trap, heapVars
<1>12. QED  BY <1>10, <1>11

(* CloneTodo preserves TypeOK.                                             *)
LEMMA CloneTodoTyped == ASSUME TypeOK, CloneTodo PROVE TypeOK'
<1>1. replay.pc = "clone" /\ RegistersOK(replay)
  BY ReplayFacts DEF CloneTodo, Cloning
<1>2. /\ UNCHANGED <<heapVars, minted, stack>>
      /\ outcome' \in {"running", "trapped"}
  BY DEF CloneTodo, Trap, TypeOK
<1>3. PICK next : next = replay'
  OBVIOUS
<1>4. RegistersOK(next)
  <2>1. CASE Kind(replay.todo) = "Empty"
    <3>1. next = [replay EXCEPT !.pc = "rebuild", !.queue = Empty]
      BY <1>3, <2>1 DEF CloneTodo
    <3>2. IsQueue(Empty) /\ Empty \in Nat
      BY EmptyIsQueue DEF Empty
    <3>3. QED  BY <1>1, <3>1, <3>2 DEF RegistersOK, Registers
  <2>2. CASE Kind(replay.todo) = "Append"
    <3>1. /\ IsQueue(nodes[replay.todo].left) /\ nodes[replay.todo].left \in Nat
          /\ IsQueue(nodes[replay.todo].right) /\ nodes[replay.todo].right \in Nat
      BY <1>1, <2>2, AppendFacts DEF RegistersOK, IsQueue
    <3>2. QED  BY <1>1, <1>3, <2>2, <3>1 DEF CloneTodo, RegistersOK, Registers
  <2>3. CASE Kind(replay.todo) \notin {"Empty", "Append"}
    BY <1>1, <1>3, <2>3 DEF CloneTodo
  <2>4. QED  BY <2>1, <2>2, <2>3
<1>5. QED  BY <1>1, <1>2, <1>3, <1>4, RegistersOnly

(* RebuildCons preserves TypeOK.                                           *)
LEMMA RebuildConsTyped == ASSUME TypeOK, RebuildCons PROVE TypeOK'
<1>1. replay.pc = "rebuild" /\ Kind(replay.reversed) = "Cons"
  BY DEF RebuildCons, Rebuilding
<1>2. RegistersOK(replay)
  BY <1>1, ReplayFacts
<1>3. PICK node : node = nodes[replay.reversed]
  OBVIOUS
<1>4. node.head \in Callbacks /\ IsQueue(node.tail) /\ node.tail \in Nat
  BY <1>1, <1>2, <1>3, ConsFacts DEF RegistersOK, IsQueue
<1>5. PICK next : next = ConsNode(node.head, replay.todo)
  OBVIOUS
<1>6. PICK ref : ref = Ref(nodes, next)
  OBVIOUS
<1>7. PICK base : base = [replay EXCEPT !.reversed = node.tail]
  OBVIOUS
<1>8. next \in Nodes /\ NodeOK(next, Len(nodes) + 1)
  BY <1>2, <1>4, <1>5, FreshNodes DEF RegistersOK
<1>9. RegistersOK(base)
  BY <1>2, <1>4, <1>7 DEF RegistersOK, Registers
<1>10. nodes' = Allocate(nodes, next) /\ replay' = [base EXCEPT !.todo = ref]
  BY <1>2, <1>3, <1>5, <1>6, <1>7 DEF RebuildCons, RegistersOK, Registers
<1>11. QED  BY <1>1, <1>6, <1>8, <1>9, <1>10, RegistersAllocate DEF RebuildCons

(* RebuildFinish preserves TypeOK.                                         *)
LEMMA RebuildFinishTyped == ASSUME TypeOK, RebuildFinish PROVE TypeOK'
<1>1. replay.pc = "rebuild" /\ Kind(replay.reversed) = "Finish"
  BY DEF RebuildFinish, Rebuilding
<1>2. RegistersOK(replay)
  BY <1>1, ReplayFacts
<1>3. PICK rest : rest = nodes[replay.reversed].rest
  OBVIOUS
<1>4. IsQueue(rest) /\ rest \in Nat
  BY <1>1, <1>2, <1>3, FinishFacts DEF RegistersOK, IsQueue
<1>5. PICK fresh : fresh = Len(extents) + 1
  OBVIOUS
<1>6. PICK next : next = Finish(fresh, replay.todo, replay.active)
  OBVIOUS
<1>7. PICK ref : ref = Ref(nodes, next)
  OBVIOUS
<1>8. next \in Nodes
  BY <1>2, <1>5, <1>6, LengthsAreNat DEF Finish, Nodes, RegistersOK, Registers
<1>9. /\ Len(extents) <= Len(extents') /\ Len(extents') \in Nat
      /\ \A e \in 1..Len(extents) : extents'[e].parent = extents[e].parent
      /\ ExtentsOK' /\ IsScoped(fresh)'
  <2>1. PICK p : p = replay.parent
    OBVIOUS
  <2>2. IsExtent(p) /\ p # NoExtent /\ extents' = FreshExtent(p)
    BY <1>2, <2>1 DEF RebuildFinish, RegistersOK, IsExtent, NoExtent
  <2>3. QED  BY <1>5, <2>2, FreshExtentFacts
<1>10. Grows
  BY <1>5, <1>6, <1>8, <1>9, NodesGrow, LengthsAreNat DEF RebuildFinish, Grows
<1>11. PICK old : old = replay
  OBVIOUS
<1>12. RegistersOK(old)'
  BY <1>2, <1>10, <1>11, RegistersStayValid
<1>13. PICK n : n = Len(nodes) + 1
  OBVIOUS
<1>14. NodeOK(next, n)'
  <2>1. old.todo < n
    BY <1>2, <1>11, <1>13, LengthsAreNat DEF RegistersOK, IsQueue
  <2>2. IsExtent(old.active)' /\ IsScoped(fresh)'
    BY <1>9, <1>12 DEF RegistersOK
  <2>3. next = Finish(fresh, old.todo, old.active)
    BY <1>6, <1>11
  <2>4. QED  BY <2>1, <2>2, <2>3 DEF Finish, NodeOK
<1>15. nodes' = Allocate(nodes, next)
  BY <1>5, <1>6 DEF RebuildFinish
<1>16. NodesOK' /\ IsQueue(ref)'
  BY <1>7, <1>8, <1>10, <1>13, <1>14, <1>15, NodeAllocated
<1>17. PICK registers : registers = replay'
  OBVIOUS
<1>18. RegistersOK(registers)'
  <2>1. registers = [old EXCEPT !.reversed = rest, !.todo = ref,
                                !.active = fresh, !.parent = fresh]
    BY <1>3, <1>5, <1>6, <1>7, <1>11, <1>17 DEF RebuildFinish
  <2>2. IsQueue(rest)' /\ IsExtent(fresh)' /\ fresh \in Nat /\ ref \in Nat
    BY <1>4, <1>9, <1>10, <1>16, ReferencesStayValid DEF IsScoped, IsExtent, IsQueue
  <2>3. QED  BY <1>4, <1>12, <1>16, <2>1, <2>2 DEF RegistersOK, Registers
<1>19. ReplayOK' /\ StackOK'
  BY <1>1, <1>10, <1>17, <1>18, RegistersStep DEF RebuildFinish
<1>20. QED  BY <1>9, <1>10, <1>16, <1>19, UntouchedParts DEF TypeOK, RebuildFinish

(* RebuildDone preserves TypeOK.                                           *)
LEMMA RebuildDoneTyped == ASSUME TypeOK, RebuildDone PROVE TypeOK'
<1>1. replay.pc = "rebuild" /\ Kind(replay.reversed) \in {"Empty", "Append"}
  BY DEF RebuildDone, Rebuilding
<1>2. RegistersOK(replay) /\ Depth > 0 /\ Top.await = "none"
  BY <1>1, ReplayFacts
<1>3. CASE Kind(replay.reversed) = "Empty"
  <2>1. PICK pending : pending = AppendNode(replay.todo, Top.queue)
    OBVIOUS
  <2>2. PICK ref : ref = Ref(nodes, pending)
    OBVIOUS
  <2>3. pending \in Nodes /\ NodeOK(pending, Len(nodes) + 1)
    BY <1>2, <2>1, TopFacts, FreshNodes DEF RegistersOK, FrameOK
  <2>4. /\ nodes' = Allocate(nodes, pending)
        /\ SetTop([Top EXCEPT !.comp = NoComp, !.queue = ref, !.extent = replay.active])
        /\ replay' = Idle
        /\ UNCHANGED <<contexts, extents, raws, owners, minted, outcome>>
    BY <1>3, <2>1, <2>2 DEF RebuildDone
  <2>5. Grows
    BY <2>3, <2>4, NodesGrow, LengthsAreNat DEF Grows
  <2>6. NodesOK' /\ IsQueue(ref)' /\ ref \in Nat
    BY <2>2, <2>3, <2>4, <2>5, ReferencesStayValid, NodeAllocated DEF IsQueue
  <2>7. PICK base : base = [Top EXCEPT !.comp = NoComp, !.extent = replay.active]
    OBVIOUS
  <2>8. base \in Frames /\ FrameOK(base)
    BY <1>2, <2>7, TopFacts, ComputationFacts
    DEF Frames, FrameOK, RegistersOK, Registers
  <2>9. FrameOK(base)'
    BY <2>5, <2>8, ReferencesStayValid
  <2>10. PICK frame : frame = [Top EXCEPT !.comp = NoComp, !.queue = ref,
                                          !.extent = replay.active]
    OBVIOUS
  <2>11. frame = [base EXCEPT !.queue = ref]
    BY <1>2, <2>7, <2>10, TopFacts DEF Frames
  <2>12. frame \in Frames /\ FrameOK(frame)'
    BY <2>6, <2>8, <2>9, <2>11 DEF Frames, FrameOK
  <2>13. StackOK'
    BY <1>2, <2>4, <2>5, <2>10, <2>12, TopReplaced
  <2>14. ReplayOK'
    <3>1. IsQueue(Empty)'
      BY <2>5, EmptyIsQueue, ReferencesStayValid DEF Empty
    <3>2. QED  BY <2>4, <3>1 DEF ReplayOK, Idle, Registers, NoExtent, Empty
  <2>15. QED  BY <2>4, <2>5, <2>6, <2>13, <2>14, UntouchedParts DEF TypeOK
<1>4. CASE Kind(replay.reversed) # "Empty"
  BY <1>1, <1>2, <1>4, RegistersOnly DEF RebuildDone, Trap, heapVars
<1>5. QED  BY <1>3, <1>4

(* An owner that leaves Pending, and one that is consumed.                 *)
LEMMA VacateFacts ==
  ASSUME TypeOK, NEW o \in 1..Len(owners),
         NEW status \in {"Running", "Cancelled"}, Vacate(o, status)
  PROVE  /\ owners' \in Seq(Owners)
         /\ Len(owners') = Len(owners) /\ Len(owners') \in Nat
         /\ \A i \in 1..Len(owners) :
              owners'[i] = IF i = o THEN [status |-> status, callback |-> "cleared"]
                           ELSE owners[i]
<1>1. owners \in Seq(Owners) /\ [status |-> status, callback |-> "cleared"] \in Owners
  BY DEF TypeOK, Owners
<1>2. QED  BY <1>1 DEF Vacate

(* Consuming an owner changes its status only.                             *)
LEMMA ConsumeFacts ==
  ASSUME TypeOK, NEW o \in 1..Len(owners),
         owners' = [owners EXCEPT ![o].status = "Consumed"]
  PROVE  /\ owners' \in Seq(Owners)
         /\ Len(owners') = Len(owners) /\ Len(owners') \in Nat
         /\ \A i \in 1..Len(owners) :
              owners'[i] = IF i = o
                           THEN [status |-> "Consumed", callback |-> owners[o].callback]
                           ELSE owners[i]
<1>1. owners \in Seq(Owners) /\ owners[o] \in Owners
  BY DEF TypeOK
<1>2. [status |-> "Consumed", callback |-> owners[o].callback] \in Owners
  BY <1>1 DEF Owners
<1>3. [owners[o] EXCEPT !.status = "Consumed"]
        = [status |-> "Consumed", callback |-> owners[o].callback]
  BY <1>1 DEF Owners
<1>4. QED  BY <1>1, <1>2, <1>3

(* OwnedResume preserves TypeOK.                                           *)
LEMMA OwnedResumeTyped == ASSUME TypeOK, OwnedResume PROVE TypeOK'
<1>1. /\ Depth > 0 /\ replay.pc = "idle" /\ Top.await = "none"
      /\ Top.comp.tag = "OwnedResume"
  BY DEF OwnedResume, Handling, Dispatching
<1>2. PICK o : o = Top.comp.owner
  OBVIOUS
<1>3. o \in 1..Len(owners) /\ owners \in Seq(Owners)
  BY <1>1, <1>2, TopFacts DEF FrameOK, CompOK, TypeOK
<1>4. CASE owners[o].status = "Pending"
  <2>1. PICK frame : frame = [Top EXCEPT !.await = "owned", !.owner = o, !.comp = NoComp]
    OBVIOUS
  <2>2. /\ SetTop(frame)
        /\ Vacate(o, "Running")
        /\ UNCHANGED <<nodes, contexts, extents, raws, minted, replay, outcome>>
    BY <1>2, <1>4, <2>1 DEF OwnedResume
  <2>3. owners' \in Seq(Owners) /\ Len(owners') = Len(owners)
    BY <1>3, <2>2, VacateFacts
  <2>4. Grows
    BY <2>2, <2>3, LengthsAreNat DEF Grows
  <2>5. frame \in Frames /\ FrameOK(frame)
    <3>1. o \in Nat /\ o # NoOwner /\ o \in 0..Len(owners)
      BY <1>3, LengthsAreNat DEF NoOwner
    <3>2. frame \in Frames
      BY <1>1, <2>1, <3>1, TopFacts, ComputationFacts DEF Frames
    <3>3. FrameOK(frame)
      BY <1>1, <2>1, <3>1, TopFacts, ComputationFacts DEF Frames, FrameOK
    <3>4. QED  BY <3>2, <3>3
  <2>6. StackOK'
    BY <1>1, <2>2, <2>4, <2>5, ReferencesStayValid, TopReplaced
  <2>7. QED  BY <1>1, <2>2, <2>3, <2>4, <2>6, UntouchedParts DEF TypeOK
<1>5. CASE owners[o].status # "Pending"
  <2>1. UNCHANGED <<heapVars, minted, stack, replay>> /\ outcome' = "trapped"
    BY <1>2, <1>5 DEF OwnedResume, Trap, heapVars
  <2>2. Grows
    BY <2>1, LengthsAreNat DEF Grows, heapVars
  <2>3. QED  BY <2>1, <2>2, UntouchedParts DEF TypeOK, heapVars
<1>6. QED  BY <1>4, <1>5

-----------------------------------------------------------------------------
(* Entering a source over scoped extent e.                                 *)
LEMMA EnterSourceTyped ==
  ASSUME TypeOK, Depth > 0, replay.pc = "idle", Top.await = "none",
         Top.comp.tag = "Handle",
         UNCHANGED <<nodes, raws, owners, minted, replay, outcome>>,
         Len(extents) <= Len(extents') /\ Len(extents') \in Nat,
         \A i \in 1..Len(extents) : extents'[i].parent = extents[i].parent,
         ExtentsOK',
         NEW saved, IsQueue(saved), NEW parent, IsExtent(parent),
         NEW e, IsScoped(e)', EnterSource(saved, parent, e)
  PROVE  TypeOK'
<1>1. PICK ctx : ctx = Top.ctx
  OBVIOUS
<1>2. PICK context : context = ScopedContext(saved, parent, ctx, e)
  OBVIOUS
<1>3. PICK ref : ref = Ref(contexts, context)
  OBVIOUS
<1>4. PICK source : source = Top.comp.source
  OBVIOUS
<1>5. /\ ctx \in 1..Len(contexts) /\ Len(contexts) \in Nat
      /\ saved \in Nat /\ parent \in Nat /\ e \in Nat
      /\ source \in 1..Len(Text)
  BY <1>1, <1>4, TopFacts, ComputationFacts, LengthsAreNat, SMTT(30)
  DEF Frames, FrameOK, IsQueue, IsExtent, IsScoped
<1>6. context \in Contexts
  BY <1>2, <1>5 DEF ScopedContext, Contexts
<1>7. contexts' = Allocate(contexts, context)
  BY <1>1, <1>2 DEF EnterSource
<1>8. /\ Len(contexts) <= Len(contexts') /\ Len(contexts') \in Nat
      /\ \A i \in 1..Len(contexts) : contexts'[i] = contexts[i]
      /\ contexts' \in Seq(Contexts)
      /\ ref \in 1..Len(contexts') /\ contexts'[ref] = context
      /\ \A i \in 1..Len(contexts') :
           i \in 1..Len(contexts) \/ (i = Len(contexts) + 1 /\ contexts'[i] = context)
  BY <1>3, <1>6, <1>7, ContextsGrow
<1>9. Grows
  BY <1>8, LengthsAreNat DEF Grows
<1>10. PICK n : n = Len(contexts) + 1
  OBVIOUS
<1>11. ContextOK(context, n)'
  <2>1. IsQueue(saved)' /\ IsExtent(parent)' /\ IsScoped(e)'
    BY <1>9, ReferencesStayValid
  <2>2. ctx \in 1..(n - 1)
    BY <1>5, <1>10
  <2>3. QED  BY <1>2, <2>1, <2>2 DEF ScopedContext, ContextOK
<1>12. ContextsOK'
  <2>1. ASSUME NEW i \in 1..Len(contexts') PROVE ContextOK(contexts[i], i)'
    <3>1. CASE i \in 1..Len(contexts)
      BY <1>8, <1>9, <3>1, ReferencesStayValid DEF TypeOK, ContextsOK
    <3>2. CASE i = n /\ contexts'[i] = context
      BY <1>11, <3>2
    <3>3. QED  BY <1>8, <1>10, <3>1, <3>2
  <2>2. QED  BY <1>8, <2>1 DEF ContextsOK
<1>13. PICK frame : frame = [Top EXCEPT !.comp = Text[source], !.queue = Empty,
                                        !.extent = e, !.ctx = ref]
  OBVIOUS
<1>14. SetTop(frame)
  BY <1>1, <1>2, <1>3, <1>4, <1>13 DEF EnterSource
<1>15. frame \in Frames
  <2>1. ref \in Nat /\ Text[source] \in Computations /\ Empty \in Nat
    BY <1>5, <1>8, ComputationFacts DEF Empty
  <2>2. QED  BY <1>5, <1>13, <2>1, TopFacts DEF Frames
<1>16. FrameOK(frame)'
  <2>1. PICK top : top = Top
    OBVIOUS
  <2>2. top \in Frames /\ FrameOK(top)' /\ top.await = "none"
    BY <1>9, <2>1, TopFacts, ReferencesStayValid
  <2>3. PICK comp : comp = Text[source]
    OBVIOUS
  <2>4. CompOK(comp)'
    BY <1>5, <1>9, <2>3, ComputationFacts, ReferencesStayValid
  <2>5. IsQueue(Empty)'
    BY <1>9, EmptyIsQueue, ReferencesStayValid DEF Empty
  <2>6. /\ frame.root = top.root /\ frame.comp = comp /\ frame.queue = Empty
        /\ frame.extent = e /\ frame.ctx = ref /\ frame.await = "none"
        /\ frame.owner = top.owner
    BY <1>13, <2>1, <2>2, <2>3 DEF Frames
  <2>7. QED
    BY <1>8, <2>2, <2>4, <2>5, <2>6 DEF FrameOK, IsScoped
<1>17. StackOK'
  BY <1>9, <1>14, <1>15, <1>16, TopReplaced
<1>18. QED  BY <1>9, <1>12, <1>17, UntouchedParts DEF TypeOK

(* HandleFresh preserves TypeOK.                                           *)
LEMMA HandleFreshTyped == ASSUME TypeOK, HandleFresh PROVE TypeOK'
<1>1. /\ Depth > 0 /\ replay.pc = "idle" /\ Top.await = "none"
      /\ Top.comp.tag = "Handle"
  BY DEF HandleFresh, Handling, Dispatching
<1>2. PICK saved : saved = Top.queue
  OBVIOUS
<1>3. PICK parent : parent = Top.extent
  OBVIOUS
<1>4. PICK e : e = Len(extents) + 1
  OBVIOUS
<1>5. IsQueue(saved) /\ IsExtent(parent) /\ parent # NoExtent
  BY <1>1, <1>2, <1>3, TopFacts DEF FrameOK, IsExtent, NoExtent
<1>6. extents' = FreshExtent(parent) /\ EnterSource(saved, parent, e)
  BY <1>2, <1>3, <1>4 DEF HandleFresh
<1>7. /\ Len(extents) <= Len(extents') /\ Len(extents') \in Nat
      /\ \A i \in 1..Len(extents) : extents'[i].parent = extents[i].parent
      /\ ExtentsOK' /\ IsScoped(e)'
  BY <1>4, <1>5, <1>6, FreshExtentFacts
<1>8. QED  BY <1>1, <1>5, <1>6, <1>7, EnterSourceTyped DEF HandleFresh

(* HandleFinish preserves TypeOK.                                          *)
LEMMA HandleFinishTyped == ASSUME TypeOK, HandleFinish PROVE TypeOK'
<1>1. /\ Depth > 0 /\ replay.pc = "idle" /\ Top.await = "none"
      /\ Top.comp.tag = "Handle" /\ Kind(Top.queue) = "Finish"
  BY DEF HandleFinish, Handling, Dispatching
<1>2. PICK finish : finish = nodes[Top.queue]
  OBVIOUS
<1>3. IsQueue(finish.rest) /\ IsExtent(finish.parent) /\ IsScoped(finish.extent)
  BY <1>1, <1>2, TopFacts, FinishFacts DEF FrameOK
<1>4. EnterSource(finish.rest, finish.parent, finish.extent) /\ UNCHANGED extents
  BY <1>2 DEF HandleFinish
<1>5. PICK e : e = finish.extent
  OBVIOUS
<1>6. IsScoped(e)' /\ ExtentsOK'
  BY <1>3, <1>4, <1>5 DEF IsScoped, IsExtent, TypeOK, ExtentsOK
<1>7. QED
  BY <1>1, <1>3, <1>4, <1>5, <1>6, EnterSourceTyped, LengthsAreNat DEF HandleFinish

-----------------------------------------------------------------------------
(* The guest's steps.                                                      *)
LEMMA SuppliableFacts ==
  ASSUME TypeOK, NEW c \in Suppliable
  PROVE  c \in Computations /\ CompOK(c)
<1>1. CASE c = NoComp
  BY <1>1, ComputationFacts
<1>2. CASE \E i \in 1..Len(Text) : c = Text[i]
  BY <1>2, ComputationFacts
<1>3. CASE \E k \in minted : c = [tag |-> "Resume", raw |-> k]
  BY <1>3, LengthsAreNat DEF TypeOK, Computations, CompOK
<1>4. CASE \E o \in 1..Len(owners) : c = [tag |-> "OwnedResume", owner |-> o]
  BY <1>4, LengthsAreNat DEF Computations, CompOK
<1>5. QED  BY <1>1, <1>2, <1>3, <1>4 DEF Suppliable

(* A clause whose result enters its target preserves TypeOK.               *)
LEMMA EnterTargetTyped ==
  ASSUME TypeOK, GuestRuns, Depth > 0, NEW c \in Suppliable, EnterTarget(c),
         UNCHANGED <<contexts, extents, raws, minted, replay, outcome>>
  PROVE  TypeOK'
<1>1. replay.pc = "idle" /\ Top.await = "clause"
  BY DEF GuestRuns, TypeOK, ReplayOK, EnterTarget
<1>2. PICK context : context = Context
  OBVIOUS
<1>3. /\ context.tag = "Scoped" /\ context \in Contexts
      /\ ContextOK(context, Top.ctx)
  BY <1>1, <1>2, TopFacts DEF FrameOK, Context
<1>4. /\ IsScoped(context.extent) /\ IsExtent(context.extent)
      /\ IsQueue(context.saved) /\ IsExtent(context.parent)
      /\ context.caller \in 1..Len(contexts)
      /\ context.extent \in Nat /\ context.caller \in Nat
  BY <1>3, TopFacts, LengthsAreNat, SMTT(30) DEF ContextOK, FrameOK, IsScoped, IsExtent
<1>5. PICK finish : finish = Finish(context.extent, context.saved, context.parent)
  OBVIOUS
<1>6. PICK ref : ref = Ref(nodes, finish)
  OBVIOUS
<1>7. finish \in Nodes /\ NodeOK(finish, Len(nodes) + 1)
  BY <1>4, <1>5, FreshNodes
<1>8. PICK base : base = [Top EXCEPT !.await = "none", !.comp = c,
                                     !.extent = context.extent,
                                     !.ctx = context.caller]
  OBVIOUS
<1>9. base \in Frames
  BY <1>4, <1>8, TopFacts, SuppliableFacts DEF Frames
<1>10. FrameOK(base)
  BY <1>1, <1>4, <1>8, TopFacts, SuppliableFacts DEF Frames, FrameOK
<1>11. [base EXCEPT !.queue = ref]
         = [Top EXCEPT !.await = "none", !.comp = c, !.queue = ref,
                       !.extent = context.extent, !.ctx = context.caller]
  BY <1>8, TopFacts DEF Frames
<1>12. SetTop([base EXCEPT !.queue = ref]) /\ nodes' = Allocate(nodes, finish)
       /\ UNCHANGED owners
  BY <1>2, <1>5, <1>6, <1>11 DEF EnterTarget
<1>13. QED  BY <1>1, <1>6, <1>7, <1>9, <1>10, <1>12, NodeStep

(* A continuation or root handler that returns preserves TypeOK.           *)
LEMMA ContinueTyped ==
  ASSUME TypeOK, GuestRuns, Depth > 0, NEW c \in Suppliable, Continue(c),
         UNCHANGED <<contexts, extents, raws, minted, replay, outcome>>
  PROVE  TypeOK'
<1>1. replay.pc = "idle" /\ Top.await \in {"next", "root"}
  BY DEF GuestRuns, TypeOK, ReplayOK, Continue
<1>2. PICK frame : frame = [Top EXCEPT !.await = "none", !.callee = NoCallee, !.comp = c]
  OBVIOUS
<1>3. frame \in Frames
  BY <1>2, TopFacts, SuppliableFacts DEF Frames
<1>4. FrameOK(frame)
  BY <1>1, <1>2, TopFacts, SuppliableFacts DEF Frames, FrameOK
<1>5. SetTop(frame)
  BY <1>2 DEF Continue
<1>6. QED  BY <1>1, <1>3, <1>4, <1>5, FrameStep DEF heapVars, Continue

(* An acquired callback that returns preserves TypeOK.                     *)
LEMMA TransferredTyped ==
  ASSUME TypeOK, GuestRuns, Depth > 0, NEW c \in Suppliable, Transferred(c),
         UNCHANGED <<contexts, extents, raws, minted, replay, outcome>>
  PROVE  TypeOK'
<1>1. replay.pc = "idle" /\ Top.await = "owned"
  BY DEF GuestRuns, TypeOK, ReplayOK, Transferred
<1>2. PICK o : o = Top.owner
  OBVIOUS
<1>3. o \in 1..Len(owners) /\ owners' = [owners EXCEPT ![o].status = "Consumed"]
  BY <1>1, <1>2, TopFacts, LengthsAreNat DEF FrameOK, Transferred, NoOwner
<1>4. owners' \in Seq(Owners) /\ Len(owners') = Len(owners) /\ Len(owners') \in Nat
  BY <1>3, ConsumeFacts
<1>5. Grows
  BY <1>4, LengthsAreNat DEF Grows, Transferred
<1>6. PICK frame : frame = [Top EXCEPT !.await = "none", !.owner = NoOwner, !.comp = c]
  OBVIOUS
<1>7. frame \in Frames
  BY <1>6, TopFacts, SuppliableFacts DEF Frames, NoOwner
<1>8. FrameOK(frame)
  BY <1>1, <1>6, TopFacts, SuppliableFacts, LengthsAreNat DEF Frames, FrameOK, NoOwner
<1>9. StackOK'
  BY <1>5, <1>6, <1>7, <1>8, ReferencesStayValid, TopReplaced DEF Transferred
<1>10. QED  BY <1>1, <1>4, <1>5, <1>9, UntouchedParts DEF TypeOK, Transferred

(* Run preserves TypeOK.                                                   *)
LEMMA RunTyped == ASSUME TypeOK, NEW c \in Suppliable, Run(c) PROVE TypeOK'
<1>1. replay.pc = "idle"
  BY DEF Run, GuestRuns, TypeOK, ReplayOK
<1>2. PICK root : root = Len(extents) + 1
  OBVIOUS
<1>3. extents' = FreshExtent(NoExtent) /\ root \in Nat
  BY <1>2, LengthsAreNat DEF Run
<1>4. /\ Len(extents) <= Len(extents') /\ Len(extents') \in Nat
      /\ \A e \in 1..Len(extents) : extents'[e].parent = extents[e].parent
      /\ ExtentsOK' /\ IsRoot(root)'
  <2>1. PICK p : p = NoExtent
    OBVIOUS
  <2>2. QED  BY <1>2, <1>3, <2>1, FreshExtentFacts
<1>5. PICK context : context = RootContext(root)
  OBVIOUS
<1>6. PICK ref : ref = Ref(contexts, context)
  OBVIOUS
<1>7. context \in Contexts /\ contexts' = Allocate(contexts, context)
  BY <1>2, <1>3, <1>5 DEF RootContext, Contexts, Run
<1>8. /\ Len(contexts) <= Len(contexts') /\ Len(contexts') \in Nat
      /\ \A i \in 1..Len(contexts) : contexts'[i] = contexts[i]
      /\ contexts' \in Seq(Contexts)
      /\ ref \in 1..Len(contexts') /\ contexts'[ref] = context
      /\ \A i \in 1..Len(contexts') :
           i \in 1..Len(contexts) \/ (i = Len(contexts) + 1 /\ contexts'[i] = context)
  BY <1>6, <1>7, ContextsGrow
<1>9. Grows
  BY <1>4, <1>8, LengthsAreNat DEF Grows, Run
<1>10. ContextsOK'
  <2>1. ASSUME NEW i \in 1..Len(contexts') PROVE ContextOK(contexts[i], i)'
    <3>1. CASE i \in 1..Len(contexts)
      BY <1>8, <1>9, <3>1, ReferencesStayValid DEF TypeOK, ContextsOK
    <3>2. CASE contexts'[i] = context
      BY <1>4, <1>5, <3>2 DEF RootContext, ContextOK
    <3>3. QED  BY <1>8, <3>1, <3>2
  <2>2. QED  BY <1>8, <2>1 DEF ContextsOK
<1>11. PICK frame :
         frame = [root |-> root, comp |-> c, queue |-> Empty, extent |-> root,
                  ctx |-> ref, await |-> "none", callee |-> NoCallee,
                  owner |-> NoOwner]
  OBVIOUS
<1>12. stack' = Append(stack, frame)
  BY <1>2, <1>5, <1>6, <1>11 DEF Run
<1>13. frame \in Frames
  BY <1>3, <1>8, <1>11, SuppliableFacts DEF Frames, Empty, NoOwner
<1>14. FrameOK(frame)'
  <2>1. PICK comp : comp = c
    OBVIOUS
  <2>2. CompOK(comp)' /\ IsQueue(Empty)'
    BY <1>9, <2>1, SuppliableFacts, EmptyIsQueue, ReferencesStayValid DEF Empty
  <2>3. frame.comp = comp /\ frame.owner = 0 /\ frame.await = "none"
    BY <1>11, <2>1 DEF NoOwner
  <2>4. 0 \in 0..Len(owners')
    BY LengthsAreNat DEF Run
  <2>5. QED
    BY <1>4, <1>8, <1>11, <2>2, <2>3, <2>4 DEF FrameOK, IsRoot, NoOwner
<1>15. StackOK'
  <2>1. /\ stack \in Seq(Frames) /\ stack' \in Seq(Frames)
        /\ \A d \in 1..Len(stack') :
             \/ d \in 1..Len(stack) /\ stack'[d] = stack[d]
             \/ stack'[d] = frame
    BY <1>12, <1>13 DEF TypeOK, StackOK
  <2>2. \A d \in 1..Len(stack') : FrameOK(stack[d])'
    BY <1>9, <1>14, <2>1, ReferencesStayValid DEF TypeOK, StackOK, Depth
  <2>3. QED  BY <2>1, <2>2 DEF StackOK, Depth
<1>16. QED  BY <1>1, <1>4, <1>9, <1>10, <1>15, UntouchedParts DEF TypeOK, Run

(* RawResume preserves TypeOK.                                             *)
LEMMA RawResumeTyped ==
  ASSUME TypeOK, NEW k \in 1..Len(raws), RawResume(k) PROVE TypeOK'
<1>1. UNCHANGED <<heapVars, stack, replay>> /\ Grows
  BY LengthsAreNat DEF RawResume, Grows, heapVars
<1>2. minted' \subseteq 1..Len(raws') /\ outcome' \in {"running", "trapped"}
  BY <1>1 DEF RawResume, TypeOK, heapVars, Trap
<1>3. QED  BY <1>1, <1>2, UntouchedParts DEF TypeOK, heapVars

(* Once preserves TypeOK.                                                  *)
LEMMA OnceTyped == ASSUME TypeOK, Once PROVE TypeOK'
<1>1. owners' \in Seq(Owners) /\ Len(owners') = Len(owners) + 1
  BY DEF Once, TypeOK, Owners
<1>2. Grows
  BY <1>1, LengthsAreNat DEF Once, Grows
<1>3. QED  BY <1>1, <1>2, UntouchedParts DEF TypeOK, Once

(* Cancel preserves TypeOK.                                                *)
LEMMA CancelTyped ==
  ASSUME TypeOK, NEW o \in 1..Len(owners), Cancel(o) PROVE TypeOK'
<1>1. /\ owners' \in Seq(Owners) /\ Len(owners') = Len(owners)
      /\ outcome' \in {"running", "trapped"}
  BY VacateFacts DEF Cancel, TypeOK, Trap
<1>2. Grows
  BY <1>1, LengthsAreNat DEF Cancel, Grows
<1>3. QED  BY <1>1, <1>2, UntouchedParts DEF TypeOK, Cancel

(* Throw preserves TypeOK.                                                 *)
LEMMA ThrowTyped == ASSUME TypeOK, Throw PROVE TypeOK'
<1>1. Depth > 0 /\ replay.pc = "idle"
  BY DEF Throw, GuestRuns, TypeOK, ReplayOK
<1>2. owners' \in Seq(Owners) /\ Len(owners') = Len(owners)
  <2>1. CASE Top.await = "owned"
    <3>1. PICK o : o = Top.owner
      OBVIOUS
    <3>2. o \in 1..Len(owners) /\ owners' = [owners EXCEPT ![o].status = "Consumed"]
      BY <1>1, <2>1, <3>1, TopFacts, LengthsAreNat DEF FrameOK, Throw, NoOwner
    <3>3. QED  BY <3>2, ConsumeFacts
  <2>2. CASE Top.await # "owned"
    BY <2>2 DEF Throw, TypeOK
  <2>3. QED  BY <2>1, <2>2
<1>3. PICK root : root = Top.root
  OBVIOUS
<1>4. IsExtent(root) /\ CloseBoundary(root)
  BY <1>1, <1>3, TopFacts DEF FrameOK, IsRoot, Throw
<1>5. Grows /\ ExtentsOK'
  BY <1>2, <1>4, ClosedExtentFacts, LengthsAreNat DEF Throw, Grows
<1>6. StackOK'
  BY <1>1, <1>5, TopPopped DEF Throw
<1>7. QED  BY <1>1, <1>2, <1>5, <1>6, UntouchedParts DEF TypeOK, Throw

(* A helper call that exhausts the stack has an activation that waits for  *)
(* no closure.                                                             *)
LEMMA ExhaustFacts ==
  ASSUME TypeOK, CallsHelper PROVE Depth > 0 /\ Top.await = "none"
<1>1. CASE Dispatching
  BY <1>1 DEF Dispatching
<1>2. CASE replay.pc = "clone"
  BY <1>2, ReplayFacts
<1>3. QED  BY <1>1, <1>2 DEF CallsHelper, Returning, Cloning

(* Exhaustion closes the root and abandons a replay in progress.           *)
LEMMA ExhaustTyped == ASSUME TypeOK, Exhaust PROVE TypeOK'
<1>1. Depth > 0
  BY ExhaustFacts DEF Exhaust
<1>2. IsExtent(Top.root)
  BY <1>1, TopFacts DEF FrameOK, IsRoot
<1>3. Grows /\ ExtentsOK'
  BY <1>2, ClosedExtentFacts, LengthsAreNat DEF Exhaust, Grows
<1>4. StackOK'
  BY <1>1, <1>3, TopPopped DEF Exhaust
<1>5. ReplayOK'
  <2>1. IsQueue(Empty)'
    BY <1>3, EmptyIsQueue, ReferencesStayValid DEF Empty
  <2>2. QED  BY <2>1 DEF Exhaust, ReplayOK, Idle, Registers, NoExtent, Empty
<1>6. QED  BY <1>3, <1>4, <1>5, UntouchedParts DEF TypeOK, Exhaust

-----------------------------------------------------------------------------
(* Every step preserves TypeOK.                                            *)
LEMMA NextTyped == ASSUME TypeOK, Next PROVE TypeOK'
<1>1. CASE ReplayStep
  BY <1>1, CloneConsTyped, CloneAppendTyped, CloneFinishTyped, CloneTodoTyped,
     RebuildConsTyped, RebuildFinishTyped, RebuildDoneTyped DEF ReplayStep
<1>2. CASE ExecutorStep
  BY <1>2, PublishTyped, ReturnClauseTyped, ReturnConsTyped, ReturnAppendConsTyped,
     ReturnRotateTyped, ReturnFinishTyped, PerformTyped, BindTyped, ResumeTyped,
     HandleFreshTyped, HandleFinishTyped, HandleNormalizeTyped, OwnedResumeTyped
  DEF ExecutorStep
<1>3. CASE GuestStep
  <2>1. ASSUME NEW c \in Suppliable, Supply(c) PROVE TypeOK'
    BY <2>1, EnterTargetTyped, ContinueTyped, TransferredTyped DEF Supply
  <2>2. QED
    BY <1>3, <2>1, RunTyped, RawResumeTyped, OnceTyped, CancelTyped, ThrowTyped
    DEF GuestStep
<1>4. QED  BY <1>1, <1>2, <1>3, ExhaustTyped DEF Next, MachineStep

(* Every reference the machine holds points to an object of the family its *)
(* field names, in every reachable state of every program.                 *)
THEOREM TypeCorrect == Spec => []TypeOK
<1>1. Init => TypeOK
  BY DEF Init, TypeOK, NodesOK, ContextsOK, ExtentsOK, RawsOK, StackOK, ReplayOK,
         Idle, Registers, IsQueue, Depth, Empty, NoExtent
<1>2. TypeOK /\ [Next]_vars => TypeOK'
  <2>1. CASE Next
    BY <2>1, NextTyped
  <2>2. CASE UNCHANGED vars
    BY <2>2 DEF vars, TypeOK, NodesOK, ContextsOK, ExtentsOK, RawsOK, StackOK,
       ReplayOK, RawOK, NodeOK, ContextOK, FrameOK, CompOK, IsQueue, IsExtent,
       IsScoped, IsRoot, Depth, Top
  <2>3. QED  BY <2>1, <2>2
<1>3. QED  BY <1>1, <1>2, PTL DEF Spec

-----------------------------------------------------------------------------
(* Roots and owners belong to activations.                                 *)

(* The step keeps the activations, with their roots and acquired owners.   *)
SameActivations ==
  /\ Depth' = Depth
  /\ \A d \in 1..Depth : /\ stack'[d].owner = stack[d].owner
                         /\ stack'[d].root = stack[d].root

(* Replacing the top activation by one with the same root and owner keeps  *)
(* both for every activation.                                              *)
LEMMA TopKeepsOwnership ==
  ASSUME TypeOK, Depth > 0, NEW frame, SetTop(frame),
         frame.owner = Top.owner, frame.root = Top.root
  PROVE  SameActivations
<1>1. PICK S : S = Frames \cup {frame}
  OBVIOUS
<1>2. stack \in Seq(S) /\ frame \in S /\ Depth = Len(stack)
  BY <1>1 DEF TypeOK, StackOK, Depth
<1>3. /\ Depth' = Depth /\ stack'[Depth] = frame
      /\ \A d \in 1..Depth : d # Depth => stack'[d] = stack[d]
  BY <1>2, SetTopFacts DEF SetTop, Depth
<1>4. QED  BY <1>3 DEF SameActivations, Top

(* An unchanged stack keeps the activations.                               *)
LEMMA SameStack == ASSUME UNCHANGED stack PROVE SameActivations
BY DEF SameActivations, Depth

(* The executor and replay steps that neither push nor pop an activation   *)
(* and acquire no owner.                                                   *)
QuietStep ==
  \/ ReplayStep
  \/ ReturnClause \/ ReturnCons \/ ReturnAppendCons \/ ReturnRotate \/ ReturnFinish
  \/ Perform \/ Bind \/ Resume
  \/ HandleFresh \/ HandleFinish \/ HandleNormalize

(* A quiet step keeps the activations and the owners.                      *)
LEMMA QuietKeepsOwnership ==
  ASSUME TypeOK, QuietStep PROVE SameActivations /\ UNCHANGED owners
<1>1. Depth > 0 => Top \in Frames
  BY TopFacts
<1>2. ASSUME ReplayStep PROVE SameActivations /\ UNCHANGED owners
  <2>1. CASE RebuildDone
    <3>1. Depth > 0
      BY <2>1, ReplayFacts DEF RebuildDone, Rebuilding
    <3>2. CASE UNCHANGED stack
      BY <2>1, <3>2, SameStack DEF RebuildDone
    <3>3. CASE \E q : SetTop([Top EXCEPT !.comp = NoComp, !.queue = q,
                                         !.extent = replay.active])
      BY <1>1, <2>1, <3>1, <3>3, TopKeepsOwnership DEF RebuildDone, Frames
    <3>4. QED  BY <2>1, <3>2, <3>3 DEF RebuildDone
  <2>2. CASE ~RebuildDone
    BY <1>2, <2>2, SameStack DEF ReplayStep, CloneCons, CloneAppend, CloneFinish,
       CloneTodo, RebuildCons, RebuildFinish, heapVars
  <2>3. QED  BY <2>1, <2>2
<1>3. ASSUME NEW await, NEW callee, NEW q, Apply(await, callee, q), Depth > 0
      PROVE SameActivations
  BY <1>1, <1>3, TopKeepsOwnership DEF Apply, Frames
<1>4. ASSUME RotateEmpty \/ \E kind \in {"Cons", "Append", "Finish"} : Rotate(kind),
             Depth > 0
      PROVE SameActivations
  <2>1. PICK q : SetTop([Top EXCEPT !.queue = q])
    BY <1>4 DEF RotateEmpty, Rotate
  <2>2. QED  BY <1>1, <1>4, <2>1, TopKeepsOwnership DEF Frames
<1>5. ASSUME NEW saved, NEW parent, NEW e, EnterSource(saved, parent, e), Depth > 0
      PROVE SameActivations
  BY <1>1, <1>5, TopKeepsOwnership DEF EnterSource, Frames
<1>6. ASSUME ReturnClause \/ ReturnCons \/ ReturnAppendCons \/ Perform
      PROVE SameActivations /\ UNCHANGED owners
  <2>1. Depth > 0
    BY <1>6 DEF ReturnClause, ReturnCons, ReturnAppendCons, Perform, Returning, Dispatching
  <2>2. \E await, callee, q : Apply(await, callee, q)
    BY <1>6 DEF ReturnClause, ReturnCons, ReturnAppendCons, Perform
  <2>3. QED
    BY <1>3, <1>6, <2>1, <2>2 DEF ReturnClause, ReturnCons, ReturnAppendCons, Perform, heapVars
<1>7. ASSUME ReturnRotate \/ HandleNormalize PROVE SameActivations /\ UNCHANGED owners
  BY <1>4, <1>7 DEF ReturnRotate, HandleNormalize, Returning, Handling, Dispatching
<1>8. ASSUME HandleFresh \/ HandleFinish PROVE SameActivations /\ UNCHANGED owners
  BY <1>5, <1>8 DEF HandleFresh, HandleFinish, Handling, Dispatching
<1>9. ASSUME ReturnFinish \/ Bind PROVE SameActivations /\ UNCHANGED owners
  BY <1>1, <1>9, TopKeepsOwnership
  DEF ReturnFinish, Bind, Returning, Dispatching, Frames
<1>10. ASSUME Resume PROVE SameActivations /\ UNCHANGED owners
  BY <1>10, SameStack DEF Resume, heapVars
<1>11. QED  BY <1>2, <1>6, <1>7, <1>8, <1>9, <1>10 DEF QuietStep

-----------------------------------------------------------------------------
(* One-shot owners.                                                        *)

(* An activation waits for an acquired callback exactly if it names an     *)
(* owner, and that owner exists.                                           *)
LEMMA AcquiredOwner ==
  ASSUME TypeOK, NEW d \in 1..Depth
  PROVE  /\ stack[d] \in Frames
         /\ stack[d].owner \in 0..Len(owners)
         /\ stack[d].await = "owned" <=> stack[d].owner # NoOwner
BY DEF TypeOK, StackOK, FrameOK, Depth

(* The owner invariant depends on the owners and the activations only.     *)
LEMMA OwnersKept ==
  ASSUME TypeOK, OwnersMatchTransfers, SameActivations, UNCHANGED owners
  PROVE  OwnersMatchTransfers'
<1>1. RunningIsAcquired'
  BY DEF OwnersMatchTransfers, RunningIsAcquired, SameActivations
<1>2. PendingIsUncalled' /\ OneTransferEach'
  BY DEF OwnersMatchTransfers, PendingIsUncalled, OneTransferEach, SameActivations
<1>3. QED  BY <1>1, <1>2 DEF OwnersMatchTransfers, RunningIsAcquired, PendingIsUncalled,
     OneTransferEach

(* Acquiring a Pending owner makes it the owner of the top activation      *)
(* alone.                                                                  *)
LEMMA OwnedResumeOwners ==
  ASSUME TypeOK, OwnersMatchTransfers, OwnedResume PROVE OwnersMatchTransfers'
<1>1. Depth > 0 /\ Top.await = "none" /\ Top.comp.tag = "OwnedResume"
  BY DEF OwnedResume, Dispatching
<1>2. PICK o : o = Top.comp.owner
  OBVIOUS
<1>3. o \in 1..Len(owners) /\ Depth \in 1..Depth /\ Depth \in Nat
  BY <1>1, <1>2, TopFacts DEF FrameOK, CompOK
<1>4. CASE owners[o].status = "Pending"
  <2>1. PICK frame : frame = [Top EXCEPT !.await = "owned", !.owner = o, !.comp = NoComp]
    OBVIOUS
  <2>2. SetTop(frame) /\ Vacate(o, "Running")
    BY <1>2, <1>4, <2>1 DEF OwnedResume
  <2>3. frame.owner = o
    BY <1>1, <2>1, TopFacts DEF Frames
  <2>4. /\ Depth' = Depth /\ stack'[Depth].owner = o
        /\ \A d \in 1..Depth : d # Depth => stack'[d].owner = stack[d].owner
    <3>1. PICK S : S = Frames \cup {frame}
      OBVIOUS
    <3>2. stack \in Seq(S) /\ frame \in S /\ Depth = Len(stack)
      BY <3>1 DEF TypeOK, StackOK, Depth
    <3>3. QED  BY <1>1, <2>2, <2>3, <3>2, SetTopFacts DEF SetTop, Depth
  <2>5. /\ Len(owners') = Len(owners)
        /\ owners'[o].status = "Running" /\ owners'[o].callback = "cleared"
        /\ \A i \in 1..Len(owners) : i # o => owners'[i] = owners[i]
    BY <1>3, <2>2, VacateFacts
  <2>6. stack[Depth].owner = NoOwner /\ o # NoOwner
    BY <1>1, <1>3, AcquiredOwner DEF Top, NoOwner
  <2>7. \A d \in 1..Depth : stack[d].owner # o
    BY <1>3, <1>4 DEF OwnersMatchTransfers, RunningIsAcquired
  <2>8. RunningIsAcquired'
    <3>1. ASSUME NEW i \in 1..Len(owners), i # o
          PROVE (\E d \in 1..Depth : stack'[d].owner = i)
                  <=> \E d \in 1..Depth : stack[d].owner = i
      BY <1>3, <2>4, <2>6, <3>1, LengthsAreNat DEF NoOwner
    <3>2. QED
      BY <1>3, <2>4, <2>5, <3>1 DEF OwnersMatchTransfers, RunningIsAcquired
  <2>9. PendingIsUncalled'
    BY <1>3, <2>5 DEF OwnersMatchTransfers, PendingIsUncalled
  <2>10. OneTransferEach'
    BY <1>3, <2>4, <2>7 DEF OwnersMatchTransfers, OneTransferEach
  <2>11. QED  BY <2>8, <2>9, <2>10 DEF OwnersMatchTransfers
<1>5. CASE owners[o].status # "Pending"
  BY <1>2, <1>5, SameStack, OwnersKept DEF OwnedResume
<1>6. QED  BY <1>4, <1>5

(* The acquired callback of the top activation ends, by a return or by a   *)
(* channel exception: its owner was Running and nobody else names it.      *)
LEMMA TransferEnds ==
  ASSUME TypeOK, OwnersMatchTransfers, Depth > 0, Top.await = "owned",
         NEW o, o = Top.owner, owners' = [owners EXCEPT ![o].status = "Consumed"]
  PROVE  /\ o \in 1..Len(owners) /\ owners[o].status = "Running"
         /\ Len(owners') = Len(owners)
         /\ owners'[o].status = "Consumed" /\ owners'[o].callback # "callback"
         /\ \A i \in 1..Len(owners) : i # o => owners'[i] = owners[i]
         /\ \A d \in 1..Depth : d # Depth => stack[d].owner # o
<1>1. o # NoOwner /\ o \in 1..Len(owners) /\ Depth \in 1..Depth
  BY TopFacts, LengthsAreNat DEF FrameOK, NoOwner
<1>2. owners[o].status = "Running" /\ owners[o].callback # "callback"
  BY <1>1 DEF OwnersMatchTransfers, RunningIsAcquired, PendingIsUncalled, Top
<1>3. /\ Len(owners') = Len(owners)
      /\ owners'[o] = [status |-> "Consumed", callback |-> owners[o].callback]
      /\ \A i \in 1..Len(owners) : i # o => owners'[i] = owners[i]
  <2>1. \A i \in 1..Len(owners) :
          owners'[i] = IF i = o
                       THEN [status |-> "Consumed", callback |-> owners[o].callback]
                       ELSE owners[i]
    BY <1>1, ConsumeFacts
  <2>2. Len(owners') = Len(owners)
    BY <1>1, ConsumeFacts
  <2>3. QED  BY <1>1, <2>1, <2>2
<1>4. \A d \in 1..Depth : d # Depth => stack[d].owner # o
  BY <1>1 DEF OwnersMatchTransfers, OneTransferEach, Top
<1>5. QED  BY <1>1, <1>2, <1>3, <1>4

(* An applied closure that returns ends at most the transfer it was        *)
(* acquired by.                                                            *)
LEMMA SupplyOwners ==
  ASSUME TypeOK, OwnersMatchTransfers, NEW c \in Suppliable, Supply(c)
  PROVE  OwnersMatchTransfers'
<1>1. Depth > 0 /\ Top \in Frames /\ Depth \in 1..Depth /\ Depth \in Nat
  BY TopFacts DEF Supply
<1>2. CASE EnterTarget(c) \/ Continue(c)
  <2>1. SameActivations
    BY <1>1, <1>2, TopKeepsOwnership DEF EnterTarget, Continue, Frames
  <2>2. QED  BY <1>2, <2>1, OwnersKept DEF EnterTarget, Continue
<1>3. CASE Transferred(c)
  <2>1. PICK o : o = Top.owner
    OBVIOUS
  <2>2. /\ o \in 1..Len(owners) /\ Len(owners') = Len(owners)
        /\ owners'[o].status = "Consumed" /\ owners'[o].callback # "callback"
        /\ \A i \in 1..Len(owners) : i # o => owners'[i] = owners[i]
        /\ \A d \in 1..Depth : d # Depth => stack[d].owner # o
    BY <1>1, <1>3, <2>1, TransferEnds DEF Transferred
  <2>3. PICK frame : frame = [Top EXCEPT !.await = "none", !.owner = NoOwner, !.comp = c]
    OBVIOUS
  <2>4. /\ Depth' = Depth /\ stack'[Depth].owner = NoOwner
        /\ \A d \in 1..Depth : d # Depth => stack'[d].owner = stack[d].owner
    <3>1. PICK S : S = Frames \cup {frame}
      OBVIOUS
    <3>2. stack \in Seq(S) /\ frame \in S /\ Depth = Len(stack)
      BY <3>1 DEF TypeOK, StackOK, Depth
    <3>3. frame.owner = NoOwner /\ SetTop(frame)
      BY <1>1, <1>3, <2>3 DEF Frames, Transferred
    <3>4. QED  BY <1>1, <3>2, <3>3, SetTopFacts DEF SetTop, Depth
  <2>5. o # NoOwner /\ stack[Depth].owner = o
    BY <2>1, <2>2 DEF NoOwner, Top
  <2>6. RunningIsAcquired'
    <3>1. ASSUME NEW i \in 1..Len(owners), i # o
          PROVE (\E d \in 1..Depth : stack'[d].owner = i)
                  <=> \E d \in 1..Depth : stack[d].owner = i
      BY <1>1, <2>4, <2>5, <3>1, LengthsAreNat DEF NoOwner
    <3>2. \A d \in 1..Depth : stack'[d].owner # o
      BY <2>2, <2>4, <2>5
    <3>3. QED
      BY <2>2, <2>4, <3>1, <3>2 DEF OwnersMatchTransfers, RunningIsAcquired
  <2>7. PendingIsUncalled'
    BY <2>2 DEF OwnersMatchTransfers, PendingIsUncalled
  <2>8. OneTransferEach'
    BY <1>1, <2>4 DEF OwnersMatchTransfers, OneTransferEach
  <2>9. QED  BY <2>6, <2>7, <2>8 DEF OwnersMatchTransfers
<1>4. QED  BY <1>2, <1>3 DEF Supply

(* Popping keeps every activation but the last.                            *)
LEMMA PoppedActivations ==
  ASSUME TypeOK, Depth > 0, Pop
  PROVE  /\ Depth \in Nat /\ Depth' = Depth - 1
         /\ \A d \in 1..Depth' : stack'[d] = stack[d] /\ d \in 1..Depth /\ d # Depth
<1>1. Depth \in Nat
  BY LengthsAreNat
<1>2. Depth' = Depth - 1 /\ \A d \in 1..(Depth - 1) : stack'[d] = stack[d]
  BY PopFacts DEF TypeOK, StackOK, Pop, Depth
<1>3. QED  BY <1>1, <1>2

(* The other owners stay acquired by the same activations.                 *)
LEMMA PopKeepsOthers ==
  ASSUME TypeOK, Depth > 0, Pop, NEW i, i # stack[Depth].owner
  PROVE  (\E d \in 1..Depth' : stack'[d].owner = i)
           <=> \E d \in 1..Depth : stack[d].owner = i
<1>1. /\ Depth \in Nat /\ Depth' = Depth - 1
      /\ \A d \in 1..Depth' : stack'[d] = stack[d] /\ d \in 1..Depth /\ d # Depth
  BY PoppedActivations
<1>2. ASSUME NEW d \in 1..Depth, stack[d].owner = i PROVE d \in 1..Depth'
  BY <1>1, <1>2
<1>3. QED  BY <1>1, <1>2

(* An idle activation leaves.                                              *)
LEMMA IdleActivationLeaves ==
  ASSUME TypeOK, OwnersMatchTransfers, Depth > 0, Pop, UNCHANGED owners,
         stack[Depth].owner = NoOwner
  PROVE  OwnersMatchTransfers'
<1>1. \A o \in 1..Len(owners) : o # stack[Depth].owner
  BY LengthsAreNat DEF NoOwner
<1>2. RunningIsAcquired'
  BY <1>1, PopKeepsOthers DEF OwnersMatchTransfers, RunningIsAcquired
<1>3. PendingIsUncalled'
  BY DEF OwnersMatchTransfers, PendingIsUncalled
<1>4. OneTransferEach'
  BY PoppedActivations DEF OwnersMatchTransfers, OneTransferEach
<1>5. QED  BY <1>2, <1>3, <1>4 DEF OwnersMatchTransfers

(* A channel exception consumes the owner its activation had acquired.     *)
LEMMA ThrowOwners ==
  ASSUME TypeOK, OwnersMatchTransfers, Throw PROVE OwnersMatchTransfers'
<1>1. /\ Depth > 0 /\ Depth \in Nat /\ Depth' = Depth - 1
      /\ \A d \in 1..Depth' : stack'[d] = stack[d] /\ d \in 1..Depth /\ d # Depth
      /\ \A d \in 1..Depth : d # Depth => d \in 1..Depth'
  BY PoppedActivations DEF Throw
<1>2. CASE Top.await = "owned"
  <2>1. PICK o : o = Top.owner
    OBVIOUS
  <2>2. /\ o \in 1..Len(owners) /\ Len(owners') = Len(owners)
        /\ owners'[o].status = "Consumed" /\ owners'[o].callback # "callback"
        /\ \A i \in 1..Len(owners) : i # o => owners'[i] = owners[i]
        /\ \A d \in 1..Depth : d # Depth => stack[d].owner # o
    <3>1. owners' = [owners EXCEPT ![o].status = "Consumed"]
      BY <1>2, <2>1 DEF Throw
    <3>2. Depth > 0
      BY DEF Throw
    <3>3. QED  BY <1>2, <2>1, <3>1, <3>2, TransferEnds
  <2>3. stack[Depth].owner = o
    BY <2>1 DEF Top
  <2>4. RunningIsAcquired'
    <3>1. \A d \in 1..Depth' : stack'[d].owner # o
      BY <1>1, <2>2
    <3>2. ASSUME NEW i \in 1..Len(owners), i # o
          PROVE (\E d \in 1..Depth' : stack'[d].owner = i)
                  <=> \E d \in 1..Depth : stack[d].owner = i
      BY <1>1, <2>3, <3>2, PopKeepsOthers DEF Throw
    <3>3. QED
      BY <2>2, <3>1, <3>2 DEF OwnersMatchTransfers, RunningIsAcquired
  <2>5. PendingIsUncalled'
    BY <2>2 DEF OwnersMatchTransfers, PendingIsUncalled
  <2>6. OneTransferEach'
    BY <1>1 DEF OwnersMatchTransfers, OneTransferEach
  <2>7. QED  BY <2>4, <2>5, <2>6 DEF OwnersMatchTransfers
<1>3. CASE Top.await # "owned"
  <2>1. stack[Depth].owner = NoOwner /\ UNCHANGED owners
    BY <1>1, <1>3, AcquiredOwner DEF Throw, Top
  <2>2. QED  BY <1>1, <2>1, IdleActivationLeaves DEF Throw
<1>4. QED  BY <1>2, <1>3

(* An activation that exhausts the stack in a helper has acquired no owner. *)
LEMMA ExhaustOwners ==
  ASSUME TypeOK, OwnersMatchTransfers, Exhaust PROVE OwnersMatchTransfers'
<1>1. Depth > 0 /\ Depth \in 1..Depth /\ Top.await = "none"
  BY ExhaustFacts, TopFacts DEF Exhaust
<1>2. stack[Depth].owner = NoOwner /\ UNCHANGED owners
  BY <1>1, AcquiredOwner DEF Exhaust, Top
<1>3. QED  BY <1>1, <1>2, IdleActivationLeaves DEF Exhaust

(* An activation that publishes has acquired no owner.                     *)
LEMMA PublishOwners ==
  ASSUME TypeOK, OwnersMatchTransfers, Publish PROVE OwnersMatchTransfers'
<1>1. Depth > 0 /\ Depth \in 1..Depth
  BY TopFacts DEF Publish, Returning, Dispatching
<1>2. stack[Depth].owner = NoOwner /\ UNCHANGED owners
  BY <1>1, AcquiredOwner DEF Publish, Returning, Dispatching, Top
<1>3. QED  BY <1>1, <1>2, IdleActivationLeaves DEF Publish

(* A new activation has acquired no owner.                                 *)
LEMMA RunOwners ==
  ASSUME TypeOK, OwnersMatchTransfers, NEW c \in Suppliable, Run(c)
  PROVE  OwnersMatchTransfers'
<1>1. /\ UNCHANGED owners /\ Depth \in Nat /\ Depth' = Depth + 1
      /\ stack'[Depth + 1].owner = NoOwner
      /\ \A d \in 1..Depth : stack'[d] = stack[d]
  BY DEF Run, TypeOK, StackOK, Depth
<1>2. RunningIsAcquired'
  <2>1. ASSUME NEW o \in 1..Len(owners)
        PROVE (\E d \in 1..Depth' : stack'[d].owner = o)
                <=> \E d \in 1..Depth : stack[d].owner = o
    <3>1. o # NoOwner
      BY LengthsAreNat DEF NoOwner
    <3>2. ASSUME NEW d \in 1..Depth', stack'[d].owner = o PROVE d \in 1..Depth
      BY <1>1, <3>1, <3>2
    <3>3. \A d \in 1..Depth : d \in 1..Depth'
      BY <1>1
    <3>4. QED  BY <1>1, <3>2, <3>3
  <2>2. QED  BY <1>1, <2>1 DEF OwnersMatchTransfers, RunningIsAcquired
<1>3. PendingIsUncalled'
  BY <1>1 DEF OwnersMatchTransfers, PendingIsUncalled
<1>4. OneTransferEach'
  BY <1>1 DEF OwnersMatchTransfers, OneTransferEach
<1>5. QED  BY <1>2, <1>3, <1>4 DEF OwnersMatchTransfers

(* A new owner is Pending and holds its callback.                          *)
LEMMA OnceOwners ==
  ASSUME TypeOK, OwnersMatchTransfers, Once PROVE OwnersMatchTransfers'
<1>1. /\ owners \in Seq(Owners) /\ Len(owners) \in Nat /\ UNCHANGED stack
      /\ Len(owners') = Len(owners) + 1
      /\ owners'[Len(owners) + 1] = [status |-> "Pending", callback |-> "callback"]
      /\ \A o \in 1..Len(owners) : owners'[o] = owners[o]
  BY DEF Once, TypeOK, Owners
<1>2. \A d \in 1..Depth : stack[d].owner # Len(owners) + 1
  BY <1>1, AcquiredOwner
<1>3. QED  BY <1>1, <1>2, SMTT(30) DEF OwnersMatchTransfers, RunningIsAcquired, PendingIsUncalled,
     OneTransferEach, Depth

(* Cancelling a Pending owner clears it, and traps otherwise.              *)
LEMMA CancelOwners ==
  ASSUME TypeOK, OwnersMatchTransfers, NEW o \in 1..Len(owners), Cancel(o)
  PROVE  OwnersMatchTransfers'
<1>1. CASE owners[o].status = "Pending"
  <2>1. /\ Len(owners') = Len(owners) /\ UNCHANGED stack
        /\ owners'[o].status = "Cancelled" /\ owners'[o].callback = "cleared"
        /\ \A i \in 1..Len(owners) : i # o => owners'[i] = owners[i]
    BY <1>1, VacateFacts DEF Cancel
  <2>2. QED  BY <1>1, <2>1, SMTT(30) DEF OwnersMatchTransfers, RunningIsAcquired, PendingIsUncalled,
     OneTransferEach, Depth
<1>2. CASE owners[o].status # "Pending"
  BY <1>2, SameStack, OwnersKept DEF Cancel
<1>3. QED  BY <1>1, <1>2

(* Every step preserves the owner invariant.                               *)
LEMMA NextOwners ==
  ASSUME TypeOK, OwnersMatchTransfers, Next PROVE OwnersMatchTransfers'
<1>1. CASE QuietStep
  BY <1>1, QuietKeepsOwnership, OwnersKept
<1>2. CASE Publish \/ OwnedResume \/ Exhaust
  BY <1>2, PublishOwners, OwnedResumeOwners, ExhaustOwners
<1>3. CASE GuestStep
  <2>1. ASSUME NEW k \in 1..Len(raws), RawResume(k) PROVE OwnersMatchTransfers'
    BY <2>1, SameStack, OwnersKept DEF RawResume, heapVars
  <2>2. QED
    BY <1>3, <2>1, SupplyOwners, RunOwners, OnceOwners, CancelOwners, ThrowOwners
    DEF GuestStep
<1>4. QED  BY <1>1, <1>2, <1>3 DEF Next, MachineStep, ExecutorStep, QuietStep

(* A one-shot owner is Running exactly while its acquired callback is on   *)
(* the native stack of one activation, whatever the guest does.            *)
THEOREM OwnersCorrect == Spec => []OwnersMatchTransfers
<1>1. Init => OwnersMatchTransfers
  BY DEF Init, OwnersMatchTransfers, RunningIsAcquired, PendingIsUncalled,
     OneTransferEach, Depth
<1>2. TypeOK /\ OwnersMatchTransfers /\ [Next]_vars => OwnersMatchTransfers'
  <2>1. ASSUME TypeOK, OwnersMatchTransfers, UNCHANGED vars PROVE OwnersMatchTransfers'
    BY <2>1, SameStack, OwnersKept DEF vars
  <2>2. QED  BY <2>1, NextOwners
<1>3. QED  BY <1>1, <1>2, TypeCorrect, PTL DEF Spec

(* Only Pending owners start or are cancelled, only Running owners are     *)
(* consumed, and nothing ever leaves Consumed or Cancelled.                *)
THEOREM OwnerLifeCorrect == Spec => OwnerLife
<1> DEFINE Moves ==
      \A o \in 1..Len(owners) :
        owners'[o].status # owners[o].status =>
          <<owners[o].status, owners'[o].status>> \in
            {<<"Pending", "Running">>, <<"Running", "Consumed">>,
             <<"Pending", "Cancelled">>}
<1>1. TypeOK /\ OwnersMatchTransfers /\ [Next]_vars => [Moves]_owners
  <2> SUFFICES ASSUME TypeOK, OwnersMatchTransfers, Next, owners' # owners
               PROVE  Moves
    BY DEF vars
  <2>1. CASE OwnedResume
    <3>1. PICK o \in 1..Len(owners) : owners[o].status = "Pending" /\ Vacate(o, "Running")
      BY <2>1, TopFacts DEF OwnedResume, Dispatching, FrameOK, CompOK
    <3>2. QED  BY <3>1, VacateFacts
  <2>2. ASSUME NEW c \in Suppliable, Supply(c) PROVE Moves
    <3>1. Transferred(c) /\ Depth > 0
      BY <2>2 DEF Supply, EnterTarget, Continue
    <3>2. PICK o : o = Top.owner
      OBVIOUS
    <3>3. Top.await = "owned" /\ owners' = [owners EXCEPT ![o].status = "Consumed"]
      BY <3>1, <3>2 DEF Transferred
    <3>4. QED  BY <3>1, <3>2, <3>3, TransferEnds
  <2>3. CASE Throw
    <3>1. Depth > 0 /\ Top.await = "owned"
      BY <2>3 DEF Throw
    <3>2. PICK o : o = Top.owner
      OBVIOUS
    <3>3. owners' = [owners EXCEPT ![o].status = "Consumed"]
      BY <2>3, <3>1, <3>2 DEF Throw
    <3>4. QED  BY <3>1, <3>2, <3>3, TransferEnds
  <2>4. ASSUME NEW o \in 1..Len(owners), Cancel(o) PROVE Moves
    BY <2>4, VacateFacts DEF Cancel
  <2>5. CASE Once
    BY <2>5 DEF Once, TypeOK
  <2>6. ~QuietStep /\ ~Publish /\ ~Exhaust
    BY QuietKeepsOwnership DEF Publish, Exhaust
  <2>7. QED
    BY <2>1, <2>2, <2>3, <2>4, <2>5, <2>6
    DEF Next, MachineStep, ExecutorStep, QuietStep, GuestStep, Run, RawResume, heapVars
<1>2. QED  BY <1>1, TypeCorrect, OwnersCorrect, PTL DEF Spec, OwnerLife

-----------------------------------------------------------------------------
(* Root extents.                                                           *)

(* The step neither adds a root extent nor changes the status of one.      *)
SameRoots ==
  \A e \in 1..Len(extents') :
    extents'[e].parent = NoExtent =>
      /\ e \in 1..Len(extents) /\ extents[e].parent = NoExtent
      /\ extents'[e].status = extents[e].status

SameRuns == Depth' = Depth /\ \A d \in 1..Depth : stack'[d].root = stack[d].root

(* Replacing the top activation by one with the same root keeps every root.*)
LEMMA TopKeepsRoot ==
  ASSUME TypeOK, Depth > 0, NEW frame, SetTop(frame), frame.root = Top.root
  PROVE  SameRuns
<1>1. PICK S : S = Frames \cup {frame}
  OBVIOUS
<1>2. stack \in Seq(S) /\ frame \in S /\ Depth = Len(stack)
  BY <1>1 DEF TypeOK, StackOK, Depth
<1>3. /\ Depth' = Depth /\ stack'[Depth] = frame
      /\ \A d \in 1..Depth : d # Depth => stack'[d] = stack[d]
  BY <1>2, SetTopFacts DEF SetTop, Depth
<1>4. QED  BY <1>3 DEF SameRuns, Top

(* The root invariant depends on the root extents and the roots of the     *)
(* activations only.                                                       *)
LEMMA RootsKept ==
  ASSUME TypeOK, RootsMatchRuns, SameRuns, SameRoots
  PROVE  RootsMatchRuns'
<1>1. \A c, d \in 1..Depth' : stack'[c].root = stack'[d].root => c = d
  BY DEF RootsMatchRuns, SameRuns
<1>2. ASSUME NEW e \in 1..Len(extents'), IsRoot(e)'
      PROVE extents'[e].status = Live <=> \E d \in 1..Depth' : stack'[d].root = e
  <2>1. IsRoot(e) /\ e \in 1..Len(extents) /\ extents'[e].status = extents[e].status
    BY <1>2 DEF SameRoots, IsRoot, IsExtent
  <2>2. QED  BY <2>1 DEF RootsMatchRuns, SameRuns
<1>3. QED  BY <1>1, <1>2 DEF RootsMatchRuns

(* Unchanged extents have the same roots.                                  *)
LEMMA SameExtentsSameRoots == ASSUME UNCHANGED extents PROVE SameRoots
BY DEF SameRoots

(* A fresh scoped extent adds no root.                                     *)
LEMMA ScopedExtentSameRoots ==
  ASSUME TypeOK, NEW p, IsExtent(p), extents' = FreshExtent(p) PROVE SameRoots
<1>1. PICK fresh : fresh = Len(extents) + 1
  OBVIOUS
<1>2. p # NoExtent /\ Len(extents) \in Nat
  BY LengthsAreNat DEF IsExtent, NoExtent
<1>3. /\ Len(extents') = fresh
      /\ \A e \in 1..Len(extents) : extents'[e].parent = extents[e].parent
      /\ \A e \in 1..Len(extents) : extents'[e].status = extents[e].status
      /\ IsScoped(fresh)'
  BY <1>1, <1>2, FreshExtentFacts
<1>4. \A e \in 1..Len(extents') : e \in 1..Len(extents) \/ e = fresh
  BY <1>1, <1>2, <1>3
<1>5. QED  BY <1>3, <1>4 DEF SameRoots, IsScoped

(* A quiet step changes no root extent: the extents it closes are scoped.  *)
LEMMA QuietSameRoots == ASSUME TypeOK, QuietStep PROVE SameRoots
<1>1. CASE UNCHANGED extents
  BY <1>1, SameExtentsSameRoots
<1>2. CASE RebuildFinish
  <2>1. IsExtent(replay.parent)
    BY <1>2, ReplayFacts DEF RebuildFinish, Rebuilding, RegistersOK
  <2>2. QED  BY <1>2, <2>1, ScopedExtentSameRoots DEF RebuildFinish
<1>3. CASE HandleFresh
  <2>1. IsExtent(Top.extent)
    BY <1>3, TopFacts DEF HandleFresh, Handling, Dispatching, FrameOK
  <2>2. QED  BY <1>3, <2>1, ScopedExtentSameRoots DEF HandleFresh
<1>4. CASE ReturnFinish
  <2>1. PICK f : f = nodes[Top.queue].extent
    OBVIOUS
  <2>2. IsScoped(f)
    BY <1>4, <2>1, TopFacts, FinishFacts DEF ReturnFinish, Returning, Dispatching, FrameOK
  <2>3. CloseBoundary(f)
    BY <1>4, <2>1 DEF ReturnFinish
  <2>4. QED  BY <2>2, <2>3, ClosedExtentFacts DEF SameRoots, IsScoped
<1>5. QED
  BY <1>1, <1>2, <1>3, <1>4
  DEF QuietStep, ReplayStep, CloneCons, CloneAppend, CloneFinish, CloneTodo, RebuildCons,
      RebuildDone, ReturnClause, ReturnCons, ReturnAppendCons, ReturnRotate, Perform,
      Bind, Resume, HandleFinish, HandleNormalize, heapVars

(* The top activation leaves and its root is closed.                       *)
LEMMA RunLeaves ==
  ASSUME TypeOK, RootsMatchRuns, Depth > 0, CloseBoundary(Top.root), Pop
  PROVE  RootsMatchRuns'
<1>1. PICK root : root = Top.root
  OBVIOUS
<1>2. IsRoot(root) /\ CloseBoundary(root) /\ Depth \in 1..Depth /\ stack[Depth].root = root
  BY <1>1, TopFacts DEF FrameOK, Top
<1>3. /\ Len(extents') = Len(extents)
      /\ \A i \in 1..Len(extents) : extents'[i].parent = extents[i].parent
      /\ \A i \in 1..Len(extents) :
           extents'[i].status = IF i = root THEN Closed ELSE extents[i].status
  BY <1>2, ClosedExtentFacts DEF IsRoot
<1>4. /\ Depth \in Nat /\ Depth' = Depth - 1
      /\ \A d \in 1..Depth' : stack'[d] = stack[d] /\ d \in 1..Depth /\ d # Depth
  BY PoppedActivations
<1>5. \A c, d \in 1..Depth' : stack'[c].root = stack'[d].root => c = d
  BY <1>4 DEF RootsMatchRuns
<1>6. ASSUME NEW e \in 1..Len(extents'), IsRoot(e)'
      PROVE extents'[e].status = Live <=> \E d \in 1..Depth' : stack'[d].root = e
  <2>1. IsRoot(e) /\ e \in 1..Len(extents)
    BY <1>3, <1>6 DEF IsRoot, IsExtent
  <2>2. CASE e = root
    <3>1. \A d \in 1..Depth' : stack'[d].root # e
      BY <1>2, <1>4, <2>2 DEF RootsMatchRuns
    <3>2. QED  BY <1>3, <2>1, <2>2, <3>1 DEF Live, Closed
  <2>3. CASE e # root
    <3>1. \A d \in 1..Depth : stack[d].root = e => d \in 1..Depth'
      BY <1>2, <1>4, <2>3
    <3>2. QED  BY <1>3, <1>4, <2>1, <2>3, <3>1 DEF RootsMatchRuns
  <2>4. QED  BY <2>2, <2>3
<1>7. QED  BY <1>5, <1>6 DEF RootsMatchRuns

(* A run adds a live root and the activation it belongs to.                *)
LEMMA RunRoots ==
  ASSUME TypeOK, RootsMatchRuns, NEW c \in Suppliable, Run(c) PROVE RootsMatchRuns'
<1>1. PICK root : root = Len(extents) + 1
  OBVIOUS
<1>2. /\ Len(extents') = root /\ Len(extents) \in Nat
      /\ extents'[root].status = Live
      /\ \A e \in 1..Len(extents) : extents'[e].parent = extents[e].parent
      /\ \A e \in 1..Len(extents) : extents'[e].status = extents[e].status
  <2>1. PICK p : p = NoExtent
    OBVIOUS
  <2>2. extents' = FreshExtent(p)
    BY <2>1 DEF Run
  <2>3. QED  BY <1>1, <2>1, <2>2, FreshExtentFacts, LengthsAreNat
<1>3. /\ Depth \in Nat /\ Depth' = Depth + 1
      /\ stack'[Depth + 1].root = root
      /\ \A d \in 1..Depth : stack'[d] = stack[d]
  BY <1>1 DEF Run, TypeOK, StackOK, Depth
<1>4. \A d \in 1..Depth : stack[d].root \in 1..Len(extents)
  BY DEF TypeOK, StackOK, FrameOK, IsRoot, IsExtent
<1>5. \A c1, d1 \in 1..Depth' : stack'[c1].root = stack'[d1].root => c1 = d1
  <2>1. \A d \in 1..Depth' : d \in 1..Depth \/ d = Depth + 1
    BY <1>3
  <2>2. \A d \in 1..Depth : stack'[d].root = stack[d].root /\ stack'[d].root # root
    BY <1>1, <1>2, <1>3, <1>4
  <2>3. \A c1, d1 \in 1..Depth : stack[c1].root = stack[d1].root => c1 = d1
    BY DEF RootsMatchRuns
  <2>4. QED  BY <1>3, <2>1, <2>2, <2>3
<1>6. ASSUME NEW e \in 1..Len(extents'), IsRoot(e)'
      PROVE extents'[e].status = Live <=> \E d \in 1..Depth' : stack'[d].root = e
  <2>1. CASE e = root
    BY <1>2, <1>3, <2>1
  <2>2. CASE e # root
    <3>1. IsRoot(e) /\ e \in 1..Len(extents)
      BY <1>1, <1>2, <1>6, <2>2 DEF IsRoot, IsExtent
    <3>2. ASSUME NEW d \in 1..Depth', stack'[d].root = e PROVE d \in 1..Depth
      BY <1>3, <2>2, <3>2
    <3>3. \A d \in 1..Depth : d \in 1..Depth'
      BY <1>3
    <3>4. (\E d \in 1..Depth' : stack'[d].root = e)
            <=> \E d \in 1..Depth : stack[d].root = e
      BY <1>3, <3>2, <3>3
    <3>5. QED  BY <1>2, <3>1, <3>4 DEF RootsMatchRuns
  <2>3. QED  BY <2>1, <2>2
<1>7. QED  BY <1>5, <1>6 DEF RootsMatchRuns

(* Every step preserves the root invariant.                                *)
LEMMA NextRoots ==
  ASSUME TypeOK, RootsMatchRuns, Next PROVE RootsMatchRuns'
<1>1. ASSUME UNCHANGED extents, Depth > 0, NEW frame, SetTop(frame), frame.root = Top.root
      PROVE  RootsMatchRuns'
  BY <1>1, TopKeepsRoot, SameExtentsSameRoots, RootsKept
<1>2. ASSUME UNCHANGED <<extents, stack>> PROVE RootsMatchRuns'
  BY <1>2, SameExtentsSameRoots, RootsKept DEF SameRuns, Depth
<1>3. CASE QuietStep
  BY <1>3, QuietKeepsOwnership, QuietSameRoots, RootsKept DEF SameActivations, SameRuns
<1>4. CASE Publish \/ Throw \/ Exhaust
  BY <1>4, RunLeaves, ExhaustFacts DEF Publish, Throw, Exhaust, Returning, Dispatching
<1>5. CASE OwnedResume
  <2>1. Depth > 0 /\ Top \in Frames /\ UNCHANGED extents
    BY <1>5, TopFacts DEF OwnedResume, Dispatching
  <2>2. CASE UNCHANGED stack
    BY <1>2, <2>1, <2>2
  <2>3. CASE \E o : SetTop([Top EXCEPT !.await = "owned", !.owner = o, !.comp = NoComp])
    BY <1>1, <2>1, <2>3 DEF Frames
  <2>4. QED  BY <1>5, <2>2, <2>3 DEF OwnedResume
<1>6. ASSUME NEW c \in Suppliable, Supply(c) PROVE RootsMatchRuns'
  <2>1. Depth > 0 /\ Top \in Frames /\ UNCHANGED extents
    BY <1>6, TopFacts DEF Supply
  <2>2. CASE EnterTarget(c)
    BY <1>1, <2>1, <2>2 DEF EnterTarget, Frames
  <2>3. CASE Continue(c)
    BY <1>1, <2>1, <2>3 DEF Continue, Frames
  <2>4. CASE Transferred(c)
    BY <1>1, <2>1, <2>4 DEF Transferred, Frames
  <2>5. QED  BY <1>6, <2>2, <2>3, <2>4 DEF Supply
<1>7. QED
  BY <1>2, <1>3, <1>4, <1>5, <1>6, RunRoots
  DEF Next, MachineStep, ExecutorStep, QuietStep, GuestStep, RawResume, Once, Cancel,
      heapVars

(* A root extent is live exactly while its own Run is on the native stack: *)
(* neither a published answer nor a channel exception leaves one live, and *)
(* nothing closes the root of a machine that still runs.                   *)
THEOREM RootsCorrect == Spec => []RootsMatchRuns
<1>1. Init => RootsMatchRuns
  BY DEF Init, RootsMatchRuns, Depth
<1>2. TypeOK /\ RootsMatchRuns /\ [Next]_vars => RootsMatchRuns'
  <2>1. ASSUME TypeOK, RootsMatchRuns, UNCHANGED vars PROVE RootsMatchRuns'
    BY <2>1, SameExtentsSameRoots, RootsKept DEF vars, SameRuns, Depth
  <2>2. QED  BY <2>1, NextRoots
<1>3. QED  BY <1>1, <1>2, TypeCorrect, PTL DEF Spec

-----------------------------------------------------------------------------
(* Queues as lists.                                                        *)

Items ==
  [tag : {"Then"}, call : Callbacks]
    \cup [tag : {"Finish"}, extent : Nat, parent : Nat]
    \cup [tag : {"Root"}, extent : Nat]

Then(f) == [tag |-> "Then", call |-> f]
Marker(e, p) == [tag |-> "Finish", extent |-> e, parent |-> p]

(* Queue nodes refer to older ones.                                        *)
NodesShaped ==
  /\ nodes \in Seq(Nodes)
  /\ \A i \in 1..Len(nodes) :
       /\ nodes[i].tag = "Cons" => nodes[i].tail < i
       /\ nodes[i].tag = "Append" => nodes[i].left < i /\ nodes[i].right < i
       /\ nodes[i].tag = "Finish" => nodes[i].rest < i

(* The list of queue i, where F gives the lists of the older ones.         *)
FlatBody(i, F) ==
  IF i = Empty THEN <<>>
  ELSE CASE nodes[i].tag = "Cons" -> <<Then(nodes[i].head)>> \o F[nodes[i].tail]
         [] nodes[i].tag = "Append" -> F[nodes[i].left] \o F[nodes[i].right]
         [] nodes[i].tag = "Finish" ->
              <<Marker(nodes[i].extent, nodes[i].parent)>> \o F[nodes[i].rest]

LEMMA ShapedNodes == TypeOK => NodesShaped
BY DEF TypeOK, NodesOK, NodeOK, NodesShaped

LEMMA NodeShape ==
  ASSUME NodesShaped, NEW i \in 1..Len(nodes)
  PROVE  LET node == nodes[i]
         IN  \/ /\ node.tag = "Cons" /\ node.head \in Callbacks
                /\ node.tail \in 0..Len(nodes) /\ node.tail < i
             \/ /\ node.tag = "Append"
                /\ node.left \in 0..Len(nodes) /\ node.left < i
                /\ node.right \in 0..Len(nodes) /\ node.right < i
             \/ /\ node.tag = "Finish" /\ node.extent \in Nat /\ node.parent \in Nat
                /\ node.rest \in 0..Len(nodes) /\ node.rest < i
<1>1. Len(nodes) \in Nat /\ nodes[i] \in Nodes
  BY DEF NodesShaped
<1>2. QED  BY <1>1 DEF NodesShaped, Nodes

(* The body only looks at older queues, and makes lists of lists.          *)
LEMMA FlatBodyFacts ==
  ASSUME NodesShaped, NEW i \in 0..Len(nodes), NEW F,
         \A j \in 0..Len(nodes) : j < i => F[j] \in Seq(Items)
  PROVE  /\ FlatBody(i, F) \in Seq(Items)
         /\ \A G : (\A j \in 0..Len(nodes) : j < i => F[j] = G[j])
                     => FlatBody(i, F) = FlatBody(i, G)
<1>1. CASE i = Empty
  BY <1>1 DEF FlatBody
<1>2. CASE i # Empty
  <2>1. i \in 1..Len(nodes)
    BY <1>2 DEF Empty
  <2>2. CASE nodes[i].tag = "Cons"
    <3>1. FlatBody(i, F) = <<Then(nodes[i].head)>> \o F[nodes[i].tail]
      BY <1>2, <2>2 DEF FlatBody
    <3>2. Then(nodes[i].head) \in Items /\ F[nodes[i].tail] \in Seq(Items)
      BY <2>1, <2>2, NodeShape DEF Items, Then
    <3>3. FlatBody(i, F) \in Seq(Items)
      BY <3>1, <3>2
    <3>4. \A G : FlatBody(i, G) = <<Then(nodes[i].head)>> \o G[nodes[i].tail]
      BY <1>2, <2>2 DEF FlatBody
    <3>5. QED  BY <2>1, <2>2, <3>1, <3>3, <3>4, NodeShape
  <2>3. CASE nodes[i].tag = "Append"
    <3>1. \A G : FlatBody(i, G) = G[nodes[i].left] \o G[nodes[i].right]
      BY <1>2, <2>3 DEF FlatBody
    <3>2. F[nodes[i].left] \in Seq(Items) /\ F[nodes[i].right] \in Seq(Items)
      BY <2>1, <2>3, NodeShape
    <3>3. FlatBody(i, F) = F[nodes[i].left] \o F[nodes[i].right]
      BY <3>1
    <3>4. FlatBody(i, F) \in Seq(Items)
      BY <3>2, <3>3
    <3>5. QED  BY <2>1, <2>3, <3>1, <3>4, NodeShape
  <2>4. CASE nodes[i].tag = "Finish"
    <3>1. \A G : FlatBody(i, G)
                   = <<Marker(nodes[i].extent, nodes[i].parent)>> \o G[nodes[i].rest]
      BY <1>2, <2>4 DEF FlatBody
    <3>2. /\ Marker(nodes[i].extent, nodes[i].parent) \in Items
          /\ F[nodes[i].rest] \in Seq(Items)
      BY <2>1, <2>4, NodeShape DEF Items, Marker
    <3>3. FlatBody(i, F) = <<Marker(nodes[i].extent, nodes[i].parent)>> \o F[nodes[i].rest]
      BY <3>1
    <3>4. FlatBody(i, F) \in Seq(Items)
      BY <3>2, <3>3
    <3>5. QED  BY <2>1, <2>4, <3>1, <3>4, NodeShape
  <2>5. QED  BY <2>1, <2>2, <2>3, <2>4, NodeShape
<1>3. QED  BY <1>1, <1>2

(* Every queue has its list.                                               *)
LEMMA FlatStep ==
  ASSUME NodesShaped
  PROVE  /\ FlatNodes \in [0..Len(nodes) -> Seq(Items)]
         /\ \A i \in 0..Len(nodes) : FlatNodes[i] = FlatBody(i, FlatNodes)
<1> DEFINE Dom == 0..Len(nodes)
           V == Seq(Items)
           step == [i \in Dom |-> [g \in [Dom -> V] |-> FlatBody(i, g)]]
           Solves(F) == F = [i \in Dom |-> FlatBody(i, F)]
<1>1. Len(nodes) \in Nat
  BY DEF NodesShaped
<1>2. \A i \in Dom : \A g, h \in [Dom -> V] :
        /\ FlatBody(i, g) \in V
        /\ (\A j \in Dom : j < i => g[j] = h[j]) => FlatBody(i, g) = FlatBody(i, h)
  BY FlatBodyFacts
<1>3. step \in [Dom -> [[Dom -> V] -> V]] /\ V # {}
  <2>1. <<>> \in V
    OBVIOUS
  <2>2. QED  BY <1>2, <2>1
<1>4. \A i \in Dom : \A g \in [Dom -> V] : step[i][g] = FlatBody(i, g)
  OBVIOUS
<1>5. PICK f \in [Dom -> V] : \A i \in Dom : f[i] = FlatBody(i, f)
  <2>1. Recursion(Dom, V, step)
    <3> HIDE DEF step, V
    <3>1. \A i \in Dom : \A g, h \in [Dom -> V] :
            (\A j \in Dom : j < i => g[j] = h[j]) => step[i][g] = step[i][h]
      BY <1>2, <1>4
    <3>2. QED  BY <1>3, <3>1 DEF Recursion
  <2>2. \E f : Solution(Dom, V, step, f)
    <3>1. 0 \in Nat
      OBVIOUS
    <3> HIDE DEF step, V
    <3>2. QED  BY <1>1, <1>3, <2>1, <3>1, RecursionExists
  <2>3. QED  BY <1>4, <2>2 DEF Solution
<1>6. Solves(f)
  BY <1>5
<1>7. FlatNodes = CHOOSE F : Solves(F)
  BY DEF FlatNodes, FlatBody, Then, Marker
<1>8. Solves(FlatNodes)
  <2> HIDE DEF Solves
  <2> QED  BY <1>6, <1>7
<1>9. \A i \in Dom : FlatNodes[i] = FlatBody(i, FlatNodes)
  BY <1>8
<1>10. \A i \in Dom : FlatNodes[i] \in V
  <2> DEFINE Bad == {i \in Dom : FlatNodes[i] \notin V}
  <2>1. SUFFICES ASSUME Bad # {} PROVE FALSE
    OBVIOUS
  <2>2. PICK i \in Bad : \A j \in Bad : i <= j
    <3>1. Bad \in SUBSET Nat
      OBVIOUS
    <3> HIDE DEF Bad
    <3>2. QED  BY <2>1, <3>1, LeastExists
  <2>3. \A j \in Dom : j < i => FlatNodes[j] \in V
    BY <2>2
  <2>4. FlatBody(i, FlatNodes) \in V
    BY <2>3, FlatBodyFacts
  <2>5. QED  BY <1>9, <2>4
<1>11. QED  BY <1>8, <1>9, <1>10

-----------------------------------------------------------------------------
(* Extents as a forest.                                                    *)

(* The sets of extents that hold the parent of each of their members.      *)
Lines ==
  {S \in SUBSET (1..Len(extents)) :
     \A e \in S : extents[e].parent # NoExtent => extents[e].parent \in S}

AllLive(S) == \A e \in S : extents[e].status = Live

LEMMA ExtentFacts ==
  ASSUME ExtentsOK
  PROVE  /\ Len(extents) \in Nat
         /\ \A e \in 1..Len(extents) :
              /\ extents[e].parent \in 0..Len(extents) /\ extents[e].parent < e
              /\ extents[e].parent # NoExtent => extents[e].parent \in 1..Len(extents)
<1>1. extents \in Seq(Extents) /\ Len(extents) \in Nat
  BY DEF ExtentsOK
<1>2. \A e \in 1..Len(extents) : extents[e].parent \in Nat /\ extents[e].parent < e
  <2>1. \A e \in 1..Len(extents) : extents[e] \in Extents
    BY <1>1
  <2>2. QED  BY <2>1 DEF ExtentsOK, Extents
<1>3. ASSUME NEW e \in 1..Len(extents), NEW p \in Nat, p < e
      PROVE  p \in 0..Len(extents) /\ (p # NoExtent => p \in 1..Len(extents))
  BY <1>1, <1>3 DEF NoExtent
<1>4. QED  BY <1>1, <1>2, <1>3

(* An extent is usable if some line through it is live.                    *)
LEMMA UsableFacts ==
  ASSUME ExtentsOK, NEW e \in 1..Len(extents)
  PROVE  Usable(e) <=> \E S \in Lines : e \in S /\ AllLive(S)
<1> DEFINE Dom == 0..Len(extents)
           Body(i, F) == IF i = NoExtent THEN TRUE
                         ELSE extents[i].status = Live /\ F[extents[i].parent]
           Solves(F) == F = [i \in Dom |-> Body(i, F)]
           OnLine(i) == i = NoExtent \/ \E S \in Lines : i \in S /\ AllLive(S)
           f == [i \in Dom |-> OnLine(i)]
           Chain == CHOOSE F : Solves(F)
<1>1. Usable(e) = Chain[e]
  BY DEF Usable
<1>2. ASSUME NEW i \in Dom PROVE OnLine(i) = Body(i, f)
  <2>1. CASE i = NoExtent
    BY <2>1
  <2>2. CASE i # NoExtent
    <3>1. i \in 1..Len(extents) /\ extents[i].parent \in Dom
      BY <2>2, ExtentFacts DEF NoExtent
    <3>2. ASSUME NEW S \in Lines, i \in S, AllLive(S)
          PROVE  extents[i].status = Live /\ OnLine(extents[i].parent)
      BY <3>2 DEF Lines, AllLive
    <3>3. ASSUME extents[i].status = Live, OnLine(extents[i].parent)
          PROVE  \E S \in Lines : i \in S /\ AllLive(S)
      <4>1. CASE extents[i].parent = NoExtent
        <5>1. {i} \in Lines /\ AllLive({i})
          BY <3>1, <3>3, <4>1 DEF Lines, AllLive
        <5>2. QED  BY <5>1
      <4>2. CASE extents[i].parent # NoExtent
        <5>1. PICK S \in Lines : extents[i].parent \in S /\ AllLive(S)
          BY <3>3, <4>2
        <5>2. S \cup {i} \in Lines /\ AllLive(S \cup {i})
          BY <3>1, <3>3, <5>1 DEF Lines, AllLive
        <5>3. QED  BY <5>2
      <4>3. QED  BY <4>1, <4>2
    <3>4. OnLine(i) <=> extents[i].status = Live /\ OnLine(extents[i].parent)
      BY <2>2, <3>2, <3>3
    <3>5. f[extents[i].parent] = OnLine(extents[i].parent)
      BY <3>1
    <3> HIDE DEF f, OnLine
    <3>6. OnLine(i) \in BOOLEAN
      BY DEF OnLine
    <3>7. QED  BY <2>2, <3>4, <3>5, <3>6
  <2>3. QED  BY <2>1, <2>2
<1>3. Solves(Chain)
  <2>1. Solves(f)
    <3> HIDE DEF OnLine, Body
    <3> QED  BY <1>2
  <2> HIDE DEF Solves, f
  <2>2. QED  BY <2>1
<1>4. \A i \in Dom : Chain[i] = Body(i, Chain)
  <2> HIDE DEF Chain, Body
  <2> QED  BY <1>3
<1>5. \A i \in Dom : Chain[i] = OnLine(i)
  <2> DEFINE Bad == {i \in Dom : Chain[i] # OnLine(i)}
  <2>1. SUFFICES ASSUME Bad # {} PROVE FALSE
    OBVIOUS
  <2>2. PICK i \in Bad : \A j \in Bad : i <= j
    <3> HIDE DEF Chain, OnLine
    <3>1. Bad \in SUBSET Nat
      OBVIOUS
    <3> HIDE DEF Bad
    <3>2. QED  BY <2>1, <3>1, LeastExists
  <2>3. i \in Dom /\ Chain[i] # OnLine(i) /\ \A j \in Dom : j < i => Chain[j] = OnLine(j)
    <3> HIDE DEF Chain, OnLine
    <3> QED  BY <2>2
  <2>4. i # NoExtent => i \in 1..Len(extents) /\ extents[i].parent \in Dom /\ extents[i].parent < i
    BY <2>3, ExtentFacts DEF NoExtent
  <2>5. Body(i, Chain) = Body(i, f)
    <3>1. i # NoExtent => f[extents[i].parent] = OnLine(extents[i].parent)
      BY <2>4
    <3> HIDE DEF Chain, OnLine, f
    <3>2. QED  BY <2>3, <2>4, <3>1
  <2> HIDE DEF Chain, OnLine, f, Body
  <2>6. QED  BY <1>2, <1>4, <2>3, <2>5
<1>6. e \in Dom /\ e # NoExtent
  BY ExtentFacts DEF NoExtent
<1> HIDE DEF Chain
<1>7. QED  BY <1>1, <1>5, <1>6

(* The root of an extent: the extent itself, or that of its parent.        *)
RootBody(i, F) == IF extents[i].parent = NoExtent THEN i ELSE F[extents[i].parent]

LEMMA RootStep ==
  ASSUME ExtentsOK, NEW e \in 1..Len(extents)
  PROVE  /\ RootOf(e) \in 1..Len(extents)
         /\ extents[e].parent = NoExtent => RootOf(e) = e
         /\ extents[e].parent # NoExtent => RootOf(e) = RootOf(extents[e].parent)
<1> DEFINE Dom == 1..Len(extents)
           V == Dom
           step == [i \in Dom |-> [g \in [Dom -> V] |-> RootBody(i, g)]]
           Solves(F) == F = [i \in Dom |-> RootBody(i, F)]
           Up == CHOOSE F : Solves(F)
<1>1. /\ Len(extents) \in Nat
      /\ \A i \in Dom : extents[i].parent < i
      /\ \A i \in Dom : extents[i].parent # NoExtent => extents[i].parent \in Dom
  BY ExtentFacts
<1>2. \A i \in Dom : \A g, h \in [Dom -> V] :
        /\ RootBody(i, g) \in V
        /\ (\A j \in Dom : j < i => g[j] = h[j]) => RootBody(i, g) = RootBody(i, h)
  BY <1>1 DEF RootBody
<1>3. \A i \in Dom : \A g \in [Dom -> V] : step[i][g] = RootBody(i, g)
  OBVIOUS
<1>4. PICK f \in [Dom -> V] : \A i \in Dom : f[i] = RootBody(i, f)
  <2>1. step \in [Dom -> [[Dom -> V] -> V]] /\ V # {}
    BY <1>2
  <2>2. Recursion(Dom, V, step)
    <3> HIDE DEF step, V
    <3>1. \A i \in Dom : \A g, h \in [Dom -> V] :
            (\A j \in Dom : j < i => g[j] = h[j]) => step[i][g] = step[i][h]
      BY <1>2, <1>3
    <3>2. QED  BY <2>1, <3>1 DEF Recursion
  <2>3. \E f : Solution(Dom, V, step, f)
    <3>1. 1 \in Nat
      OBVIOUS
    <3> HIDE DEF step, V
    <3>2. QED  BY <1>1, <2>1, <2>2, <3>1, RecursionExists
  <2>4. QED  BY <1>3, <2>3 DEF Solution
<1>5. Solves(Up)
  <2>1. Solves(f)
    BY <1>4
  <2> HIDE DEF Solves
  <2>2. QED  BY <2>1
<1>6. \A i \in Dom : RootOf(i) = Up[i]
  BY DEF RootOf, RootBody
<1>7. \A i \in Dom : Up[i] = RootBody(i, Up)
  <2> HIDE DEF Up
  <2> QED  BY <1>5
<1> HIDE DEF Up
<1>8. \A i \in Dom : Up[i] \in Dom
  <2> DEFINE Bad == {i \in Dom : Up[i] \notin Dom}
  <2>1. SUFFICES ASSUME Bad # {} PROVE FALSE
    OBVIOUS
  <2>2. PICK i \in Bad : \A j \in Bad : i <= j
    <3>1. Bad \in SUBSET Nat
      OBVIOUS
    <3> HIDE DEF Bad
    <3>2. QED  BY <2>1, <3>1, LeastExists
  <2>3. \A j \in Dom : j < i => Up[j] \in Dom
    BY <2>2
  <2>4. QED  BY <1>1, <1>7, <2>3 DEF RootBody
<1>9. Up[e] = RootBody(e, Up) /\ Up[e] \in Dom
  BY <1>7, <1>8
<1>10. QED  BY <1>1, <1>6, <1>9 DEF RootBody

(* It is a root, and every line through the extent holds it.               *)
LEMMA RootFacts ==
  ASSUME ExtentsOK, NEW e \in 1..Len(extents)
  PROVE  /\ IsRoot(RootOf(e))
         /\ \A S \in Lines : e \in S => RootOf(e) \in S
<1> DEFINE Good(i) == /\ IsRoot(RootOf(i))
                      /\ \A S \in Lines : i \in S => RootOf(i) \in S
           Bad == {i \in 1..Len(extents) : ~Good(i)}
<1>1. SUFFICES ASSUME Bad # {} PROVE FALSE
  OBVIOUS
<1>2. PICK i \in Bad : \A j \in Bad : i <= j
  <2>1. Bad \in SUBSET Nat
    OBVIOUS
  <2> HIDE DEF Bad
  <2>2. QED  BY <1>1, <2>1, LeastExists
<1>3. /\ extents[i].parent < i
      /\ extents[i].parent # NoExtent => extents[i].parent \in 1..Len(extents)
  BY ExtentFacts
<1>4. CASE extents[i].parent = NoExtent
  BY <1>4, RootStep DEF IsRoot, IsExtent
<1>5. CASE extents[i].parent # NoExtent
  <2>1. PICK p \in 1..Len(extents) : p = extents[i].parent
    BY <1>3, <1>5
  <2>2. Good(p)
    <3>1. p \notin Bad
      <4>1. i \in Nat /\ p \in Nat /\ p < i
        BY <1>3, <2>1
      <4> HIDE DEF Bad
      <4>2. QED  BY <1>2, <4>1
    <3>2. QED  BY <3>1
  <2>3. RootOf(i) = RootOf(p)
    BY <1>5, <2>1, RootStep
  <2>4. \A S \in Lines : i \in S => p \in S
    BY <1>5, <2>1 DEF Lines
  <2>5. QED  BY <2>2, <2>3, <2>4
<1>6. QED  BY <1>4, <1>5

(* The roots of all extents, and of all extents after a step.              *)
RootsKnown ==
  \A e \in 1..Len(extents) :
    RootOf(e) = IF extents[e].parent = NoExtent THEN e ELSE RootOf(extents[e].parent)

LEMMA KnownRoots == ExtentsOK => RootsKnown
BY RootStep DEF RootsKnown

LEMMA NewRoots == ExtentsOK' => RootsKnown'
BY KnownRoots, PTL

(* An extent keeps its root.                                               *)
LEMMA RootKept ==
  ASSUME TypeOK, TypeOK', Grows, NEW e \in 1..Len(extents)
  PROVE  RootOf(e)' = RootOf(e)
<1> DEFINE Bad == {i \in 1..Len(extents) : RootOf(i)' # RootOf(i)}
<1>1. SUFFICES ASSUME Bad # {} PROVE FALSE
  OBVIOUS
<1>2. PICK i \in Bad : \A j \in Bad : i <= j
  <2>1. Bad \in SUBSET Nat
    OBVIOUS
  <2> HIDE DEF Bad
  <2>2. QED  BY <1>1, <2>1, LeastExists
<1>3. ExtentsOK /\ ExtentsOK' /\ Len(extents) \in Nat /\ Len(extents') \in Nat
  BY DEF TypeOK, ExtentsOK
<1>4. i \in 1..Len(extents) /\ i \in 1..Len(extents') /\ extents'[i].parent = extents[i].parent
  BY <1>3 DEF Grows
<1>5. /\ extents[i].parent < i
      /\ extents[i].parent # NoExtent => extents[i].parent \in 1..Len(extents)
  BY <1>3, ExtentFacts
<1>6. extents[i].parent # NoExtent => extents[i].parent \notin Bad
  <2>1. ASSUME NEW p \in Nat, p < i PROVE p \notin Bad
    <3>1. i \in Nat
      OBVIOUS
    <3> HIDE DEF Bad
    <3>2. QED  BY <1>2, <2>1, <3>1
  <2>2. QED  BY <1>5, <2>1
<1>7. /\ RootOf(i) = IF extents[i].parent = NoExtent THEN i ELSE RootOf(extents[i].parent)
      /\ RootOf(i)' = IF extents'[i].parent = NoExtent THEN i ELSE RootOf(extents[i].parent)'
  BY <1>3, <1>4, KnownRoots, NewRoots DEF RootsKnown
<1>8. QED  BY <1>4, <1>5, <1>6, <1>7

(* A usable extent descends from the root of a run on the native stack.    *)
LEMMA UsableHasRun ==
  ASSUME TypeOK, RootsMatchRuns, NEW e \in 1..Len(extents), Usable(e)
  PROVE  \E d \in 1..Depth : stack[d].root = RootOf(e)
<1>1. ExtentsOK
  BY DEF TypeOK
<1>2. PICK S \in Lines : e \in S /\ AllLive(S)
  BY <1>1, UsableFacts
<1>3. IsRoot(RootOf(e)) /\ RootOf(e) \in S
  BY <1>1, <1>2, RootFacts
<1>4. extents[RootOf(e)].status = Live
  BY <1>2, <1>3 DEF AllLive
<1>5. QED  BY <1>3, <1>4 DEF RootsMatchRuns, IsRoot, IsExtent

(* What a run captured dies with it: a checkpoint is usable only while the *)
(* run it descends from is on the native stack, wherever the resumption    *)
(* that holds it has escaped to.                                           *)
THEOREM CapturesExpire == Spec => []CapturesExpireWithRun
<1>1. TypeOK /\ RootsMatchRuns => CapturesExpireWithRun
  <2> SUFFICES ASSUME TypeOK, RootsMatchRuns, NEW k \in 1..Len(raws),
                      Usable(raws[k].checkpoint)
               PROVE  \E d \in 1..Depth : stack[d].root = RootOf(raws[k].checkpoint)
    BY DEF CapturesExpireWithRun
  <2>1. raws[k].checkpoint \in 1..Len(extents)
    BY DEF TypeOK, RawsOK, RawOK, IsExtent
  <2>2. QED  BY <2>1, UsableHasRun
<1>2. QED  BY <1>1, TypeCorrect, RootsCorrect, PTL

-----------------------------------------------------------------------------
(* What a step does to the heaps.                                          *)

(* The lists of all queues.                                                *)
NodesListed ==
  /\ FlatNodes \in [0..Len(nodes) -> Seq(Items)]
  /\ FlatNodes[Empty] = <<>>
  /\ \A q \in 1..Len(nodes) :
       /\ nodes[q].tag = "Cons" =>
            FlatNodes[q] = <<Then(nodes[q].head)>> \o FlatNodes[nodes[q].tail]
       /\ nodes[q].tag = "Append" =>
            FlatNodes[q] = FlatNodes[nodes[q].left] \o FlatNodes[nodes[q].right]
       /\ nodes[q].tag = "Finish" =>
            FlatNodes[q] = <<Marker(nodes[q].extent, nodes[q].parent)>>
                             \o FlatNodes[nodes[q].rest]

LEMMA ListedNodes == TypeOK => NodesListed
<1> SUFFICES ASSUME TypeOK PROVE NodesListed
  OBVIOUS
<1>1. NodesShaped /\ Len(nodes) \in Nat
  BY ShapedNodes, LengthsAreNat
<1>2. /\ FlatNodes \in [0..Len(nodes) -> Seq(Items)]
      /\ \A i \in 0..Len(nodes) : FlatNodes[i] = FlatBody(i, FlatNodes)
  BY <1>1, FlatStep
<1>3. FlatNodes[Empty] = <<>>
  <2>1. 0 \in 0..Len(nodes)
    BY <1>1
  <2>2. FlatNodes[Empty] = FlatBody(Empty, FlatNodes)
    BY <1>2, <2>1 DEF Empty
  <2>3. QED  BY <2>2 DEF FlatBody
<1>4. ASSUME NEW q \in 1..Len(nodes)
      PROVE q # Empty /\ FlatNodes[q] = FlatBody(q, FlatNodes)
  BY <1>1, <1>2, <1>4 DEF Empty
<1>5. PICK F : F = FlatNodes
  OBVIOUS
<1>6. ASSUME NEW q \in 1..Len(nodes), nodes[q].tag = "Cons"
      PROVE F[q] = <<Then(nodes[q].head)>> \o F[nodes[q].tail]
  BY <1>4, <1>5, <1>6 DEF FlatBody
<1>7. ASSUME NEW q \in 1..Len(nodes), nodes[q].tag = "Append"
      PROVE F[q] = F[nodes[q].left] \o F[nodes[q].right]
  BY <1>4, <1>5, <1>7 DEF FlatBody
<1>8. ASSUME NEW q \in 1..Len(nodes), nodes[q].tag = "Finish"
      PROVE F[q] = <<Marker(nodes[q].extent, nodes[q].parent)>> \o F[nodes[q].rest]
  BY <1>4, <1>5, <1>8 DEF FlatBody
<1>9. QED  BY <1>2, <1>3, <1>5, <1>6, <1>7, <1>8 DEF NodesListed

LEMMA NewListedNodes == TypeOK' => NodesListed'
BY ListedNodes, PTL

(* A queue keeps its list.                                                 *)
LEMMA ListKept ==
  ASSUME TypeOK, TypeOK', Grows, NEW q, IsQueue(q)
  PROVE  FlatNodes'[q] = FlatNodes[q]
<1> DEFINE F == FlatNodes
           Bad == {i \in 0..Len(nodes) : FlatNodes'[i] # F[i]}
<1>1. SUFFICES ASSUME Bad # {} PROVE FALSE
  BY DEF IsQueue
<1>2. PICK i \in Bad : \A j \in Bad : i <= j
  <2>1. Bad \in SUBSET Nat
    OBVIOUS
  <2> HIDE DEF Bad
  <2>2. QED  BY <1>1, <2>1, LeastExists
<1>3. /\ Len(nodes) \in Nat /\ Len(nodes') \in Nat /\ Len(nodes) <= Len(nodes')
      /\ \A k \in 1..Len(nodes) : nodes'[k] = nodes[k]
  BY LengthsAreNat DEF Grows
<1>4. i \in 0..Len(nodes) /\ FlatNodes'[i] # F[i]
  OBVIOUS
<1>5. ASSUME NEW j \in 0..Len(nodes), j < i PROVE FlatNodes'[j] = FlatNodes[j]
  <2>1. j \notin Bad
    <3>1. i \in Nat /\ j \in Nat
      BY <1>3, <1>4
    <3> HIDE DEF Bad
    <3>2. QED  BY <1>2, <1>5, <3>1
  <2>2. QED  BY <2>1
<1> HIDE DEF Bad
<1>6. NodesListed /\ NodesListed' /\ NodesShaped
  BY ListedNodes, NewListedNodes, ShapedNodes
<1>7. i # Empty /\ i \in 1..Len(nodes) /\ i \in 1..Len(nodes') /\ nodes'[i] = nodes[i]
  <2>1. FlatNodes[0] = <<>> /\ FlatNodes'[0] = <<>>
    BY <1>6 DEF NodesListed, Empty
  <2>2. i # 0
    BY <1>4, <2>1
  <2>3. QED  BY <1>3, <1>4, <2>2 DEF Empty
<1>8. CASE nodes[i].tag = "Cons"
  <2>1. nodes[i].tail \in 0..Len(nodes) /\ nodes[i].tail < i
    BY <1>6, <1>7, <1>8, NodeShape
  <2>2. FlatNodes'[i] = <<Then(nodes[i].head)>> \o FlatNodes'[nodes[i].tail]
    BY <1>6, <1>7, <1>8 DEF NodesListed, Then
  <2>3. QED  BY <1>4, <1>5, <1>6, <1>7, <1>8, <2>1, <2>2 DEF NodesListed
<1>9. CASE nodes[i].tag = "Append"
  <2>1. /\ nodes[i].left \in 0..Len(nodes) /\ nodes[i].left < i
        /\ nodes[i].right \in 0..Len(nodes) /\ nodes[i].right < i
    BY <1>6, <1>7, <1>9, NodeShape
  <2>2. FlatNodes'[i] = FlatNodes'[nodes[i].left] \o FlatNodes'[nodes[i].right]
    BY <1>6, <1>7, <1>9 DEF NodesListed
  <2>3. QED  BY <1>4, <1>5, <1>6, <1>7, <1>9, <2>1, <2>2 DEF NodesListed
<1>10. CASE nodes[i].tag = "Finish"
  <2>1. nodes[i].rest \in 0..Len(nodes) /\ nodes[i].rest < i
    BY <1>6, <1>7, <1>10, NodeShape
  <2>2. FlatNodes'[i] = <<Marker(nodes[i].extent, nodes[i].parent)>> \o FlatNodes'[nodes[i].rest]
    BY <1>6, <1>7, <1>10 DEF NodesListed, Marker
  <2>3. QED  BY <1>4, <1>5, <1>6, <1>7, <1>10, <2>1, <2>2 DEF NodesListed
<1>11. QED  BY <1>6, <1>7, <1>8, <1>9, <1>10, NodeShape

RootItem(e) == [tag |-> "Root", extent |-> e]

(* The work left in context i, where F gives that of the older ones.       *)
WorkBody(i, F) ==
  IF contexts[i].tag = "Root" THEN <<RootItem(contexts[i].extent)>>
  ELSE <<Marker(contexts[i].extent, contexts[i].parent)>>
         \o FlatNodes[contexts[i].saved] \o F[contexts[i].caller]

LEMMA ContextShape ==
  ASSUME TypeOK, NEW i \in 1..Len(contexts)
  PROVE  /\ i \in Nat /\ Len(contexts) \in Nat
         /\ contexts[i].extent \in Nat /\ IsExtent(contexts[i].extent)
         /\ \/ contexts[i].tag = "Root" /\ IsRoot(contexts[i].extent)
            \/ /\ contexts[i].tag = "Scoped" /\ IsScoped(contexts[i].extent)
               /\ contexts[i].parent \in Nat /\ IsExtent(contexts[i].parent)
               /\ contexts[i].caller \in 1..Len(contexts) /\ contexts[i].caller < i
               /\ contexts[i].saved \in 0..Len(nodes)
<1>1. contexts[i] \in Contexts /\ ContextOK(contexts[i], i) /\ Len(contexts) \in Nat
  BY LengthsAreNat DEF TypeOK, ContextsOK
<1>2. QED  BY <1>1, ContextFacts DEF ContextOK, IsQueue, IsExtent, IsScoped, IsRoot

LEMMA WorkBodyFacts ==
  ASSUME TypeOK, NEW i \in 1..Len(contexts), NEW F,
         \A j \in 1..Len(contexts) : j < i => F[j] \in Seq(Items)
  PROVE  /\ WorkBody(i, F) \in Seq(Items)
         /\ \A G : (\A j \in 1..Len(contexts) : j < i => F[j] = G[j])
                     => WorkBody(i, F) = WorkBody(i, G)
<1>1. CASE contexts[i].tag = "Root"
  <2>1. RootItem(contexts[i].extent) \in Items
    BY ContextShape DEF Items, RootItem
  <2>2. PICK last : last = <<RootItem(contexts[i].extent)>>
    OBVIOUS
  <2>3. \A G : WorkBody(i, G) = last
    BY <1>1, <2>2 DEF WorkBody
  <2>4. last \in Seq(Items)
    BY <2>1, <2>2
  <2>5. QED  BY <2>3, <2>4
<1>2. CASE contexts[i].tag # "Root"
  <2>1. /\ contexts[i].tag = "Scoped"
        /\ contexts[i].caller \in 1..Len(contexts) /\ contexts[i].caller < i
        /\ contexts[i].saved \in 0..Len(nodes)
    BY <1>2, ContextShape
  <2>2. Marker(contexts[i].extent, contexts[i].parent) \in Items
    BY <1>2, ContextShape DEF Items, Marker
  <2>3. FlatNodes[contexts[i].saved] \in Seq(Items)
    BY <2>1, ListedNodes DEF NodesListed
  <2>4. F[contexts[i].caller] \in Seq(Items)
    BY <2>1
  <2>5. \A G : WorkBody(i, G) = <<Marker(contexts[i].extent, contexts[i].parent)>>
                                  \o FlatNodes[contexts[i].saved] \o G[contexts[i].caller]
    BY <2>1 DEF WorkBody
  <2>6. WorkBody(i, F) \in Seq(Items)
    <3>1. WorkBody(i, F) = <<Marker(contexts[i].extent, contexts[i].parent)>>
                             \o FlatNodes[contexts[i].saved] \o F[contexts[i].caller]
      BY <2>5
    <3>2. \A w, v \in Seq(Items) : \A m \in Items : <<m>> \o w \o v \in Seq(Items)
      OBVIOUS
    <3>3. QED  BY <2>2, <2>3, <2>4, <3>1, <3>2
  <2>7. QED  BY <2>1, <2>5, <2>6
<1>3. QED  BY <1>1, <1>2

(* The work left in all contexts.                                          *)
ContextsListed ==
  /\ ScopeWork \in [1..Len(contexts) -> Seq(Items)]
  /\ \A c \in 1..Len(contexts) :
       /\ contexts[c].tag = "Root" => ScopeWork[c] = <<RootItem(contexts[c].extent)>>
       /\ contexts[c].tag = "Scoped" =>
            ScopeWork[c] = <<Marker(contexts[c].extent, contexts[c].parent)>>
                             \o FlatNodes[contexts[c].saved] \o ScopeWork[contexts[c].caller]

LEMMA ListedContexts == TypeOK => ContextsListed
<1> SUFFICES ASSUME TypeOK PROVE ContextsListed
  OBVIOUS
<1> DEFINE Dom == 1..Len(contexts)
           V == Seq(Items)
           step == [i \in Dom |-> [g \in [Dom -> V] |-> WorkBody(i, g)]]
           Solves(F) == F = [i \in Dom |-> WorkBody(i, F)]
<1>1. Len(contexts) \in Nat
  BY LengthsAreNat
<1>2. \A i \in Dom : \A g, h \in [Dom -> V] :
        /\ WorkBody(i, g) \in V
        /\ (\A j \in Dom : j < i => g[j] = h[j]) => WorkBody(i, g) = WorkBody(i, h)
  BY WorkBodyFacts
<1>3. step \in [Dom -> [[Dom -> V] -> V]] /\ V # {}
  <2>1. <<>> \in V
    OBVIOUS
  <2>2. QED  BY <1>2, <2>1
<1>4. \A i \in Dom : \A g \in [Dom -> V] : step[i][g] = WorkBody(i, g)
  OBVIOUS
<1>5. PICK f \in [Dom -> V] : \A i \in Dom : f[i] = WorkBody(i, f)
  <2>1. Recursion(Dom, V, step)
    <3> HIDE DEF step, V
    <3>1. \A i \in Dom : \A g, h \in [Dom -> V] :
            (\A j \in Dom : j < i => g[j] = h[j]) => step[i][g] = step[i][h]
      BY <1>2, <1>4
    <3>2. QED  BY <1>3, <3>1 DEF Recursion
  <2>2. \E f : Solution(Dom, V, step, f)
    <3>1. 1 \in Nat
      OBVIOUS
    <3> HIDE DEF step, V
    <3>2. QED  BY <1>1, <1>3, <2>1, <3>1, RecursionExists
  <2>3. QED  BY <1>4, <2>2 DEF Solution
<1>6. Solves(f)
  BY <1>5
<1>7. ScopeWork = CHOOSE F : Solves(F)
  BY DEF ScopeWork, WorkBody, RootItem, Marker
<1>8. Solves(ScopeWork)
  <2> HIDE DEF Solves
  <2> QED  BY <1>6, <1>7
<1>9. \A i \in Dom : ScopeWork[i] = WorkBody(i, ScopeWork)
  BY <1>8
<1>10. \A i \in Dom : ScopeWork[i] \in V
  <2> DEFINE Bad == {i \in Dom : ScopeWork[i] \notin V}
  <2>1. SUFFICES ASSUME Bad # {} PROVE FALSE
    OBVIOUS
  <2>2. PICK i \in Bad : \A j \in Bad : i <= j
    <3>1. Bad \in SUBSET Nat
      OBVIOUS
    <3> HIDE DEF Bad
    <3>2. QED  BY <2>1, <3>1, LeastExists
  <2>3. \A j \in Dom : j < i => ScopeWork[j] \in V
    BY <2>2
  <2>4. WorkBody(i, ScopeWork) \in V
    BY <2>3, WorkBodyFacts
  <2>5. QED  BY <1>9, <2>4
<1>11. ScopeWork \in [Dom -> V]
  BY <1>8, <1>10
<1>12. PICK W : W = ScopeWork
  OBVIOUS
<1>13. ASSUME NEW c \in Dom, contexts[c].tag = "Root"
       PROVE W[c] = <<RootItem(contexts[c].extent)>>
  BY <1>9, <1>12, <1>13 DEF WorkBody
<1>14. ASSUME NEW c \in Dom, contexts[c].tag = "Scoped"
       PROVE W[c] = <<Marker(contexts[c].extent, contexts[c].parent)>>
                      \o FlatNodes[contexts[c].saved] \o W[contexts[c].caller]
  BY <1>9, <1>12, <1>14 DEF WorkBody
<1>15. QED  BY <1>11, <1>12, <1>13, <1>14 DEF ContextsListed

LEMMA NewListedContexts == TypeOK' => ContextsListed'
BY ListedContexts, PTL

(* A context keeps the work left in it.                                    *)
LEMMA WorkKept ==
  ASSUME TypeOK, TypeOK', Grows, NEW c \in 1..Len(contexts)
  PROVE  ScopeWork'[c] = ScopeWork[c]
<1> DEFINE W == ScopeWork
           Bad == {i \in 1..Len(contexts) : ScopeWork'[i] # W[i]}
<1>1. SUFFICES ASSUME Bad # {} PROVE FALSE
  OBVIOUS
<1>2. PICK i \in Bad : \A j \in Bad : i <= j
  <2>1. Bad \in SUBSET Nat
    OBVIOUS
  <2> HIDE DEF Bad
  <2>2. QED  BY <1>1, <2>1, LeastExists
<1>3. /\ Len(contexts) \in Nat /\ Len(contexts') \in Nat /\ Len(contexts) <= Len(contexts')
      /\ \A k \in 1..Len(contexts) : contexts'[k] = contexts[k]
  BY LengthsAreNat DEF Grows
<1>4. i \in 1..Len(contexts) /\ ScopeWork'[i] # W[i]
  OBVIOUS
<1>5. ASSUME NEW j \in 1..Len(contexts), j < i PROVE ScopeWork'[j] = ScopeWork[j]
  <2>1. j \notin Bad
    <3>1. i \in Nat /\ j \in Nat
      BY <1>3, <1>4
    <3> HIDE DEF Bad
    <3>2. QED  BY <1>2, <1>5, <3>1
  <2>2. QED  BY <2>1
<1> HIDE DEF Bad
<1>6. ContextsListed /\ ContextsListed'
  BY ListedContexts, NewListedContexts
<1>7. i \in 1..Len(contexts') /\ contexts'[i] = contexts[i]
  BY <1>3, <1>4
<1>8. CASE contexts[i].tag = "Root"
  BY <1>4, <1>6, <1>7, <1>8 DEF ContextsListed, RootItem
<1>9. CASE contexts[i].tag = "Scoped"
  <2>1. /\ contexts[i].caller \in 1..Len(contexts) /\ contexts[i].caller < i
        /\ IsQueue(contexts[i].saved)
    BY <1>4, <1>9, ContextShape DEF IsQueue
  <2>2. ScopeWork'[i] = <<Marker(contexts[i].extent, contexts[i].parent)>>
                          \o FlatNodes'[contexts[i].saved] \o ScopeWork'[contexts[i].caller]
    BY <1>6, <1>7, <1>9 DEF ContextsListed, Marker
  <2>3. FlatNodes'[contexts[i].saved] = FlatNodes[contexts[i].saved]
    BY <2>1, ListKept
  <2>4. QED  BY <1>4, <1>5, <1>6, <1>9, <2>1, <2>2, <2>3 DEF ContextsListed
<1>10. QED  BY <1>4, <1>8, <1>9, ContextShape

(* Each heap is only extended, or has one of its cells updated.            *)
HeapStep ==
  /\ \/ UNCHANGED nodes
     \/ \E a : nodes' = Allocate(nodes, a)
     \/ \E a, b : nodes' = Allocate(Allocate(nodes, a), b)
  /\ UNCHANGED contexts \/ \E c : contexts' = Allocate(contexts, c)
  /\ UNCHANGED raws \/ \E k : raws' = Allocate(raws, k)
  /\ \/ UNCHANGED extents
     \/ \E e : CloseBoundary(e)
     \/ \E p : extents' = FreshExtent(p)
  /\ \/ UNCHANGED owners
     \/ \E o, s : Vacate(o, s)
     \/ \E o : owners' = [owners EXCEPT ![o].status = "Consumed"]
     \/ \E x : owners' = Append(owners, x)

LEMMA NextHeapStep == ASSUME Next PROVE HeapStep
<1>1. ASSUME ReplayStep PROVE HeapStep
  BY <1>1 DEF ReplayStep, CloneCons, CloneAppend, CloneFinish, CloneTodo, RebuildCons,
     RebuildFinish, RebuildDone, heapVars, HeapStep
<1>2. ASSUME Publish \/ ReturnClause \/ ReturnCons \/ ReturnAppendCons \/ ReturnFinish
      PROVE HeapStep
  BY <1>2 DEF Publish, ReturnClause, ReturnCons, ReturnAppendCons, ReturnFinish, heapVars,
     HeapStep
<1>3. ASSUME ReturnRotate \/ HandleNormalize PROVE HeapStep
  <2>1. UNCHANGED nodes \/ \E a, b : nodes' = Allocate(Allocate(nodes, a), b)
    BY <1>3 DEF ReturnRotate, HandleNormalize, RotateEmpty, Rotate
  <2>2. QED  BY <1>3, <2>1 DEF ReturnRotate, HandleNormalize, HeapStep
<1>4. ASSUME Perform \/ Bind \/ Resume PROVE HeapStep
  BY <1>4 DEF Perform, Bind, Resume, heapVars, HeapStep
<1>5. ASSUME HandleFresh \/ HandleFinish PROVE HeapStep
  BY <1>5 DEF HandleFresh, HandleFinish, EnterSource, HeapStep
<1>6. ASSUME OwnedResume \/ Exhaust \/ Throw \/ Once PROVE HeapStep
  BY <1>6 DEF OwnedResume, Exhaust, Throw, Once, HeapStep
<1>7. ASSUME NEW c \in Suppliable, Supply(c) \/ Run(c) PROVE HeapStep
  BY <1>7 DEF Supply, EnterTarget, Continue, Transferred, Run, HeapStep
<1>8. ASSUME NEW k, RawResume(k) \/ Cancel(k) PROVE HeapStep
  BY <1>8 DEF RawResume, Cancel, heapVars, HeapStep
<1>9. QED
  BY <1>1, <1>2, <1>3, <1>4, <1>5, <1>6, <1>7, <1>8
  DEF Next, MachineStep, ExecutorStep, GuestStep

LEMMA AllocateExtends ==
  ASSUME NEW S, NEW heap \in Seq(S), NEW object, NEW result, result = Allocate(heap, object)
  PROVE  /\ \E T : result \in Seq(T)
         /\ Len(heap) \in Nat /\ Len(result) \in Nat /\ Len(heap) <= Len(result)
         /\ \A i \in 1..Len(heap) : result[i] = heap[i]
<1>1. PICK T : T = S \cup {object}
  OBVIOUS
<1>2. heap \in Seq(T) /\ object \in T
  BY <1>1
<1>3. result = Allocate(heap, object)
  OBVIOUS
<1>4. /\ result \in Seq(T)
      /\ Len(heap) \in Nat /\ Len(result) \in Nat /\ Len(heap) <= Len(result)
      /\ \A i \in 1..Len(heap) : result[i] = heap[i]
  <2>1. CASE result = heap
    BY <1>2, <2>1
  <2>2. CASE result = Append(heap, object)
    BY <1>2, <2>2
  <2>3. QED  BY <1>3, <2>1, <2>2 DEF Allocate
<1>5. \E U : result \in Seq(U)
  BY <1>4, Zenon
<1>6. QED  BY <1>4, <1>5

(* References stay valid in every step.                                    *)
LEMMA NextGrows == ASSUME TypeOK, Next PROVE TypeOK' /\ Grows
<1>1. TypeOK' /\ HeapStep
  BY NextTyped, NextHeapStep
<1>2. /\ {Len(nodes), Len(contexts), Len(extents), Len(raws), Len(owners)} \subseteq Nat
      /\ {Len(nodes'), Len(contexts'), Len(extents'), Len(raws'), Len(owners')} \subseteq Nat
  BY <1>1, LengthsAreNat DEF TypeOK, NodesOK, ContextsOK, ExtentsOK, RawsOK
<1>3. Len(nodes) <= Len(nodes') /\ \A i \in 1..Len(nodes) : nodes'[i] = nodes[i]
  <2>1. nodes \in Seq(Nodes)
    BY DEF TypeOK, NodesOK
  <2>2. CASE UNCHANGED nodes
    BY <1>2, <2>2
  <2>3. ASSUME NEW a, nodes' = Allocate(nodes, a)
        PROVE Len(nodes) <= Len(nodes') /\ \A i \in 1..Len(nodes) : nodes'[i] = nodes[i]
    BY <2>1, <2>3, AllocateExtends
  <2>4. ASSUME NEW a, NEW b, nodes' = Allocate(Allocate(nodes, a), b)
        PROVE Len(nodes) <= Len(nodes') /\ \A i \in 1..Len(nodes) : nodes'[i] = nodes[i]
    <3>1. PICK heap : heap = Allocate(nodes, a)
      OBVIOUS
    <3>2. /\ \E T : heap \in Seq(T)
          /\ Len(nodes) <= Len(heap) /\ Len(heap) \in Nat
          /\ \A i \in 1..Len(nodes) : heap[i] = nodes[i]
      BY <2>1, <3>1, AllocateExtends
    <3>3. Len(heap) <= Len(nodes') /\ \A i \in 1..Len(heap) : nodes'[i] = heap[i]
      <4>1. PICK T : heap \in Seq(T)
        BY <3>2
      <4>2. QED  BY <2>4, <3>1, <4>1, AllocateExtends
    <3>4. QED  BY <1>2, <3>2, <3>3
  <2>5. QED  BY <1>1, <2>2, <2>3, <2>4 DEF HeapStep
<1>4. Len(contexts) <= Len(contexts') /\ \A i \in 1..Len(contexts) : contexts'[i] = contexts[i]
  <2>1. contexts \in Seq(Contexts)
    BY DEF TypeOK, ContextsOK
  <2>2. ASSUME NEW x, contexts' = Allocate(contexts, x)
        PROVE Len(contexts) <= Len(contexts') /\ \A i \in 1..Len(contexts) : contexts'[i] = contexts[i]
    BY <2>1, <2>2, AllocateExtends
  <2>3. CASE UNCHANGED contexts
    BY <1>2, <2>3
  <2>4. QED  BY <1>1, <2>2, <2>3 DEF HeapStep
<1>5. Len(raws) <= Len(raws') /\ \A k \in 1..Len(raws) : raws'[k] = raws[k]
  <2>1. raws \in Seq(Raws)
    BY DEF TypeOK, RawsOK
  <2>2. ASSUME NEW x, raws' = Allocate(raws, x)
        PROVE Len(raws) <= Len(raws') /\ \A i \in 1..Len(raws) : raws'[i] = raws[i]
    BY <2>1, <2>2, AllocateExtends
  <2>3. CASE UNCHANGED raws
    BY <1>2, <2>3
  <2>4. QED  BY <1>1, <2>2, <2>3 DEF HeapStep
<1>6. /\ Len(extents) <= Len(extents')
      /\ \A e \in 1..Len(extents) : extents'[e].parent = extents[e].parent
  <2>1. extents \in Seq(Extents) /\ \A e \in 1..Len(extents) : extents[e] \in Extents
    BY DEF TypeOK, ExtentsOK
  <2>2. CASE UNCHANGED extents
    BY <1>2, <2>2
  <2>3. ASSUME NEW e, CloseBoundary(e)
        PROVE /\ Len(extents) <= Len(extents')
              /\ \A i \in 1..Len(extents) : extents'[i].parent = extents[i].parent
    BY <1>2, <2>1, <2>3 DEF CloseBoundary, Extents
  <2>4. ASSUME NEW p, extents' = FreshExtent(p)
        PROVE /\ Len(extents) <= Len(extents')
              /\ \A i \in 1..Len(extents) : extents'[i].parent = extents[i].parent
    BY <1>2, <2>1, <2>4 DEF FreshExtent
  <2>5. QED  BY <1>1, <2>2, <2>3, <2>4 DEF HeapStep
<1>7. Len(owners) <= Len(owners')
  BY <1>1, <1>2 DEF HeapStep, Vacate, TypeOK
<1>8. QED  BY <1>1, <1>2, <1>3, <1>4, <1>5, <1>6, <1>7 DEF Grows

-----------------------------------------------------------------------------
(* What allocating a queue node adds to the lists.                         *)

LEMMA ConcatItems ==
  ASSUME NEW a \in Seq(Items), NEW b \in Seq(Items), NEW c \in Seq(Items)
  PROVE  /\ a \o b \in Seq(Items)
         /\ (a \o b) \o c = a \o (b \o c)
         /\ <<>> \o a = a /\ a \o <<>> = a
<1>1. Len(a) \in Nat /\ Len(b) \in Nat /\ Len(c) \in Nat
  OBVIOUS
<1>2. a \o b \in Seq(Items) /\ (a \o b) \o c = a \o (b \o c)
  BY ConcatProperties, ConcatAssociative
<1>3. <<>> \o a = a /\ a \o <<>> = a
  BY ConcatEmptySeq
<1>4. QED  BY <1>2, <1>3

(* Lists are joined in any grouping.                                       *)
LEMMA ListsAssociate == \A a, b, c \in Seq(Items) : (a \o b) \o c = a \o (b \o c)
BY ConcatItems

LEMMA QueueList ==
  ASSUME TypeOK, NEW q, IsQueue(q)
  PROVE  FlatNodes[q] \in Seq(Items)
BY ListedNodes DEF NodesListed, IsQueue

LEMMA ItemsMade ==
  /\ \A f \in Callbacks : <<Then(f)>> \in Seq(Items)
  /\ \A e, p \in Nat : <<Marker(e, p)>> \in Seq(Items)
<1>1. \A f \in Callbacks : Then(f) \in Items
  BY DEF Then, Items
<1>2. \A e, p \in Nat : Marker(e, p) \in Items
  BY DEF Marker, Items
<1>3. QED  BY <1>1, <1>2

(* The allocated object is in the new heap.                                *)
LEMMA NewNode ==
  ASSUME NEW heap \in Seq(Nodes), NEW node \in Nodes, NEW result,
         result = Allocate(heap, node), NEW ref, ref = Ref(heap, node)
  PROVE  ref \in 1..Len(result) /\ \A i \in 1..Len(result) : i = ref => result[i] = node
<1>1. CASE Shared(heap, node)
  <2>1. ref \in 1..Len(heap) /\ heap[ref] = node
    BY <1>1 DEF Shared, Ref
  <2>2. result = heap
    BY <1>1 DEF Allocate
  <2>3. QED  BY <2>1, <2>2
<1>2. CASE ~Shared(heap, node)
  <2>1. result = Append(heap, node) /\ ref = Len(heap) + 1
    BY <1>2 DEF Allocate, Ref
  <2>2. QED  BY <2>1
<1>3. QED  BY <1>1, <1>2

(* The lists of the new heap, node by node.                                *)
LEMMA NewConsList ==
  ASSUME TypeOK', NEW q \in 1..Len(nodes'), NEW node, nodes'[q] = node, node.tag = "Cons"
  PROVE  FlatNodes'[q] = <<Then(node.head)>> \o FlatNodes'[node.tail]
BY NewListedNodes DEF NodesListed, Then

LEMMA NewAppendList ==
  ASSUME TypeOK', NEW q \in 1..Len(nodes'), NEW node, nodes'[q] = node, node.tag = "Append"
  PROVE  FlatNodes'[q] = FlatNodes'[node.left] \o FlatNodes'[node.right]
BY NewListedNodes DEF NodesListed

LEMMA NewFinishList ==
  ASSUME TypeOK', NEW q \in 1..Len(nodes'), NEW node, nodes'[q] = node, node.tag = "Finish"
  PROVE  FlatNodes'[q] = <<Marker(node.extent, node.parent)>> \o FlatNodes'[node.rest]
BY NewListedNodes DEF NodesListed, Marker

LEMMA NewCons ==
  ASSUME TypeOK, TypeOK', Grows, NEW head \in Callbacks, NEW tail, IsQueue(tail),
         NEW node, node = ConsNode(head, tail), nodes' = Allocate(nodes, node),
         NEW ref, ref = Ref(nodes, node)
  PROVE  FlatNodes'[ref] = <<Then(head)>> \o FlatNodes[tail]
<1>1. node \in Nodes
  BY FreshNodes
<1>2. ref \in 1..Len(nodes') /\ nodes'[ref] = node
  BY <1>1, NewNode DEF TypeOK, NodesOK
<1>3. node.tag = "Cons" /\ node.head = head /\ node.tail = tail
  BY DEF ConsNode
<1>4. FlatNodes'[ref] = <<Then(head)>> \o FlatNodes'[tail]
  <2>1. FlatNodes'[ref] = <<Then(node.head)>> \o FlatNodes'[node.tail]
    BY <1>2, <1>3, NewConsList
  <2>2. QED  BY <1>3, <2>1
<1>5. QED  BY <1>4, ListKept

LEMMA NewAppend ==
  ASSUME TypeOK, TypeOK', Grows, NEW left, IsQueue(left), NEW right, IsQueue(right),
         NEW node, node = AppendNode(left, right), nodes' = Allocate(nodes, node),
         NEW ref, ref = Ref(nodes, node)
  PROVE  FlatNodes'[ref] = FlatNodes[left] \o FlatNodes[right]
<1>1. node \in Nodes
  BY FreshNodes
<1>2. ref \in 1..Len(nodes') /\ nodes'[ref] = node
  BY <1>1, NewNode DEF TypeOK, NodesOK
<1>3. node.tag = "Append" /\ node.left = left /\ node.right = right
  BY DEF AppendNode
<1>4. FlatNodes'[ref] = FlatNodes'[left] \o FlatNodes'[right]
  <2>1. FlatNodes'[ref] = FlatNodes'[node.left] \o FlatNodes'[node.right]
    BY <1>2, <1>3, NewAppendList
  <2>2. QED  BY <1>3, <2>1
<1>5. QED  BY <1>4, ListKept

LEMMA NewFinish ==
  ASSUME TypeOK, TypeOK', Grows, NEW e \in Nat, NEW rest, IsQueue(rest), NEW parent \in Nat,
         NEW node, node = Finish(e, rest, parent), nodes' = Allocate(nodes, node),
         NEW ref, ref = Ref(nodes, node)
  PROVE  FlatNodes'[ref] = <<Marker(e, parent)>> \o FlatNodes[rest]
<1>1. rest \in Nat
  BY LengthsAreNat DEF IsQueue
<1>2. node \in Nodes
  BY <1>1 DEF Nodes, Finish
<1>3. ref \in 1..Len(nodes') /\ nodes'[ref] = node
  BY <1>2, NewNode DEF TypeOK, NodesOK
<1>4. node.tag = "Finish" /\ node.extent = e /\ node.rest = rest /\ node.parent = parent
  BY DEF Finish
<1>5. FlatNodes'[ref] = <<Marker(e, parent)>> \o FlatNodes'[rest]
  <2>1. FlatNodes'[ref] = <<Marker(node.extent, node.parent)>> \o FlatNodes'[node.rest]
    BY <1>3, <1>4, NewFinishList
  <2>2. QED  BY <1>4, <2>1
<1>6. QED  BY <1>5, ListKept

(* The list of a queue by its kind.                                        *)
LEMMA ConsList ==
  ASSUME TypeOK, NEW q, IsQueue(q), Kind(q) = "Cons"
  PROVE  FlatNodes[q] = <<Then(nodes[q].head)>> \o FlatNodes[nodes[q].tail]
<1>1. q # Empty
  BY DEF Kind
<1>2. QED  BY <1>1, QueueFacts, ListedNodes DEF NodesListed

LEMMA AppendList ==
  ASSUME TypeOK, NEW q, IsQueue(q), Kind(q) = "Append"
  PROVE  FlatNodes[q] = FlatNodes[nodes[q].left] \o FlatNodes[nodes[q].right]
<1>1. q # Empty
  BY DEF Kind
<1>2. QED  BY <1>1, QueueFacts, ListedNodes DEF NodesListed

LEMMA FinishList ==
  ASSUME TypeOK, NEW q, IsQueue(q), Kind(q) = "Finish"
  PROVE  FlatNodes[q] = <<Marker(nodes[q].extent, nodes[q].parent)>> \o FlatNodes[nodes[q].rest]
<1>1. q # Empty
  BY DEF Kind
<1>2. QED  BY <1>1, QueueFacts, ListedNodes DEF NodesListed

LEMMA EmptyList == ASSUME TypeOK, NEW q, Kind(q) = "Empty", IsQueue(q) PROVE FlatNodes[q] = <<>>
<1>1. q = Empty
  <2>1. q # Empty => Kind(q) \in {"Cons", "Append", "Finish"}
    BY QueueFacts, NodeFacts
  <2>2. QED  BY <2>1
<1>2. QED  BY <1>1, ListedNodes DEF NodesListed

(* Rotating an Append keeps its list.                                      *)
LEMMA RotateList ==
  ASSUME TypeOK, TypeOK', Grows, Depth > 0, Kind(Top.queue) = "Append",
         RotateEmpty \/ \E kind \in {"Cons", "Append", "Finish"} : Rotate(kind)
  PROVE  \E q : SetTop([Top EXCEPT !.queue = q]) /\ FlatNodes'[q] = FlatNodes[Top.queue]
<1>1. /\ IsQueue(Top.queue) /\ IsQueue(Left) /\ IsQueue(Right)
      /\ FlatNodes[Top.queue] = FlatNodes[Left] \o FlatNodes[Right]
  BY TopFacts, AppendFacts, AppendList DEF FrameOK, Left, Right
<1>2. FlatNodes[Left] \in Seq(Items) /\ FlatNodes[Right] \in Seq(Items)
  BY <1>1, QueueList
<1>3. CASE RotateEmpty
  <2>1. Kind(Left) = "Empty" /\ SetTop([Top EXCEPT !.queue = Right])
    BY <1>3 DEF RotateEmpty
  <2>2. FlatNodes[Left] = <<>>
    BY <1>1, <2>1, EmptyList
  <2>3. FlatNodes'[Right] = FlatNodes[Top.queue]
    BY <1>1, <1>2, <2>2, ConcatItems, ListKept
  <2>4. QED  BY <2>1, <2>3
<1>4. ASSUME NEW kind \in {"Cons", "Append", "Finish"}, Rotate(kind)
      PROVE  \E q : SetTop([Top EXCEPT !.queue = q]) /\ FlatNodes'[q] = FlatNodes[Top.queue]
  <2>1. PICK left : left = nodes[Left]
    OBVIOUS
  <2>2. Kind(Left) = kind
    BY <1>4 DEF Rotate
  <2>3. left.tag = kind /\ left \in Nodes /\ IsQueue(Remainder(left))
    <3>1. Left # Empty
      BY <2>2 DEF Kind
    <3>2. left \in Nodes /\ left.tag = kind
      BY <1>1, <2>1, <2>2, <3>1, QueueFacts
    <3>3. IsQueue(Remainder(left))
      BY <1>1, <2>1, <2>2, <3>2, ConsFacts, AppendFacts, FinishFacts DEF Remainder
    <3>4. QED  BY <3>2, <3>3
  <2>4. PICK rest : rest = Remainder(left)
    OBVIOUS
  <2>5. PICK tail : tail = AppendNode(rest, Right)
    OBVIOUS
  <2>6. PICK heap : heap = Allocate(nodes, tail)
    OBVIOUS
  <2>7. PICK t : t = Ref(nodes, tail)
    OBVIOUS
  <2>8. PICK whole : whole = Rehead(left, t)
    OBVIOUS
  <2>9. PICK q : q = Ref(heap, whole)
    OBVIOUS
  <2>10. nodes' = Allocate(heap, whole) /\ SetTop([Top EXCEPT !.queue = q])
    BY <1>4, <2>1, <2>4, <2>5, <2>6, <2>7, <2>8, <2>9 DEF Rotate
  <2>11. tail \in Nodes
    BY <1>1, <2>3, <2>4, <2>5, FreshNodes
  <2>12. /\ heap \in Seq(Nodes) /\ t \in 1..Len(heap) /\ heap[t] = tail /\ Len(heap) \in Nat
    <3>1. nodes \in Seq(Nodes)
      BY DEF TypeOK, NodesOK
    <3>2. heap \in Seq(Nodes) /\ Len(heap) \in Nat
      BY <2>6, <2>11, <3>1 DEF Allocate
    <3>3. t \in 1..Len(heap) /\ heap[t] = tail
      BY <2>6, <2>7, <2>11, <3>1, NewNode
    <3>4. QED  BY <3>2, <3>3
  <2>13. whole \in Nodes
    BY <2>3, <2>8, <2>12, NodeFacts DEF Rehead, ConsNode, AppendNode, Finish, Nodes
  <2>14. /\ t \in 1..Len(nodes') /\ nodes'[t] = tail
         /\ q \in 1..Len(nodes') /\ nodes'[q] = whole
    <3>1. /\ Len(nodes') \in Nat /\ Len(heap) <= Len(nodes')
          /\ \A i \in 1..Len(heap) : nodes'[i] = heap[i]
      BY <2>10, <2>12, AllocateExtends
    <3>2. q \in 1..Len(nodes') /\ nodes'[q] = whole
      BY <2>9, <2>10, <2>12, <2>13, NewNode
    <3>3. QED  BY <2>12, <3>1, <3>2
  <2>15. FlatNodes'[t] = FlatNodes[rest] \o FlatNodes[Right]
    <3>1. tail.tag = "Append" /\ tail.left = rest /\ tail.right = Right
      BY <2>5 DEF AppendNode
    <3>2. FlatNodes'[t] = FlatNodes'[tail.left] \o FlatNodes'[tail.right]
      BY <2>14, <3>1, NewAppendList
    <3>3. FlatNodes'[rest] = FlatNodes[rest] /\ FlatNodes'[Right] = FlatNodes[Right]
      BY <1>1, <2>3, <2>4, ListKept
    <3>4. QED  BY <3>1, <3>2, <3>3
  <2>16. FlatNodes[rest] \in Seq(Items)
    BY <2>3, <2>4, QueueList
  <2>17. CASE kind = "Cons"
    <3>1. /\ whole.tag = "Cons" /\ whole.head = left.head /\ whole.tail = t
          /\ rest = left.tail
      BY <2>3, <2>4, <2>8, <2>17 DEF Rehead, Remainder, ConsNode
    <3>2. FlatNodes'[q] = <<Then(left.head)>> \o FlatNodes'[t]
      <4>1. FlatNodes'[q] = <<Then(whole.head)>> \o FlatNodes'[whole.tail]
        BY <2>14, <3>1, NewConsList
      <4>2. QED  BY <3>1, <4>1
    <3>3. FlatNodes[Left] = <<Then(left.head)>> \o FlatNodes[rest]
      BY <1>1, <2>1, <2>2, <2>17, <3>1, ConsList
    <3>4. <<Then(left.head)>> \in Seq(Items)
      BY <2>3, <2>17, NodeFacts, ItemsMade
    <3>5. FlatNodes'[q] = FlatNodes[Top.queue]
      <4>1. PICK a, b, c \in Seq(Items) : /\ a = <<Then(left.head)>>
                                         /\ b = FlatNodes[rest] /\ c = FlatNodes[Right]
        BY <1>2, <2>16, <3>4
      <4>2. FlatNodes'[q] = a \o (b \o c)
        BY <2>15, <3>2, <4>1
      <4>3. FlatNodes[Top.queue] = (a \o b) \o c
        BY <1>1, <3>3, <4>1
      <4>4. (a \o b) \o c = a \o (b \o c)
        BY ListsAssociate, Zenon
      <4>5. QED  BY <4>2, <4>3, <4>4
    <3>6. QED  BY <2>10, <3>5
  <2>18. CASE kind = "Append"
    <3>1. /\ whole.tag = "Append" /\ whole.left = left.left /\ whole.right = t
          /\ rest = left.right
      BY <2>3, <2>4, <2>8, <2>18 DEF Rehead, Remainder, AppendNode
    <3>2. IsQueue(left.left)
      BY <1>1, <2>1, <2>2, <2>18, AppendFacts
    <3>3. FlatNodes'[q] = FlatNodes[left.left] \o FlatNodes'[t]
      <4>1. FlatNodes'[q] = FlatNodes'[whole.left] \o FlatNodes'[whole.right]
        BY <2>14, <3>1, NewAppendList
      <4>2. FlatNodes'[left.left] = FlatNodes[left.left]
        BY <3>2, ListKept
      <4>3. QED  BY <3>1, <4>1, <4>2
    <3>4. FlatNodes[Left] = FlatNodes[left.left] \o FlatNodes[rest]
      BY <1>1, <2>1, <2>2, <2>18, <3>1, AppendList
    <3>5. FlatNodes[left.left] \in Seq(Items)
      BY <3>2, QueueList
    <3>6. FlatNodes'[q] = FlatNodes[Top.queue]
      <4>1. PICK a, b, c \in Seq(Items) : /\ a = FlatNodes[left.left]
                                         /\ b = FlatNodes[rest] /\ c = FlatNodes[Right]
        BY <1>2, <2>16, <3>5
      <4>2. FlatNodes'[q] = a \o (b \o c)
        BY <2>15, <3>3, <4>1
      <4>3. FlatNodes[Top.queue] = (a \o b) \o c
        BY <1>1, <3>4, <4>1
      <4>4. (a \o b) \o c = a \o (b \o c)
        BY ListsAssociate, Zenon
      <4>5. QED  BY <4>2, <4>3, <4>4
    <3>7. QED  BY <2>10, <3>6
  <2>19. CASE kind = "Finish"
    <3>1. /\ whole.tag = "Finish" /\ whole.extent = left.extent /\ whole.rest = t
          /\ whole.parent = left.parent /\ rest = left.rest
      BY <2>3, <2>4, <2>8, <2>19 DEF Rehead, Remainder, Finish
    <3>2. FlatNodes'[q] = <<Marker(left.extent, left.parent)>> \o FlatNodes'[t]
      <4>1. FlatNodes'[q] = <<Marker(whole.extent, whole.parent)>> \o FlatNodes'[whole.rest]
        BY <2>14, <3>1, NewFinishList
      <4>2. QED  BY <3>1, <4>1
    <3>3. FlatNodes[Left] = <<Marker(left.extent, left.parent)>> \o FlatNodes[rest]
      BY <1>1, <2>1, <2>2, <2>19, <3>1, FinishList
    <3>4. <<Marker(left.extent, left.parent)>> \in Seq(Items)
      BY <2>3, <2>19, NodeFacts, ItemsMade
    <3>5. FlatNodes'[q] = FlatNodes[Top.queue]
      <4>1. PICK a, b, c \in Seq(Items) : /\ a = <<Marker(left.extent, left.parent)>>
                                         /\ b = FlatNodes[rest] /\ c = FlatNodes[Right]
        BY <1>2, <2>16, <3>4
      <4>2. FlatNodes'[q] = a \o (b \o c)
        BY <2>15, <3>2, <4>1
      <4>3. FlatNodes[Top.queue] = (a \o b) \o c
        BY <1>1, <3>3, <4>1
      <4>4. (a \o b) \o c = a \o (b \o c)
        BY ListsAssociate, Zenon
      <4>5. QED  BY <4>2, <4>3, <4>4
    <3>6. QED  BY <2>10, <3>5
  <2>20. QED  BY <2>17, <2>18, <2>19
<1>5. QED  BY <1>3, <1>4

-----------------------------------------------------------------------------
(* Extents that survive each other.                                        *)

OnLive(x) == \E S \in Lines : x \in S /\ AllLive(S)

(* Extent x is usable and belongs to the run of root.                      *)
Sound(x, root) == IsExtent(x) /\ OnLive(x) /\ RootOf(x) = root

(* Closing e leaves x usable.                                              *)
Apart(e, x) == \E S \in Lines : x \in S /\ e \notin S

(* No extent closes in the step.                                           *)
ExtentsGrow ==
  Grows /\ \A e \in 1..Len(extents) : extents'[e].status = extents[e].status

LEMMA LinesGrow ==
  ASSUME TypeOK, TypeOK', Grows, NEW S \in Lines
  PROVE  S \in Lines' /\ S \subseteq 1..Len(extents)
<1>1. Len(extents) \in Nat /\ Len(extents') \in Nat /\ Len(extents) <= Len(extents')
  BY LengthsAreNat DEF Grows
<1>2. S \in SUBSET (1..Len(extents)) /\ S \in SUBSET (1..Len(extents'))
  BY <1>1 DEF Lines
<1>3. \A e \in S : extents'[e].parent = extents[e].parent
  BY <1>2 DEF Grows
<1>4. \A e \in S : extents'[e].parent # NoExtent => extents'[e].parent \in S
  BY <1>3 DEF Lines
<1>5. QED  BY <1>2, <1>4 DEF Lines

LEMMA ApartGrows ==
  ASSUME TypeOK, TypeOK', Grows, NEW e, NEW x, Apart(e, x)
  PROVE  Apart(e, x)'
<1>1. PICK S \in Lines : x \in S /\ e \notin S
  BY DEF Apart
<1>2. S \in Lines'
  BY LinesGrow
<1>3. QED  BY <1>1, <1>2 DEF Apart

LEMMA SoundGrows ==
  ASSUME TypeOK, TypeOK', ExtentsGrow, NEW x, NEW root, Sound(x, root)
  PROVE  Sound(x, root)'
<1>1. Grows
  BY DEF ExtentsGrow
<1>2. PICK S \in Lines : x \in S /\ AllLive(S)
  BY DEF Sound, OnLive
<1>3. S \in Lines' /\ S \subseteq 1..Len(extents)
  BY <1>1, LinesGrow
<1>4. AllLive(S)'
  BY <1>2, <1>3 DEF AllLive, ExtentsGrow
<1>5. IsExtent(x)' /\ RootOf(x)' = RootOf(x)
  BY <1>1, RootKept, ReferencesStayValid DEF Sound, IsExtent
<1>6. OnLive(x)'
  BY <1>2, <1>3, <1>4 DEF OnLive
<1>7. QED  BY <1>5, <1>6 DEF Sound

(* A sound extent survives the end of one it is apart from.                *)
LEMMA SoundCloses ==
  ASSUME TypeOK, TypeOK', Grows, NEW e, IsExtent(e), CloseBoundary(e),
         NEW x, NEW root, Sound(x, root), Apart(e, x)
  PROVE  Sound(x, root)'
<1>1. PICK S \in Lines : x \in S /\ AllLive(S)
  BY DEF Sound, OnLive
<1>2. PICK T \in Lines : x \in T /\ e \notin T
  BY DEF Apart
<1>3. S \cap T \in Lines
  BY DEF Lines
<1>4. PICK U \in Lines : U = S \cap T
  BY <1>3
<1>5. U \in Lines' /\ U \subseteq 1..Len(extents)
  BY LinesGrow
<1>6. \A i \in 1..Len(extents) : i # e => extents'[i].status = extents[i].status
  BY ClosedExtentFacts
<1>7. AllLive(U)'
  BY <1>1, <1>2, <1>4, <1>5, <1>6 DEF AllLive
<1>8. x \in U
  BY <1>1, <1>2, <1>4
<1>9. IsExtent(x)' /\ RootOf(x)' = RootOf(x)
  BY RootKept, ReferencesStayValid DEF Sound, IsExtent
<1>10. OnLive(x)'
  BY <1>5, <1>7, <1>8 DEF OnLive
<1>11. QED  BY <1>9, <1>10 DEF Sound

(* Extents of different runs are apart.                                    *)
LEMMA RunsApart ==
  ASSUME TypeOK, NEW e, NEW x, IsExtent(x), RootOf(e) # RootOf(x)
  PROVE  Apart(e, x)
<1> DEFINE S == {z \in 1..Len(extents) : RootOf(z) = RootOf(x)}
<1>1. ExtentsOK
  BY DEF TypeOK
<1>2. ASSUME NEW z \in S, extents[z].parent # NoExtent PROVE extents[z].parent \in S
  <2>1. extents[z].parent \in 1..Len(extents)
    BY <1>1, <1>2, ExtentFacts
  <2>2. RootOf(extents[z].parent) = RootOf(z)
    BY <1>1, <1>2, RootStep
  <2>3. QED  BY <2>1, <2>2
<1>3. S \in Lines
  BY <1>2 DEF Lines
<1>4. x \in S /\ e \notin S
  BY DEF IsExtent
<1> HIDE DEF S
<1>5. QED  BY <1>3, <1>4 DEF Apart

(* A fresh extent is sound if its parent is, and apart from older ones.    *)
LEMMA FreshSound ==
  ASSUME TypeOK, TypeOK', ExtentsGrow, NEW p, NEW root, Sound(p, root),
         extents' = FreshExtent(p), NEW fresh, fresh = Len(extents) + 1
  PROVE  /\ Sound(fresh, root)'
         /\ \A x, r : Sound(x, r) => Apart(fresh, x)'
<1>1. Grows /\ IsExtent(p) /\ RootOf(p) = root /\ p # NoExtent
  BY LengthsAreNat DEF ExtentsGrow, Sound, IsExtent, NoExtent
<1>2. /\ Len(extents) \in Nat /\ Len(extents') = fresh /\ extents'[fresh].status = Live
      /\ extents'[fresh].parent = p /\ fresh \in 1..Len(extents')
  <2>1. Len(extents) \in Nat /\ Len(extents') = fresh /\ extents'[fresh].status = Live
    BY <1>1, FreshExtentFacts, LengthsAreNat
  <2>2. extents'[fresh].parent = p
    BY DEF FreshExtent, TypeOK, ExtentsOK
  <2>3. QED  BY <2>1, <2>2
<1>3. PICK S \in Lines : p \in S /\ AllLive(S)
  BY DEF Sound, OnLive
<1>4. S \in Lines' /\ S \subseteq 1..Len(extents)
  BY <1>1, LinesGrow
<1>5. S \cup {fresh} \in Lines' /\ AllLive(S \cup {fresh})'
  <2>1. AllLive(S)'
    BY <1>3, <1>4 DEF AllLive, ExtentsGrow
  <2>2. S \cup {fresh} \in Lines'
    BY <1>2, <1>3, <1>4 DEF Lines
  <2>3. QED  BY <1>2, <2>1, <2>2 DEF AllLive
<1>6. OnLive(fresh)'
  BY <1>5 DEF OnLive
<1>7. RootOf(fresh)' = root
  <2>1. ExtentsOK'
    BY DEF TypeOK
  <2>2. RootOf(fresh)' = RootOf(extents[fresh].parent)'
    BY <1>1, <1>2, <2>1, NewRoots DEF RootsKnown
  <2>3. RootOf(p)' = RootOf(p)
    BY <1>1, RootKept DEF IsExtent
  <2>4. QED  BY <1>1, <1>2, <2>2, <2>3
<1>8. ASSUME NEW x, NEW r, Sound(x, r) PROVE Apart(fresh, x)'
  <2>1. PICK T \in Lines : x \in T
    BY <1>8 DEF Sound, OnLive
  <2>2. T \in Lines' /\ fresh \notin T
    BY <1>1, <1>2, LinesGrow
  <2>3. QED  BY <2>1, <2>2 DEF Apart
<1>9. Sound(fresh, root)'
  BY <1>2, <1>6, <1>7 DEF Sound, IsExtent
<1>10. QED  BY <1>8, <1>9

(* So is a fresh root.                                                     *)
LEMMA FreshRootSound ==
  ASSUME TypeOK, TypeOK', Grows, NEW p, p = NoExtent, extents' = FreshExtent(p),
         NEW fresh, fresh = Len(extents) + 1
  PROVE  Sound(fresh, fresh)'
<1>1. /\ Len(extents) \in Nat /\ Len(extents') = fresh /\ extents'[fresh].status = Live
      /\ extents'[fresh].parent = NoExtent /\ fresh \in 1..Len(extents')
  <2>1. Len(extents) \in Nat /\ Len(extents') = fresh /\ extents'[fresh].status = Live
    BY FreshExtentFacts, LengthsAreNat
  <2>2. extents'[fresh].parent = NoExtent
    BY DEF FreshExtent, TypeOK, ExtentsOK
  <2>3. QED  BY <2>1, <2>2
<1>2. {fresh} \in Lines' /\ AllLive({fresh})'
  BY <1>1 DEF Lines, AllLive
<1>3. OnLive(fresh)'
  BY <1>2 DEF OnLive
<1>4. RootOf(fresh)' = fresh
  <2>1. ExtentsOK'
    BY DEF TypeOK
  <2>2. QED  BY <1>1, <2>1, NewRoots DEF RootsKnown
<1>5. QED  BY <1>1, <1>3, <1>4 DEF Sound, IsExtent

-----------------------------------------------------------------------------
(* Work that closes every extent once, the inner ones first.               *)

(* The extents an item of work refers to.                                  *)
Touched(item) ==
  CASE item.tag = "Then" -> {}
    [] item.tag = "Finish" -> {item.extent, item.parent}
    [] item.tag = "Root" -> {item.extent}

SoundWork(work, root) == \A i \in 1..Len(work) : \A x \in Touched(work[i]) : Sound(x, root)
ApartFrom(e, work) == \A i \in 1..Len(work) : \A x \in Touched(work[i]) : Apart(e, x)

(* Closing the extent of an item leaves all that comes after it usable.    *)
ClosesApart(work) ==
  /\ \A i \in 1..Len(work) : work[i].tag = "Finish" => Apart(work[i].extent, work[i].parent)
  /\ \A i, j \in 1..Len(work) :
       i < j /\ work[i].tag # "Then" => \A x \in Touched(work[j]) : Apart(work[i].extent, x)

Linear(work, root) == SoundWork(work, root) /\ ClosesApart(work)

LEMMA ItemCases ==
  ASSUME NEW item \in Items
  PROVE  /\ item.tag \in {"Then", "Finish", "Root"}
         /\ item.tag = "Then" => item.call \in Callbacks /\ Touched(item) = {}
         /\ item.tag = "Finish" => Touched(item) = {item.extent, item.parent}
         /\ item.tag = "Root" => Touched(item) = {item.extent}
<1>1. item.tag \in {"Then", "Finish", "Root"} /\ (item.tag = "Then" => item.call \in Callbacks)
  BY DEF Items
<1>2. CASE item.tag = "Then"
  BY <1>1, <1>2 DEF Touched
<1>3. CASE item.tag = "Finish"
  BY <1>3 DEF Touched
<1>4. CASE item.tag = "Root"
  BY <1>4 DEF Touched
<1>5. QED  BY <1>1, <1>2, <1>3, <1>4

LEMMA LinearGrows ==
  ASSUME TypeOK, TypeOK', ExtentsGrow, NEW work, NEW root, Linear(work, root)
  PROVE  Linear(work, root)'
<1>1. Grows
  BY DEF ExtentsGrow
<1>2. \A x : Sound(x, root) => Sound(x, root)'
  BY SoundGrows
<1>3. \A e, x : Apart(e, x) => Apart(e, x)'
  BY <1>1, ApartGrows
<1>4. SoundWork(work, root)'
  BY <1>2 DEF Linear, SoundWork
<1>5. ClosesApart(work)'
  BY <1>3 DEF Linear, ClosesApart
<1>6. QED  BY <1>4, <1>5 DEF Linear

LEMMA LinearCloses ==
  ASSUME TypeOK, TypeOK', Grows, NEW e, IsExtent(e), CloseBoundary(e),
         NEW work, NEW root, Linear(work, root), ApartFrom(e, work)
  PROVE  Linear(work, root)'
<1>1. \A x : Sound(x, root) /\ Apart(e, x) => Sound(x, root)'
  BY SoundCloses
<1>2. \A f, x : Apart(f, x) => Apart(f, x)'
  BY ApartGrows
<1>3. SoundWork(work, root)'
  BY <1>1 DEF Linear, SoundWork, ApartFrom
<1>4. ClosesApart(work)'
  BY <1>2 DEF Linear, ClosesApart
<1>5. QED  BY <1>3, <1>4 DEF Linear

(* The work of another run survives.                                       *)
LEMMA OtherRunApart ==
  ASSUME TypeOK, NEW e, NEW work, NEW root, SoundWork(work, root), RootOf(e) # root
  PROVE  ApartFrom(e, work)
<1>1. ASSUME NEW i \in 1..Len(work), NEW x \in Touched(work[i]) PROVE Apart(e, x)
  <2>1. IsExtent(x) /\ RootOf(x) = root
    BY <1>1 DEF SoundWork, Sound
  <2>2. QED  BY <2>1, RunsApart
<1>2. QED  BY <1>1 DEF ApartFrom

(* What is left of linear work is linear.                                  *)
LEMMA LinearRest ==
  ASSUME NEW a \in Seq(Items), NEW b \in Seq(Items), NEW root, Linear(a \o b, root)
  PROVE  Linear(b, root)
<1>1. PICK w : w = a \o b
  OBVIOUS
<1>2. Len(a) \in Nat /\ Len(b) \in Nat
  OBVIOUS
<1>3. \A i \in 1..Len(b) : Len(a) + i \in 1..Len(w) /\ w[Len(a) + i] = b[i]
  BY <1>1, <1>2, ConcatProperties
<1>4. SoundWork(w, root) /\ ClosesApart(w)
  BY <1>1 DEF Linear
<1>5. SoundWork(b, root)
  BY <1>3, <1>4 DEF SoundWork
<1>6. ClosesApart(b)
  <2>1. ASSUME NEW i \in 1..Len(b), b[i].tag = "Finish" PROVE Apart(b[i].extent, b[i].parent)
    BY <1>3, <1>4, <2>1 DEF ClosesApart
  <2>2. ASSUME NEW i \in 1..Len(b), NEW j \in 1..Len(b), i < j, b[i].tag # "Then",
               NEW x \in Touched(b[j])
        PROVE  Apart(b[i].extent, x)
    <3>1. PICK k, l \in 1..Len(w) : k = Len(a) + i /\ l = Len(a) + j
      BY <1>3
    <3>2. w[k] = b[i] /\ w[l] = b[j] /\ k < l
      BY <1>2, <1>3, <2>2, <3>1
    <3>3. QED  BY <1>4, <2>2, <3>1, <3>2 DEF ClosesApart
  <2>3. QED  BY <2>1, <2>2 DEF ClosesApart
<1>7. QED  BY <1>5, <1>6 DEF Linear

(* An item in front of work.                                               *)
LEMMA ItemFirst ==
  ASSUME NEW item \in Items, NEW b \in Seq(Items), NEW w, w = <<item>> \o b
  PROVE  /\ Len(w) \in Nat /\ 1 \in 1..Len(w) /\ w[1] = item
         /\ \A i \in 1..Len(b) : i + 1 \in 1..Len(w) /\ w[i + 1] = b[i]
         /\ \A i \in 1..Len(w) : i # 1 => \E j \in 1..Len(b) : i = j + 1
<1>1. <<item>> \in Seq(Items) /\ Len(<<item>>) = 1 /\ <<item>>[1] = item /\ Len(b) \in Nat
  OBVIOUS
<1>2. /\ Len(w) = 1 + Len(b)
      /\ \A i \in 1..(1 + Len(b)) : w[i] = IF i <= 1 THEN <<item>>[i] ELSE b[i - 1]
  BY <1>1, ConcatProperties
<1>3. ASSUME NEW i \in 1..Len(w), i # 1 PROVE i - 1 \in 1..Len(b) /\ i = (i - 1) + 1
  BY <1>1, <1>2, <1>3
<1>4. QED  BY <1>1, <1>2, <1>3

LEMMA LinearHead ==
  ASSUME NEW item \in Items, NEW b \in Seq(Items), NEW root, Linear(<<item>> \o b, root)
  PROVE  /\ Linear(b, root)
         /\ \A x \in Touched(item) : Sound(x, root)
         /\ item.tag = "Finish" => Apart(item.extent, item.parent)
         /\ item.tag # "Then" => ApartFrom(item.extent, b)
<1>1. PICK w : w = <<item>> \o b
  OBVIOUS
<1>2. /\ Len(w) \in Nat /\ 1 \in 1..Len(w) /\ w[1] = item
      /\ \A i \in 1..Len(b) : i + 1 \in 1..Len(w) /\ w[i + 1] = b[i]
  BY <1>1, ItemFirst
<1>3. SoundWork(w, root) /\ ClosesApart(w)
  BY <1>1 DEF Linear
<1>4. Linear(b, root)
  <2>1. PICK a : a = <<item>>
    OBVIOUS
  <2>2. a \in Seq(Items)
    BY <2>1
  <2>3. QED  BY <2>1, <2>2, LinearRest
<1>5. \A x \in Touched(item) : Sound(x, root)
  BY <1>2, <1>3 DEF SoundWork
<1>6. item.tag = "Finish" => Apart(item.extent, item.parent)
  BY <1>2, <1>3 DEF ClosesApart
<1>7. ASSUME item.tag # "Then", NEW i \in 1..Len(b), NEW x \in Touched(b[i])
      PROVE  Apart(item.extent, x)
  <2>1. PICK k \in 1..Len(w) : k = i + 1
    BY <1>2
  <2>2. w[k] = b[i] /\ 1 < k
    BY <1>2, <2>1
  <2>3. QED  BY <1>2, <1>3, <1>7, <2>1, <2>2 DEF ClosesApart
<1>8. QED  BY <1>4, <1>5, <1>6, <1>7 DEF ApartFrom

(* An item that is sound, and whose extent closes apart from the rest, can *)
(* be put in front of linear work.                                         *)
PushRule ==
  \A item \in Items : \A b \in Seq(Items) : \A root :
    /\ Linear(b, root)
    /\ \A x \in Touched(item) : Sound(x, root)
    /\ item.tag = "Finish" => Apart(item.extent, item.parent)
    /\ item.tag # "Then" => ApartFrom(item.extent, b)
    => Linear(<<item>> \o b, root)

LEMMA PushIsLinear == PushRule
<1> SUFFICES ASSUME NEW item \in Items, NEW b \in Seq(Items), NEW root,
                    Linear(b, root),
                    \A x \in Touched(item) : Sound(x, root),
                    item.tag = "Finish" => Apart(item.extent, item.parent),
                    item.tag # "Then" => ApartFrom(item.extent, b)
             PROVE  Linear(<<item>> \o b, root)
  BY DEF PushRule
<1>1. PICK w : w = <<item>> \o b
  OBVIOUS
<1>2. /\ Len(w) \in Nat /\ 1 \in 1..Len(w) /\ w[1] = item
      /\ \A i \in 1..Len(b) : i + 1 \in 1..Len(w) /\ w[i + 1] = b[i]
      /\ \A i \in 1..Len(w) : i # 1 => \E j \in 1..Len(b) : i = j + 1
  BY <1>1, ItemFirst
<1>3. SoundWork(b, root) /\ ClosesApart(b) /\ Len(b) \in Nat
  BY DEF Linear
<1>4. ASSUME NEW i \in 1..Len(w), NEW x \in Touched(w[i]) PROVE Sound(x, root)
  <2>1. CASE i = 1
    BY <1>2, <1>4, <2>1
  <2>2. CASE i # 1
    <3>1. PICK j \in 1..Len(b) : i = j + 1
      BY <1>2, <2>2
    <3>2. w[i] = b[j]
      BY <1>2, <3>1
    <3>3. QED  BY <1>3, <1>4, <3>2 DEF SoundWork
  <2>3. QED  BY <2>1, <2>2
<1>5. ASSUME NEW i \in 1..Len(w), w[i].tag = "Finish" PROVE Apart(w[i].extent, w[i].parent)
  <2>1. CASE i = 1
    BY <1>2, <1>5, <2>1
  <2>2. CASE i # 1
    <3>1. PICK j \in 1..Len(b) : i = j + 1
      BY <1>2, <2>2
    <3>2. w[i] = b[j]
      BY <1>2, <3>1
    <3>3. QED  BY <1>3, <1>5, <3>2 DEF ClosesApart
  <2>3. QED  BY <2>1, <2>2
<1>6. ASSUME NEW i \in 1..Len(w), NEW j \in 1..Len(w), i < j, w[i].tag # "Then",
             NEW x \in Touched(w[j])
      PROVE  Apart(w[i].extent, x)
  <2>1. PICK l \in 1..Len(b) : j = l + 1
    <3>1. j # 1
      BY <1>2, <1>6
    <3>2. QED  BY <1>2, <3>1
  <2>2. w[j] = b[l]
    BY <1>2, <2>1
  <2>3. CASE i = 1
    BY <1>2, <1>6, <2>2, <2>3 DEF ApartFrom
  <2>4. CASE i # 1
    <3>1. PICK k \in 1..Len(b) : i = k + 1
      BY <1>2, <2>4
    <3>2. w[i] = b[k] /\ k < l
      BY <1>2, <1>3, <1>6, <2>1, <3>1
    <3>3. QED  BY <1>3, <1>6, <2>2, <3>2 DEF ClosesApart
  <2>5. QED  BY <2>3, <2>4
<1>7. SoundWork(w, root) /\ ClosesApart(w)
  BY <1>4, <1>5, <1>6 DEF SoundWork, ClosesApart
<1>8. QED  BY <1>1, <1>7 DEF Linear

(* The same of the state a step leads to.                                  *)
LEMMA NewPushIsLinear == PushRule'
BY PushIsLinear, PTL

-----------------------------------------------------------------------------
(* Every activation has linear work.                                       *)

(* All that activation d has still to do: before the top activation goes   *)
(* on, what its replay has rebuilt.                                        *)
Whole(d) ==
  IF d = Depth /\ replay.pc = "rebuild"
  THEN FlatNodes[replay.todo] \o Pending(stack[d])
  ELSE Pending(stack[d])

Owed(d) == Linear(Whole(d), stack[d].root) /\ Sound(stack[d].extent, stack[d].root)

ClauseOverNothing ==
  \A d \in 1..Depth : stack[d].await = "clause" => stack[d].queue = Empty

ReplayIsSound ==
  replay.pc # "idle" => Sound(replay.active, Top.root) /\ Sound(replay.parent, Top.root)

LinearInv == (\A d \in 1..Depth : Owed(d)) /\ ClauseOverNothing /\ ReplayIsSound

LEMMA FrameLists ==
  ASSUME TypeOK, NEW d \in 1..Depth
  PROVE  /\ IsQueue(stack[d].queue) /\ stack[d].ctx \in 1..Len(contexts)
         /\ FlatNodes[stack[d].queue] \in Seq(Items)
         /\ ScopeWork[stack[d].ctx] \in Seq(Items)
         /\ Pending(stack[d]) \in Seq(Items)
         /\ FlatNodes[replay.todo] \in Seq(Items) /\ IsQueue(replay.todo)
<1>1. IsQueue(stack[d].queue) /\ stack[d].ctx \in 1..Len(contexts)
  BY DEF TypeOK, StackOK, FrameOK
<1>2. FlatNodes[stack[d].queue] \in Seq(Items) /\ ScopeWork[stack[d].ctx] \in Seq(Items)
  BY <1>1, QueueList, ListedContexts DEF ContextsListed
<1>3. Pending(stack[d]) \in Seq(Items)
  BY <1>2 DEF Pending
<1>4. FlatNodes[replay.todo] \in Seq(Items) /\ IsQueue(replay.todo)
  BY QueueList DEF TypeOK, ReplayOK
<1>5. QED  BY <1>1, <1>2, <1>3, <1>4

(* An activation that the step leaves alone has the same work after it.    *)
SameFrame(d) ==
  /\ d \in 1..Depth /\ d \in 1..Depth' /\ stack'[d] = stack[d]
  /\ \/ UNCHANGED <<stack, replay>>
     \/ (d = Depth => replay.pc # "rebuild") /\ (d = Depth' => replay'.pc # "rebuild")

LEMMA WholeKept ==
  ASSUME TypeOK, TypeOK', Grows, NEW d, SameFrame(d) PROVE Whole(d)' = Whole(d)
<1>1. d \in 1..Depth /\ d \in 1..Depth' /\ stack'[d] = stack[d]
  BY DEF SameFrame
<1>2. PICK q, c : q = stack[d].queue /\ c = stack[d].ctx
  OBVIOUS
<1>3. IsQueue(q) /\ c \in 1..Len(contexts)
  BY <1>1, <1>2, FrameLists
<1>4. FlatNodes'[q] = FlatNodes[q] /\ ScopeWork'[c] = ScopeWork[c]
  BY <1>3, ListKept, WorkKept
<1>5. Pending(stack[d])' = Pending(stack[d])
  BY <1>1, <1>2, <1>4 DEF Pending
<1>6. CASE UNCHANGED <<stack, replay>>
  <2>1. FlatNodes'[replay.todo] = FlatNodes[replay.todo]
    BY <1>1, FrameLists, ListKept
  <2>2. QED  BY <1>5, <1>6, <2>1 DEF Whole, Depth
<1>7. CASE (d = Depth => replay.pc # "rebuild") /\ (d = Depth' => replay'.pc # "rebuild")
  BY <1>5, <1>7 DEF Whole
<1>8. QED  BY <1>6, <1>7 DEF SameFrame

LEMMA OwedKept ==
  ASSUME TypeOK, TypeOK', ExtentsGrow, NEW d, SameFrame(d), Owed(d) PROVE Owed(d)'
<1>1. PICK W, r, x : W = Whole(d) /\ r = stack[d].root /\ x = stack[d].extent
  OBVIOUS
<1>2. stack'[d] = stack[d] /\ Grows
  BY DEF SameFrame, ExtentsGrow
<1>3. Whole(d)' = W /\ stack'[d].root = r /\ stack'[d].extent = x
  BY <1>1, <1>2, WholeKept
<1>4. Linear(W, r)' /\ Sound(x, r)'
  BY <1>1, LinearGrows, SoundGrows DEF Owed
<1>5. QED  BY <1>3, <1>4 DEF Owed

LEMMA OwedSurvives ==
  ASSUME TypeOK, TypeOK', Grows, NEW e, IsExtent(e), CloseBoundary(e),
         NEW d, SameFrame(d), Owed(d), RootOf(e) # stack[d].root
  PROVE  Owed(d)'
<1>1. PICK W, r, x : W = Whole(d) /\ r = stack[d].root /\ x = stack[d].extent
  OBVIOUS
<1>2. stack'[d] = stack[d]
  BY DEF SameFrame
<1>3. Whole(d)' = W /\ stack'[d].root = r /\ stack'[d].extent = x
  BY <1>1, <1>2, WholeKept
<1>4. Linear(W, r) /\ SoundWork(W, r) /\ Sound(x, r) /\ RootOf(e) # r
  BY <1>1 DEF Owed, Linear
<1>5. ApartFrom(e, W)
  BY <1>4, OtherRunApart
<1>6. Apart(e, x)
  BY <1>4, RunsApart DEF Sound
<1>7. Linear(W, r)' /\ Sound(x, r)'
  BY <1>4, <1>5, <1>6, LinearCloses, SoundCloses
<1>8. QED  BY <1>3, <1>7 DEF Owed

(* A step that leaves the activations and the replay alone.                *)
LEMMA StillLinear ==
  ASSUME TypeOK, TypeOK', ExtentsGrow, LinearInv, UNCHANGED <<stack, replay>>
  PROVE  LinearInv'
<1>1. Depth' = Depth /\ Top' = Top
  BY DEF Depth, Top
<1>2. \A d \in 1..Depth : Owed(d)'
  BY <1>1, OwedKept DEF SameFrame, LinearInv
<1>3. ClauseOverNothing'
  BY <1>1 DEF LinearInv, ClauseOverNothing
<1>4. ReplayIsSound'
  <2>1. PICK a, p, r : a = replay.active /\ p = replay.parent /\ r = Top.root
    OBVIOUS
  <2>2. replay.pc # "idle" => Sound(a, r)' /\ Sound(p, r)'
    BY <2>1, SoundGrows DEF LinearInv, ReplayIsSound
  <2>3. QED  BY <1>1, <2>1, <2>2 DEF ReplayIsSound
<1>5. QED  BY <1>1, <1>2, <1>3, <1>4 DEF LinearInv

LEMMA TopSet ==
  ASSUME TypeOK, Depth > 0, NEW frame, SetTop(frame)
  PROVE  /\ Depth' = Depth /\ stack'[Depth] = frame /\ Depth \in 1..Depth
         /\ \A d \in 1..Depth : d # Depth => stack'[d] = stack[d]
<1>1. PICK S : S = Frames \cup {frame}
  OBVIOUS
<1>2. stack \in Seq(S) /\ frame \in S /\ Depth = Len(stack)
  BY <1>1 DEF TypeOK, StackOK, Depth
<1>3. Depth \in 1..Depth
  BY TopFacts
<1>4. QED  BY <1>2, <1>3, SetTopFacts DEF SetTop, Depth

(* The activations below the top one still have linear work.               *)
OthersOwe == \A d \in 1..Depth : d # Depth => Owed(d)'

LEMMA OthersGrow ==
  ASSUME TypeOK, TypeOK', ExtentsGrow, LinearInv, Depth > 0, replay'.pc = "idle",
         NEW frame, SetTop(frame)
  PROVE  OthersOwe
<1>1. ASSUME NEW d \in 1..Depth, d # Depth PROVE Owed(d)'
  <2>1. SameFrame(d)
    BY <1>1, TopSet DEF SameFrame
  <2>2. QED  BY <2>1, OwedKept DEF LinearInv
<1>2. QED  BY <1>1 DEF OthersOwe

LEMMA OthersSurvive ==
  ASSUME TypeOK, TypeOK', Grows, LinearInv, RootsMatchRuns, Depth > 0,
         replay'.pc = "idle", NEW frame, SetTop(frame),
         NEW e, IsExtent(e), CloseBoundary(e), RootOf(e) = Top.root
  PROVE  OthersOwe
<1>1. ASSUME NEW d \in 1..Depth, d # Depth PROVE Owed(d)'
  <2>1. SameFrame(d)
    BY <1>1, TopSet DEF SameFrame
  <2>2. RootOf(e) # stack[d].root
    <3>1. Depth \in 1..Depth
      BY TopFacts
    <3>2. QED  BY <1>1, <3>1 DEF RootsMatchRuns, Top
  <2>3. Owed(d)
    BY DEF LinearInv
  <2>4. QED  BY <2>1, <2>2, <2>3, OwedSurvives
<1>2. QED  BY <1>1 DEF OthersOwe

(* A step that replaces the top activation, with no replay after it.       *)
LEMMA TopLinear ==
  ASSUME TypeOK, LinearInv, OthersOwe, Depth > 0, replay'.pc = "idle",
         NEW frame, SetTop(frame), frame.root = Top.root,
         frame.await = "clause" => frame.queue = Empty,
         NEW W, W = FlatNodes'[frame.queue] \o ScopeWork'[frame.ctx],
         NEW r, r = Top.root, Linear(W, r)', NEW x, x = frame.extent, Sound(x, r)'
  PROVE  LinearInv'
<1>1. /\ Depth' = Depth /\ stack'[Depth] = frame /\ Depth \in 1..Depth
      /\ \A d \in 1..Depth : d # Depth => stack'[d] = stack[d]
  BY TopSet
<1>2. Owed(Depth)'
  <2>1. Whole(Depth)' = W
    BY <1>1 DEF Whole, Pending
  <2>2. stack'[Depth'].root = r /\ stack'[Depth'].extent = x
    BY <1>1
  <2>3. QED  BY <2>1, <2>2 DEF Owed
<1>3. ClauseOverNothing'
  BY <1>1 DEF LinearInv, ClauseOverNothing
<1>4. ReplayIsSound'
  BY DEF ReplayIsSound
<1>5. \A d \in 1..Depth' : Owed(d)'
  BY <1>1, <1>2 DEF OthersOwe
<1>6. QED  BY <1>3, <1>4, <1>5 DEF LinearInv

LEMMA TopOwes ==
  ASSUME TypeOK, LinearInv, Depth > 0, replay.pc # "rebuild"
  PROVE  /\ Linear(FlatNodes[Top.queue] \o ScopeWork[Top.ctx], Top.root)
         /\ Sound(Top.extent, Top.root)
         /\ IsQueue(Top.queue) /\ Top.ctx \in 1..Len(contexts)
         /\ FlatNodes[Top.queue] \in Seq(Items) /\ ScopeWork[Top.ctx] \in Seq(Items)
<1>1. Depth \in 1..Depth
  BY TopFacts
<1>2. Owed(Depth) /\ Whole(Depth) = Pending(Top)
  BY <1>1 DEF LinearInv, Whole, Top
<1>3. QED  BY <1>1, <1>2, FrameLists DEF Owed, Pending, Top

-----------------------------------------------------------------------------
(* The executor's steps keep the work of every activation linear.          *)

LEMMA SameExtents ==
  ASSUME TypeOK, TypeOK', Grows, UNCHANGED extents PROVE ExtentsGrow
BY DEF ExtentsGrow

(* A step that only gives the top activation another queue.                *)
LEMMA TopNewQueue ==
  ASSUME TypeOK, TypeOK', Grows, UNCHANGED <<extents, replay>>, LinearInv,
         Depth > 0, replay.pc = "idle",
         NEW frame, SetTop(frame), frame.root = Top.root, frame.extent = Top.extent,
         frame.ctx = Top.ctx, frame.await = "clause" => frame.queue = Empty,
         NEW F, F = FlatNodes'[frame.queue],
         Linear(F \o ScopeWork[Top.ctx], Top.root)
  PROVE  LinearInv'
<1>1. PICK W, r, x : W = F \o ScopeWork[Top.ctx] /\ r = Top.root /\ x = Top.extent
  OBVIOUS
<1>2. ExtentsGrow
  BY SameExtents
<1>3. Sound(x, r) /\ Top.ctx \in 1..Len(contexts)
  BY <1>1, TopOwes
<1>4. Linear(W, r)' /\ Sound(x, r)'
  BY <1>1, <1>2, <1>3, LinearGrows, SoundGrows
<1>5. ScopeWork'[Top.ctx] = ScopeWork[Top.ctx]
  BY <1>3, WorkKept
<1>6. W = FlatNodes'[frame.queue] \o ScopeWork'[frame.ctx]
  BY <1>1, <1>5
<1>7. replay'.pc = "idle"
  OBVIOUS
<1>8. OthersOwe
  BY <1>2, <1>7, OthersGrow
<1>9. QED  BY <1>1, <1>4, <1>6, <1>7, <1>8, TopLinear

(* Work without its first item.                                            *)
LEMMA DropFirst ==
  ASSUME NEW item, <<item>> \in Seq(Items), NEW a \in Seq(Items), NEW b \in Seq(Items),
         NEW root, Linear((<<item>> \o a) \o b, root)
  PROVE  Linear(a \o b, root)
<1>1. PICK i, w \in Seq(Items) : i = <<item>> /\ w = a \o b
  BY ConcatItems
<1>2. (<<item>> \o a) \o b = i \o w
  BY <1>1, ListsAssociate
<1>3. Linear(i \o w, root)
  BY <1>2
<1>4. QED  BY <1>1, <1>3, LinearRest

LEMMA ReturnClauseLinear ==
  ASSUME TypeOK, LinearInv, ReturnClause PROVE LinearInv'
<1>1. TypeOK' /\ Grows
  BY NextGrows DEF Next, MachineStep, ExecutorStep
<1>2. /\ Depth > 0 /\ replay.pc = "idle" /\ Kind(Top.queue) = "Empty"
      /\ UNCHANGED <<extents, replay>>
  BY DEF ReturnClause, Returning, Dispatching, heapVars
<1>3. PICK frame : frame = [Top EXCEPT !.await = "clause", !.callee = NoCallee,
                                       !.queue = Empty, !.comp = NoComp]
  OBVIOUS
<1>4. /\ SetTop(frame) /\ frame.root = Top.root /\ frame.extent = Top.extent
      /\ frame.ctx = Top.ctx /\ frame.queue = Empty
  BY <1>2, <1>3, TopFacts DEF ReturnClause, Apply, Frames
<1>5. PICK F : F = FlatNodes'[frame.queue]
  OBVIOUS
<1>6. F = FlatNodes[Top.queue]
  <2>1. FlatNodes'[Empty] = <<>>
    BY <1>1, NewListedNodes DEF NodesListed
  <2>2. FlatNodes[Top.queue] = <<>>
    BY <1>2, EmptyList, TopOwes
  <2>3. QED  BY <1>4, <1>5, <2>1, <2>2
<1>7. Linear(F \o ScopeWork[Top.ctx], Top.root)
  BY <1>2, <1>6, TopOwes
<1>8. QED  BY <1>1, <1>2, <1>4, <1>5, <1>7, TopNewQueue

LEMMA ReturnConsLinear ==
  ASSUME TypeOK, LinearInv, ReturnCons PROVE LinearInv'
<1>1. TypeOK' /\ Grows
  BY NextGrows DEF Next, MachineStep, ExecutorStep
<1>2. /\ Depth > 0 /\ replay.pc = "idle" /\ Kind(Top.queue) = "Cons"
      /\ UNCHANGED <<extents, replay>>
  BY DEF ReturnCons, Returning, Dispatching, heapVars
<1>3. PICK node : node = nodes[Top.queue]
  OBVIOUS
<1>4. PICK frame : frame = [Top EXCEPT !.await = "next", !.callee = node.head,
                                       !.queue = node.tail, !.comp = NoComp]
  OBVIOUS
<1>5. /\ SetTop(frame) /\ frame.root = Top.root /\ frame.extent = Top.extent
      /\ frame.ctx = Top.ctx /\ frame.queue = node.tail /\ frame.await = "next"
  BY <1>2, <1>3, <1>4, TopFacts DEF ReturnCons, Apply, Frames
<1>6. /\ Linear(FlatNodes[Top.queue] \o ScopeWork[Top.ctx], Top.root)
      /\ IsQueue(Top.queue) /\ ScopeWork[Top.ctx] \in Seq(Items)
  BY <1>2, TopOwes
<1>7. IsQueue(node.tail) /\ node.head \in Callbacks
  BY <1>2, <1>3, <1>6, ConsFacts
<1>8. PICK F, W : F = FlatNodes[node.tail] /\ W = ScopeWork[Top.ctx]
  OBVIOUS
<1>9. F \in Seq(Items) /\ W \in Seq(Items) /\ <<Then(node.head)>> \in Seq(Items)
  BY <1>6, <1>7, <1>8, QueueList, ItemsMade
<1>10. Linear((<<Then(node.head)>> \o F) \o W, Top.root)
  BY <1>2, <1>3, <1>6, <1>8, ConsList
<1>11. Linear(F \o W, Top.root)
  BY <1>9, <1>10, DropFirst
<1>12. F = FlatNodes'[frame.queue]
  BY <1>1, <1>5, <1>7, <1>8, ListKept
<1>13. QED  BY <1>1, <1>2, <1>5, <1>8, <1>11, <1>12, TopNewQueue

LEMMA ReturnAppendConsLinear ==
  ASSUME TypeOK, LinearInv, ReturnAppendCons PROVE LinearInv'
<1>1. TypeOK' /\ Grows
  BY NextGrows DEF Next, MachineStep, ExecutorStep
<1>2. /\ Depth > 0 /\ replay.pc = "idle" /\ Kind(Top.queue) = "Append"
      /\ Kind(Left) = "Cons" /\ UNCHANGED <<extents, replay>>
  BY DEF ReturnAppendCons, Returning, Dispatching
<1>3. PICK node, right : node = nodes[Left] /\ right = Right
  OBVIOUS
<1>4. PICK pending : pending = AppendNode(node.tail, right)
  OBVIOUS
<1>5. PICK ref : ref = Ref(nodes, pending)
  OBVIOUS
<1>6. PICK frame : frame = [Top EXCEPT !.await = "next", !.callee = node.head,
                                       !.queue = ref, !.comp = NoComp]
  OBVIOUS
<1>7. /\ SetTop(frame) /\ frame.root = Top.root /\ frame.extent = Top.extent
      /\ frame.ctx = Top.ctx /\ frame.queue = ref /\ frame.await = "next"
      /\ nodes' = Allocate(nodes, pending)
  <2>1. SetTop(frame) /\ nodes' = Allocate(nodes, pending)
    BY <1>3, <1>4, <1>5, <1>6 DEF ReturnAppendCons, Apply
  <2>2. QED  BY <1>2, <1>6, <2>1, TopFacts DEF Frames
<1>8. /\ Linear(FlatNodes[Top.queue] \o ScopeWork[Top.ctx], Top.root)
      /\ IsQueue(Top.queue) /\ ScopeWork[Top.ctx] \in Seq(Items)
  BY <1>2, TopOwes
<1>9. IsQueue(Left) /\ IsQueue(right)
  BY <1>2, <1>3, <1>8, AppendFacts DEF Left, Right
<1>10. IsQueue(node.tail) /\ node.head \in Callbacks
  BY <1>2, <1>3, <1>9, ConsFacts
<1>11. PICK i, a, b, w : /\ i = <<Then(node.head)>> /\ a = FlatNodes[node.tail]
                         /\ b = FlatNodes[right] /\ w = ScopeWork[Top.ctx]
  OBVIOUS
<1>12. a \in Seq(Items) /\ b \in Seq(Items) /\ w \in Seq(Items) /\ i \in Seq(Items)
  BY <1>8, <1>9, <1>10, <1>11, QueueList, ItemsMade
<1>13. FlatNodes[Top.queue] = (i \o a) \o b
  <2>1. FlatNodes[Top.queue] = FlatNodes[Left] \o b
    BY <1>2, <1>3, <1>8, <1>11, AppendList DEF Left, Right
  <2>2. FlatNodes[Left] = i \o a
    BY <1>2, <1>3, <1>9, <1>11, ConsList
  <2>3. QED  BY <2>1, <2>2
<1>14. PICK F \in Seq(Items) : F = a \o b
  BY <1>12, ConcatItems
<1>15. FlatNodes[Top.queue] = i \o F
  BY <1>12, <1>13, <1>14, ListsAssociate
<1>16. Linear((i \o F) \o w, Top.root)
  BY <1>8, <1>11, <1>15
<1>17. Linear(F \o w, Top.root)
  BY <1>11, <1>12, <1>16, DropFirst
<1>18. F = FlatNodes'[frame.queue]
  <2>1. PICK left : left = node.tail
    OBVIOUS
  <2>2. IsQueue(left) /\ pending = AppendNode(left, right) /\ a = FlatNodes[left]
    BY <1>4, <1>10, <1>11, <2>1
  <2>3. /\ TypeOK' /\ Grows /\ IsQueue(left) /\ IsQueue(right)
        /\ nodes' = Allocate(nodes, pending) /\ ref = Ref(nodes, pending)
    BY <1>1, <1>5, <1>7, <1>9, <2>2
  <2>4. FlatNodes'[ref] = FlatNodes[left] \o FlatNodes[right]
    BY <2>2, <2>3, NewAppend
  <2>5. QED  BY <1>7, <1>11, <1>14, <2>2, <2>4
<1>19. QED  BY <1>1, <1>2, <1>7, <1>11, <1>17, <1>18, TopNewQueue

(* Rotating an Append, on a return or before a handle.                     *)
LEMMA RotateLinear ==
  ASSUME TypeOK, LinearInv, ReturnRotate \/ HandleNormalize PROVE LinearInv'
<1>1. TypeOK' /\ Grows
  BY NextGrows DEF Next, MachineStep, ExecutorStep
<1>2. /\ Depth > 0 /\ replay.pc = "idle" /\ Kind(Top.queue) = "Append"
      /\ Top.await = "none" /\ UNCHANGED <<extents, replay>>
      /\ RotateEmpty \/ \E kind \in {"Cons", "Append", "Finish"} : Rotate(kind)
  BY DEF ReturnRotate, HandleNormalize, Returning, Handling, Dispatching
<1>3. PICK q : SetTop([Top EXCEPT !.queue = q]) /\ FlatNodes'[q] = FlatNodes[Top.queue]
  BY <1>1, <1>2, RotateList
<1>4. PICK frame : frame = [Top EXCEPT !.queue = q]
  OBVIOUS
<1>5. /\ SetTop(frame) /\ frame.root = Top.root /\ frame.extent = Top.extent
      /\ frame.ctx = Top.ctx /\ frame.queue = q /\ frame.await = "none"
  BY <1>2, <1>3, <1>4, TopFacts DEF Frames
<1>6. PICK F : F = FlatNodes'[frame.queue]
  OBVIOUS
<1>7. Linear(F \o ScopeWork[Top.ctx], Top.root)
  BY <1>2, <1>3, <1>5, <1>6, TopOwes
<1>8. QED  BY <1>1, <1>2, <1>5, <1>6, <1>7, TopNewQueue

(* A request takes the queue with it and leaves the open scopes.           *)
LEMMA PerformLinear ==
  ASSUME TypeOK, LinearInv, Perform PROVE LinearInv'
<1>1. TypeOK' /\ Grows
  BY NextGrows DEF Next, MachineStep, ExecutorStep
<1>2. Depth > 0 /\ replay.pc = "idle" /\ UNCHANGED <<extents, replay>>
  BY DEF Perform, Dispatching
<1>3. PICK await : await = IF Context.tag = "Root" THEN "root" ELSE "clause"
  OBVIOUS
<1>4. PICK frame : frame = [Top EXCEPT !.await = await, !.callee = NoCallee,
                                       !.queue = Empty, !.comp = NoComp]
  OBVIOUS
<1>5. /\ SetTop(frame) /\ frame.root = Top.root /\ frame.extent = Top.extent
      /\ frame.ctx = Top.ctx /\ frame.queue = Empty
  BY <1>2, <1>3, <1>4, TopFacts DEF Perform, Apply, Frames
<1>6. PICK a, w : a = FlatNodes[Top.queue] /\ w = ScopeWork[Top.ctx]
  OBVIOUS
<1>7. Linear(a \o w, Top.root) /\ a \in Seq(Items) /\ w \in Seq(Items)
  BY <1>2, <1>6, TopOwes
<1>8. PICK F : F = FlatNodes'[frame.queue]
  OBVIOUS
<1>9. F \o w = w
  <2>1. FlatNodes'[Empty] = <<>>
    BY <1>1, NewListedNodes DEF NodesListed
  <2>2. QED  BY <1>5, <1>7, <1>8, <2>1, ConcatItems
<1>10. Linear(F \o w, Top.root)
  BY <1>7, <1>9, LinearRest
<1>11. QED  BY <1>1, <1>2, <1>5, <1>6, <1>8, <1>10, TopNewQueue

LEMMA BindLinear ==
  ASSUME TypeOK, LinearInv, Bind PROVE LinearInv'
<1>1. TypeOK' /\ Grows
  BY NextGrows DEF Next, MachineStep, ExecutorStep
<1>2. /\ Depth > 0 /\ replay.pc = "idle" /\ Top.await = "none" /\ Top.comp.tag = "Bind"
      /\ UNCHANGED <<extents, replay>>
  BY DEF Bind, Dispatching
<1>3. PICK then, inner : then = Top.comp.then /\ inner = Text[Top.comp.inner]
  OBVIOUS
<1>4. PICK pending : pending = ConsNode(then, Top.queue)
  OBVIOUS
<1>5. PICK ref : ref = Ref(nodes, pending)
  OBVIOUS
<1>6. PICK frame : frame = [Top EXCEPT !.comp = inner, !.queue = ref]
  OBVIOUS
<1>7. SetTop(frame) /\ nodes' = Allocate(nodes, pending)
  BY <1>3, <1>4, <1>5, <1>6 DEF Bind
<1>8. /\ frame.root = Top.root /\ frame.extent = Top.extent
      /\ frame.ctx = Top.ctx /\ frame.queue = ref /\ frame.await = "none"
  BY <1>2, <1>6, TopFacts DEF Frames
<1>9. /\ Linear(FlatNodes[Top.queue] \o ScopeWork[Top.ctx], Top.root)
      /\ IsQueue(Top.queue) /\ ScopeWork[Top.ctx] \in Seq(Items)
  BY <1>2, TopOwes
<1>10. then \in Callbacks
  <2>1. Top.comp \in Computations
    BY <1>2, TopFacts DEF Frames
  <2>2. QED  BY <1>2, <1>3, <2>1, ComputationFacts
<1>11. PICK i, a, w : i = Then(then) /\ a = FlatNodes[Top.queue] /\ w = ScopeWork[Top.ctx]
  OBVIOUS
<1>12. i \in Items /\ <<i>> \in Seq(Items) /\ a \in Seq(Items) /\ w \in Seq(Items)
       /\ i.tag = "Then" /\ Touched(i) = {}
  BY <1>9, <1>10, <1>11, QueueList, ItemsMade DEF Then, Items, Touched
<1>13. PICK b \in Seq(Items) : b = a \o w
  BY <1>12, ConcatItems
<1>14. Linear(<<i>> \o b, Top.root)
  BY <1>9, <1>11, <1>12, <1>13, PushIsLinear DEF PushRule
<1>15. PICK F : F = FlatNodes'[frame.queue]
  OBVIOUS
<1>16. F = <<i>> \o a
  BY <1>1, <1>4, <1>5, <1>7, <1>8, <1>9, <1>10, <1>11, <1>15, NewCons
<1>17. F \o w = <<i>> \o b
  <2>1. PICK l \in Seq(Items) : l = <<i>>
    BY <1>12
  <2>2. QED  BY <1>12, <1>13, <1>16, <2>1, ListsAssociate
<1>18. Linear(F \o ScopeWork[Top.ctx], Top.root)
  BY <1>11, <1>14, <1>17
<1>19. QED  BY <1>1, <1>2, <1>7, <1>8, <1>15, <1>18, TopNewQueue

(* A finish closes its extent, which nothing that is left refers to.       *)
LEMMA ReturnFinishLinear ==
  ASSUME TypeOK, RootsMatchRuns, LinearInv, ReturnFinish PROVE LinearInv'
<1>1. TypeOK' /\ Grows
  BY NextGrows DEF Next, MachineStep, ExecutorStep
<1>2. /\ Depth > 0 /\ replay.pc = "idle" /\ Kind(Top.queue) = "Finish"
      /\ Top.await = "none" /\ replay'.pc = "idle"
  BY DEF ReturnFinish, Returning, Dispatching
<1>3. PICK node : node = nodes[Top.queue]
  OBVIOUS
<1>4. PICK frame : frame = [Top EXCEPT !.queue = node.rest, !.extent = node.parent]
  OBVIOUS
<1>5. SetTop(frame) /\ CloseBoundary(node.extent)
  BY <1>3, <1>4 DEF ReturnFinish
<1>6. /\ frame.root = Top.root /\ frame.extent = node.parent
      /\ frame.ctx = Top.ctx /\ frame.queue = node.rest /\ frame.await = "none"
  BY <1>2, <1>4, TopFacts DEF Frames
<1>7. /\ Linear(FlatNodes[Top.queue] \o ScopeWork[Top.ctx], Top.root)
      /\ IsQueue(Top.queue) /\ Top.ctx \in 1..Len(contexts)
      /\ ScopeWork[Top.ctx] \in Seq(Items)
  BY <1>2, TopOwes
<1>8. /\ IsQueue(node.rest) /\ IsExtent(node.extent) /\ IsExtent(node.parent)
      /\ node.extent \in Nat /\ node.parent \in Nat
  <2>1. IsQueue(node.rest) /\ IsExtent(node.extent) /\ IsExtent(node.parent)
    BY <1>2, <1>3, <1>7, FinishFacts DEF IsScoped
  <2>2. QED  BY <2>1, LengthsAreNat DEF IsExtent
<1>9. PICK e, p, i, a, w, r : /\ e = node.extent /\ p = node.parent /\ i = Marker(e, p)
                              /\ a = FlatNodes[node.rest] /\ w = ScopeWork[Top.ctx]
                              /\ r = Top.root
  OBVIOUS
<1>10. /\ a \in Seq(Items) /\ w \in Seq(Items) /\ i \in Items /\ <<i>> \in Seq(Items)
       /\ i.tag = "Finish" /\ i.extent = e /\ i.parent = p /\ Touched(i) = {e, p}
  <2>1. i \in Items /\ i.tag = "Finish" /\ i.extent = e /\ i.parent = p
    BY <1>8, <1>9 DEF Marker, Items
  <2>2. Touched(i) = {e, p}
    BY <2>1, ItemCases
  <2>3. QED  BY <1>7, <1>8, <1>9, <2>1, <2>2, QueueList
<1>11. PICK W \in Seq(Items) : W = a \o w
  BY <1>10, ConcatItems
<1>12. Linear(<<i>> \o W, r)
  <2>1. FlatNodes[Top.queue] = <<i>> \o a
    BY <1>2, <1>3, <1>7, <1>9, FinishList
  <2>2. PICK l \in Seq(Items) : l = <<i>>
    BY <1>10
  <2>3. (l \o a) \o w = l \o W
    BY <1>10, <1>11, ListsAssociate
  <2>4. QED  BY <1>7, <1>9, <2>1, <2>2, <2>3
<1>13. Linear(W, r) /\ Sound(e, r) /\ Sound(p, r) /\ Apart(e, p) /\ ApartFrom(e, W)
  BY <1>10, <1>12, LinearHead
<1>14. Linear(W, r)'
  BY <1>1, <1>5, <1>8, <1>9, <1>13, LinearCloses
<1>15. Sound(p, r)'
  BY <1>1, <1>5, <1>8, <1>9, <1>13, SoundCloses
<1>16. OthersOwe
  <2>1. RootOf(e) = Top.root
    BY <1>9, <1>13 DEF Sound
  <2>2. QED  BY <1>1, <1>2, <1>5, <1>8, <1>9, <2>1, OthersSurvive
<1>17. W = FlatNodes'[frame.queue] \o ScopeWork'[frame.ctx]
  <2>1. PICK rest, c : rest = node.rest /\ c = Top.ctx
    OBVIOUS
  <2>2. FlatNodes'[rest] = FlatNodes[rest] /\ ScopeWork'[c] = ScopeWork[c]
    BY <1>1, <1>7, <1>8, <2>1, ListKept, WorkKept
  <2>3. QED  BY <1>6, <1>9, <1>11, <2>1, <2>2
<1>18. QED  BY <1>2, <1>5, <1>6, <1>9, <1>14, <1>15, <1>16, <1>17, TopLinear

(* The end of an activation closes the root of its run.                    *)
LEMMA PopLinear ==
  ASSUME TypeOK, TypeOK', Grows, RootsMatchRuns, LinearInv, Depth > 0, Pop,
         CloseBoundary(Top.root), replay'.pc = "idle"
  PROVE  LinearInv'
<1>1. /\ Depth \in Nat /\ Depth' = Depth - 1
      /\ \A d \in 1..Depth' : stack'[d] = stack[d] /\ d \in 1..Depth /\ d # Depth
  BY PoppedActivations
<1>2. PICK e : e = Top.root
  OBVIOUS
<1>3. IsExtent(e) /\ RootOf(e) = Top.root
  <2>1. IsRoot(e) /\ ExtentsOK
    BY <1>2, TopFacts DEF FrameOK, TypeOK
  <2>2. QED  BY <1>2, <2>1, RootStep DEF IsRoot, IsExtent
<1>4. ASSUME NEW d \in 1..Depth' PROVE Owed(d)'
  <2>1. SameFrame(d) /\ Owed(d)
    BY <1>1 DEF SameFrame, LinearInv
  <2>2. RootOf(e) # stack[d].root
    <3>1. Depth \in 1..Depth
      BY TopFacts
    <3>2. QED  BY <1>1, <1>3, <3>1 DEF RootsMatchRuns, Top
  <2>3. QED  BY <1>2, <1>3, <2>1, <2>2, OwedSurvives
<1>5. ClauseOverNothing'
  BY <1>1 DEF LinearInv, ClauseOverNothing
<1>6. ReplayIsSound'
  BY DEF ReplayIsSound
<1>7. QED  BY <1>4, <1>5, <1>6 DEF LinearInv

LEMMA LeaveLinear ==
  ASSUME TypeOK, RootsMatchRuns, LinearInv, Publish \/ Throw \/ Exhaust
  PROVE  LinearInv'
<1>1. TypeOK' /\ Grows
  BY NextGrows DEF Next, MachineStep, ExecutorStep, GuestStep
<1>2. CASE Publish
  <2>1. Depth > 0 /\ Pop /\ CloseBoundary(Top.root) /\ replay'.pc = "idle"
    BY <1>2 DEF Publish, Returning, Dispatching
  <2>2. QED  BY <1>1, <2>1, PopLinear
<1>3. CASE Throw
  <2>1. Depth > 0 /\ Pop /\ CloseBoundary(Top.root) /\ Top.await # "none" /\ UNCHANGED replay
    BY <1>3 DEF Throw, GuestRuns
  <2>2. replay'.pc = "idle"
    BY <2>1 DEF TypeOK, ReplayOK
  <2>3. QED  BY <1>1, <2>1, <2>2, PopLinear
<1>4. CASE Exhaust
  <2>1. Depth > 0 /\ Pop /\ CloseBoundary(Top.root) /\ replay'.pc = "idle"
    BY <1>4, ExhaustFacts DEF Exhaust, Idle
  <2>2. QED  BY <1>1, <2>1, PopLinear
<1>5. QED  BY <1>2, <1>3, <1>4

-----------------------------------------------------------------------------
(* Scopes are entered and left without disturbing what is owed.            *)

(* The work of a scope: its finish, over what was saved and its caller's.  *)
ScopeList(e, parent, saved, caller) ==
  <<Marker(e, parent)>> \o FlatNodes[saved] \o ScopeWork[caller]

(* The work left in a context that the step allocates.                     *)
LEMMA NewScopeWork ==
  ASSUME TypeOK, TypeOK', Grows, NEW saved, IsQueue(saved), NEW parent \in Nat,
         NEW caller \in 1..Len(contexts), NEW e \in Nat,
         NEW context, context = ScopedContext(saved, parent, caller, e),
         contexts' = Allocate(contexts, context), NEW ref, ref = Ref(contexts, context)
  PROVE  ScopeWork'[ref] = ScopeList(e, parent, saved, caller)
<1>1. /\ context.tag = "Scoped" /\ context.extent = e /\ context.parent = parent
      /\ context.saved = saved /\ context.caller = caller /\ context \in Contexts
  <2>1. saved \in Nat /\ caller \in Nat
    BY LengthsAreNat DEF IsQueue
  <2>2. QED  BY <2>1 DEF ScopedContext, Contexts
<1>2. ref \in 1..Len(contexts') /\ contexts'[ref] = context
  BY <1>1, ContextsGrow
<1>3. ContextsListed'
  BY NewListedContexts
<1>4. ScopeWork'[ref] = <<Marker(context.extent, context.parent)>>
                          \o FlatNodes'[context.saved] \o ScopeWork'[context.caller]
  <2>1. contexts'[ref].tag = "Scoped"
    BY <1>1, <1>2
  <2>2. ScopeWork'[ref] = <<Marker(contexts'[ref].extent, contexts'[ref].parent)>>
                            \o FlatNodes'[contexts'[ref].saved]
                            \o ScopeWork'[contexts'[ref].caller]
    BY <1>2, <1>3, <2>1, Zenon DEF ContextsListed, Marker
  <2>3. QED  BY <1>2, <2>2
<1>5. FlatNodes'[saved] = FlatNodes[saved] /\ ScopeWork'[caller] = ScopeWork[caller]
  BY ListKept, WorkKept
<1>6. QED  BY <1>1, <1>4, <1>5 DEF ScopeList

LEMMA NewRootWork ==
  ASSUME TypeOK, TypeOK', NEW e \in Nat,
         NEW context, context = RootContext(e),
         contexts' = Allocate(contexts, context), NEW ref, ref = Ref(contexts, context)
  PROVE  ScopeWork'[ref] = <<RootItem(e)>>
<1>1. context.tag = "Root" /\ context.extent = e /\ context \in Contexts
  BY DEF RootContext, Contexts
<1>2. ref \in 1..Len(contexts') /\ contexts'[ref] = context
  BY <1>1, ContextsGrow
<1>3. ContextsListed'
  BY NewListedContexts
<1>4. contexts'[ref].tag = "Root" /\ contexts'[ref].extent = e
  BY <1>1, <1>2 DEF RootContext
<1>5. ScopeWork'[ref] = <<RootItem(contexts'[ref].extent)>>
  BY <1>2, <1>3, <1>4, Zenon DEF ContextsListed, RootItem
<1>6. QED  BY <1>4, <1>5

(* The source of a handle runs with nothing pending in its own scope.      *)
LEMMA EnterLinear ==
  ASSUME TypeOK, TypeOK', ExtentsGrow, LinearInv, Depth > 0, replay'.pc = "idle",
         Top.await = "none", NEW saved, IsQueue(saved), NEW parent \in Nat,
         NEW e \in Nat, EnterSource(saved, parent, e),
         NEW W, W = ScopeList(e, parent, saved, Top.ctx),
         W \in Seq(Items), NEW r, r = Top.root, Linear(W, r)', Sound(e, r)'
  PROVE  LinearInv'
<1>1. Grows /\ Top.ctx \in 1..Len(contexts)
  BY TopFacts DEF ExtentsGrow, FrameOK
<1>2. PICK context : context = ScopedContext(saved, parent, Top.ctx, e)
  OBVIOUS
<1>3. PICK ref, comp : ref = Ref(contexts, context) /\ comp = Text[Top.comp.source]
  OBVIOUS
<1>4. PICK frame : frame = [Top EXCEPT !.comp = comp, !.queue = Empty,
                                       !.extent = e, !.ctx = ref]
  OBVIOUS
<1>5. SetTop(frame) /\ contexts' = Allocate(contexts, context)
  BY <1>2, <1>3, <1>4 DEF EnterSource
<1>6. /\ frame.root = r /\ frame.extent = e /\ frame.ctx = ref /\ frame.queue = Empty
      /\ frame.await = "none"
  BY <1>4, TopFacts DEF Frames
<1>7. ScopeWork'[ref] = W
  <2>1. PICK c \in 1..Len(contexts) : c = Top.ctx
    BY <1>1
  <2>2. context = ScopedContext(saved, parent, c, e)
    BY <1>2, <2>1
  <2>3. Grows /\ contexts' = Allocate(contexts, context) /\ ref = Ref(contexts, context)
    BY <1>1, <1>3, <1>5
  <2>4. ScopeWork'[ref] = ScopeList(e, parent, saved, c)
    BY <2>2, <2>3, NewScopeWork
  <2>5. QED  BY <2>1, <2>4
<1>8. W = FlatNodes'[frame.queue] \o ScopeWork'[frame.ctx]
  <2>1. FlatNodes'[Empty] = <<>>
    BY NewListedNodes DEF NodesListed
  <2>2. <<>> \o W = W
    BY ConcatItems
  <2>3. QED  BY <1>6, <1>7, <2>1, <2>2
<1>9. OthersOwe
  BY <1>5, OthersGrow
<1>10. QED  BY <1>5, <1>6, <1>8, <1>9, TopLinear

(* A handle opens a fresh extent, apart from all that is owed.             *)
LEMMA HandleFreshLinear ==
  ASSUME TypeOK, LinearInv, HandleFresh PROVE LinearInv'
<1>1. TypeOK' /\ Grows
  BY NextGrows DEF Next, MachineStep, ExecutorStep
<1>2. /\ Depth > 0 /\ replay.pc = "idle" /\ Top.await = "none" /\ replay'.pc = "idle"
      /\ extents' = FreshExtent(Top.extent)
  BY DEF HandleFresh, Handling, Dispatching
<1>3. PICK e, p, saved, r : /\ e = Len(extents) + 1 /\ p = Top.extent
                            /\ saved = Top.queue /\ r = Top.root
  OBVIOUS
<1>4. EnterSource(saved, p, e) /\ extents' = FreshExtent(p)
  BY <1>2, <1>3 DEF HandleFresh
<1>5. PICK a, w : a = FlatNodes[saved] /\ w = ScopeWork[Top.ctx]
  OBVIOUS
<1>6. PICK V : V = a \o w
  OBVIOUS
<1>7. /\ Linear(V, r) /\ Sound(p, r) /\ IsQueue(saved)
      /\ a \in Seq(Items) /\ w \in Seq(Items) /\ V \in Seq(Items)
  BY <1>2, <1>3, <1>5, <1>6, TopOwes, ConcatItems
<1>8. IsExtent(p) /\ p \in Nat /\ e \in Nat
  <2>1. IsExtent(p)
    BY <1>7 DEF Sound
  <2>2. QED  BY <1>3, <2>1, LengthsAreNat DEF IsExtent
<1>9. ExtentsGrow
  BY <1>1, <1>4, <1>8, FreshExtentFacts DEF ExtentsGrow
<1>10. Sound(e, r)' /\ \A x, s : Sound(x, s) => Apart(e, x)'
  BY <1>1, <1>3, <1>4, <1>7, <1>9, FreshSound
<1>11. Linear(V, r)' /\ Sound(p, r)'
  BY <1>1, <1>7, <1>9, LinearGrows, SoundGrows
<1>12. ApartFrom(e, V)' /\ Apart(e, p)'
  <2>1. \A k \in 1..Len(V) : \A x \in Touched(V[k]) : Sound(x, r)
    BY <1>7 DEF Linear, SoundWork
  <2>2. \A k \in 1..Len(V) : \A x \in Touched(V[k]) : Apart(e, x)'
    BY <1>10, <2>1
  <2>3. QED  BY <1>7, <1>10, <2>2 DEF ApartFrom
<1>13. PICK i : i = Marker(e, p)
  OBVIOUS
<1>14. /\ i \in Items /\ i.tag = "Finish" /\ i.extent = e /\ i.parent = p
       /\ Touched(i) = {e, p} /\ <<i>> \in Seq(Items)
  <2>1. i \in Items /\ i.tag = "Finish" /\ i.extent = e /\ i.parent = p
    BY <1>8, <1>13 DEF Marker, Items
  <2>2. QED  BY <2>1, ItemCases
<1>15. PICK W : W = <<i>> \o V
  OBVIOUS
<1>16. Linear(W, r)'
  <2>1. \A x \in Touched(i) : Sound(x, r)'
    BY <1>10, <1>11, <1>14
  <2>2. QED  BY <1>7, <1>11, <1>12, <1>14, <1>15, <2>1, NewPushIsLinear DEF PushRule
<1>17. W = ScopeList(e, p, saved, Top.ctx) /\ W \in Seq(Items)
  <2>1. PICK l \in Seq(Items) : l = <<i>>
    BY <1>14
  <2>2. W = (l \o a) \o w
    BY <1>6, <1>7, <1>15, <2>1, ListsAssociate
  <2>3. W \in Seq(Items)
    BY <1>7, <1>15, <2>1, ConcatItems
  <2>4. QED  BY <1>5, <1>13, <2>1, <2>2, <2>3 DEF ScopeList
<1>18. QED
  BY <1>1, <1>2, <1>3, <1>4, <1>7, <1>8, <1>9, <1>10, <1>16, <1>17, EnterLinear

(* A handle before a finish takes over its extent: the list is the same.   *)
LEMMA HandleFinishLinear ==
  ASSUME TypeOK, LinearInv, HandleFinish PROVE LinearInv'
<1>1. TypeOK' /\ Grows
  BY NextGrows DEF Next, MachineStep, ExecutorStep
<1>2. /\ Depth > 0 /\ replay.pc = "idle" /\ Top.await = "none" /\ replay'.pc = "idle"
      /\ Kind(Top.queue) = "Finish" /\ UNCHANGED extents
  BY DEF HandleFinish, Handling, Dispatching
<1>3. PICK node : node = nodes[Top.queue]
  OBVIOUS
<1>4. PICK e, p, saved, r : /\ e = node.extent /\ p = node.parent
                            /\ saved = node.rest /\ r = Top.root
  OBVIOUS
<1>5. EnterSource(saved, p, e)
  BY <1>3, <1>4 DEF HandleFinish
<1>6. /\ Linear(FlatNodes[Top.queue] \o ScopeWork[Top.ctx], r)
      /\ IsQueue(Top.queue) /\ ScopeWork[Top.ctx] \in Seq(Items)
  BY <1>2, <1>4, TopOwes
<1>7. IsQueue(saved) /\ e \in Nat /\ p \in Nat
  <2>1. IsQueue(saved) /\ IsExtent(e) /\ IsExtent(p)
    BY <1>2, <1>3, <1>4, <1>6, FinishFacts DEF IsScoped
  <2>2. QED  BY <2>1, LengthsAreNat DEF IsExtent
<1>8. PICK i, a, w : i = Marker(e, p) /\ a = FlatNodes[saved] /\ w = ScopeWork[Top.ctx]
  OBVIOUS
<1>9. /\ i \in Items /\ i.tag = "Finish" /\ i.extent = e /\ i.parent = p
      /\ Touched(i) = {e, p} /\ <<i>> \in Seq(Items)
      /\ a \in Seq(Items) /\ w \in Seq(Items)
  <2>1. i \in Items /\ i.tag = "Finish" /\ i.extent = e /\ i.parent = p
    BY <1>7, <1>8 DEF Marker, Items
  <2>2. QED  BY <1>6, <1>7, <1>8, <2>1, ItemCases, QueueList
<1>10. PICK W : W = (<<i>> \o a) \o w
  OBVIOUS
<1>11. Linear(W, r)
  <2>1. FlatNodes[Top.queue] = <<i>> \o a
    BY <1>2, <1>3, <1>4, <1>6, <1>8, FinishList
  <2>2. QED  BY <1>6, <1>8, <1>10, <2>1
<1>12. Sound(e, r) /\ W \in Seq(Items)
  <2>1. PICK l, V \in Seq(Items) : l = <<i>> /\ V = a \o w
    BY <1>9, ConcatItems
  <2>2. W = l \o V /\ W \in Seq(Items)
    BY <1>9, <1>10, <2>1, ListsAssociate, ConcatItems
  <2>3. Linear(<<i>> \o V, r)
    BY <1>11, <2>1, <2>2
  <2>4. QED  BY <1>9, <2>2, <2>3, LinearHead
<1>13. ExtentsGrow
  BY <1>1, <1>2, SameExtents
<1>14. Linear(W, r)' /\ Sound(e, r)'
  BY <1>1, <1>11, <1>12, <1>13, LinearGrows, SoundGrows
<1>15. W = ScopeList(e, p, saved, Top.ctx)
  BY <1>8, <1>10 DEF ScopeList
<1>16. QED
  BY <1>1, <1>2, <1>4, <1>5, <1>7, <1>12, <1>13, <1>14, <1>15, EnterLinear

(* A clause that returned answers over the finish of its scope.            *)
LEMMA EnterTargetLinear ==
  ASSUME TypeOK, TypeOK', Grows, LinearInv, GuestRuns, Depth > 0,
         NEW c, EnterTarget(c), UNCHANGED <<contexts, extents, replay>>
  PROVE  LinearInv'
<1>1. PICK context : context = Context
  OBVIOUS
<1>2. PICK e, p, saved, caller, r :
        /\ e = context.extent /\ p = context.parent /\ saved = context.saved
        /\ caller = context.caller /\ r = Top.root
  OBVIOUS
<1>3. PICK finish : finish = Finish(e, saved, p)
  OBVIOUS
<1>4. PICK ref : ref = Ref(nodes, finish)
  OBVIOUS
<1>5. PICK frame : frame = [Top EXCEPT !.await = "none", !.comp = c, !.queue = ref,
                                       !.extent = e, !.ctx = caller]
  OBVIOUS
<1>6. SetTop(frame) /\ nodes' = Allocate(nodes, finish) /\ Top.await = "clause"
  BY <1>1, <1>2, <1>3, <1>4, <1>5 DEF EnterTarget
<1>7. /\ frame.root = r /\ frame.extent = e /\ frame.ctx = caller /\ frame.queue = ref
      /\ frame.await = "none"
  BY <1>2, <1>5, TopFacts DEF Frames
<1>8. replay.pc = "idle" /\ replay'.pc = "idle"
  BY <1>6 DEF TypeOK, ReplayOK
<1>9. Top.queue = Empty
  BY <1>6, TopFacts DEF LinearInv, ClauseOverNothing, Top
<1>10. /\ Linear(FlatNodes[Top.queue] \o ScopeWork[Top.ctx], r)
       /\ Top.ctx \in 1..Len(contexts) /\ ScopeWork[Top.ctx] \in Seq(Items)
  BY <1>2, <1>8, TopOwes
<1>11. Linear(ScopeWork[Top.ctx], r)
  <2>1. FlatNodes[Top.queue] = <<>>
    BY <1>9, ListedNodes DEF NodesListed
  <2>2. <<>> \o ScopeWork[Top.ctx] = ScopeWork[Top.ctx]
    BY <1>10, ConcatItems
  <2>3. QED  BY <1>10, <2>1, <2>2
<1>12. context.tag = "Scoped"
  BY <1>1, <1>6, TopFacts DEF FrameOK, Context
<1>13. /\ IsQueue(saved) /\ e \in Nat /\ p \in Nat /\ caller \in 1..Len(contexts)
  BY <1>1, <1>2, <1>10, <1>12, ContextShape DEF Context, IsQueue
<1>14. PICK i, a, w : i = Marker(e, p) /\ a = FlatNodes[saved] /\ w = ScopeWork[caller]
  OBVIOUS
<1>15. /\ i \in Items /\ i.tag = "Finish" /\ i.extent = e
       /\ Touched(i) = {e, p} /\ <<i>> \in Seq(Items)
       /\ a \in Seq(Items) /\ w \in Seq(Items)
  <2>1. i \in Items /\ i.tag = "Finish" /\ i.extent = e /\ i.parent = p
    BY <1>13, <1>14 DEF Marker, Items
  <2>2. QED  BY <1>13, <1>14, <2>1, ItemCases, QueueList, ListedContexts DEF ContextsListed
<1>16. PICK W : W = (<<i>> \o a) \o w
  OBVIOUS
<1>17. Linear(W, r)
  <2>1. ScopeWork[Top.ctx] = <<Marker(context.extent, context.parent)>>
                               \o FlatNodes[context.saved] \o ScopeWork[context.caller]
    BY <1>1, <1>10, <1>12, ListedContexts DEF ContextsListed, Context
  <2>2. ScopeWork[Top.ctx] = W
    BY <1>2, <1>14, <1>16, <2>1
  <2>3. QED  BY <1>11, <2>2
<1>18. Sound(e, r)
  <2>1. PICK l, V \in Seq(Items) : l = <<i>> /\ V = a \o w
    BY <1>15, ConcatItems
  <2>2. W = l \o V
    BY <1>15, <1>16, <2>1, ListsAssociate
  <2>3. Linear(<<i>> \o V, r)
    BY <1>17, <2>1, <2>2
  <2>4. QED  BY <1>15, <2>3, LinearHead
<1>19. ExtentsGrow
  BY SameExtents
<1>20. Linear(W, r)' /\ Sound(e, r)'
  BY <1>17, <1>18, <1>19, LinearGrows, SoundGrows
<1>21. FlatNodes'[ref] = <<i>> \o a
  BY <1>3, <1>4, <1>6, <1>13, <1>14, NewFinish
<1>22. ScopeWork'[caller] = w
  BY <1>13, <1>14, WorkKept
<1>23. W = FlatNodes'[frame.queue] \o ScopeWork'[frame.ctx]
  BY <1>7, <1>16, <1>21, <1>22
<1>24. OthersOwe
  BY <1>6, <1>8, <1>19, OthersGrow
<1>25. QED  BY <1>2, <1>6, <1>7, <1>8, <1>20, <1>23, <1>24, TopLinear

(* A step of the top activation that leaves its queue and scopes alone.    *)
LEMMA TopKeepsQueue ==
  ASSUME TypeOK, TypeOK', Grows, UNCHANGED <<extents, replay>>, LinearInv,
         Depth > 0, replay.pc = "idle", NEW frame, SetTop(frame),
         frame.root = Top.root, frame.extent = Top.extent, frame.ctx = Top.ctx,
         frame.queue = Top.queue, frame.await # "clause"
  PROVE  LinearInv'
<1>1. PICK q, F : q = Top.queue /\ F = FlatNodes'[q]
  OBVIOUS
<1>2. Linear(FlatNodes[q] \o ScopeWork[Top.ctx], Top.root) /\ IsQueue(q)
  BY <1>1, TopOwes
<1>3. F = FlatNodes[q]
  BY <1>1, <1>2, ListKept
<1>4. Linear(F \o ScopeWork[Top.ctx], Top.root) /\ F = FlatNodes'[frame.queue]
  BY <1>1, <1>2, <1>3
<1>5. QED  BY <1>4, TopNewQueue

LEMMA OwnedResumeLinear ==
  ASSUME TypeOK, LinearInv, OwnedResume PROVE LinearInv'
<1>1. TypeOK' /\ Grows
  BY NextGrows DEF Next, MachineStep, ExecutorStep
<1>2. Depth > 0 /\ replay.pc = "idle" /\ UNCHANGED <<extents, replay>>
  BY DEF OwnedResume, Dispatching
<1>3. PICK o : o = Top.comp.owner
  OBVIOUS
<1>4. CASE UNCHANGED stack
  <2>1. ExtentsGrow
    BY <1>1, <1>2, SameExtents
  <2>2. QED  BY <1>1, <1>2, <1>4, <2>1, StillLinear
<1>5. CASE ~UNCHANGED stack
  <2>1. PICK frame : frame = [Top EXCEPT !.await = "owned", !.owner = o, !.comp = NoComp]
    OBVIOUS
  <2>2. SetTop(frame)
    BY <1>3, <1>5, <2>1 DEF OwnedResume
  <2>3. /\ frame.root = Top.root /\ frame.extent = Top.extent /\ frame.ctx = Top.ctx
        /\ frame.queue = Top.queue /\ frame.await # "clause"
    BY <1>2, <2>1, TopFacts DEF Frames
  <2>4. QED  BY <1>1, <1>2, <2>2, <2>3, TopKeepsQueue
<1>6. QED  BY <1>4, <1>5

LEMMA SupplyLinear ==
  ASSUME TypeOK, LinearInv, NEW c \in Suppliable, Supply(c) PROVE LinearInv'
<1>1. TypeOK' /\ Grows
  BY NextGrows DEF Next, GuestStep
<1>2. /\ GuestRuns /\ Depth > 0 /\ UNCHANGED <<contexts, extents, replay>>
      /\ EnterTarget(c) \/ Continue(c) \/ Transferred(c)
  BY DEF Supply
<1>3. replay.pc = "idle"
  BY <1>2 DEF GuestRuns, TypeOK, ReplayOK
<1>4. CASE EnterTarget(c)
  BY <1>1, <1>2, <1>4, EnterTargetLinear
<1>5. CASE Continue(c)
  <2>1. PICK frame : frame = [Top EXCEPT !.await = "none", !.callee = NoCallee, !.comp = c]
    OBVIOUS
  <2>2. SetTop(frame)
    BY <1>5, <2>1 DEF Continue
  <2>3. /\ frame.root = Top.root /\ frame.extent = Top.extent /\ frame.ctx = Top.ctx
        /\ frame.queue = Top.queue /\ frame.await # "clause"
    BY <1>2, <2>1, TopFacts DEF Frames
  <2>4. QED  BY <1>1, <1>2, <1>3, <2>2, <2>3, TopKeepsQueue
<1>6. CASE Transferred(c)
  <2>1. PICK frame : frame = [Top EXCEPT !.await = "none", !.owner = NoOwner, !.comp = c]
    OBVIOUS
  <2>2. SetTop(frame)
    BY <1>6, <2>1 DEF Transferred
  <2>3. /\ frame.root = Top.root /\ frame.extent = Top.extent /\ frame.ctx = Top.ctx
        /\ frame.queue = Top.queue /\ frame.await # "clause"
    BY <1>2, <2>1, TopFacts DEF Frames
  <2>4. QED  BY <1>1, <1>2, <1>3, <2>2, <2>3, TopKeepsQueue
<1>7. QED  BY <1>2, <1>4, <1>5, <1>6

(* A new run owes the end of its root.                                     *)
LEMMA RunLinear ==
  ASSUME TypeOK, LinearInv, NEW c \in Suppliable, Run(c) PROVE LinearInv'
<1>1. TypeOK' /\ Grows
  BY NextGrows DEF Next, GuestStep
<1>2. PICK root : root = Len(extents) + 1
  OBVIOUS
<1>3. PICK context : context = RootContext(root)
  OBVIOUS
<1>4. PICK ref : ref = Ref(contexts, context)
  OBVIOUS
<1>5. PICK frame : frame =
        [root |-> root, comp |-> c, queue |-> Empty, extent |-> root, ctx |-> ref,
         await |-> "none", callee |-> NoCallee, owner |-> NoOwner]
  OBVIOUS
<1>6. /\ GuestRuns /\ extents' = FreshExtent(NoExtent) /\ UNCHANGED replay
      /\ contexts' = Allocate(contexts, context) /\ stack' = Append(stack, frame)
  BY <1>2, <1>3, <1>4, <1>5 DEF Run
<1>7. replay.pc = "idle" /\ replay'.pc = "idle"
  BY <1>6 DEF GuestRuns, TypeOK, ReplayOK
<1>8. /\ Depth \in Nat /\ Depth' = Depth + 1 /\ stack'[Depth'] = frame
      /\ \A d \in 1..Depth : stack'[d] = stack[d] /\ d # Depth' /\ d \in 1..Depth'
  <2>1. PICK S : S = Frames \cup {frame}
    OBVIOUS
  <2>2. stack \in Seq(S) /\ frame \in S
    BY <2>1 DEF TypeOK, StackOK
  <2>3. QED  BY <1>6, <2>2 DEF Depth
<1>9. ExtentsGrow
  <2>1. PICK p : p = NoExtent
    OBVIOUS
  <2>2. extents' = FreshExtent(p)
    BY <1>6, <2>1
  <2>3. QED  BY <1>1, <2>1, <2>2, FreshExtentFacts DEF ExtentsGrow
<1>10. Sound(root, root)' /\ root \in Nat
  <2>1. root \in Nat
    BY <1>2, LengthsAreNat
  <2>2. QED  BY <1>1, <1>2, <1>6, <2>1, FreshRootSound
<1>11. ASSUME NEW d \in 1..Depth PROVE Owed(d)'
  <2>1. SameFrame(d)
    BY <1>7, <1>8 DEF SameFrame
  <2>2. QED  BY <1>1, <1>9, <2>1, OwedKept DEF LinearInv
<1>12. PICK n : n = Depth'
  OBVIOUS
<1>13. Owed(n)'
  <2>1. PICK i : i = RootItem(root)
    OBVIOUS
  <2>2. i \in Items /\ i.tag = "Root" /\ i.extent = root /\ Touched(i) = {root}
    <3>1. i \in Items /\ i.tag = "Root" /\ i.extent = root
      BY <1>10, <2>1 DEF RootItem, Items
    <3>2. QED  BY <3>1, ItemCases
  <2>3. PICK nil \in Seq(Items) : nil = <<>>
    <3>1. <<>> \in Seq(Items)
      OBVIOUS
    <3>2. QED  BY <3>1
  <2>4. Linear(nil, root)' /\ ApartFrom(root, nil)'
    BY <2>3 DEF Linear, SoundWork, ClosesApart, ApartFrom
  <2>5. Linear(<<i>> \o nil, root)'
    <3>1. \A x \in Touched(i) : Sound(x, root)'
      BY <1>10, <2>2
    <3>2. i.tag # "Finish" /\ ApartFrom(i.extent, nil)'
      BY <2>2, <2>4
    <3>3. QED  BY <2>2, <2>3, <2>4, <3>1, <3>2, NewPushIsLinear DEF PushRule
  <2>6. <<i>> \o nil = <<>> \o <<i>>
    <3>1. PICK l \in Seq(Items) : l = <<i>>
      <4>1. <<i>> \in Seq(Items)
        BY <2>2
      <4>2. QED  BY <4>1
    <3>2. l \o nil = l /\ <<>> \o l = l
      BY <2>3, ConcatItems
    <3>3. QED  BY <3>1, <3>2
  <2>7. ScopeWork'[ref] = <<i>>
    BY <1>1, <1>3, <1>4, <1>6, <1>10, <2>1, NewRootWork
  <2>8. FlatNodes'[Empty] = <<>>
    BY <1>1, NewListedNodes DEF NodesListed
  <2>9. PICK W : W = <<i>> \o nil
    OBVIOUS
  <2>10. Whole(n)' = W
    <3>1. frame.queue = Empty /\ frame.ctx = ref
      BY <1>5
    <3>2. Pending(stack[n])' = <<>> \o <<i>>
      BY <1>8, <1>12, <2>7, <2>8, <3>1 DEF Pending
    <3>3. Whole(n)' = Pending(stack[n])'
      BY <1>7 DEF Whole
    <3>4. QED  BY <2>6, <2>9, <3>2, <3>3
  <2>11. Linear(W, root)'
    BY <2>5, <2>9
  <2>12. stack'[n].root = root /\ stack'[n].extent = root
    BY <1>5, <1>8, <1>12
  <2>13. QED  BY <1>10, <2>10, <2>11, <2>12 DEF Owed
<1>14. \A d \in 1..Depth' : d \in 1..Depth \/ d = n
  BY <1>8, <1>12
<1>15. ClauseOverNothing'
  BY <1>5, <1>8, <1>12, <1>14 DEF LinearInv, ClauseOverNothing
<1>16. ReplayIsSound'
  BY <1>7 DEF ReplayIsSound
<1>17. \A d \in 1..Depth' : Owed(d)'
  BY <1>11, <1>13, <1>14
<1>18. QED  BY <1>15, <1>16, <1>17 DEF LinearInv

LEMMA GuestLinear ==
  ASSUME TypeOK, LinearInv,
         \/ \E k \in 1..Len(raws) : RawResume(k)
         \/ Once
         \/ \E o \in 1..Len(owners) : Cancel(o)
  PROVE  LinearInv'
<1>1. TypeOK' /\ Grows
  BY NextGrows DEF Next, GuestStep
<1>2. UNCHANGED <<extents, stack, replay>>
  BY DEF RawResume, Once, Cancel, heapVars
<1>3. ExtentsGrow
  BY <1>1, <1>2, SameExtents
<1>4. QED  BY <1>1, <1>2, <1>3, StillLinear

-----------------------------------------------------------------------------
(* A replay adds work in front of what its activation owes.                *)

(* A replay step that changes what the replay has rebuilt.                 *)
LEMMA ReplayLinear ==
  ASSUME TypeOK, TypeOK', ExtentsGrow, LinearInv, Depth > 0, UNCHANGED stack,
         NEW W, W = Whole(Depth)', NEW r, r = Top.root, Linear(W, r)',
         NEW a, a = replay'.active, Sound(a, r)',
         NEW p, p = replay'.parent, Sound(p, r)'
  PROVE  LinearInv'
<1>1. Depth' = Depth /\ Top' = Top /\ Depth \in 1..Depth
  BY TopFacts DEF Depth, Top
<1>2. ASSUME NEW d \in 1..Depth, d # Depth PROVE Owed(d)'
  <2>1. SameFrame(d)
    BY <1>1, <1>2 DEF SameFrame
  <2>2. QED  BY <2>1, OwedKept DEF LinearInv
<1>3. Owed(Depth)'
  <2>1. PICK x : x = Top.extent
    OBVIOUS
  <2>2. Sound(x, r)
    BY <1>1, <2>1 DEF LinearInv, Owed, Top
  <2>3. Sound(x, r)'
    BY <2>2, SoundGrows
  <2>4. Whole(Depth)' = W /\ stack'[Depth'].root = r /\ stack'[Depth'].extent = x
    BY <1>1, <2>1 DEF Top
  <2>5. QED  BY <1>1, <2>3, <2>4 DEF Owed
<1>4. ClauseOverNothing'
  BY <1>1 DEF LinearInv, ClauseOverNothing
<1>5. ReplayIsSound'
  BY <1>1 DEF ReplayIsSound
<1>6. \A d \in 1..Depth' : Owed(d)'
  BY <1>1, <1>2, <1>3
<1>7. QED  BY <1>4, <1>5, <1>6 DEF LinearInv

(* The work of the top activation.                                         *)
LEMMA TopWhole ==
  ASSUME TypeOK, LinearInv, Depth > 0
  PROVE  /\ Linear(Whole(Depth), Top.root) /\ Sound(Top.extent, Top.root)
         /\ replay.pc # "idle" =>
              Sound(replay.active, Top.root) /\ Sound(replay.parent, Top.root)
BY TopFacts DEF LinearInv, Owed, Top, ReplayIsSound

(* A step of the traversal rebuilds nothing.                               *)
LEMMA TraversalLinear ==
  ASSUME TypeOK, TypeOK', Grows, LinearInv, Depth > 0, UNCHANGED <<stack, extents>>,
         replay.pc # "rebuild",
         replay'.pc # "rebuild" \/ replay'.todo = Empty,
         NEW a, a = replay'.active, Sound(a, Top.root),
         NEW p, p = replay'.parent, Sound(p, Top.root)
  PROVE  LinearInv'
<1>1. ExtentsGrow
  BY SameExtents
<1>2. PICK W, r : W = Whole(Depth) /\ r = Top.root
  OBVIOUS
<1>3. Linear(W, r)' /\ Sound(a, r)' /\ Sound(p, r)'
  BY <1>1, <1>2, TopWhole, LinearGrows, SoundGrows
<1>4. PICK q, c : q = Top.queue /\ c = Top.ctx
  OBVIOUS
<1>5. /\ IsQueue(q) /\ c \in 1..Len(contexts)
      /\ FlatNodes[q] \in Seq(Items) /\ ScopeWork[c] \in Seq(Items)
  BY <1>4, TopOwes
<1>6. FlatNodes'[q] = FlatNodes[q] /\ ScopeWork'[c] = ScopeWork[c]
  BY <1>5, ListKept, WorkKept
<1>7. W = FlatNodes[q] \o ScopeWork[c] /\ W \in Seq(Items)
  <2>1. W = FlatNodes[q] \o ScopeWork[c]
    BY <1>2, <1>4 DEF Whole, Pending, Top
  <2>2. QED  BY <1>5, <2>1, ConcatItems
<1>8. Pending(stack[Depth])' = W /\ Depth' = Depth
  BY <1>4, <1>6, <1>7 DEF Pending, Depth, Top
<1>9. Whole(Depth)' = W
  <2>1. FlatNodes'[Empty] = <<>> /\ <<>> \o W = W
    BY <1>7, NewListedNodes, ConcatItems DEF NodesListed
  <2>2. QED  BY <1>8, <2>1 DEF Whole
<1>10. QED  BY <1>1, <1>2, <1>3, <1>9, ReplayLinear

(* The checkpoint of the current scope is usable.                          *)
LEMMA CheckpointSound ==
  ASSUME TypeOK, LinearInv, Depth > 0, replay.pc # "rebuild"
  PROVE  Sound(ContextExtent, Top.root)
<1>1. PICK c, context, r : c = Top.ctx /\ context = contexts[c] /\ r = Top.root
  OBVIOUS
<1>2. /\ Linear(FlatNodes[Top.queue] \o ScopeWork[c], r) /\ c \in 1..Len(contexts)
      /\ FlatNodes[Top.queue] \in Seq(Items) /\ ScopeWork[c] \in Seq(Items)
  BY <1>1, TopOwes
<1>3. Linear(ScopeWork[c], r)
  BY <1>2, LinearRest
<1>4. PICK i : i = IF context.tag = "Root" THEN RootItem(context.extent)
                   ELSE Marker(context.extent, context.parent)
  OBVIOUS
<1>5. i \in Items /\ i.extent = context.extent /\ context.extent \in Touched(i)
  <2>1. i \in Items /\ i.extent = context.extent /\ i.tag # "Then"
    BY <1>1, <1>2, <1>4, ContextShape DEF RootItem, Marker, Items
  <2>2. QED  BY <2>1, ItemCases
<1>6. \E rest \in Seq(Items) : ScopeWork[c] = <<i>> \o rest
  <2>1. CASE context.tag = "Root"
    <3>1. ScopeWork[c] = <<i>>
      BY <1>1, <1>2, <1>4, <2>1, ListedContexts DEF ContextsListed
    <3>2. PICK l, nil \in Seq(Items) : l = <<i>> /\ nil = <<>>
      <4>1. <<i>> \in Seq(Items) /\ <<>> \in Seq(Items)
        BY <1>5
      <4>2. QED  BY <4>1
    <3>3. ScopeWork[c] = <<i>> \o nil
      BY <3>1, <3>2, ConcatItems
    <3>4. QED  BY <3>2, <3>3
  <2>2. CASE context.tag # "Root"
    <3>1. /\ context.tag = "Scoped" /\ IsQueue(context.saved)
          /\ context.caller \in 1..Len(contexts)
      BY <1>1, <1>2, <2>2, ContextShape DEF IsQueue
    <3>2. PICK a, w : a = FlatNodes[context.saved] /\ w = ScopeWork[context.caller]
      OBVIOUS
    <3>3. a \in Seq(Items) /\ w \in Seq(Items)
      BY <3>1, <3>2, QueueList, ListedContexts DEF ContextsListed
    <3>4. PICK l, rest \in Seq(Items) : l = <<i>> /\ rest = a \o w
      <4>1. <<i>> \in Seq(Items) /\ a \o w \in Seq(Items)
        BY <1>5, <3>3, ConcatItems
      <4>2. QED  BY <4>1
    <3>5. ScopeWork[c] = (l \o a) \o w
      <4>1. ScopeWork[c] = <<Marker(context.extent, context.parent)>>
                             \o FlatNodes[context.saved] \o ScopeWork[context.caller]
        BY <1>1, <1>2, <3>1, ListedContexts DEF ContextsListed
      <4>2. QED  BY <1>4, <2>2, <3>2, <3>4, <4>1
    <3>6. ScopeWork[c] = l \o rest
      BY <3>3, <3>4, <3>5, ListsAssociate
    <3>7. QED  BY <3>4, <3>6
  <2>3. QED  BY <2>1, <2>2
<1>7. PICK rest \in Seq(Items) : ScopeWork[c] = <<i>> \o rest
  BY <1>6
<1>8. Linear(<<i>> \o rest, r)
  BY <1>3, <1>7
<1>9. Sound(context.extent, r)
  BY <1>5, <1>8, LinearHead
<1>10. QED  BY <1>1, <1>9 DEF ContextExtent, Context

LEMMA ResumeLinear ==
  ASSUME TypeOK, LinearInv, Resume PROVE LinearInv'
<1>1. TypeOK' /\ Grows
  BY NextGrows DEF Next, MachineStep, ExecutorStep
<1>2. Depth > 0 /\ replay.pc = "idle" /\ UNCHANGED <<extents, stack>>
  BY DEF Resume, Dispatching, heapVars
<1>3. CASE UNCHANGED replay
  <2>1. ExtentsGrow
    BY <1>1, <1>2, SameExtents
  <2>2. QED  BY <1>1, <1>2, <1>3, <2>1, StillLinear
<1>4. CASE ~UNCHANGED replay
  <2>1. /\ replay'.pc = "clone" /\ replay'.active = Top.extent
        /\ replay'.parent = ContextExtent
    BY <1>4 DEF Resume, Idle
  <2>2. PICK a, p : a = replay'.active /\ p = replay'.parent
    OBVIOUS
  <2>3. Sound(a, Top.root) /\ Sound(p, Top.root)
    BY <1>2, <2>1, <2>2, TopOwes, CheckpointSound
  <2>4. QED  BY <1>1, <1>2, <2>1, <2>2, <2>3, TraversalLinear
<1>5. QED  BY <1>3, <1>4

LEMMA CloneLinear ==
  ASSUME TypeOK, LinearInv, CloneCons \/ CloneAppend \/ CloneFinish \/ CloneTodo
  PROVE  LinearInv'
<1>1. TypeOK' /\ Grows
  BY NextGrows DEF Next, MachineStep, ReplayStep
<1>2. replay.pc = "clone" /\ UNCHANGED <<extents, stack>>
  BY DEF CloneCons, CloneAppend, CloneFinish, CloneTodo, Cloning, heapVars
<1>3. Depth > 0 /\ RegistersOK(replay)
  BY <1>2, ReplayFacts
<1>4. replay'.active = replay.active /\ replay'.parent = replay.parent
  BY <1>3 DEF CloneCons, CloneAppend, CloneFinish, CloneTodo, RegistersOK, Registers
<1>5. replay'.pc # "rebuild" \/ replay'.todo = Empty
  <2>1. CASE CloneCons \/ CloneAppend \/ CloneFinish
    BY <1>2, <1>3, <2>1 DEF CloneCons, CloneAppend, CloneFinish, RegistersOK, Registers
  <2>2. CASE CloneTodo
    <3>1. CASE Kind(replay.todo) = "Empty"
      <4>1. replay.todo = Empty
        <5>1. IsQueue(replay.todo)
          BY <1>3 DEF RegistersOK
        <5>2. replay.todo # Empty => Kind(replay.todo) \in {"Cons", "Append", "Finish"}
          BY <5>1, QueueFacts, NodeFacts
        <5>3. QED  BY <3>1, <5>2
      <4>2. replay' = [replay EXCEPT !.pc = "rebuild", !.queue = Empty]
        BY <2>2, <3>1 DEF CloneTodo
      <4>3. QED  BY <1>3, <4>1, <4>2 DEF RegistersOK, Registers
    <3>2. CASE Kind(replay.todo) # "Empty"
      BY <1>2, <1>3, <2>2, <3>2 DEF CloneTodo, RegistersOK, Registers
    <3>3. QED  BY <3>1, <3>2
  <2>3. QED  BY <2>1, <2>2
<1>6. PICK a, p : a = replay'.active /\ p = replay'.parent
  OBVIOUS
<1>7. Sound(a, Top.root) /\ Sound(p, Top.root)
  BY <1>2, <1>3, <1>4, <1>6, TopWhole
<1>8. QED  BY <1>1, <1>2, <1>3, <1>5, <1>6, <1>7, TraversalLinear

(* An item that the rebuilding step puts in front.                         *)
LEMMA RebuiltWhole ==
  ASSUME TypeOK, TypeOK', Grows, Depth > 0, UNCHANGED stack,
         replay.pc = "rebuild", replay'.pc = "rebuild", NEW i, <<i>> \in Seq(Items),
         FlatNodes'[replay'.todo] = <<i>> \o FlatNodes[replay.todo]
  PROVE  Whole(Depth) \in Seq(Items) /\ Whole(Depth)' = <<i>> \o Whole(Depth)
<1>1. Depth \in 1..Depth /\ Depth' = Depth
  BY TopFacts DEF Depth
<1>2. PICK q, c : q = Top.queue /\ c = Top.ctx
  OBVIOUS
<1>3. PICK t, P : t = FlatNodes[replay.todo] /\ P = Pending(Top)
  OBVIOUS
<1>4. /\ IsQueue(q) /\ c \in 1..Len(contexts) /\ t \in Seq(Items) /\ P \in Seq(Items)
  BY <1>1, <1>2, <1>3, FrameLists DEF Top
<1>5. FlatNodes'[q] = FlatNodes[q] /\ ScopeWork'[c] = ScopeWork[c]
  BY <1>4, ListKept, WorkKept
<1>6. Pending(stack[Depth])' = P
  BY <1>1, <1>2, <1>3, <1>5 DEF Pending, Top
<1>7. Whole(Depth) = t \o P
  BY <1>3 DEF Whole, Top
<1>8. Whole(Depth)' = (<<i>> \o t) \o P
  BY <1>1, <1>3, <1>6 DEF Whole
<1>9. PICK l \in Seq(Items) : l = <<i>>
  OBVIOUS
<1>10. (l \o t) \o P = l \o (t \o P) /\ t \o P \in Seq(Items)
  <2>1. (l \o t) \o P = l \o (t \o P)
    BY <1>4, ListsAssociate, Zenon
  <2>2. QED  BY <1>4, <2>1
<1>11. QED  BY <1>7, <1>8, <1>9, <1>10

LEMMA RebuildConsLinear ==
  ASSUME TypeOK, LinearInv, RebuildCons PROVE LinearInv'
<1>1. TypeOK' /\ Grows
  BY NextGrows DEF Next, MachineStep, ReplayStep
<1>2. /\ replay.pc = "rebuild" /\ Kind(replay.reversed) = "Cons"
      /\ UNCHANGED <<extents, stack>>
  BY DEF RebuildCons, Rebuilding
<1>3. Depth > 0 /\ RegistersOK(replay)
  BY <1>2, ReplayFacts
<1>4. PICK node : node = nodes[replay.reversed]
  OBVIOUS
<1>5. PICK next : next = ConsNode(node.head, replay.todo)
  OBVIOUS
<1>6. PICK ref : ref = Ref(nodes, next)
  OBVIOUS
<1>7. /\ nodes' = Allocate(nodes, next)
      /\ replay' = [replay EXCEPT !.reversed = node.tail, !.todo = ref]
  BY <1>4, <1>5, <1>6 DEF RebuildCons
<1>8. IsQueue(replay.todo) /\ IsQueue(replay.reversed) /\ replay \in Registers
  BY <1>3 DEF RegistersOK
<1>9. node.head \in Callbacks
  BY <1>2, <1>4, <1>8, ConsFacts
<1>10. /\ replay'.pc = "rebuild" /\ replay'.todo = ref
       /\ replay'.active = replay.active /\ replay'.parent = replay.parent
  BY <1>2, <1>7, <1>8 DEF Registers
<1>11. PICK i, head, todo : i = Then(head) /\ head = node.head /\ todo = replay.todo
  OBVIOUS
<1>12. i \in Items /\ <<i>> \in Seq(Items) /\ i.tag = "Then" /\ Touched(i) = {}
  BY <1>9, <1>11 DEF Then, Items, Touched
<1>13. FlatNodes'[ref] = <<i>> \o FlatNodes[todo]
  <2>1. next = ConsNode(head, todo) /\ IsQueue(todo) /\ head \in Callbacks
    BY <1>5, <1>8, <1>9, <1>11
  <2>2. FlatNodes'[ref] = <<Then(head)>> \o FlatNodes[todo]
    BY <1>1, <1>6, <1>7, <2>1, NewCons
  <2>3. QED  BY <1>11, <2>2
<1>14. Whole(Depth) \in Seq(Items) /\ Whole(Depth)' = <<i>> \o Whole(Depth)
  BY <1>1, <1>2, <1>3, <1>10, <1>11, <1>12, <1>13, RebuiltWhole
<1>15. PICK V, r, a, p : /\ V = Whole(Depth) /\ r = Top.root
                         /\ a = replay'.active /\ p = replay'.parent
  OBVIOUS
<1>16. Linear(V, r) /\ Sound(a, r) /\ Sound(p, r) /\ V \in Seq(Items)
  BY <1>2, <1>3, <1>10, <1>14, <1>15, TopWhole
<1>17. PICK W : W = <<i>> \o V
  OBVIOUS
<1>18. Linear(W, r)
  BY <1>12, <1>16, <1>17, PushIsLinear DEF PushRule
<1>19. ExtentsGrow
  BY <1>1, <1>2, SameExtents
<1>20. Linear(W, r)' /\ Sound(a, r)' /\ Sound(p, r)'
  BY <1>1, <1>16, <1>18, <1>19, LinearGrows, SoundGrows
<1>21. W = Whole(Depth)'
  BY <1>14, <1>15, <1>17
<1>22. QED  BY <1>1, <1>2, <1>3, <1>15, <1>19, <1>20, <1>21, ReplayLinear

(* A saved finish comes back over an extent of its own.                    *)
LEMMA RebuildFinishLinear ==
  ASSUME TypeOK, LinearInv, RebuildFinish PROVE LinearInv'
<1>1. TypeOK' /\ Grows
  BY NextGrows DEF Next, MachineStep, ReplayStep
<1>2. /\ replay.pc = "rebuild" /\ Kind(replay.reversed) = "Finish" /\ UNCHANGED stack
      /\ extents' = FreshExtent(replay.parent)
  BY DEF RebuildFinish, Rebuilding
<1>3. Depth > 0 /\ RegistersOK(replay)
  BY <1>2, ReplayFacts
<1>4. PICK e, q, todo, active, parent, r :
        /\ e = Len(extents) + 1 /\ q = nodes[replay.reversed].rest
        /\ todo = replay.todo /\ active = replay.active /\ parent = replay.parent
        /\ r = Top.root
  OBVIOUS
<1>5. PICK next : next = Finish(e, todo, active)
  OBVIOUS
<1>6. PICK ref : ref = Ref(nodes, next)
  OBVIOUS
<1>7. /\ nodes' = Allocate(nodes, next) /\ extents' = FreshExtent(parent)
      /\ replay' = [replay EXCEPT !.reversed = q, !.todo = ref, !.active = e, !.parent = e]
  BY <1>4, <1>5, <1>6 DEF RebuildFinish
<1>8. IsQueue(todo) /\ replay \in Registers
  BY <1>3, <1>4 DEF RegistersOK
<1>9. /\ replay'.pc = "rebuild" /\ replay'.todo = ref
      /\ replay'.active = e /\ replay'.parent = e
  BY <1>2, <1>7, <1>8 DEF Registers
<1>10. PICK V : V = Whole(Depth)
  OBVIOUS
<1>11. Linear(V, r) /\ Sound(active, r) /\ Sound(parent, r)
  BY <1>2, <1>3, <1>4, <1>10, TopWhole
<1>12. IsExtent(parent) /\ active \in Nat /\ e \in Nat
  <2>1. IsExtent(parent) /\ IsExtent(active)
    BY <1>11 DEF Sound
  <2>2. QED  BY <1>4, <2>1, LengthsAreNat DEF IsExtent
<1>13. ExtentsGrow
  BY <1>1, <1>7, <1>12, FreshExtentFacts DEF ExtentsGrow
<1>14. Sound(e, r)' /\ \A x, s : Sound(x, s) => Apart(e, x)'
  BY <1>1, <1>4, <1>7, <1>11, <1>13, FreshSound
<1>15. Linear(V, r)' /\ Sound(active, r)'
  BY <1>1, <1>11, <1>13, LinearGrows, SoundGrows
<1>16. ApartFrom(e, V)' /\ Apart(e, active)'
  <2>1. \A k \in 1..Len(V) : \A x \in Touched(V[k]) : Sound(x, r)
    BY <1>11 DEF Linear, SoundWork
  <2>2. \A k \in 1..Len(V) : \A x \in Touched(V[k]) : Apart(e, x)'
    BY <1>14, <2>1
  <2>3. QED  BY <1>11, <1>14, <2>2 DEF ApartFrom
<1>17. PICK i : i = Marker(e, active)
  OBVIOUS
<1>18. /\ i \in Items /\ i.tag = "Finish" /\ i.extent = e /\ i.parent = active
       /\ Touched(i) = {e, active} /\ <<i>> \in Seq(Items)
  <2>1. i \in Items /\ i.tag = "Finish" /\ i.extent = e /\ i.parent = active
    BY <1>12, <1>17 DEF Marker, Items
  <2>2. QED  BY <2>1, ItemCases
<1>19. FlatNodes'[ref] = <<i>> \o FlatNodes[todo]
  <2>1. FlatNodes'[ref] = <<Marker(e, active)>> \o FlatNodes[todo]
    BY <1>1, <1>5, <1>6, <1>7, <1>8, <1>12, NewFinish
  <2>2. QED  BY <1>17, <2>1
<1>20. V \in Seq(Items) /\ Whole(Depth)' = <<i>> \o V
  BY <1>1, <1>2, <1>3, <1>4, <1>9, <1>10, <1>18, <1>19, RebuiltWhole
<1>21. PICK W : W = <<i>> \o V
  OBVIOUS
<1>22. Linear(W, r)'
  <2>1. \A x \in Touched(i) : Sound(x, r)'
    BY <1>14, <1>15, <1>18
  <2>2. QED  BY <1>15, <1>16, <1>18, <1>20, <1>21, <2>1, NewPushIsLinear DEF PushRule
<1>23. W = Whole(Depth)'
  BY <1>20, <1>21
<1>24. QED
  BY <1>1, <1>2, <1>3, <1>4, <1>9, <1>13, <1>14, <1>22, <1>23, ReplayLinear

(* The replayed work runs before the consumer's.                           *)
LEMMA RebuildDoneLinear ==
  ASSUME TypeOK, LinearInv, RebuildDone PROVE LinearInv'
<1>1. TypeOK' /\ Grows
  BY NextGrows DEF Next, MachineStep, ReplayStep
<1>2. replay.pc = "rebuild" /\ UNCHANGED <<contexts, extents>>
  BY DEF RebuildDone, Rebuilding
<1>3. Depth > 0 /\ RegistersOK(replay) /\ Top.await = "none"
  BY <1>2, ReplayFacts
<1>4. ExtentsGrow
  BY <1>1, <1>2, SameExtents
<1>5. CASE Kind(replay.reversed) # "Empty"
  <2>1. UNCHANGED <<stack, replay>>
    BY <1>5 DEF RebuildDone
  <2>2. QED  BY <1>1, <1>4, <2>1, StillLinear
<1>6. CASE Kind(replay.reversed) = "Empty"
  <2>1. PICK todo, queue, active, r : /\ todo = replay.todo /\ queue = Top.queue
                                      /\ active = replay.active /\ r = Top.root
    OBVIOUS
  <2>2. PICK pending : pending = AppendNode(todo, queue)
    OBVIOUS
  <2>3. PICK ref : ref = Ref(nodes, pending)
    OBVIOUS
  <2>4. PICK frame : frame = [Top EXCEPT !.comp = NoComp, !.queue = ref, !.extent = active]
    OBVIOUS
  <2>5. SetTop(frame) /\ nodes' = Allocate(nodes, pending) /\ replay' = Idle
    BY <1>6, <2>1, <2>2, <2>3, <2>4 DEF RebuildDone
  <2>6. /\ frame.root = r /\ frame.extent = active /\ frame.ctx = Top.ctx
        /\ frame.queue = ref /\ frame.await = "none"
    BY <1>3, <2>1, <2>4, TopFacts DEF Frames
  <2>7. replay'.pc = "idle"
    BY <2>5 DEF Idle
  <2>8. PICK W : W = Whole(Depth)
    OBVIOUS
  <2>9. Linear(W, r) /\ Sound(active, r)
    BY <1>2, <1>3, <2>1, <2>8, TopWhole
  <2>10. Linear(W, r)' /\ Sound(active, r)'
    BY <1>1, <1>4, <2>9, LinearGrows, SoundGrows
  <2>11. PICK t, a, w, c : /\ t = FlatNodes[todo] /\ a = FlatNodes[queue]
                           /\ w = ScopeWork[c] /\ c = Top.ctx
    OBVIOUS
  <2>12. /\ IsQueue(todo) /\ IsQueue(queue) /\ c \in 1..Len(contexts)
         /\ t \in Seq(Items) /\ a \in Seq(Items) /\ w \in Seq(Items)
    <3>1. Depth \in 1..Depth
      BY <1>3, TopFacts
    <3>2. QED  BY <2>1, <2>11, <3>1, FrameLists DEF Top
  <2>13. W = t \o (a \o w)
    BY <1>2, <2>1, <2>8, <2>11 DEF Whole, Pending, Top
  <2>14. FlatNodes'[ref] = t \o a
    <3>1. FlatNodes'[ref] = FlatNodes[todo] \o FlatNodes[queue]
      BY <1>1, <2>2, <2>3, <2>5, <2>12, NewAppend
    <3>2. QED  BY <2>11, <3>1
  <2>15. ScopeWork'[c] = w
    BY <1>1, <2>11, <2>12, WorkKept
  <2>16. W = (t \o a) \o w
    <3>1. (t \o a) \o w = t \o (a \o w)
      BY <2>12, ListsAssociate, Zenon
    <3>2. QED  BY <2>13, <3>1
  <2>17. W = FlatNodes'[frame.queue] \o ScopeWork'[frame.ctx]
    BY <2>6, <2>11, <2>14, <2>15, <2>16
  <2>18. OthersOwe
    BY <1>1, <1>3, <1>4, <2>5, <2>7, OthersGrow
  <2>19. QED  BY <1>3, <2>1, <2>5, <2>6, <2>7, <2>10, <2>17, <2>18, TopLinear
<1>7. QED  BY <1>5, <1>6

-----------------------------------------------------------------------------
(* The work of every activation stays linear.                              *)

LEMMA NextLinear ==
  ASSUME TypeOK, RootsMatchRuns, LinearInv, Next PROVE LinearInv'
<1>1. ASSUME ReplayStep PROVE LinearInv'
  BY <1>1, CloneLinear, RebuildConsLinear, RebuildFinishLinear, RebuildDoneLinear
  DEF ReplayStep
<1>2. ASSUME ExecutorStep PROVE LinearInv'
  BY <1>2, LeaveLinear, ReturnClauseLinear, ReturnConsLinear, ReturnAppendConsLinear,
     RotateLinear, ReturnFinishLinear, PerformLinear, BindLinear, ResumeLinear,
     HandleFreshLinear, HandleFinishLinear, OwnedResumeLinear
  DEF ExecutorStep
<1>3. ASSUME GuestStep \/ Exhaust PROVE LinearInv'
  BY <1>3, SupplyLinear, RunLinear, GuestLinear, LeaveLinear DEF GuestStep
<1>4. QED  BY <1>1, <1>2, <1>3 DEF Next, MachineStep

LEMMA LinearStaysSo == Spec => []LinearInv
<1>1. Init => LinearInv
  BY DEF Init, Idle, LinearInv, ClauseOverNothing, ReplayIsSound, Depth
<1>2. TypeOK /\ TypeOK' /\ RootsMatchRuns /\ LinearInv /\ [Next]_vars => LinearInv'
  <2>1. ASSUME TypeOK, TypeOK', LinearInv, UNCHANGED vars PROVE LinearInv'
    <3>1. Grows
      BY <2>1, LengthsAreNat DEF vars, Grows, TypeOK, NodesOK, ContextsOK, ExtentsOK, RawsOK
    <3>2. ExtentsGrow /\ UNCHANGED <<stack, replay>>
      BY <2>1, <3>1, SameExtents DEF vars
    <3>3. QED  BY <2>1, <3>2, StillLinear
  <2>2. QED  BY <2>1, NextLinear
<1>3. QED  BY <1>1, <1>2, TypeCorrect, RootsCorrect, PTL DEF Spec

(* What follows of linear work.                                            *)
LEMMA LinearMarkers ==
  ASSUME NEW work \in Seq(Items), NEW root, Linear(work, root)
  PROVE  /\ \A i, j \in Markers(work) : work[i].extent = work[j].extent => i = j
         /\ \A i \in Markers(work) : Sound(work[i].extent, root)
<1>1. ASSUME NEW i \in Markers(work)
      PROVE  /\ i \in 1..Len(work) /\ work[i].tag # "Then"
             /\ work[i].extent \in Touched(work[i])
  <2>1. i \in 1..Len(work) /\ work[i].tag # "Then" /\ work[i] \in Items
    BY DEF Markers
  <2>2. QED  BY <2>1, ItemCases
<1>2. ASSUME NEW i \in Markers(work), NEW j \in Markers(work), i < j
      PROVE  work[i].extent # work[j].extent
  <2>1. Apart(work[i].extent, work[j].extent)
    BY <1>1, <1>2 DEF Linear, ClosesApart
  <2>2. QED  BY <2>1 DEF Apart
<1>3. \A i, j \in Markers(work) : i < j \/ j < i \/ i = j
  BY <1>1
<1>4. \A i \in Markers(work) : Sound(work[i].extent, root)
  BY <1>1 DEF Linear, SoundWork
<1>5. QED  BY <1>2, <1>3, <1>4

(* What an activation still has to close is owed exactly once, is usable,  *)
(* and descends from the root of its own run, in every reachable state of  *)
(* every program: a return, a handler that shares a finish, a request, a   *)
(* replay and the end of another run all keep the pending work linear.     *)
THEOREM OutstandingCorrect == Spec => []OutstandingIsLinear
<1>1. TypeOK /\ LinearInv => OutstandingIsLinear
  <2> SUFFICES ASSUME TypeOK, LinearInv, NEW d \in 1..Depth,
                      NEW work, work = Pending(stack[d])
               PROVE  /\ \A i, j \in Markers(work) :
                           work[i].extent = work[j].extent => i = j
                      /\ \A e \in {work[i].extent : i \in Markers(work)}
                                    \cup {stack[d].extent} :
                           Usable(e) /\ RootOf(e) = stack[d].root
    BY DEF OutstandingIsLinear
  <2>1. PICK r, t : r = stack[d].root /\ t = FlatNodes[replay.todo]
    OBVIOUS
  <2>2. work \in Seq(Items) /\ t \in Seq(Items)
    BY <2>1, FrameLists
  <2>3. Linear(Whole(d), r) /\ Sound(stack[d].extent, r)
    BY <2>1 DEF LinearInv, Owed
  <2>4. Linear(work, r)
    <3>1. CASE Whole(d) = work
      BY <2>3, <3>1
    <3>2. CASE Whole(d) = t \o work
      <4>1. Linear(t \o work, r)
        BY <2>3, <3>2
      <4>2. QED  BY <2>2, <4>1, LinearRest
    <3>3. QED  BY <2>1, <3>1, <3>2 DEF Whole
  <2>5. /\ \A i, j \in Markers(work) : work[i].extent = work[j].extent => i = j
        /\ \A i \in Markers(work) : Sound(work[i].extent, r)
    BY <2>2, <2>4, LinearMarkers
  <2>6. ASSUME NEW e, Sound(e, r) PROVE Usable(e) /\ RootOf(e) = r
    <3>1. ExtentsOK /\ e \in 1..Len(extents)
      BY <2>6 DEF TypeOK, Sound, IsExtent
    <3>2. QED  BY <2>6, <3>1, UsableFacts DEF Sound, OnLive
  <2>7. \A e \in {work[i].extent : i \in Markers(work)} \cup {stack[d].extent} : Sound(e, r)
    BY <2>3, <2>5
  <2>8. QED  BY <2>1, <2>5, <2>6, <2>7
<1>2. QED  BY <1>1, TypeCorrect, LinearStaysSo, PTL

-----------------------------------------------------------------------------
(* The left part of an Append that an activation may run is flat.          *)

(* The sets of queues without an Append that hold what follows each node.  *)
Chains ==
  {S \in SUBSET (0..Len(nodes)) :
     \A q \in S :
       \/ q = Empty
       \/ nodes[q].tag = "Cons" /\ nodes[q].tail \in S
       \/ nodes[q].tag = "Finish" /\ nodes[q].rest \in S}

IsChain(q) == \E S \in Chains : q \in S

(* The sets of queues whose Append nodes have a chain on the left.         *)
Combs ==
  {S \in SUBSET (0..Len(nodes)) :
     \A q \in S :
       \/ q = Empty
       \/ nodes[q].tag = "Cons" /\ nodes[q].tail \in S
       \/ nodes[q].tag = "Finish" /\ nodes[q].rest \in S
       \/ nodes[q].tag = "Append" /\ IsChain(nodes[q].left) /\ nodes[q].right \in S}

IsComb(q) == \E S \in Combs : q \in S

(* Combs are all that activations run and scopes save; a replay reverses   *)
(* and rebuilds chains.  What is captured and traversed does not matter.   *)
StackOfCombs == \A d \in 1..Depth : IsComb(stack[d].queue)
SavedCombs ==
  \A c \in 1..Len(contexts) : contexts[c].tag = "Scoped" => IsComb(contexts[c].saved)
ReplayedChains ==
  /\ replay.pc # "idle" => IsChain(replay.reversed)
  /\ replay.pc = "rebuild" => IsChain(replay.todo)
CombsInv == StackOfCombs /\ SavedCombs /\ ReplayedChains

LEMMA NodeRanges ==
  ASSUME TypeOK, NEW q, IsQueue(q), q # Empty
  PROVE  /\ q \in 1..Len(nodes)
         /\ nodes[q].tag \in {"Cons", "Append", "Finish"}
         /\ nodes[q].tag = Kind(q)
BY QueueFacts, NodeFacts

LEMMA EmptyIsComb == TypeOK => IsChain(Empty) /\ IsComb(Empty)
<1> SUFFICES ASSUME TypeOK PROVE IsChain(Empty) /\ IsComb(Empty)
  OBVIOUS
<1>1. {Empty} \in SUBSET (0..Len(nodes))
  BY LengthsAreNat DEF Empty
<1>2. {Empty} \in Chains /\ {Empty} \in Combs
  BY <1>1 DEF Chains, Combs
<1>3. QED  BY <1>2 DEF IsChain, IsComb

LEMMA NewEmptyIsComb == TypeOK' => IsChain(Empty)' /\ IsComb(Empty)'
BY EmptyIsComb, PTL DEF Empty

LEMMA ChainParts ==
  ASSUME TypeOK, NEW q, IsChain(q)
  PROVE  /\ Kind(q) # "Append"
         /\ Kind(q) = "Cons" => IsChain(nodes[q].tail)
         /\ Kind(q) = "Finish" => IsChain(nodes[q].rest)
<1>1. PICK S \in Chains : q \in S
  BY DEF IsChain
<1>2. CASE q = Empty
  BY <1>2 DEF Kind
<1>3. CASE q # Empty
  <2>1. Kind(q) = nodes[q].tag
    BY <1>3 DEF Kind
  <2>2. \/ nodes[q].tag = "Cons" /\ nodes[q].tail \in S
        \/ nodes[q].tag = "Finish" /\ nodes[q].rest \in S
    BY <1>1, <1>3 DEF Chains
  <2>3. QED  BY <2>1, <2>2 DEF IsChain
<1>4. QED  BY <1>2, <1>3

LEMMA CombParts ==
  ASSUME TypeOK, NEW q, IsComb(q)
  PROVE  /\ Kind(q) = "Cons" => IsComb(nodes[q].tail)
         /\ Kind(q) = "Finish" => IsComb(nodes[q].rest)
         /\ Kind(q) = "Append" => IsChain(nodes[q].left) /\ IsComb(nodes[q].right)
<1>1. PICK S \in Combs : q \in S
  BY DEF IsComb
<1>2. CASE q = Empty
  BY <1>2 DEF Kind
<1>3. CASE q # Empty
  <2>1. Kind(q) = nodes[q].tag
    BY <1>3 DEF Kind
  <2>2. \/ nodes[q].tag = "Cons" /\ nodes[q].tail \in S
        \/ nodes[q].tag = "Finish" /\ nodes[q].rest \in S
        \/ nodes[q].tag = "Append" /\ IsChain(nodes[q].left) /\ nodes[q].right \in S
    BY <1>1, <1>3 DEF Combs
  <2>3. QED  BY <2>1, <2>2 DEF IsComb
<1>4. QED  BY <1>2, <1>3

(* Chains and combs stay so while the heap grows.                          *)
LEMMA ChainGrows ==
  ASSUME TypeOK, TypeOK', Grows, NEW q, IsChain(q) PROVE IsChain(q)'
<1>1. PICK S \in Chains : q \in S
  BY DEF IsChain
<1>2. Len(nodes) \in Nat /\ Len(nodes') \in Nat /\ Len(nodes) <= Len(nodes')
  BY LengthsAreNat DEF Grows
<1>3. S \in SUBSET (0..Len(nodes)) /\ S \in SUBSET (0..Len(nodes'))
  BY <1>2 DEF Chains
<1>4. \A i \in S : i # Empty => nodes'[i] = nodes[i]
  BY <1>2, <1>3 DEF Grows, Empty
<1>5. S \in Chains'
  BY <1>3, <1>4 DEF Chains
<1>6. QED  BY <1>1, <1>5 DEF IsChain

LEMMA CombGrows ==
  ASSUME TypeOK, TypeOK', Grows, NEW q, IsComb(q) PROVE IsComb(q)'
<1>1. PICK S \in Combs : q \in S
  BY DEF IsComb
<1>2. Len(nodes) \in Nat /\ Len(nodes') \in Nat /\ Len(nodes) <= Len(nodes')
  BY LengthsAreNat DEF Grows
<1>3. S \in SUBSET (0..Len(nodes)) /\ S \in SUBSET (0..Len(nodes'))
  BY <1>2 DEF Combs
<1>4. \A i \in S : i # Empty => nodes'[i] = nodes[i]
  BY <1>2, <1>3 DEF Grows, Empty
<1>5. ASSUME NEW i \in S, i # Empty
      PROVE  \/ nodes'[i].tag = "Cons" /\ nodes'[i].tail \in S
             \/ nodes'[i].tag = "Finish" /\ nodes'[i].rest \in S
             \/ /\ nodes'[i].tag = "Append" /\ nodes'[i].right \in S
                /\ IsChain(nodes[i].left)' /\ nodes'[i].left = nodes[i].left
  <2>1. nodes'[i] = nodes[i]
    BY <1>4, <1>5
  <2>2. PICK left : left = nodes[i].left
    OBVIOUS
  <2>3. \/ nodes[i].tag = "Cons" /\ nodes[i].tail \in S
        \/ nodes[i].tag = "Finish" /\ nodes[i].rest \in S
        \/ nodes[i].tag = "Append" /\ IsChain(left) /\ nodes[i].right \in S
    BY <1>5, <2>2 DEF Combs
  <2>4. IsChain(left) => IsChain(left)'
    BY ChainGrows
  <2>5. QED  BY <2>1, <2>2, <2>3, <2>4
<1>6. S \in Combs'
  BY <1>3, <1>5 DEF Combs
<1>7. QED  BY <1>1, <1>6 DEF IsComb

(* A node in front of a chain, and in front of a comb.                     *)
ChainRule ==
  \A q \in 1..Len(nodes) :
    \/ nodes[q].tag = "Cons" /\ IsChain(nodes[q].tail)
    \/ nodes[q].tag = "Finish" /\ IsChain(nodes[q].rest)
    => IsChain(q)

CombRule ==
  \A q \in 1..Len(nodes) :
    \/ nodes[q].tag = "Cons" /\ IsComb(nodes[q].tail)
    \/ nodes[q].tag = "Finish" /\ IsComb(nodes[q].rest)
    \/ nodes[q].tag = "Append" /\ IsChain(nodes[q].left) /\ IsComb(nodes[q].right)
    => IsComb(q)

LEMMA ChainExtends == ChainRule
<1> SUFFICES ASSUME NEW q \in 1..Len(nodes), NEW next, IsChain(next),
                    \/ nodes[q].tag = "Cons" /\ nodes[q].tail = next
                    \/ nodes[q].tag = "Finish" /\ nodes[q].rest = next
             PROVE  IsChain(q)
  BY DEF ChainRule
<1>1. PICK S \in Chains : next \in S
  BY DEF IsChain
<1>2. S \cup {q} \in SUBSET (0..Len(nodes))
  <2>1. S \in SUBSET (0..Len(nodes))
    BY <1>1 DEF Chains
  <2>2. q \in 0..Len(nodes)
    OBVIOUS
  <2>3. QED  BY <2>1, <2>2
<1>3. S \cup {q} \in Chains
  BY <1>1, <1>2 DEF Chains
<1>4. QED  BY <1>3 DEF IsChain

LEMMA CombExtends == CombRule
<1> SUFFICES ASSUME NEW q \in 1..Len(nodes), NEW next, IsComb(next),
                    \/ nodes[q].tag = "Cons" /\ nodes[q].tail = next
                    \/ nodes[q].tag = "Finish" /\ nodes[q].rest = next
                    \/ /\ nodes[q].tag = "Append" /\ IsChain(nodes[q].left)
                       /\ nodes[q].right = next
             PROVE  IsComb(q)
  BY DEF CombRule
<1>1. PICK S \in Combs : next \in S
  BY DEF IsComb
<1>2. S \cup {q} \in SUBSET (0..Len(nodes))
  <2>1. S \in SUBSET (0..Len(nodes))
    BY <1>1 DEF Combs
  <2>2. q \in 0..Len(nodes)
    OBVIOUS
  <2>3. QED  BY <2>1, <2>2
<1>3. S \cup {q} \in Combs
  BY <1>1, <1>2 DEF Combs
<1>4. QED  BY <1>3 DEF IsComb

LEMMA NewExtensions == ChainRule' /\ CombRule'
BY ChainExtends, CombExtends, PTL

(* Nodes that the step allocates.                                          *)
LEMMA AllocatedNode ==
  ASSUME TypeOK, TypeOK', NEW node \in Nodes, nodes' = Allocate(nodes, node),
         NEW ref, ref = Ref(nodes, node)
  PROVE  /\ ref \in 1..Len(nodes') /\ nodes'[ref] = node
         /\ node.tag = "Cons" /\ IsChain(node.tail)' => IsChain(ref)'
         /\ node.tag = "Finish" /\ IsChain(node.rest)' => IsChain(ref)'
         /\ node.tag = "Cons" /\ IsComb(node.tail)' => IsComb(ref)'
         /\ node.tag = "Finish" /\ IsComb(node.rest)' => IsComb(ref)'
         /\ node.tag = "Append" /\ IsChain(node.left)' /\ IsComb(node.right)' => IsComb(ref)'
<1>1. ref \in 1..Len(nodes') /\ nodes'[ref] = node
  BY NewNode DEF TypeOK, NodesOK
<1>2. QED  BY <1>1, NewExtensions DEF ChainRule, CombRule

(* A saved queue stays a comb: a scope saves what is left of the queue it  *)
(* is entered over.                                                        *)
LEMMA SavedAllocated ==
  ASSUME TypeOK, TypeOK', Grows, SavedCombs,
         NEW context \in Contexts, contexts' = Allocate(contexts, context),
         NEW saved, IsComb(saved), context.tag = "Scoped" => context.saved = saved
  PROVE  SavedCombs'
<1>1. PICK ref : ref = Ref(contexts, context)
  OBVIOUS
<1>2. /\ \A i \in 1..Len(contexts) : contexts'[i] = contexts[i]
      /\ \A i \in 1..Len(contexts') :
           i \in 1..Len(contexts) \/ (i = Len(contexts) + 1 /\ contexts'[i] = context)
  BY <1>1, ContextsGrow
<1>3. ASSUME NEW c \in 1..Len(contexts'), contexts'[c].tag = "Scoped"
      PROVE  IsComb(contexts[c].saved)'
  <2>1. PICK q : q = contexts'[c].saved
    OBVIOUS
  <2>2. IsComb(q)
    BY <1>2, <1>3, <2>1 DEF SavedCombs
  <2>3. IsComb(q)'
    BY <2>2, CombGrows
  <2>4. QED  BY <2>1, <2>3
<1>4. QED  BY <1>3 DEF SavedCombs

LEMMA SavedKept ==
  ASSUME TypeOK, TypeOK', Grows, SavedCombs, UNCHANGED contexts PROVE SavedCombs'
<1>1. ASSUME NEW c \in 1..Len(contexts), contexts[c].tag = "Scoped"
      PROVE  IsComb(contexts[c].saved)'
  <2>1. PICK q : q = contexts[c].saved
    OBVIOUS
  <2>2. IsComb(q)
    BY <1>1, <2>1 DEF SavedCombs
  <2>3. IsComb(q)'
    BY <2>2, CombGrows
  <2>4. QED  BY <2>1, <2>3
<1>2. QED  BY <1>1 DEF SavedCombs

LEMMA TopComb ==
  ASSUME TypeOK, StackOfCombs, Depth > 0
  PROVE  IsComb(Top.queue) /\ IsQueue(Top.queue)
BY TopFacts DEF StackOfCombs, Top, FrameOK

LEMMA SourceSaves ==
  ASSUME TypeOK, TypeOK', Grows, SavedCombs, Depth > 0,
         NEW saved, IsQueue(saved), IsComb(saved), NEW p, p \in Nat, NEW e, e \in Nat,
         EnterSource(saved, p, e)
  PROVE  SavedCombs'
<1>1. PICK context : context = ScopedContext(saved, p, Top.ctx, e)
  OBVIOUS
<1>2. contexts' = Allocate(contexts, context)
  BY <1>1 DEF EnterSource
<1>3. saved \in Nat /\ Top.ctx \in Nat
  BY LengthsAreNat, TopFacts DEF IsQueue, FrameOK
<1>4. context \in Contexts /\ context.saved = saved
  BY <1>1, <1>3 DEF ScopedContext, Contexts
<1>5. QED  BY <1>2, <1>4, SavedAllocated

LEMMA NextSaved == ASSUME TypeOK, CombsInv, Next PROVE SavedCombs'
<1>1. TypeOK' /\ Grows /\ SavedCombs /\ StackOfCombs
  BY NextGrows DEF CombsInv
<1>2. CASE UNCHANGED contexts
  BY <1>1, <1>2, SavedKept
<1>3. ASSUME HandleFresh PROVE SavedCombs'
  <2>1. PICK saved, p, e : saved = Top.queue /\ p = Top.extent /\ e = Len(extents) + 1
    OBVIOUS
  <2>2. Depth > 0 /\ EnterSource(saved, p, e)
    BY <1>3, <2>1 DEF HandleFresh, Handling, Dispatching
  <2>3. p \in Nat /\ e \in Nat
    BY <2>1, <2>2, TopFacts, LengthsAreNat DEF Frames
  <2>4. QED  BY <1>1, <2>1, <2>2, <2>3, TopComb, SourceSaves
<1>4. ASSUME HandleFinish PROVE SavedCombs'
  <2>1. PICK node : node = nodes[Top.queue]
    OBVIOUS
  <2>2. PICK saved, p, e : saved = node.rest /\ p = node.parent /\ e = node.extent
    OBVIOUS
  <2>3. Depth > 0 /\ Kind(Top.queue) = "Finish" /\ EnterSource(saved, p, e)
    BY <1>4, <2>1, <2>2 DEF HandleFinish, Handling, Dispatching
  <2>4. IsComb(Top.queue) /\ IsQueue(Top.queue)
    BY <1>1, <2>3, TopComb
  <2>5. IsComb(saved)
    BY <2>1, <2>2, <2>3, <2>4, CombParts
  <2>6. IsQueue(saved) /\ IsExtent(p) /\ IsExtent(e)
    BY <2>1, <2>2, <2>3, <2>4, FinishFacts DEF IsScoped
  <2>7. p \in Nat /\ e \in Nat
    BY <2>6, LengthsAreNat DEF IsExtent
  <2>8. QED  BY <1>1, <2>3, <2>5, <2>6, <2>7, SourceSaves
<1>5. ASSUME NEW c \in Suppliable, Run(c) PROVE SavedCombs'
  <2>1. PICK context : context = RootContext(Len(extents) + 1)
    OBVIOUS
  <2>2. contexts' = Allocate(contexts, context)
    BY <1>5, <2>1 DEF Run
  <2>3. context \in Contexts /\ context.tag # "Scoped"
    BY <2>1, LengthsAreNat DEF RootContext, Contexts
  <2>4. QED  BY <1>1, <2>2, <2>3, EmptyIsComb, SavedAllocated
<1>6. UNCHANGED contexts \/ HandleFresh \/ HandleFinish \/ \E c \in Suppliable : Run(c)
  <2>1. ASSUME ReplayStep PROVE UNCHANGED contexts
    BY <2>1 DEF ReplayStep, CloneCons, CloneAppend, CloneFinish, CloneTodo, RebuildCons,
       RebuildFinish, RebuildDone, heapVars
  <2>2. ASSUME ExecutorStep PROVE UNCHANGED contexts \/ HandleFresh \/ HandleFinish
    BY <2>2 DEF ExecutorStep, Publish, ReturnClause, ReturnCons, ReturnAppendCons,
       ReturnFinish, ReturnRotate, Perform, Bind, Resume, HandleNormalize, OwnedResume, heapVars
  <2>3. ASSUME GuestStep PROVE UNCHANGED contexts \/ \E c \in Suppliable : Run(c)
    BY <2>3 DEF GuestStep, Supply, RawResume, Once, Cancel, Throw, heapVars
  <2>4. ASSUME Exhaust PROVE UNCHANGED contexts
    BY <2>4 DEF Exhaust
  <2>5. QED  BY <2>1, <2>2, <2>3, <2>4 DEF Next, MachineStep
<1>7. QED  BY <1>2, <1>3, <1>4, <1>5, <1>6

-----------------------------------------------------------------------------
(* A replay reverses and rebuilds chains.                                  *)

LEMMA ReplayedKept ==
  ASSUME TypeOK, TypeOK', Grows, ReplayedChains, UNCHANGED replay PROVE ReplayedChains'
<1>1. PICK a, b : a = replay.reversed /\ b = replay.todo
  OBVIOUS
<1>2. (IsChain(a) => IsChain(a)') /\ (IsChain(b) => IsChain(b)')
  BY ChainGrows
<1>3. QED  BY <1>1, <1>2 DEF ReplayedChains

(* The registers after a replay step.                                      *)
LEMMA ReplayedSet ==
  ASSUME NEW a, a = replay'.reversed, IsChain(a)',
         NEW b, b = replay'.todo, replay'.pc = "rebuild" => IsChain(b)'
  PROVE  ReplayedChains'
BY DEF ReplayedChains

LEMMA NextReplayed == ASSUME TypeOK, CombsInv, Next PROVE ReplayedChains'
<1>1. TypeOK' /\ Grows /\ ReplayedChains
  BY NextGrows DEF CombsInv
<1>2. CASE UNCHANGED replay
  BY <1>1, <1>2, ReplayedKept
<1>3. CASE replay' = Idle
  BY <1>3 DEF ReplayedChains, Idle
<1>4. ASSUME Resume PROVE ReplayedChains'
  <2>1. CASE UNCHANGED replay
    BY <1>2, <2>1
  <2>2. CASE ~UNCHANGED replay
    <3>1. replay'.pc = "clone" /\ replay'.reversed = Empty
      BY <1>4, <2>2 DEF Resume, Idle
    <3>2. QED  BY <1>1, <3>1, NewEmptyIsComb DEF ReplayedChains
  <2>3. QED  BY <2>1, <2>2
<1>5. ASSUME ReplayStep, replay' # Idle, ~UNCHANGED replay PROVE ReplayedChains'
  <2>1. replay.pc # "idle"
    BY <1>5 DEF ReplayStep, CloneCons, CloneAppend, CloneFinish, CloneTodo, RebuildCons,
       RebuildFinish, RebuildDone, Cloning, Rebuilding
  <2>2. replay \in Registers /\ IsQueue(replay.queue) /\ IsQueue(replay.todo)
        /\ IsQueue(replay.reversed) /\ IsExtent(replay.active) /\ IsExtent(replay.parent)
    BY <2>1 DEF TypeOK, ReplayOK
  <2>3. PICK seen, built : seen = replay.reversed /\ built = replay.todo
    OBVIOUS
  <2>4. /\ IsChain(seen) /\ IsChain(seen)' /\ IsQueue(seen) /\ IsQueue(built)
        /\ replay.pc = "rebuild" => IsChain(built)'
    <3>1. IsChain(seen) => IsChain(seen)'
      BY <1>1, ChainGrows
    <3>2. IsChain(built) => IsChain(built)'
      BY <1>1, ChainGrows
    <3>3. QED  BY <1>1, <2>1, <2>2, <2>3, <3>1, <3>2 DEF ReplayedChains
  <2>5. ASSUME CloneCons PROVE ReplayedChains'
    <3>1. PICK node : node = nodes[replay.queue]
      OBVIOUS
    <3>2. PICK new : new = ConsNode(node.head, seen)
      OBVIOUS
    <3>3. PICK ref : ref = Ref(nodes, new)
      OBVIOUS
    <3>4. /\ Kind(replay.queue) = "Cons" /\ replay.pc = "clone" /\ nodes' = Allocate(nodes, new)
          /\ replay' = [replay EXCEPT !.queue = node.tail, !.reversed = ref]
      BY <2>3, <2>5, <3>1, <3>2, <3>3 DEF CloneCons, Cloning
    <3>5. node.head \in Callbacks
      BY <2>2, <3>1, <3>4, ConsFacts
    <3>6. new \in Nodes /\ new.tag = "Cons" /\ new.tail = seen
      BY <2>4, <3>2, <3>5, FreshNodes DEF ConsNode
    <3>7. IsChain(ref)'
      BY <1>1, <2>4, <3>3, <3>4, <3>6, AllocatedNode
    <3>8. replay'.reversed = ref /\ replay'.pc = "clone"
      BY <2>2, <3>4 DEF Registers
    <3>9. QED  BY <3>7, <3>8 DEF ReplayedChains
  <2>6. ASSUME CloneAppend PROVE ReplayedChains'
    <3>1. replay'.reversed = seen /\ replay'.pc = "clone"
      BY <2>2, <2>3, <2>6 DEF CloneAppend, Cloning, Registers
    <3>2. QED  BY <2>4, <3>1 DEF ReplayedChains
  <2>7. ASSUME CloneFinish PROVE ReplayedChains'
    <3>1. PICK node : node = nodes[replay.queue]
      OBVIOUS
    <3>2. PICK new : new = Finish(node.extent, seen, replay.parent)
      OBVIOUS
    <3>3. PICK ref : ref = Ref(nodes, new)
      OBVIOUS
    <3>4. /\ Kind(replay.queue) = "Finish" /\ replay.pc = "clone" /\ nodes' = Allocate(nodes, new)
          /\ replay' = [replay EXCEPT !.queue = node.rest, !.reversed = ref]
      BY <1>5, <2>3, <2>7, <3>1, <3>2, <3>3 DEF CloneFinish, Cloning
    <3>5. IsScoped(node.extent)
      BY <2>2, <3>1, <3>4, FinishFacts
    <3>6. new \in Nodes /\ new.tag = "Finish" /\ new.rest = seen
      BY <2>2, <2>4, <3>2, <3>5, FreshNodes DEF Finish
    <3>7. IsChain(ref)'
      BY <1>1, <2>4, <3>3, <3>4, <3>6, AllocatedNode
    <3>8. replay'.reversed = ref /\ replay'.pc = "clone"
      BY <2>2, <3>4 DEF Registers
    <3>9. QED  BY <3>7, <3>8 DEF ReplayedChains
  <2>8. ASSUME CloneTodo PROVE ReplayedChains'
    <3>1. replay'.reversed = seen
      BY <1>5, <2>2, <2>3, <2>8 DEF CloneTodo, Registers
    <3>2. replay'.pc = "rebuild" => Kind(built) = "Empty" /\ replay'.todo = built
      BY <1>5, <2>2, <2>3, <2>8 DEF CloneTodo, Cloning, Registers
    <3>3. Kind(built) = "Empty" => built = Empty
      <4>1. built # Empty => Kind(built) \in {"Cons", "Append", "Finish"}
        BY <2>4, QueueFacts, NodeFacts
      <4>2. QED  BY <4>1
    <3>4. QED  BY <1>1, <2>4, <3>1, <3>2, <3>3, NewEmptyIsComb DEF ReplayedChains
  <2>9. ASSUME RebuildCons PROVE ReplayedChains'
    <3>1. PICK node : node = nodes[seen]
      OBVIOUS
    <3>2. PICK new : new = ConsNode(node.head, built)
      OBVIOUS
    <3>3. PICK ref, rest : ref = Ref(nodes, new) /\ rest = node.tail
      OBVIOUS
    <3>4. /\ Kind(seen) = "Cons" /\ replay.pc = "rebuild" /\ nodes' = Allocate(nodes, new)
          /\ replay' = [replay EXCEPT !.reversed = rest, !.todo = ref]
      BY <2>3, <2>9, <3>1, <3>2, <3>3 DEF RebuildCons, Rebuilding
    <3>5. node.head \in Callbacks
      BY <2>4, <3>1, <3>4, ConsFacts
    <3>6. new \in Nodes /\ new.tag = "Cons" /\ new.tail = built
      BY <2>4, <3>2, <3>5, FreshNodes DEF ConsNode
    <3>7. IsChain(ref)'
      BY <1>1, <2>4, <3>3, <3>4, <3>6, AllocatedNode
    <3>8. IsChain(rest)
      BY <2>4, <3>1, <3>3, <3>4, ChainParts
    <3>9. IsChain(rest)'
      BY <1>1, <3>8, ChainGrows
    <3>10. replay'.reversed = rest /\ replay'.todo = ref
      BY <2>2, <3>4 DEF Registers
    <3>11. QED  BY <3>7, <3>9, <3>10, ReplayedSet
  <2>10. ASSUME RebuildFinish PROVE ReplayedChains'
    <3>1. PICK fresh, active : fresh = Len(extents) + 1 /\ active = replay.active
      OBVIOUS
    <3>2. PICK new : new = Finish(fresh, built, active)
      OBVIOUS
    <3>3. PICK ref, rest : ref = Ref(nodes, new) /\ rest = nodes[seen].rest
      OBVIOUS
    <3>4. /\ Kind(seen) = "Finish" /\ replay.pc = "rebuild" /\ nodes' = Allocate(nodes, new)
          /\ replay' = [replay EXCEPT !.reversed = rest, !.todo = ref, !.active = fresh,
                                      !.parent = fresh]
      BY <2>3, <2>10, <3>1, <3>2, <3>3 DEF RebuildFinish, Rebuilding
    <3>5. new \in Nodes /\ new.tag = "Finish" /\ new.rest = built
      <4>1. fresh \in Nat /\ active \in Nat /\ built \in Nat
        BY <2>2, <2>4, <3>1, LengthsAreNat DEF IsQueue, IsExtent
      <4>2. QED  BY <3>2, <4>1 DEF Finish, Nodes
    <3>6. IsChain(ref)'
      BY <1>1, <2>4, <3>3, <3>4, <3>5, AllocatedNode
    <3>7. IsChain(rest)
      BY <2>4, <3>3, <3>4, ChainParts
    <3>8. IsChain(rest)'
      BY <1>1, <3>7, ChainGrows
    <3>9. replay'.reversed = rest /\ replay'.todo = ref
      BY <2>2, <3>4 DEF Registers
    <3>10. QED  BY <3>6, <3>8, <3>9, ReplayedSet
  <2>11. ASSUME RebuildDone PROVE FALSE
    BY <1>5, <2>11 DEF RebuildDone
  <2>12. QED
    BY <1>5, <2>5, <2>6, <2>7, <2>8, <2>9, <2>10, <2>11 DEF ReplayStep
<1>6. UNCHANGED replay \/ replay' = Idle \/ Resume \/ ReplayStep
  <2>1. ASSUME ExecutorStep PROVE UNCHANGED replay \/ Resume
    BY <2>1 DEF ExecutorStep, Publish, ReturnClause, ReturnCons, ReturnAppendCons,
       ReturnFinish, ReturnRotate, Perform, Bind, HandleFresh, HandleFinish,
       HandleNormalize, OwnedResume
  <2>2. ASSUME GuestStep PROVE UNCHANGED replay
    BY <2>2 DEF GuestStep, Supply, Run, RawResume, Once, Cancel, Throw
  <2>3. ASSUME Exhaust PROVE replay' = Idle
    BY <2>3 DEF Exhaust
  <2>4. QED  BY <2>1, <2>2, <2>3 DEF Next, MachineStep
<1>7. QED  BY <1>2, <1>3, <1>4, <1>5, <1>6

-----------------------------------------------------------------------------
(* An activation runs a comb.                                              *)

LEMMA QueueSet ==
  ASSUME TypeOK, TypeOK', Grows, StackOfCombs, Depth > 0,
         NEW frame, SetTop(frame), NEW q, q = frame.queue, IsComb(q)'
  PROVE  StackOfCombs'
<1>1. /\ Depth' = Depth /\ stack'[Depth] = frame
      /\ \A d \in 1..Depth : d # Depth => stack'[d] = stack[d]
  BY TopSet
<1>2. ASSUME NEW d \in 1..Depth PROVE IsComb(stack[d].queue)'
  <2>1. PICK s : s = stack[d].queue
    OBVIOUS
  <2>2. IsComb(s)'
    BY <2>1, CombGrows DEF StackOfCombs
  <2>3. QED  BY <1>1, <2>1, <2>2
<1>3. QED  BY <1>1, <1>2 DEF StackOfCombs

(* The queue is an older one.                                              *)
LEMMA OldQueueSet ==
  ASSUME TypeOK, TypeOK', Grows, StackOfCombs, Depth > 0,
         NEW frame, SetTop(frame), NEW q, q = frame.queue, IsComb(q)
  PROVE  StackOfCombs'
<1>1. IsComb(q)'
  BY CombGrows
<1>2. QED  BY <1>1, QueueSet

LEMMA StackKept ==
  ASSUME TypeOK, TypeOK', Grows, StackOfCombs, UNCHANGED stack PROVE StackOfCombs'
<1>1. ASSUME NEW d \in 1..Depth PROVE IsComb(stack[d].queue)'
  <2>1. PICK s : s = stack[d].queue
    OBVIOUS
  <2>2. IsComb(s)'
    BY <2>1, CombGrows DEF StackOfCombs
  <2>3. QED  BY <2>1, <2>2
<1>2. QED  BY <1>1 DEF StackOfCombs, Depth

LEMMA StackPopped ==
  ASSUME TypeOK, TypeOK', Grows, StackOfCombs, Depth > 0, Pop PROVE StackOfCombs'
<1>1. \A d \in 1..Depth' : stack'[d] = stack[d] /\ d \in 1..Depth
  BY PoppedActivations
<1>2. ASSUME NEW d \in 1..Depth' PROVE IsComb(stack[d].queue)'
  <2>1. PICK s : s = stack[d].queue
    OBVIOUS
  <2>2. IsComb(s)'
    BY <1>1, <2>1, CombGrows DEF StackOfCombs
  <2>3. QED  BY <1>1, <2>1, <2>2
<1>3. QED  BY <1>2 DEF StackOfCombs

LEMMA RunCombs ==
  ASSUME TypeOK, StackOfCombs, NEW c \in Suppliable, Run(c) PROVE StackOfCombs'
<1>1. TypeOK' /\ Grows
  BY NextGrows DEF Next, GuestStep
<1>2. PICK frame : stack' = Append(stack, frame) /\ frame.queue = Empty
  BY DEF Run
<1>3. /\ Depth \in Nat /\ Depth' = Depth + 1 /\ stack'[Depth + 1] = frame
      /\ \A d \in 1..Depth : stack'[d] = stack[d]
  <2>1. PICK S : S = Frames \cup {frame}
    OBVIOUS
  <2>2. stack \in Seq(S) /\ frame \in S
    BY <2>1 DEF TypeOK, StackOK
  <2>3. QED  BY <1>2, <2>2 DEF Depth
<1>4. ASSUME NEW d \in 1..(Depth + 1) PROVE IsComb(stack[d].queue)'
  <2>1. CASE d = Depth + 1
    BY <1>1, <1>2, <1>3, <2>1, NewEmptyIsComb
  <2>2. CASE d # Depth + 1
    <3>1. d \in 1..Depth
      BY <1>3, <2>2
    <3>2. PICK s : s = stack[d].queue
      OBVIOUS
    <3>3. IsComb(s)'
      BY <1>1, <3>1, <3>2, CombGrows DEF StackOfCombs
    <3>4. QED  BY <1>3, <3>1, <3>2, <3>3
  <2>3. QED  BY <2>1, <2>2
<1>5. QED  BY <1>3, <1>4 DEF StackOfCombs

(* Rotating an Append: its left part is a chain.                           *)
LEMMA RotateCombs ==
  ASSUME TypeOK, TypeOK', Grows, StackOfCombs, Depth > 0, Kind(Top.queue) = "Append",
         RotateEmpty \/ \E kind \in {"Cons", "Append", "Finish"} : Rotate(kind)
  PROVE  StackOfCombs'
<1>1. PICK l, right : l = Left /\ right = Right
  OBVIOUS
<1>2. /\ IsQueue(l) /\ IsQueue(right) /\ IsChain(l) /\ IsComb(right)
  BY <1>1, TopComb, AppendFacts, CombParts DEF Left, Right
<1>3. CASE RotateEmpty
  <2>1. PICK frame : frame = [Top EXCEPT !.queue = right]
    OBVIOUS
  <2>2. SetTop(frame) /\ frame.queue = right
    BY <1>1, <1>3, <2>1, TopFacts DEF RotateEmpty, Frames
  <2>3. QED  BY <1>2, <2>2, OldQueueSet
<1>4. ASSUME NEW kind \in {"Cons", "Append", "Finish"}, Rotate(kind) PROVE StackOfCombs'
  <2>1. PICK left : left = nodes[l]
    OBVIOUS
  <2>2. Kind(l) = kind /\ kind # "Append"
    BY <1>1, <1>2, <1>4, ChainParts DEF Rotate
  <2>3. PICK rest : rest = Remainder(left)
    OBVIOUS
  <2>4. left \in Nodes /\ left.tag = kind /\ IsQueue(rest) /\ IsChain(rest)
    <3>1. l # Empty
      BY <1>4, <2>2 DEF Kind
    <3>2. left \in Nodes /\ left.tag = kind
      BY <1>2, <2>1, <2>2, <3>1, QueueFacts
    <3>3. CASE kind = "Cons"
      <4>1. rest = left.tail
        BY <2>3, <3>2, <3>3 DEF Remainder
      <4>2. QED  BY <1>2, <2>1, <2>2, <3>2, <3>3, <4>1, ConsFacts, ChainParts
    <3>4. CASE kind = "Finish"
      <4>1. rest = left.rest
        BY <2>3, <3>2, <3>4 DEF Remainder
      <4>2. QED  BY <1>2, <2>1, <2>2, <3>2, <3>4, <4>1, FinishFacts, ChainParts
    <3>5. QED  BY <2>2, <3>3, <3>4
  <2>5. PICK tail : tail = AppendNode(rest, right)
    OBVIOUS
  <2>6. PICK heap, t : heap = Allocate(nodes, tail) /\ t = Ref(nodes, tail)
    OBVIOUS
  <2>7. PICK whole : whole = Rehead(left, t)
    OBVIOUS
  <2>8. PICK q : q = Ref(heap, whole)
    OBVIOUS
  <2>9. PICK frame : frame = [Top EXCEPT !.queue = q]
    OBVIOUS
  <2>10. nodes' = Allocate(heap, whole) /\ SetTop(frame) /\ frame.queue = q
    <3>1. nodes' = Allocate(heap, whole) /\ SetTop(frame)
      BY <1>1, <1>4, <2>1, <2>3, <2>5, <2>6, <2>7, <2>8, <2>9 DEF Rotate
    <3>2. QED  BY <2>9, <3>1, TopFacts DEF Frames
  <2>11. tail \in Nodes
    BY <1>2, <2>4, <2>5, FreshNodes
  <2>12. heap \in Seq(Nodes) /\ t \in 1..Len(heap) /\ heap[t] = tail /\ Len(heap) \in Nat
    <3>1. nodes \in Seq(Nodes)
      BY DEF TypeOK, NodesOK
    <3>2. heap \in Seq(Nodes) /\ Len(heap) \in Nat
      BY <2>6, <2>11, <3>1 DEF Allocate
    <3>3. t \in 1..Len(heap) /\ heap[t] = tail
      BY <2>6, <2>11, <3>1, NewNode
    <3>4. QED  BY <3>2, <3>3
  <2>13. whole \in Nodes
    BY <2>4, <2>7, <2>12, NodeFacts DEF Rehead, ConsNode, AppendNode, Finish, Nodes
  <2>14. /\ t \in 1..Len(nodes') /\ nodes'[t] = tail
         /\ q \in 1..Len(nodes') /\ nodes'[q] = whole
    <3>1. /\ Len(nodes') \in Nat /\ Len(heap) <= Len(nodes')
          /\ \A i \in 1..Len(heap) : nodes'[i] = heap[i]
      BY <2>10, <2>12, AllocateExtends
    <3>2. q \in 1..Len(nodes') /\ nodes'[q] = whole
      BY <2>8, <2>10, <2>12, <2>13, NewNode
    <3>3. QED  BY <2>12, <3>1, <3>2
  <2>15. IsComb(t)'
    <3>1. tail.tag = "Append" /\ tail.left = rest /\ tail.right = right
      BY <2>5 DEF AppendNode
    <3>2. IsChain(rest)'
      BY <2>4, ChainGrows
    <3>3. IsComb(right)'
      BY <1>2, CombGrows
    <3>4. QED  BY <2>14, <3>1, <3>2, <3>3, NewExtensions DEF CombRule
  <2>16. \/ whole.tag = "Cons" /\ whole.tail = t
         \/ whole.tag = "Finish" /\ whole.rest = t
    BY <2>2, <2>4, <2>7 DEF Rehead, ConsNode, Finish
  <2>17. IsComb(q)'
    BY <2>14, <2>15, <2>16, NewExtensions DEF CombRule
  <2>18. QED  BY <2>10, <2>17, QueueSet
<1>5. QED  BY <1>3, <1>4

LEMMA ReturnCombs ==
  ASSUME TypeOK, StackOfCombs,
         ReturnClause \/ ReturnCons \/ ReturnAppendCons \/ ReturnFinish \/ Perform
  PROVE  StackOfCombs'
<1>1. TypeOK' /\ Grows
  BY NextGrows DEF Next, MachineStep, ExecutorStep
<1>2. Depth > 0
  BY DEF ReturnClause, ReturnCons, ReturnAppendCons, ReturnFinish, Perform, Returning,
     Dispatching
<1>3. PICK top : top = Top.queue
  OBVIOUS
<1>4. IsComb(top) /\ IsQueue(top) /\ Top \in Frames
  BY <1>2, <1>3, TopComb, TopFacts
<1>5. ASSUME NEW await, NEW callee, NEW q, IsComb(q)', Apply(await, callee, q)
      PROVE  StackOfCombs'
  <2>1. PICK frame : frame = [Top EXCEPT !.await = await, !.callee = callee,
                                         !.queue = q, !.comp = NoComp]
    OBVIOUS
  <2>2. SetTop(frame) /\ q = frame.queue
    BY <1>4, <1>5, <2>1 DEF Apply, Frames
  <2>3. QED  BY <1>1, <1>2, <1>5, <2>2, QueueSet
<1>6. CASE ReturnClause \/ Perform
  <2>1. \E await : Apply(await, NoCallee, Empty)
    BY <1>6 DEF ReturnClause, Perform
  <2>2. IsComb(Empty)'
    BY <1>1, NewEmptyIsComb
  <2>3. QED  BY <1>5, <2>1, <2>2 DEF Empty
<1>7. CASE ReturnCons
  <2>1. PICK tail : tail = nodes[top].tail
    OBVIOUS
  <2>2. Apply("next", nodes[top].head, tail) /\ Kind(top) = "Cons"
    BY <1>3, <1>7, <2>1 DEF ReturnCons, Returning
  <2>3. IsComb(tail)'
    <3>1. IsComb(tail)
      BY <1>4, <2>1, <2>2, CombParts
    <3>2. QED  BY <1>1, <3>1, CombGrows
  <2>4. QED  BY <1>5, <2>2, <2>3
<1>8. CASE ReturnAppendCons
  <2>1. PICK left, right : left = nodes[top].left /\ right = nodes[top].right
    OBVIOUS
  <2>2. PICK tail : tail = nodes[left].tail
    OBVIOUS
  <2>3. PICK pending : pending = AppendNode(tail, right)
    OBVIOUS
  <2>4. PICK ref : ref = Ref(nodes, pending)
    OBVIOUS
  <2>5. /\ Kind(top) = "Append" /\ Kind(left) = "Cons"
        /\ nodes' = Allocate(nodes, pending)
        /\ Apply("next", nodes[left].head, ref)
    BY <1>3, <1>8, <2>1, <2>2, <2>3, <2>4 DEF ReturnAppendCons, Returning, Left, Right
  <2>6. IsChain(left) /\ IsComb(right) /\ IsQueue(left) /\ IsQueue(right)
    BY <1>4, <2>1, <2>5, CombParts, AppendFacts
  <2>7. IsChain(tail) /\ IsQueue(tail)
    BY <2>2, <2>5, <2>6, ChainParts, ConsFacts
  <2>8. IsChain(tail)'
    BY <1>1, <2>7, ChainGrows
  <2>9. IsComb(right)'
    BY <1>1, <2>6, CombGrows
  <2>10. pending \in Nodes /\ pending.tag = "Append" /\ pending.left = tail
         /\ pending.right = right
    BY <2>3, <2>6, <2>7, FreshNodes DEF AppendNode
  <2>11. IsComb(ref)'
    BY <1>1, <2>4, <2>5, <2>8, <2>9, <2>10, AllocatedNode
  <2>12. QED  BY <1>5, <2>5, <2>11
<1>9. CASE ReturnFinish
  <2>1. PICK rest, parent : rest = nodes[top].rest /\ parent = nodes[top].parent
    OBVIOUS
  <2>2. PICK frame : frame = [Top EXCEPT !.queue = rest, !.extent = parent]
    OBVIOUS
  <2>3. SetTop(frame) /\ Kind(top) = "Finish" /\ rest = frame.queue
    <3>1. SetTop(frame) /\ Kind(top) = "Finish"
      BY <1>3, <1>9, <2>1, <2>2 DEF ReturnFinish, Returning
    <3>2. QED  BY <1>4, <2>2, <3>1 DEF Frames
  <2>4. IsComb(rest)
    BY <1>4, <2>1, <2>3, CombParts
  <2>5. QED  BY <1>1, <1>2, <2>3, <2>4, OldQueueSet
<1>10. QED  BY <1>6, <1>7, <1>8, <1>9

LEMMA BindCombs == ASSUME TypeOK, StackOfCombs, Bind PROVE StackOfCombs'
<1>1. TypeOK' /\ Grows
  BY NextGrows DEF Next, MachineStep, ExecutorStep
<1>2. PICK top, then, inner :
        top = Top.queue /\ then = Top.comp.then /\ inner = Text[Top.comp.inner]
  OBVIOUS
<1>3. Depth > 0 /\ Top.comp.tag = "Bind"
  BY DEF Bind, Dispatching
<1>4. IsComb(top) /\ IsQueue(top) /\ Top \in Frames
  BY <1>2, <1>3, TopComb, TopFacts
<1>5. PICK pending : pending = ConsNode(then, top)
  OBVIOUS
<1>6. PICK ref : ref = Ref(nodes, pending)
  OBVIOUS
<1>7. PICK frame : frame = [Top EXCEPT !.comp = inner, !.queue = ref]
  OBVIOUS
<1>8. SetTop(frame) /\ nodes' = Allocate(nodes, pending)
  BY <1>2, <1>5, <1>6, <1>7 DEF Bind
<1>9. frame.queue = ref
  BY <1>4, <1>7 DEF Frames
<1>10. pending \in Nodes /\ pending.tag = "Cons" /\ pending.tail = top
  <2>1. Top.comp \in Computations
    BY <1>4 DEF Frames
  <2>2. then \in Callbacks
    BY <1>2, <1>3, <2>1, ComputationFacts
  <2>3. QED  BY <1>4, <1>5, <2>2, FreshNodes DEF ConsNode
<1>11. IsComb(top)'
  BY <1>1, <1>4, CombGrows
<1>12. IsComb(ref)'
  BY <1>1, <1>6, <1>8, <1>10, <1>11, AllocatedNode
<1>13. QED  BY <1>1, <1>3, <1>8, <1>9, <1>12, QueueSet

LEMMA HandleCombs ==
  ASSUME TypeOK, StackOfCombs, HandleFresh \/ HandleFinish PROVE StackOfCombs'
<1>1. TypeOK' /\ Grows
  BY NextGrows DEF Next, MachineStep, ExecutorStep
<1>2. Depth > 0 /\ \E saved, p, e : EnterSource(saved, p, e)
  BY DEF HandleFresh, HandleFinish, Handling, Dispatching
<1>3. PICK saved, p, e : EnterSource(saved, p, e)
  BY <1>2
<1>4. PICK source, ref :
        /\ source = Text[Top.comp.source]
        /\ ref = Ref(contexts, ScopedContext(saved, p, Top.ctx, e))
  OBVIOUS
<1>5. PICK frame : frame = [Top EXCEPT !.comp = source, !.queue = Empty, !.extent = e,
                                       !.ctx = ref]
  OBVIOUS
<1>6. SetTop(frame) /\ frame.queue = Empty
  <2>1. SetTop(frame)
    BY <1>3, <1>4, <1>5 DEF EnterSource
  <2>2. QED  BY <1>2, <1>5, <2>1, TopFacts DEF Frames
<1>7. IsComb(Empty)
  BY EmptyIsComb
<1>8. QED  BY <1>1, <1>2, <1>6, <1>7, OldQueueSet

LEMMA EnterTargetCombs ==
  ASSUME TypeOK, TypeOK', Grows, StackOfCombs, SavedCombs, Depth > 0,
         NEW c, EnterTarget(c)
  PROVE  StackOfCombs'
<1>1. PICK context : context = Context
  OBVIOUS
<1>2. PICK e, p, saved, caller :
        /\ e = context.extent /\ p = context.parent /\ saved = context.saved
        /\ caller = context.caller
  OBVIOUS
<1>3. PICK finish : finish = Finish(e, saved, p)
  OBVIOUS
<1>4. PICK ref : ref = Ref(nodes, finish)
  OBVIOUS
<1>5. PICK frame : frame = [Top EXCEPT !.await = "none", !.comp = c, !.queue = ref,
                                       !.extent = e, !.ctx = caller]
  OBVIOUS
<1>6. SetTop(frame) /\ nodes' = Allocate(nodes, finish) /\ Top.await = "clause"
  BY <1>1, <1>2, <1>3, <1>4, <1>5 DEF EnterTarget
<1>7. frame.queue = ref
  BY <1>5, TopFacts DEF Frames
<1>8. PICK i \in 1..Len(contexts) : context = contexts[i] /\ context.tag = "Scoped"
  BY <1>1, <1>6, TopFacts DEF Context, FrameOK
<1>9. /\ IsComb(saved) /\ saved \in 0..Len(nodes) /\ e \in Nat /\ p \in Nat
  BY <1>2, <1>8, ContextShape DEF SavedCombs
<1>10. IsComb(saved)'
  BY <1>9, CombGrows
<1>11. finish \in Nodes /\ finish.tag = "Finish" /\ finish.rest = saved
  BY <1>3, <1>9, LengthsAreNat DEF Finish, Nodes
<1>12. IsComb(ref)'
  BY <1>4, <1>6, <1>10, <1>11, AllocatedNode
<1>13. QED  BY <1>6, <1>7, <1>12, QueueSet

(* A step that leaves the queue of the top activation alone.               *)
LEMMA SameQueue ==
  ASSUME TypeOK, TypeOK', Grows, StackOfCombs, Depth > 0,
         NEW frame, SetTop(frame), frame.queue = Top.queue
  PROVE  StackOfCombs'
BY TopComb, OldQueueSet

LEMMA SupplyCombs ==
  ASSUME TypeOK, StackOfCombs, SavedCombs, NEW c \in Suppliable, Supply(c)
  PROVE  StackOfCombs'
<1>1. TypeOK' /\ Grows
  BY NextGrows DEF Next, GuestStep
<1>2. /\ Depth > 0
      /\ EnterTarget(c) \/ Continue(c) \/ Transferred(c)
  BY DEF Supply
<1>3. CASE EnterTarget(c)
  BY <1>1, <1>2, <1>3, EnterTargetCombs
<1>4. CASE Continue(c)
  <2>1. PICK frame : frame = [Top EXCEPT !.await = "none", !.callee = NoCallee, !.comp = c]
    OBVIOUS
  <2>2. SetTop(frame) /\ frame.queue = Top.queue
    BY <1>2, <1>4, <2>1, TopFacts DEF Continue, Frames
  <2>3. QED  BY <1>1, <1>2, <2>2, SameQueue
<1>5. CASE Transferred(c)
  <2>1. PICK frame : frame = [Top EXCEPT !.await = "none", !.owner = NoOwner, !.comp = c]
    OBVIOUS
  <2>2. SetTop(frame) /\ frame.queue = Top.queue
    BY <1>2, <1>5, <2>1, TopFacts DEF Transferred, Frames
  <2>3. QED  BY <1>1, <1>2, <2>2, SameQueue
<1>6. QED  BY <1>2, <1>3, <1>4, <1>5

LEMMA OwnedResumeCombs ==
  ASSUME TypeOK, StackOfCombs, OwnedResume PROVE StackOfCombs'
<1>1. TypeOK' /\ Grows
  BY NextGrows DEF Next, MachineStep, ExecutorStep
<1>2. Depth > 0
  BY DEF OwnedResume, Dispatching
<1>3. CASE UNCHANGED stack
  BY <1>1, <1>3, StackKept
<1>4. CASE ~UNCHANGED stack
  <2>1. PICK o : o = Top.comp.owner
    OBVIOUS
  <2>2. PICK frame : frame = [Top EXCEPT !.await = "owned", !.owner = o, !.comp = NoComp]
    OBVIOUS
  <2>3. SetTop(frame)
    BY <1>4, <2>1, <2>2 DEF OwnedResume
  <2>4. frame.queue = Top.queue
    BY <1>2, <2>2, TopFacts DEF Frames
  <2>5. QED  BY <1>1, <1>2, <2>3, <2>4, SameQueue
<1>5. QED  BY <1>3, <1>4

LEMMA RebuildDoneCombs ==
  ASSUME TypeOK, StackOfCombs, ReplayedChains, RebuildDone PROVE StackOfCombs'
<1>1. TypeOK' /\ Grows
  BY NextGrows DEF Next, MachineStep, ReplayStep
<1>2. replay.pc = "rebuild"
  BY DEF RebuildDone, Rebuilding
<1>3. CASE UNCHANGED stack
  BY <1>1, <1>3, StackKept
<1>4. CASE ~UNCHANGED stack
  <2>1. PICK todo, queue, active :
          todo = replay.todo /\ queue = Top.queue /\ active = replay.active
    OBVIOUS
  <2>2. PICK pending : pending = AppendNode(todo, queue)
    OBVIOUS
  <2>3. PICK ref : ref = Ref(nodes, pending)
    OBVIOUS
  <2>4. PICK frame : frame = [Top EXCEPT !.comp = NoComp, !.queue = ref, !.extent = active]
    OBVIOUS
  <2>5. SetTop(frame) /\ nodes' = Allocate(nodes, pending)
    BY <1>4, <2>1, <2>2, <2>3, <2>4 DEF RebuildDone
  <2>6. Depth > 0 /\ IsQueue(todo)
    BY <1>2, <2>1 DEF TypeOK, ReplayOK
  <2>7. IsComb(queue) /\ IsQueue(queue) /\ frame.queue = ref
    BY <2>1, <2>4, <2>6, TopComb, TopFacts DEF Frames
  <2>8. IsChain(todo)' /\ IsComb(queue)'
    <3>1. IsChain(todo)
      BY <1>2, <2>1 DEF ReplayedChains
    <3>2. QED  BY <1>1, <2>7, <3>1, ChainGrows, CombGrows
  <2>9. pending \in Nodes /\ pending.tag = "Append" /\ pending.left = todo
        /\ pending.right = queue
    BY <2>2, <2>6, <2>7, FreshNodes DEF AppendNode
  <2>10. IsComb(ref)'
    BY <1>1, <2>3, <2>5, <2>8, <2>9, AllocatedNode
  <2>11. QED  BY <1>1, <2>5, <2>6, <2>7, <2>10, QueueSet
<1>5. QED  BY <1>3, <1>4

LEMMA NextStack == ASSUME TypeOK, CombsInv, Next PROVE StackOfCombs'
<1>1. TypeOK' /\ Grows /\ StackOfCombs /\ SavedCombs /\ ReplayedChains
  BY NextGrows DEF CombsInv
<1>2. CASE UNCHANGED stack
  BY <1>1, <1>2, StackKept
<1>3. CASE Depth > 0 /\ Pop
  BY <1>1, <1>3, StackPopped
<1>4. ASSUME ReturnRotate \/ HandleNormalize PROVE StackOfCombs'
  <2>1. /\ Depth > 0 /\ Kind(Top.queue) = "Append"
        /\ RotateEmpty \/ \E kind \in {"Cons", "Append", "Finish"} : Rotate(kind)
    BY <1>4 DEF ReturnRotate, HandleNormalize, Returning, Handling, Dispatching
  <2>2. QED  BY <1>1, <2>1, RotateCombs
<1>5. ASSUME ReplayStep PROVE UNCHANGED stack \/ RebuildDone
  BY <1>5 DEF ReplayStep, CloneCons, CloneAppend, CloneFinish, CloneTodo, RebuildCons,
     RebuildFinish
<1>6. ASSUME ExecutorStep PROVE StackOfCombs'
  <2>1. ASSUME Publish PROVE Depth > 0 /\ Pop
    BY <2>1 DEF Publish, Returning, Dispatching
  <2>2. ASSUME Resume PROVE UNCHANGED stack
    BY <2>2 DEF Resume
  <2>3. QED
    BY <1>1, <1>2, <1>3, <1>4, <1>6, <2>1, <2>2, ReturnCombs, BindCombs, HandleCombs,
       OwnedResumeCombs DEF ExecutorStep
<1>7. ASSUME GuestStep PROVE StackOfCombs'
  <2>1. ASSUME NEW k, RawResume(k) \/ Once \/ Cancel(k) PROVE UNCHANGED stack
    BY <2>1 DEF RawResume, Once, Cancel
  <2>2. ASSUME Throw PROVE Depth > 0 /\ Pop
    BY <2>2 DEF Throw
  <2>3. ASSUME NEW c \in Suppliable, Supply(c) \/ Run(c) PROVE StackOfCombs'
    BY <1>1, <2>3, SupplyCombs, RunCombs
  <2>4. QED  BY <1>2, <1>3, <1>7, <2>1, <2>2, <2>3 DEF GuestStep
<1>8. ASSUME Exhaust PROVE Depth > 0 /\ Pop
  BY <1>8, ExhaustFacts DEF Exhaust
<1>9. QED  BY <1>1, <1>2, <1>3, <1>5, <1>6, <1>7, <1>8, RebuildDoneCombs DEF Next, MachineStep

LEMMA CombsKept == ASSUME TypeOK, TypeOK', CombsInv, [Next]_vars PROVE CombsInv'
<1>1. CASE Next
  BY <1>1, NextStack, NextSaved, NextReplayed DEF CombsInv
<1>2. CASE UNCHANGED vars
  <2>1. Grows
    BY <1>2, LengthsAreNat DEF vars, Grows
  <2>2. QED  BY <1>2, <2>1, StackKept, SavedKept, ReplayedKept DEF vars, CombsInv
<1>3. QED  BY <1>1, <1>2

(* However continuations were captured and replayed, the left part of an   *)
(* Append that the executor inspects is never an Append: the reassociating *)
(* arms of return and handle are never taken.                              *)
THEOREM FlatLeft == Spec => []AppendLeftIsFlat
<1>1. Init => CombsInv
  BY DEF Init, CombsInv, StackOfCombs, SavedCombs, ReplayedChains, Depth, Idle
<1>2. Spec => []CombsInv
  BY <1>1, TypeCorrect, CombsKept, PTL DEF Spec
<1>3. ASSUME TypeOK, CombsInv PROVE AppendLeftIsFlat
  BY <1>3, CombParts, ChainParts DEF CombsInv, StackOfCombs, AppendLeftIsFlat
<1>4. QED  BY <1>2, <1>3, TypeCorrect, PTL
=============================================================================
