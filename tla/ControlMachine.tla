--------------------------- MODULE ControlMachine ---------------------------
(***************************************************************************)
(* The compiled continuation machine of psrs-backend: the flat executor,   *)
(* its replay helpers, the lifetime helpers and the one-shot owners, as    *)
(* the construction plans under cc/lower/control/plan build them.          *)
(*                                                                         *)
(* Guest code (source callbacks, handler clauses, the code around a `run`) *)
(* runs on the native stack whenever the executor applies a closure.  It   *)
(* is unconstrained here: it may call any helper on any value it could     *)
(* hold, run a nested machine, throw a channel exception, or return.       *)
(*                                                                         *)
(* Queue nodes, contexts and resume closures are immutable heap data that  *)
(* is never compared by reference, so equal allocations share one index.   *)
(* Extents and owners are mutable and each allocation gets its own index.  *)
(* Payloads, requests and the threaded state value are left out.           *)
(***************************************************************************)
EXTENDS Naturals, Sequences, FiniteSets

CONSTANTS
  Callbacks,   \* bind continuations, told apart so that their order shows
  Text,        \* the computations written in the program, children first
  MaxNodes,    \* bound on queue nodes the guest may provoke
  MaxExtents,  \* bound on extents the guest may provoke
  MaxRaws,     \* bound on resume closures the guest may provoke
  MaxOwners,   \* bound on one-shot owners
  MaxRuns      \* bound on the runs the guest starts

(* A written computation; its children are earlier entries of Text.        *)
Written ==
  [tag : {"Return", "Perform"}]
    \cup [tag : {"Bind"}, inner : 1..Len(Text), then : Callbacks]
    \cup [tag : {"Handle"}, source : 1..Len(Text)]

ASSUME TextAssumption ==
  /\ Text \in Seq(Written)
  /\ \A i \in 1..Len(Text) :
       /\ Text[i].tag = "Bind" => Text[i].inner < i
       /\ Text[i].tag = "Handle" => Text[i].source < i

ASSUME BoundAssumption == {MaxNodes, MaxExtents, MaxRaws, MaxOwners, MaxRuns} \subseteq Nat

VARIABLES
  nodes,     \* SequenceCase heap; index 0 is the Empty sequence
  contexts,  \* ContextCase heap
  extents,   \* ExtentCase heap: parent (0 for a Root) and status cell
  raws,      \* resume closures: the captured queue and checkpoint
  owners,    \* OneShot owners: callback cell and status cell
  minted,    \* raw closures whose Resume computation the guest holds
  stack,     \* one activation per executing Run, innermost last
  replay,    \* registers of CloneSequence / RebuildSequence
  outcome    \* "running", or "trapped" once a guard rejected

heapVars == <<nodes, contexts, extents, raws, owners>>
vars == <<nodes, contexts, extents, raws, owners, minted, stack, replay, outcome>>

Empty == 0
NoExtent == 0
NoOwner == 0
NoCallee == "none"
Live == 0      \* status 0 of an extent
Closed == 1    \* status 1 of an extent

-----------------------------------------------------------------------------
(* Heap allocation.                                                        *)

ConsNode(head, tail) == [tag |-> "Cons", head |-> head, tail |-> tail]
AppendNode(left, right) == [tag |-> "Append", left |-> left, right |-> right]
Finish(extent, rest, parent) ==
  [tag |-> "Finish", extent |-> extent, rest |-> rest, parent |-> parent]

(* Mutant: parent and handler extent stored in each other's field.         *)
ScopedContextSwapped(saved, parent, caller, extent) ==
  [tag |-> "Scoped", saved |-> saved, parent |-> extent, caller |-> caller,
   extent |-> parent]

RootContext(extent) == [tag |-> "Root", extent |-> extent]
ScopedContext(saved, parent, caller, extent) ==
  [tag |-> "Scoped", saved |-> saved, parent |-> parent, caller |-> caller,
   extent |-> extent]

Shared(heap, object) == \E i \in 1..Len(heap) : heap[i] = object

(* The heap after allocating object, and the index that then denotes it.   *)
Allocate(heap, object) ==
  IF Shared(heap, object) THEN heap ELSE Append(heap, object)
Ref(heap, object) ==
  IF Shared(heap, object)
  THEN CHOOSE i \in 1..Len(heap) : heap[i] = object
  ELSE Len(heap) + 1

Kind(q) == IF q = Empty THEN "Empty" ELSE nodes[q].tag

(* Mutant: every extent is allocated as a root.                            *)
FreshExtentOrphan(parent) == Append(extents, [parent |-> NoExtent, status |-> Live])

FreshExtent(parent) == Append(extents, [parent |-> parent, status |-> Live])

(* boundary_check: an extent is usable while it and every ancestor is live. *)
Usable(e) ==
  LET Chain[i \in 0..Len(extents)] ==
        IF i = NoExtent THEN TRUE
        ELSE extents[i].status = Live /\ Chain[extents[i].parent]
  IN  Chain[e]

(* boundary_close *)
CloseBoundary(e) == extents' = [extents EXCEPT ![e].status = Closed]

-----------------------------------------------------------------------------
(* Activations.  await names the Apply the executor is suspended in:       *)
(*   "none"   the executor dispatches next                                 *)
(*   "clause" a scoped return or operation clause (enter_target follows)   *)
(*   "next"   a bind continuation      "root"  the root handler            *)
(*   "owned"  the callback acquired from `owner`                           *)

NoComp == [tag |-> "Return"]
Idle == [pc |-> "idle", queue |-> Empty, todo |-> Empty, reversed |-> Empty,
         active |-> NoExtent, parent |-> NoExtent]

Depth == Len(stack)
Top == stack[Depth]
SetTop(frame) == stack' = [stack EXCEPT ![Depth] = frame]
Pop == stack' = SubSeq(stack, 1, Depth - 1)

Dispatching ==
  outcome = "running" /\ Depth > 0 /\ Top.await = "none" /\ replay.pc = "idle"

GuestRuns == outcome = "running" /\ (Depth > 0 => Top.await # "none")

Trap == outcome' = "trapped"

Context == contexts[Top.ctx]

(* ContextExtent: the checkpoint extent of the current dispatch context.   *)
ContextExtent == Context.extent

(* Suspend in an Apply of callee, leaving the queue the transition stores. *)
Apply(await, callee, queue) ==
  SetTop([Top EXCEPT !.await = await, !.callee = callee, !.queue = queue,
                     !.comp = NoComp])

-----------------------------------------------------------------------------
(* Return transitions (returns.rs).                                        *)

Returning(kind) ==
  Dispatching /\ Top.comp.tag = "Return" /\ Kind(Top.queue) = kind

(* return_empty, Root: publish; Run closes its root and answers its caller. *)
Publish ==
  /\ Returning("Empty")
  /\ Context.tag = "Root"
  /\ Pop
  /\ CloseBoundary(Top.root)
  /\ UNCHANGED <<nodes, contexts, raws, owners, minted, replay, outcome>>

(* return_clause: apply the scoped return clause.                          *)
ReturnClause ==
  /\ Returning("Empty")
  /\ Context.tag = "Scoped"
  /\ Apply("clause", NoCallee, Empty)
  /\ UNCHANGED <<heapVars, minted, replay, outcome>>

ReturnCons ==
  /\ Returning("Cons")
  /\ Apply("next", nodes[Top.queue].head, nodes[Top.queue].tail)
  /\ UNCHANGED <<heapVars, minted, replay, outcome>>

(* The Append whose left part is inspected by return and handle.           *)
Left == nodes[Top.queue].left
Right == nodes[Top.queue].right

(* Mutant: the consumer's queue runs before the rest of the left part.     *)
ReturnAppendConsSwapped ==
  /\ Returning("Append")
  /\ Kind(Left) = "Cons"
  /\ LET pending == AppendNode(Right, nodes[Left].tail)
     IN  /\ nodes' = Allocate(nodes, pending)
         /\ Apply("next", nodes[Left].head, Ref(nodes, pending))
  /\ UNCHANGED <<contexts, extents, raws, owners, minted, replay, outcome>>

(* append, Cons arm: the pending Append(rest, right) is built, then the    *)
(* head is applied.                                                        *)
ReturnAppendCons ==
  /\ Returning("Append")
  /\ Kind(Left) = "Cons"
  /\ LET pending == AppendNode(nodes[Left].tail, Right)
     IN  /\ nodes' = Allocate(nodes, pending)
         /\ Apply("next", nodes[Left].head, Ref(nodes, pending))
  /\ UNCHANGED <<contexts, extents, raws, owners, minted, replay, outcome>>

(* Move the first piece of left in front of the rest of the Append.  The   *)
(* computation is dispatched again.                                        *)
Remainder(node) ==
  CASE node.tag = "Cons" -> node.tail
    [] node.tag = "Append" -> node.right
    [] node.tag = "Finish" -> node.rest

Rehead(node, tail) ==
  CASE node.tag = "Cons" -> ConsNode(node.head, tail)
    [] node.tag = "Append" -> AppendNode(node.left, tail)
    [] node.tag = "Finish" -> Finish(node.extent, tail, node.parent)

(* Mutant: an exhausted left part is dispatched again.                     *)
RotateEmptyAgain ==
  /\ Kind(Left) = "Empty"
  /\ SetTop([Top EXCEPT !.queue = Top.queue])
  /\ UNCHANGED nodes

RotateEmpty ==
  /\ Kind(Left) = "Empty"
  /\ SetTop([Top EXCEPT !.queue = Right])
  /\ UNCHANGED nodes

Rotate(kind) ==
  /\ Kind(Left) = kind
  /\ LET tail == AppendNode(Remainder(nodes[Left]), Right)
         heap == Allocate(nodes, tail)
         whole == Rehead(nodes[Left], Ref(nodes, tail))
     IN  /\ nodes' = Allocate(heap, whole)
         /\ SetTop([Top EXCEPT !.queue = Ref(heap, whole)])

(* append, the arms that only restructure the queue.                       *)
ReturnRotate ==
  /\ Returning("Append")
  /\ RotateEmpty \/ Rotate("Append") \/ Rotate("Finish")
  /\ UNCHANGED <<contexts, extents, raws, owners, minted, replay, outcome>>

ReturnFinish ==
  /\ Returning("Finish")
  /\ LET finish == nodes[Top.queue]
     IN  /\ CloseBoundary(finish.extent)
         /\ SetTop([Top EXCEPT !.queue = finish.rest, !.extent = finish.parent])
  /\ UNCHANGED <<nodes, contexts, raws, owners, minted, replay, outcome>>

-----------------------------------------------------------------------------
(* Perform, Bind and raw Resume (driver.rs).                               *)

(* Mutant: the active extent is captured as the checkpoint.                *)
CaptureActive == [queue |-> Top.queue, checkpoint |-> Top.extent]

(* The raw resumption captures the whole queue and the dispatch checkpoint. *)
Capture == [queue |-> Top.queue, checkpoint |-> ContextExtent]

(* perform_root applies the run clause; perform_scoped the operation clause. *)
Perform ==
  /\ Dispatching
  /\ Top.comp.tag = "Perform"
  /\ raws' = Allocate(raws, Capture)
  /\ Apply(IF Context.tag = "Root" THEN "root" ELSE "clause", NoCallee, Empty)
  /\ UNCHANGED <<nodes, contexts, extents, owners, minted, replay, outcome>>

Bind ==
  /\ Dispatching
  /\ Top.comp.tag = "Bind"
  /\ LET pending == ConsNode(Top.comp.then, Top.queue)
     IN  /\ nodes' = Allocate(nodes, pending)
         /\ SetTop([Top EXCEPT !.comp = Text[Top.comp.inner],
                               !.queue = Ref(nodes, pending)])
  /\ UNCHANGED <<contexts, extents, raws, owners, minted, replay, outcome>>

(* resume: check the checkpoint, then call CloneSequence on the saved      *)
(* queue with the current extent as active and the context's as parent.    *)
Resume ==
  /\ Dispatching
  /\ Top.comp.tag = "Resume"
  /\ IF Usable(raws[Top.comp.raw].checkpoint)
     THEN /\ replay' = [Idle EXCEPT !.pc = "clone",
                                    !.queue = raws[Top.comp.raw].queue,
                                    !.active = Top.extent,
                                    !.parent = ContextExtent]
          /\ UNCHANGED outcome
     ELSE Trap /\ UNCHANGED replay
  /\ UNCHANGED <<heapVars, minted, stack>>

-----------------------------------------------------------------------------
(* CloneSequence and RebuildSequence (helpers.rs).  While cloning, queue   *)
(* is the part being flattened, todo the Append stack of what is left and  *)
(* reversed what was seen, last first.  While rebuilding, todo holds       *)
(* result_queue.                                                           *)

Cloning(kind) ==
  outcome = "running" /\ replay.pc = "clone" /\ Kind(replay.queue) = kind

CloneCons ==
  /\ Cloning("Cons")
  /\ LET node == nodes[replay.queue]
         seen == ConsNode(node.head, replay.reversed)
     IN  /\ nodes' = Allocate(nodes, seen)
         /\ replay' = [replay EXCEPT !.queue = node.tail,
                                     !.reversed = Ref(nodes, seen)]
  /\ UNCHANGED <<contexts, extents, raws, owners, minted, stack, outcome>>

CloneAppend ==
  /\ Cloning("Append")
  /\ LET node == nodes[replay.queue]
         todo == AppendNode(node.right, replay.todo)
     IN  /\ nodes' = Allocate(nodes, todo)
         /\ replay' = [replay EXCEPT !.queue = node.left,
                                     !.todo = Ref(nodes, todo)]
  /\ UNCHANGED <<contexts, extents, raws, owners, minted, stack, outcome>>

CloneFinish ==
  /\ Cloning("Finish")
  /\ LET node == nodes[replay.queue]
         seen == Finish(node.extent, replay.reversed, replay.parent)
     IN  IF Usable(node.extent)
         THEN /\ nodes' = Allocate(nodes, seen)
              /\ replay' = [replay EXCEPT !.queue = node.rest,
                                          !.reversed = Ref(nodes, seen)]
              /\ UNCHANGED outcome
         ELSE Trap /\ UNCHANGED <<nodes, replay>>
  /\ UNCHANGED <<contexts, extents, raws, owners, minted, stack>>

(* clone_todo: resume the traversal stack, or start rebuilding; anything   *)
(* else on the stack is rejected.                                          *)
CloneTodo ==
  /\ Cloning("Empty")
  /\ CASE Kind(replay.todo) = "Empty" ->
            /\ replay' = [replay EXCEPT !.pc = "rebuild", !.queue = Empty]
            /\ UNCHANGED outcome
       [] Kind(replay.todo) = "Append" ->
            /\ replay' = [replay EXCEPT !.queue = nodes[replay.todo].left,
                                        !.todo = nodes[replay.todo].right]
            /\ UNCHANGED outcome
       [] OTHER -> Trap /\ UNCHANGED replay
  /\ UNCHANGED <<heapVars, minted, stack>>

Rebuilding(kind) ==
  outcome = "running" /\ replay.pc = "rebuild" /\ Kind(replay.reversed) = kind

RebuildCons ==
  /\ Rebuilding("Cons")
  /\ LET node == nodes[replay.reversed]
         next == ConsNode(node.head, replay.todo)
     IN  /\ nodes' = Allocate(nodes, next)
         /\ replay' = [replay EXCEPT !.reversed = node.tail,
                                     !.todo = Ref(nodes, next)]
  /\ UNCHANGED <<contexts, extents, raws, owners, minted, stack, outcome>>

(* Mutant: the saved extent is kept instead of a fresh one.                *)
RebuildFinishSaved ==
  /\ Rebuilding("Finish")
  /\ LET saved == nodes[replay.reversed].extent
         next == Finish(saved, replay.todo, replay.active)
     IN  /\ nodes' = Allocate(nodes, next)
         /\ replay' = [replay EXCEPT !.reversed = nodes[replay.reversed].rest,
                                     !.todo = Ref(nodes, next),
                                     !.active = saved, !.parent = saved]
  /\ UNCHANGED <<contexts, extents, raws, owners, minted, stack, outcome>>

(* Every saved Finish gets a fresh activation extent, child of parent, that *)
(* restores active when it closes.                                         *)
RebuildFinish ==
  /\ Rebuilding("Finish")
  /\ LET fresh == Len(extents) + 1
         next == Finish(fresh, replay.todo, replay.active)
     IN  /\ extents' = FreshExtent(replay.parent)
         /\ nodes' = Allocate(nodes, next)
         /\ replay' = [replay EXCEPT !.reversed = nodes[replay.reversed].rest,
                                     !.todo = Ref(nodes, next),
                                     !.active = fresh,
                                     !.parent = fresh]
  /\ UNCHANGED <<contexts, raws, owners, minted, stack, outcome>>

(* Mutant: the captured queue is appended without being replayed.          *)
RebuildDoneSaved ==
  /\ Rebuilding("Empty") \/ Rebuilding("Append")
  /\ LET pending == AppendNode(raws[Top.comp.raw].queue, Top.queue)
     IN  /\ nodes' = Allocate(nodes, pending)
         /\ SetTop([Top EXCEPT !.comp = NoComp, !.queue = Ref(nodes, pending),
                               !.extent = replay.active])
  /\ replay' = Idle
  /\ UNCHANGED <<contexts, extents, raws, owners, minted, outcome>>

(* The replay result returns to resume, which runs the replayed queue      *)
(* before the consumer's.  A reversed list never holds an Append; one that *)
(* did would be rejected.                                                  *)
RebuildDone ==
  /\ Rebuilding("Empty") \/ Rebuilding("Append")
  /\ LET pending == AppendNode(replay.todo, Top.queue)
     IN  IF Kind(replay.reversed) = "Empty"
         THEN /\ nodes' = Allocate(nodes, pending)
              /\ SetTop([Top EXCEPT !.comp = NoComp, !.queue = Ref(nodes, pending),
                                    !.extent = replay.active])
              /\ replay' = Idle
              /\ UNCHANGED outcome
         ELSE Trap /\ UNCHANGED <<nodes, stack, replay>>
  /\ UNCHANGED <<contexts, extents, raws, owners, minted>>

-----------------------------------------------------------------------------
(* Handle and owned transfer (handle.rs).                                  *)

Handling == Dispatching /\ Top.comp.tag = "Handle"

(* Enter the source under a new Scoped context over extent e.              *)
EnterSource(saved, parent, e) ==
  LET context == ScopedContext(saved, parent, Top.ctx, e)
  IN  /\ contexts' = Allocate(contexts, context)
      /\ SetTop([Top EXCEPT !.comp = Text[Top.comp.source], !.queue = Empty,
                            !.extent = e, !.ctx = Ref(contexts, context)])

HandleFresh ==
  /\ Handling
  /\ Kind(Top.queue) \in {"Empty", "Cons"}
  /\ extents' = FreshExtent(Top.extent)
  /\ EnterSource(Top.queue, Top.extent, Len(extents) + 1)
  /\ UNCHANGED <<nodes, raws, owners, minted, replay, outcome>>

(* Mutant: the scope restores the shared extent instead of the outer one.  *)
HandleFinishUnshared ==
  /\ Handling
  /\ Kind(Top.queue) = "Finish"
  /\ LET finish == nodes[Top.queue]
     IN  EnterSource(finish.rest, finish.extent, finish.extent)
  /\ UNCHANGED <<nodes, extents, raws, owners, minted, replay, outcome>>

(* A handle in tail position of a target shares the pending finish.        *)
HandleFinish ==
  /\ Handling
  /\ Kind(Top.queue) = "Finish"
  /\ LET finish == nodes[Top.queue]
     IN  EnterSource(finish.rest, finish.parent, finish.extent)
  /\ UNCHANGED <<nodes, extents, raws, owners, minted, replay, outcome>>

HandleNormalize ==
  /\ Handling
  /\ Kind(Top.queue) = "Append"
  /\ RotateEmpty \/ Rotate("Cons") \/ Rotate("Append") \/ Rotate("Finish")
  /\ UNCHANGED <<contexts, extents, raws, owners, minted, replay, outcome>>

(* An owner leaves Pending: its status changes and its callback is cleared. *)
Vacate(o, status) ==
  owners' = [owners EXCEPT ![o] = [status |-> status, callback |-> "cleared"]]

(* owned_resume: guard Pending, mark Running, clear the callback, apply it. *)
OwnedResume ==
  /\ Dispatching
  /\ Top.comp.tag = "OwnedResume"
  /\ LET o == Top.comp.owner
     IN  IF owners[o].status = "Pending"
         THEN /\ Vacate(o, "Running")
              /\ SetTop([Top EXCEPT !.await = "owned", !.owner = o,
                                    !.comp = NoComp])
              /\ UNCHANGED outcome
         ELSE Trap /\ UNCHANGED <<owners, stack>>
  /\ UNCHANGED <<nodes, contexts, extents, raws, minted, replay>>

-----------------------------------------------------------------------------
(* Native stack exhaustion.                                                *)

(* Where the machine calls a function of its own: boundary_check and       *)
(* CloneSequence for a resume, boundary_check for a saved finish,          *)
(* RebuildSequence after the traversal, boundary_close at a finish, and    *)
(* that of Run itself.  A self call pays for itself.                       *)
CallsHelper ==
  \/ Dispatching /\ Top.comp.tag = "Resume"
  \/ Cloning("Finish")
  \/ Cloning("Empty") /\ Kind(replay.todo) = "Empty"
  \/ Returning("Finish")
  \/ Returning("Empty") /\ Context.tag = "Root"

(* The prologue of the callee exceeds the native stack budget and throws:  *)
(* the run cleanup closes the root by a direct write, and the exception    *)
(* reaches the guest code that called run.  An exhausted call of Run or of *)
(* the executor itself leaves nothing behind that anything refers to.      *)
Exhaust ==
  /\ CallsHelper
  /\ CloseBoundary(Top.root)
  /\ Pop
  /\ replay' = Idle
  /\ UNCHANGED <<nodes, contexts, raws, owners, minted, outcome>>

-----------------------------------------------------------------------------
(* Guest code.                                                             *)

Room == Len(nodes) < MaxNodes /\ Len(extents) < MaxExtents

(* Computations the guest can hand to the machine: the written ones, a     *)
(* Resume it minted earlier, and an owned transfer of any owner.  Once a   *)
(* bound is reached it only returns.                                       *)
Suppliable ==
  {NoComp}
    \cup {c \in {Text[i] : i \in 1..Len(Text)} : Room /\ Len(raws) < MaxRaws}
    \cup {[tag |-> "Resume", raw |-> k] : k \in {k \in minted : Room}}
    \cup {[tag |-> "OwnedResume", owner |-> o] : o \in 1..Len(owners)}

(* The applied closure returns a computation and its transition completes: *)
(* enter_target, advance_here, the root handler's pair, or the owned       *)
(* transfer, which marks its owner Consumed.                               *)
EnterTarget(c) ==
  /\ Top.await = "clause"
  /\ LET finish == Finish(Context.extent, Context.saved, Context.parent)
     IN  /\ nodes' = Allocate(nodes, finish)
         /\ SetTop([Top EXCEPT !.await = "none", !.comp = c,
                               !.queue = Ref(nodes, finish),
                               !.extent = Context.extent,
                               !.ctx = Context.caller])
  /\ UNCHANGED owners

Continue(c) ==
  /\ Top.await \in {"next", "root"}
  /\ SetTop([Top EXCEPT !.await = "none", !.callee = NoCallee, !.comp = c])
  /\ UNCHANGED <<nodes, owners>>

Transferred(c) ==
  /\ Top.await = "owned"
  /\ owners' = [owners EXCEPT ![Top.owner].status = "Consumed"]
  /\ SetTop([Top EXCEPT !.await = "none", !.owner = NoOwner, !.comp = c])
  /\ UNCHANGED nodes

Supply(c) ==
  /\ GuestRuns
  /\ Depth > 0
  /\ EnterTarget(c) \/ Continue(c) \/ Transferred(c)
  /\ UNCHANGED <<contexts, extents, raws, minted, replay, outcome>>

(* run: a fresh root extent and Root context, and the executor is called   *)
(* on the empty queue.                                                     *)
Run(c) ==
  /\ GuestRuns
  /\ Cardinality({e \in 1..Len(extents) : extents[e].parent = NoExtent}) < MaxRuns
  /\ Room
  /\ LET root == Len(extents) + 1
     IN  /\ extents' = FreshExtent(NoExtent)
         /\ contexts' = Allocate(contexts, RootContext(root))
         /\ stack' = Append(stack,
              [root |-> root, comp |-> c, queue |-> Empty, extent |-> root,
               ctx |-> Ref(contexts, RootContext(root)), await |-> "none",
               callee |-> NoCallee, owner |-> NoOwner])
  /\ UNCHANGED <<nodes, raws, owners, minted, replay, outcome>>

(* raw_resume: apply a raw closure; the checkpoint is checked and an inert *)
(* Resume computation results.                                             *)
RawResume(k) ==
  /\ GuestRuns
  /\ IF Usable(raws[k].checkpoint)
     THEN minted' = minted \cup {k} /\ UNCHANGED outcome
     ELSE Trap /\ UNCHANGED minted
  /\ UNCHANGED <<heapVars, stack, replay>>

(* once: callback cell and status cell of a new owner.                     *)
Once ==
  /\ GuestRuns
  /\ Len(owners) < MaxOwners
  /\ owners' = Append(owners, [status |-> "Pending", callback |-> "callback"])
  /\ UNCHANGED <<nodes, contexts, extents, raws, minted, stack, replay, outcome>>

(* Mutant: cancel does not guard Pending.                                  *)
CancelAny(o) ==
  /\ GuestRuns
  /\ Vacate(o, "Cancelled")
  /\ UNCHANGED <<nodes, contexts, extents, raws, minted, stack, replay, outcome>>

Cancel(o) ==
  /\ GuestRuns
  /\ IF owners[o].status = "Pending"
     THEN Vacate(o, "Cancelled") /\ UNCHANGED outcome
     ELSE Trap /\ UNCHANGED owners
  /\ UNCHANGED <<nodes, contexts, extents, raws, minted, stack, replay>>

(* Mutant: no run cleanup: the root stays live.                            *)
ThrowKeepsRoot ==
  /\ GuestRuns
  /\ Depth > 0
  /\ owners' = IF Top.await = "owned"
               THEN [owners EXCEPT ![Top.owner].status = "Consumed"]
               ELSE owners
  /\ Pop
  /\ UNCHANGED <<nodes, contexts, extents, raws, minted, replay, outcome>>

(* Mutant: no acquired-callback cleanup: the owner stays Running.          *)
ThrowKeepsOwner ==
  /\ GuestRuns
  /\ Depth > 0
  /\ CloseBoundary(Top.root)
  /\ Pop
  /\ UNCHANGED <<nodes, contexts, raws, owners, minted, replay, outcome>>

(* A channel exception leaves the applied closure: the acquired-callback   *)
(* cleanup consumes the owner, the run cleanup closes the root, and the    *)
(* exception reaches the guest code that called run, which may catch it or *)
(* throw again.                                                            *)
Throw ==
  /\ GuestRuns
  /\ Depth > 0
  /\ owners' = IF Top.await = "owned"
               THEN [owners EXCEPT ![Top.owner].status = "Consumed"]
               ELSE owners
  /\ CloseBoundary(Top.root)
  /\ Pop
  /\ UNCHANGED <<nodes, contexts, raws, minted, replay, outcome>>

-----------------------------------------------------------------------------
Init ==
  /\ nodes = <<>>
  /\ contexts = <<>>
  /\ extents = <<>>
  /\ raws = <<>>
  /\ owners = <<>>
  /\ minted = {}
  /\ stack = <<>>
  /\ replay = Idle
  /\ outcome = "running"

ReplayStep ==
  \/ CloneCons \/ CloneAppend \/ CloneFinish \/ CloneTodo
  \/ RebuildCons \/ RebuildFinish \/ RebuildDone

ExecutorStep ==
  \/ Publish \/ ReturnClause \/ ReturnCons
  \/ ReturnAppendCons \/ ReturnRotate \/ ReturnFinish
  \/ Perform \/ Bind \/ Resume
  \/ HandleFresh \/ HandleFinish \/ HandleNormalize
  \/ OwnedResume

MachineStep == ReplayStep \/ ExecutorStep

GuestStep ==
  \/ \E c \in Suppliable : Supply(c)
  \/ \E c \in Suppliable : Run(c)
  \/ \E k \in 1..Len(raws) : RawResume(k)
  \/ Once
  \/ \E o \in 1..Len(owners) : Cancel(o)
  \/ Throw

Next == MachineStep \/ Exhaust \/ GuestStep

Spec == Init /\ [][Next]_vars

(* The machine runs natively and is never preempted; guest code may spin.  *)
FairSpec == Spec /\ WF_vars(MachineStep)

-----------------------------------------------------------------------------
(* Properties.                                                             *)

Nodes ==
  [tag : {"Cons"}, head : Callbacks, tail : Nat]
    \cup [tag : {"Append"}, left : Nat, right : Nat]
    \cup [tag : {"Finish"}, extent : Nat, rest : Nat, parent : Nat]
Contexts ==
  [tag : {"Root"}, extent : Nat]
    \cup [tag : {"Scoped"}, saved : Nat, parent : Nat, caller : Nat, extent : Nat]
Extents == [parent : Nat, status : {Live, Closed}]
Raws == [queue : Nat, checkpoint : Nat]
Owners == [status : {"Pending", "Running", "Consumed", "Cancelled"},
           callback : {"callback", "cleared"}]
Computations ==
  Written \cup [tag : {"Resume"}, raw : Nat] \cup [tag : {"OwnedResume"}, owner : Nat]
Frames ==
  [root : Nat, comp : Computations, queue : Nat, extent : Nat, ctx : Nat,
   await : {"none", "clause", "next", "root", "owned"},
   callee : Callbacks \cup {NoCallee}, owner : Nat]
Registers ==
  [pc : {"idle", "clone", "rebuild"}, queue : Nat, todo : Nat, reversed : Nat,
   active : Nat, parent : Nat]

IsQueue(q) == q \in 0..Len(nodes)
IsExtent(e) == e \in 1..Len(extents)
(* A Scoped extent, the only kind a Finish or a Scoped context refers to.  *)
IsScoped(e) == IsExtent(e) /\ extents[e].parent # NoExtent
IsRoot(e) == IsExtent(e) /\ extents[e].parent = NoExtent

NodeOK(node, i) ==
  /\ node.tag = "Cons" => node.tail < i
  /\ node.tag = "Append" => node.left < i /\ node.right < i
  /\ node.tag = "Finish" =>
       node.rest < i /\ IsScoped(node.extent) /\ IsExtent(node.parent)

ContextOK(context, i) ==
  /\ context.tag = "Root" => IsRoot(context.extent)
  /\ context.tag = "Scoped" =>
       /\ IsQueue(context.saved)
       /\ IsExtent(context.parent)
       /\ context.caller \in 1..(i - 1)
       /\ IsScoped(context.extent)

CompOK(comp) ==
  /\ comp.tag = "Resume" => comp.raw \in 1..Len(raws)
  /\ comp.tag = "OwnedResume" => comp.owner \in 1..Len(owners)

FrameOK(frame) ==
  /\ IsRoot(frame.root)
  /\ CompOK(frame.comp)
  /\ IsQueue(frame.queue)
  /\ IsExtent(frame.extent)
  /\ frame.ctx \in 1..Len(contexts)
  /\ frame.await = "clause" => contexts[frame.ctx].tag = "Scoped"
  /\ frame.owner \in 0..Len(owners)
  /\ frame.await = "owned" <=> frame.owner # NoOwner

NodesOK == nodes \in Seq(Nodes) /\ \A i \in 1..Len(nodes) : NodeOK(nodes[i], i)
ContextsOK ==
  contexts \in Seq(Contexts) /\ \A i \in 1..Len(contexts) : ContextOK(contexts[i], i)
ExtentsOK ==
  extents \in Seq(Extents) /\ \A e \in 1..Len(extents) : extents[e].parent < e
RawOK(k) == IsQueue(raws[k].queue) /\ IsExtent(raws[k].checkpoint)
RawsOK == raws \in Seq(Raws) /\ \A k \in 1..Len(raws) : RawOK(k)
StackOK == stack \in Seq(Frames) /\ \A d \in 1..Depth : FrameOK(stack[d])
ReplayOK ==
  /\ replay \in Registers
  /\ IsQueue(replay.queue) /\ IsQueue(replay.todo) /\ IsQueue(replay.reversed)
  /\ replay.pc # "idle" => /\ Depth > 0 /\ Top.await = "none"
                           /\ IsExtent(replay.active) /\ IsExtent(replay.parent)

(* Every reference points into its heap, to a node of the family its field *)
(* names, and immutable nodes only refer to older ones.  A Finish or a     *)
(* Scoped context never holds a root extent.                               *)
TypeOK ==
  /\ NodesOK
  /\ ContextsOK
  /\ ExtentsOK
  /\ RawsOK
  /\ owners \in Seq(Owners)
  /\ minted \subseteq 1..Len(raws)
  /\ StackOK
  /\ ReplayOK
  /\ outcome \in {"running", "trapped"}

(* A root extent is live exactly while the Run that allocated it is on the *)
(* native stack, and no two activations share one: a Run that publishes or *)
(* is unwound by an exception leaves no live root behind, and no           *)
(* Finish ever closes the root of a running machine.                       *)
RootsMatchRuns ==
  /\ \A e \in 1..Len(extents) :
       IsRoot(e) => (extents[e].status = Live
                       <=> \E d \in 1..Depth : stack[d].root = e)
  /\ \A c, d \in 1..Depth : stack[c].root = stack[d].root => c = d

RunningIsAcquired ==
  \A o \in 1..Len(owners) :
    owners[o].status = "Running" <=> \E d \in 1..Depth : stack[d].owner = o
PendingIsUncalled ==
  \A o \in 1..Len(owners) :
    owners[o].status = "Pending" <=> owners[o].callback = "callback"
OneTransferEach ==
  \A c, d \in 1..Depth :
    stack[c].owner = stack[d].owner /\ stack[c].owner # NoOwner => c = d

(* A Running owner is exactly one whose acquired callback is on the native *)
(* stack, in one activation only: neither a return nor a channel exception *)
(* leaves an owner Running, and no second transfer enters it.  Its slot is *)
(* cleared as soon as it leaves Pending, so nothing can read it again.     *)
OwnersMatchTransfers ==
  /\ RunningIsAcquired
  /\ PendingIsUncalled
  /\ OneTransferEach

(* The documented life of an owner: Pending to Running to Consumed, or     *)
(* Pending to Cancelled, and no other change of its status.                *)
OwnerLife ==
  [][\A o \in 1..Len(owners) :
       owners'[o].status # owners[o].status =>
         <<owners[o].status, owners'[o].status>> \in
           {<<"Pending", "Running">>, <<"Running", "Consumed">>,
            <<"Pending", "Cancelled">>}]_owners

=============================================================================
