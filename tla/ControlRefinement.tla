------------------------- MODULE ControlRefinement -------------------------
(***************************************************************************)
(* ControlMachine implements HandlerContract.  A queue stands for the list *)
(* of its occurrences, a context for the stack of scopes up to its Root;   *)
(* an extent that a replay in progress has allocated does not exist yet.   *)
(***************************************************************************)
EXTENDS ControlMachine, SequencesExt

(* The occurrences of every queue node, left to right.                     *)
FlatNodes ==
  LET Flat[i \in 0..Len(nodes)] ==
        IF i = Empty THEN <<>>
        ELSE LET node == nodes[i]
             IN  CASE node.tag = "Cons" ->
                        <<[tag |-> "Then", call |-> node.head]>> \o Flat[node.tail]
                   [] node.tag = "Append" -> Flat[node.left] \o Flat[node.right]
                   [] node.tag = "Finish" ->
                        <<[tag |-> "Finish", extent |-> node.extent,
                           parent |-> node.parent]>> \o Flat[node.rest]
  IN  Flat

ScopesOf(c) ==
  LET Flat == FlatNodes
      Scopes[i \in 1..Len(contexts)] ==
        IF contexts[i].tag = "Root" THEN <<>>
        ELSE <<[work |-> Flat[contexts[i].saved], parent |-> contexts[i].parent,
                extent |-> contexts[i].extent]>> \o Scopes[contexts[i].caller]
  IN  Scopes[c]

(* The places in a list of work where an extent will be closed.            *)
Markers(work) == {i \in 1..Len(work) : work[i].tag # "Then"}

AbstractRun(frame) ==
  [root |-> frame.root, comp |-> frame.comp, work |-> FlatNodes[frame.queue],
   extent |-> frame.extent, scopes |-> ScopesOf(frame.ctx),
   await |-> frame.await, owner |-> frame.owner, calling |-> frame.callee]

(* Extents allocated by the replay in progress.                            *)
Unpublished ==
  IF replay.pc = "rebuild" THEN Cardinality(Markers(FlatNodes[replay.todo])) ELSE 0

Published == SubSeq(extents, 1, Len(extents) - Unpublished)

FlatRaws ==
  [k \in 1..Len(raws) |->
     [work |-> FlatNodes[raws[k].queue], checkpoint |-> raws[k].checkpoint]]

FlatRuns == [d \in 1..Depth |-> AbstractRun(stack[d])]

Contract ==
  INSTANCE HandlerContract WITH
    extents <- Published, raws <- FlatRaws, runs <- FlatRuns

(* Every behaviour of the machine is one of flat, one-step continuations:  *)
(* reassociation, normalisation and the traversal and reversal of a replay *)
(* change neither which continuation runs next, nor which extent closes,   *)
(* nor when a resumption is rejected.                                      *)
ImplementsContract == Contract!Spec

-----------------------------------------------------------------------------
(* The work left when a context is returned to: every open scope will be   *)
(* closed by a finish marker over the work it saved, and the root last.    *)
ScopeWork ==
  LET Flat == FlatNodes
      Work[c \in 1..Len(contexts)] ==
        IF contexts[c].tag = "Root"
        THEN <<[tag |-> "Root", extent |-> contexts[c].extent]>>
        ELSE <<[tag |-> "Finish", extent |-> contexts[c].extent,
                parent |-> contexts[c].parent]>>
               \o Flat[contexts[c].saved] \o Work[contexts[c].caller]
  IN  Work

(* All that an activation has still to do.                                 *)
Pending(frame) == FlatNodes[frame.queue] \o ScopeWork[frame.ctx]

RootOf(e) ==
  LET Up[i \in 1..Len(extents)] ==
        IF extents[i].parent = NoExtent THEN i ELSE Up[extents[i].parent]
  IN  Up[e]

(* What an activation still has to close is owed exactly once, is usable,  *)
(* and descends from the root of its own run, also when continuations were *)
(* captured, replayed several times or carried into another run: no finish *)
(* ever closes the extent of work that is still pending, and closing a     *)
(* root expires everything its run opened.                                 *)
OutstandingIsLinear ==
  outcome = "running" =>
    \A d \in 1..Depth :
      LET work == Pending(stack[d])
          owed == {work[i].extent : i \in Markers(work)}
      IN  /\ \A i, j \in Markers(work) : work[i].extent = work[j].extent => i = j
          /\ \A e \in owed \cup {stack[d].extent} :
               Usable(e) /\ RootOf(e) = stack[d].root

(* A continuation captured by a run that has ended, by publishing or by a  *)
(* channel exception, can never be resumed, wherever it escaped to.        *)
CapturesExpireWithRun ==
  \A k \in 1..Len(raws) :
    Usable(raws[k].checkpoint) =>
      \E d \in 1..Depth : stack[d].root = RootOf(raws[k].checkpoint)

(* A replayed queue is flat, so the left part of an Append under dispatch  *)
(* is never an Append: the reassociating arms of return and handle are     *)
(* defensive, and a queue is walked in time linear in its occurrences.     *)
AppendLeftIsFlat ==
  \A d \in 1..Depth :
    Kind(stack[d].queue) = "Append" => Kind(nodes[stack[d].queue].left) # "Append"

(* The executor always hands control back: however Append nodes are nested *)
(* and however long the replayed queue, dispatch reaches a guest call, an  *)
(* answer or a trap.                                                       *)
MachineYields ==
  (Dispatching \/ replay.pc # "idle") ~> (GuestRuns \/ outcome = "trapped")
=============================================================================
