--------------------------- MODULE HandlerContract ---------------------------
(***************************************************************************)
(* What the control machine promises, over flat occurrence lists: pending  *)
(* work is one sequence of bind continuations and finish markers, handlers *)
(* are a stack of scopes, and a resumption replays a captured list in one  *)
(* step.  There are no Append trees, no normalisation, no traversal stack  *)
(* and no reversed copy here; ControlMachine implements this module under  *)
(* the mapping of ControlRefinement.                                       *)
(*                                                                         *)
(* The replay rule is the flat one the repository's own reference model    *)
(* uses (plan/model/reference/replay.rs): continuations are shared, every  *)
(* saved finish marker must still be usable, and each gets a fresh extent. *)
(***************************************************************************)
EXTENDS Naturals, Sequences, FiniteSets, SequencesExt

CONSTANT Text

VARIABLES
  extents,   \* parent (0 for a root) and status of every extent
  raws,      \* captured work and checkpoint of every resumption
  owners,    \* status and callback slot of every one-shot owner
  minted,    \* resumptions whose computation the guest holds
  runs,      \* one record per executing run, innermost last
  outcome

vars == <<extents, raws, owners, minted, runs, outcome>>

(* An item of work is [tag |-> "Then", call |-> f] or                      *)
(* [tag |-> "Finish", extent |-> e, parent |-> p].                         *)
IsFinish(item) == item.tag = "Finish"

Usable(e) ==
  LET Chain[i \in 0..Len(extents)] ==
        IF i = 0 THEN TRUE ELSE extents[i].status = 0 /\ Chain[extents[i].parent]
  IN  Chain[e]

Closing(e) == [extents EXCEPT ![e].status = 1]

Depth == Len(runs)
Top == runs[Depth]
SetTop(run) == runs' = [runs EXCEPT ![Depth] = run]
Popped == SubSeq(runs, 1, Depth - 1)
Dispatching == outcome = "running" /\ Depth > 0 /\ Top.await = "none"
GuestRuns == outcome = "running" /\ (Depth > 0 => Top.await # "none")

Trap == outcome' = "trapped" /\ UNCHANGED <<extents, raws, owners, minted, runs>>

(* The extent of the innermost scope, or the root of the run.              *)
DispatchExtent == IF Top.scopes = <<>> THEN Top.root ELSE Head(Top.scopes).extent

-----------------------------------------------------------------------------
Return == [tag |-> "Return"]

(* A value at the end of the work: the run answers, or the innermost scope *)
(* has finished and its return clause runs.                                *)
Answer ==
  /\ Dispatching /\ Top.comp.tag = "Return" /\ Top.work = <<>> /\ Top.scopes = <<>>
  /\ runs' = Popped
  /\ extents' = Closing(Top.root)
  /\ UNCHANGED <<raws, owners, minted, outcome>>

ScopeReturns ==
  /\ Dispatching /\ Top.comp.tag = "Return" /\ Top.work = <<>> /\ Top.scopes # <<>>
  /\ SetTop([Top EXCEPT !.await = "clause"])
  /\ UNCHANGED <<extents, raws, owners, minted, outcome>>

(* The next continuation of the work runs, and no other.                   *)
CallNext ==
  /\ Dispatching /\ Top.comp.tag = "Return" /\ Top.work # <<>>
  /\ ~IsFinish(Head(Top.work))
  /\ SetTop([Top EXCEPT !.await = "next", !.work = Tail(@), !.calling = Head(Top.work).call])
  /\ UNCHANGED <<extents, raws, owners, minted, outcome>>

(* A finish marker is reached: its extent closes, the outer one is active. *)
CloseScope ==
  /\ Dispatching /\ Top.comp.tag = "Return" /\ Top.work # <<>>
  /\ IsFinish(Head(Top.work))
  /\ extents' = Closing(Head(Top.work).extent)
  /\ SetTop([Top EXCEPT !.work = Tail(@), !.extent = Head(Top.work).parent])
  /\ UNCHANGED <<raws, owners, minted, outcome>>

(* A request captures exactly the work up to the innermost delimiter.      *)
Request ==
  /\ Dispatching /\ Top.comp.tag = "Perform"
  /\ LET k == [work |-> Top.work, checkpoint |-> DispatchExtent]
     IN  \/ raws' = Append(raws, k)
         \/ (\E i \in 1..Len(raws) : raws[i] = k) /\ UNCHANGED raws
  /\ SetTop([Top EXCEPT !.work = <<>>, !.comp = Return,
               !.await = IF Top.scopes = <<>> THEN "root" ELSE "clause"])
  /\ UNCHANGED <<extents, owners, minted, outcome>>

Sequence ==
  /\ Dispatching /\ Top.comp.tag = "Bind"
  /\ SetTop([Top EXCEPT !.comp = Text[Top.comp.inner],
               !.work = <<[tag |-> "Then", call |-> Top.comp.then]>> \o @])
  /\ UNCHANGED <<extents, raws, owners, minted, outcome>>

(* Entering a handler opens a scope over the pending work.  Only a handler *)
(* reached with a finish marker next shares that marker's extent.          *)
Enter ==
  /\ Dispatching /\ Top.comp.tag = "Handle"
  /\ LET shares == Top.work # <<>> /\ IsFinish(Head(Top.work))
         e == IF shares THEN Head(Top.work).extent ELSE Len(extents) + 1
         scope == IF shares
                  THEN [work |-> Tail(Top.work), parent |-> Head(Top.work).parent,
                        extent |-> e]
                  ELSE [work |-> Top.work, parent |-> Top.extent, extent |-> e]
     IN  /\ extents' = IF shares THEN extents
                       ELSE Append(extents, [parent |-> Top.extent, status |-> 0])
         /\ SetTop([Top EXCEPT !.comp = Text[Top.comp.source], !.work = <<>>,
                               !.extent = e, !.scopes = <<scope>> \o @])
  /\ UNCHANGED <<raws, owners, minted, outcome>>

(* Replay: the saved finish markers, taken from the last to the first, get *)
(* new extents base+1, base+2, ...; the last one is a child of the current *)
(* scope and restores the active extent, each other one is a child of the  *)
(* one after it and restores that one.                                     *)
FinishesFrom(work, i) == Cardinality({j \in i..Len(work) : IsFinish(work[j])})

Replayed(work, base, active) ==
  [i \in 1..Len(work) |->
     IF IsFinish(work[i])
     THEN LET n == FinishesFrom(work, i)
          IN  [work[i] EXCEPT !.extent = base + n,
                              !.parent = IF n = 1 THEN active ELSE base + n - 1]
     ELSE work[i]]

ReplayExtents(n, base, parent) ==
  [i \in 1..n |-> [parent |-> IF i = 1 THEN parent ELSE base + i - 1, status |-> 0]]

Replay ==
  /\ Dispatching /\ Top.comp.tag = "Resume"
  /\ LET k == raws[Top.comp.raw]
         n == FinishesFrom(k.work, 1)
         base == Len(extents)
         valid == /\ Usable(k.checkpoint)
                  /\ \A i \in 1..Len(k.work) :
                       IsFinish(k.work[i]) => Usable(k.work[i].extent)
     IN  IF valid
         THEN /\ extents' = extents \o ReplayExtents(n, base, DispatchExtent)
              /\ SetTop([Top EXCEPT !.comp = Return,
                           !.work = Replayed(k.work, base, Top.extent) \o @,
                           !.extent = IF n = 0 THEN @ ELSE base + n])
              /\ UNCHANGED <<raws, owners, minted, outcome>>
         ELSE Trap

Transfer ==
  /\ Dispatching /\ Top.comp.tag = "OwnedResume"
  /\ LET o == Top.comp.owner
     IN  IF owners[o].status = "Pending"
         THEN /\ owners' = [owners EXCEPT ![o] =
                              [status |-> "Running", callback |-> "cleared"]]
              /\ SetTop([Top EXCEPT !.await = "owned", !.owner = o, !.comp = Return])
              /\ UNCHANGED <<extents, raws, minted, outcome>>
         ELSE Trap

-----------------------------------------------------------------------------
(* Guest code.                                                             *)

(* A clause answers in the scope's caller, over the scope's own finish     *)
(* marker; any other closure answers where it was called.                  *)
Supply(c) ==
  /\ GuestRuns /\ Depth > 0
  /\ LET scope == Head(Top.scopes)
         marker == [tag |-> "Finish", extent |-> scope.extent, parent |-> scope.parent]
     IN  IF Top.await = "clause"
         THEN SetTop([Top EXCEPT !.await = "none", !.comp = c, !.extent = scope.extent,
                        !.work = <<marker>> \o scope.work, !.scopes = Tail(@)])
         ELSE SetTop([Top EXCEPT !.await = "none", !.comp = c, !.owner = 0,
                        !.calling = "none"])
  /\ owners' = IF Top.await = "owned"
               THEN [owners EXCEPT ![Top.owner].status = "Consumed"] ELSE owners
  /\ UNCHANGED <<extents, raws, minted, outcome>>

Run(c) ==
  /\ GuestRuns
  /\ extents' = Append(extents, [parent |-> 0, status |-> 0])
  /\ LET root == Len(extents) + 1
     IN  runs' = Append(runs, [root |-> root, comp |-> c, work |-> <<>>,
                               extent |-> root, scopes |-> <<>>, await |-> "none",
                               owner |-> 0, calling |-> "none"])
  /\ UNCHANGED <<raws, owners, minted, outcome>>

Mint(k) ==
  /\ GuestRuns
  /\ IF Usable(raws[k].checkpoint)
     THEN minted' = minted \cup {k} /\ UNCHANGED <<extents, raws, owners, runs, outcome>>
     ELSE Trap

Once ==
  /\ GuestRuns
  /\ owners' = Append(owners, [status |-> "Pending", callback |-> "callback"])
  /\ UNCHANGED <<extents, raws, minted, runs, outcome>>

Cancel(o) ==
  /\ GuestRuns
  /\ IF owners[o].status = "Pending"
     THEN /\ owners' = [owners EXCEPT ![o] =
                          [status |-> "Cancelled", callback |-> "cleared"]]
          /\ UNCHANGED <<extents, raws, minted, runs, outcome>>
     ELSE Trap

(* A step that needs native stack may exhaust it and end the run instead.  *)
Exhaust ==
  /\ Dispatching
  /\ \/ Top.comp.tag = "Resume"
     \/ Top.comp.tag = "Return" /\ Top.work = <<>> /\ Top.scopes = <<>>
     \/ Top.comp.tag = "Return" /\ Top.work # <<>> /\ IsFinish(Head(Top.work))
  /\ extents' = Closing(Top.root)
  /\ runs' = Popped
  /\ UNCHANGED <<raws, owners, minted, outcome>>

Abort ==
  /\ GuestRuns /\ Depth > 0
  /\ owners' = IF Top.await = "owned"
               THEN [owners EXCEPT ![Top.owner].status = "Consumed"] ELSE owners
  /\ extents' = Closing(Top.root)
  /\ runs' = Popped
  /\ UNCHANGED <<raws, minted, outcome>>

-----------------------------------------------------------------------------
Init ==
  /\ extents = <<>> /\ raws = <<>> /\ owners = <<>> /\ minted = {}
  /\ runs = <<>> /\ outcome = "running"

Computations ==
  Range(Text) \cup {Return}
    \cup {[tag |-> "Resume", raw |-> k] : k \in minted}
    \cup {[tag |-> "OwnedResume", owner |-> o] : o \in 1..Len(owners)}

Next ==
  \/ Answer \/ ScopeReturns \/ CallNext \/ CloseScope
  \/ Request \/ Sequence \/ Enter \/ Replay \/ Transfer
  \/ \E c \in Computations : Supply(c) \/ Run(c)
  \/ \E k \in 1..Len(raws) : Mint(k)
  \/ Once
  \/ \E o \in 1..Len(owners) : Cancel(o)
  \/ Abort \/ Exhaust

Spec == Init /\ [][Next]_vars
=============================================================================
