----------------------- MODULE ControlRefinementProofs -----------------------
(***************************************************************************)
(* ControlMachine implements HandlerContract: every step of the machine is *)
(* a step of the contract or invisible to it.                              *)
(***************************************************************************)
EXTENDS ControlMachineProofs, FiniteSetTheorems

-----------------------------------------------------------------------------
(* The contract's extents.                                                 *)

Base == Len(extents) - Unpublished

LEMMA UsableStep ==
  ASSUME ExtentsOK, NEW e \in 1..Len(extents)
  PROVE  Usable(e) <=> /\ extents[e].status = Live
                       /\ extents[e].parent = NoExtent \/ Usable(extents[e].parent)
<1>1. /\ extents[e].parent \in 0..Len(extents)
      /\ extents[e].parent # NoExtent => extents[e].parent \in 1..Len(extents)
  BY ExtentFacts
<1>2. Usable(e) <=> \E S \in Lines : e \in S /\ AllLive(S)
  BY UsableFacts
<1>3. extents[e].parent # NoExtent =>
        (Usable(extents[e].parent) <=> \E S \in Lines : extents[e].parent \in S /\ AllLive(S))
  BY <1>1, UsableFacts
<1>4. ASSUME NEW S \in Lines, e \in S, AllLive(S)
      PROVE  extents[e].status = Live /\ (extents[e].parent # NoExtent => extents[e].parent \in S)
  BY <1>4 DEF Lines, AllLive
<1>5. CASE extents[e].parent = NoExtent
  <2>1. extents[e].status = Live => {e} \in Lines /\ AllLive({e})
    BY <1>5 DEF Lines, AllLive
  <2>2. QED  BY <1>2, <1>4, <1>5, <2>1
<1>6. CASE extents[e].parent # NoExtent
  <2>1. ASSUME NEW S \in Lines, extents[e].parent \in S, AllLive(S), extents[e].status = Live
        PROVE  S \cup {e} \in Lines /\ AllLive(S \cup {e})
    BY <2>1 DEF Lines, AllLive
  <2>2. QED  BY <1>2, <1>3, <1>4, <1>6, <2>1
<1>7. QED  BY <1>5, <1>6

(* For the contract, which only knows the published extents, the same ones *)
(* are usable.                                                             *)
LEMMA PublishedUsable ==
  ASSUME TypeOK, NEW b \in Nat, b = Base, b <= Len(extents), NEW e \in 1..b
  PROVE  Contract!Usable(e) <=> Usable(e)
<1>1. PICK E : E = Published
  OBVIOUS
<1>2. /\ extents \in Seq(Extents) /\ Len(extents) \in Nat /\ ExtentsOK
      /\ \A i \in 1..Len(extents) : extents[i].parent \in 0..Len(extents) /\ extents[i].parent < i
  BY ExtentFacts DEF TypeOK, ExtentsOK
<1>3. /\ E \in Seq(Extents) /\ Len(E) = b
      /\ \A i \in 1..b : E[i] = extents[i]
  BY <1>1, <1>2, PrefixFacts DEF Published, Base
<1> DEFINE Dom == 0..Len(E)
           Body(i, F) == IF i = 0 THEN TRUE ELSE E[i].status = 0 /\ F[E[i].parent]
           Solves(F) == F = [i \in Dom |-> Body(i, F)]
           Good(i) == i = 0 \/ Usable(i)
           f == [i \in Dom |-> Good(i)]
           Chain == CHOOSE F : Solves(F)
<1>4. Contract!Usable(e) = Chain[e]
  BY <1>1 DEF Contract!Usable
<1>5. ASSUME NEW i \in Dom, i # 0
      PROVE  /\ i \in 1..b /\ i \in 1..Len(extents) /\ E[i] = extents[i]
             /\ E[i].parent \in Dom /\ E[i].parent < i
  BY <1>2, <1>3, <1>5
<1>6. ASSUME NEW i \in Dom PROVE Good(i) = Body(i, f)
  <2>1. CASE i = 0
    BY <2>1
  <2>2. CASE i # 0
    <3>1. Usable(i) <=> extents[i].status = Live
                        /\ (extents[i].parent = NoExtent \/ Usable(extents[i].parent))
      BY <1>2, <1>5, <2>2, UsableStep
    <3>2. f[E[i].parent] = Good(E[i].parent)
      BY <1>5, <2>2
    <3>3. Good(i) <=> E[i].status = 0 /\ Good(E[i].parent)
      BY <1>5, <2>2, <3>1 DEF Live, NoExtent
    <3> HIDE DEF f, Good
    <3>4. Good(i) \in BOOLEAN
      BY DEF Good
    <3>5. QED  BY <2>2, <3>2, <3>3, <3>4
  <2>3. QED  BY <2>1, <2>2
<1>7. Solves(Chain)
  <2>1. Solves(f)
    <3> HIDE DEF Good, Body
    <3> QED  BY <1>6
  <2> HIDE DEF Solves, f
  <2>2. QED  BY <2>1
<1>8. \A i \in Dom : Chain[i] = Body(i, Chain)
  <2> HIDE DEF Chain, Body
  <2> QED  BY <1>7
<1>9. \A i \in Dom : Chain[i] = Good(i)
  <2> DEFINE Bad == {i \in Dom : Chain[i] # Good(i)}
  <2>1. SUFFICES ASSUME Bad # {} PROVE FALSE
    OBVIOUS
  <2>2. PICK i \in Bad : \A j \in Bad : i <= j
    <3> HIDE DEF Chain, Good
    <3>1. Bad \in SUBSET Nat
      BY <1>3
    <3> HIDE DEF Bad
    <3>2. QED  BY <2>1, <3>1, LeastExists
  <2>3. i \in Dom /\ Chain[i] # Good(i) /\ \A j \in Dom : j < i => Chain[j] = Good(j)
    <3> HIDE DEF Chain, Good
    <3> QED  BY <1>3, <2>2
  <2>4. i # 0 => E[i].parent \in Dom /\ E[i].parent < i
    BY <1>5, <2>3
  <2>5. Body(i, Chain) = Body(i, f)
    <3>1. i # 0 => f[E[i].parent] = Good(E[i].parent)
      BY <2>4
    <3> HIDE DEF Chain, Good, f
    <3>2. QED  BY <2>3, <2>4, <3>1
  <2> HIDE DEF Chain, Good, f, Body
  <2>6. QED  BY <1>6, <1>8, <2>3, <2>5
<1>10. e \in Dom /\ e # 0
  BY <1>3
<1> HIDE DEF Chain
<1>11. QED  BY <1>4, <1>9, <1>10

(* Outside the rebuilding half of a replay they are all the extents.       *)
LEMMA AllPublished ==
  ASSUME TypeOK, replay.pc # "rebuild"
  PROVE  Published = extents /\ Base = Len(extents) /\ Len(extents) \in Nat
<1>1. Unpublished = 0 /\ extents \in Seq(Extents) /\ Len(extents) \in Nat
  BY DEF Unpublished, TypeOK, ExtentsOK
<1>2. PICK n : n = Len(extents) - Unpublished
  OBVIOUS
<1>3. n = Len(extents) /\ n \in Nat
  BY <1>1, <1>2
<1>4. SubSeq(extents, 1, n) = extents
  <2>1. /\ SubSeq(extents, 1, n) \in Seq(Extents) /\ Len(SubSeq(extents, 1, n)) = n
        /\ \A i \in 1..n : SubSeq(extents, 1, n)[i] = extents[i]
    BY <1>1, <1>3, PrefixFacts
  <2>2. QED  BY <1>1, <1>3, <2>1, SequencesEqual
<1>5. QED  BY <1>1, <1>2, <1>3, <1>4 DEF Published, Base

PublishedRule == TypeOK /\ replay.pc # "rebuild" => Published = extents

LEMMA NewPublished == PublishedRule'
<1>1. PublishedRule
  BY AllPublished DEF PublishedRule
<1>2. QED  BY <1>1, PTL

-----------------------------------------------------------------------------
(* Queues hold continuations and finishes, contexts are stacks of scopes.  *)

WorkItems ==
  [tag : {"Then"}, call : Callbacks] \cup [tag : {"Finish"}, extent : Nat, parent : Nat]

LEMMA QueueHoldsWork ==
  ASSUME TypeOK, NEW q, IsQueue(q) PROVE FlatNodes[q] \in Seq(WorkItems)
<1> DEFINE F == FlatNodes
           Bad == {i \in 0..Len(nodes) : F[i] \notin Seq(WorkItems)}
<1>1. SUFFICES ASSUME Bad # {} PROVE FALSE
  BY DEF IsQueue
<1>2. PICK i \in Bad : \A j \in Bad : i <= j
  <2>1. Bad \in SUBSET Nat
    OBVIOUS
  <2> HIDE DEF Bad
  <2>2. QED  BY <1>1, <2>1, LeastExists
<1>3. i \in 0..Len(nodes) /\ F[i] \notin Seq(WorkItems)
  OBVIOUS
<1>4. ASSUME NEW j \in 0..Len(nodes), j < i PROVE F[j] \in Seq(WorkItems)
  <2>1. j \notin Bad
    <3>1. i \in Nat /\ j \in Nat
      BY <1>3, LengthsAreNat
    <3> HIDE DEF Bad
    <3>2. QED  BY <1>2, <1>4, <3>1
  <2>2. QED  BY <2>1
<1> HIDE DEF Bad
<1>5. NodesListed /\ NodesShaped /\ Len(nodes) \in Nat
  BY ListedNodes, ShapedNodes, LengthsAreNat
<1>6. i # Empty /\ i \in 1..Len(nodes)
  <2>1. F[0] \in Seq(WorkItems)
    BY <1>5 DEF NodesListed, Empty
  <2> HIDE DEF F
  <2>2. QED  BY <1>3, <1>5, <2>1 DEF Empty
<1>7. \A a, b \in Seq(WorkItems) : a \o b \in Seq(WorkItems)
  OBVIOUS
<1>8. CASE nodes[i].tag = "Cons"
  <2>1. nodes[i].head \in Callbacks /\ nodes[i].tail \in 0..Len(nodes) /\ nodes[i].tail < i
    BY <1>5, <1>6, <1>8, NodeShape
  <2>2. <<Then(nodes[i].head)>> \in Seq(WorkItems)
    BY <2>1 DEF Then, WorkItems
  <2>3. F[i] = <<Then(nodes[i].head)>> \o F[nodes[i].tail]
    BY <1>5, <1>6, <1>8 DEF NodesListed
  <2> HIDE DEF F
  <2>4. QED  BY <1>3, <1>4, <1>7, <2>1, <2>2, <2>3
<1>9. CASE nodes[i].tag = "Append"
  <2>1. /\ nodes[i].left \in 0..Len(nodes) /\ nodes[i].left < i
        /\ nodes[i].right \in 0..Len(nodes) /\ nodes[i].right < i
    BY <1>5, <1>6, <1>9, NodeShape
  <2>2. F[i] = F[nodes[i].left] \o F[nodes[i].right]
    BY <1>5, <1>6, <1>9 DEF NodesListed
  <2> HIDE DEF F
  <2>3. QED  BY <1>3, <1>4, <1>7, <2>1, <2>2
<1>10. CASE nodes[i].tag = "Finish"
  <2>1. /\ nodes[i].rest \in 0..Len(nodes) /\ nodes[i].rest < i
        /\ nodes[i].extent \in Nat /\ nodes[i].parent \in Nat
    BY <1>5, <1>6, <1>10, NodeShape
  <2>2. <<Marker(nodes[i].extent, nodes[i].parent)>> \in Seq(WorkItems)
    BY <2>1 DEF Marker, WorkItems
  <2>3. F[i] = <<Marker(nodes[i].extent, nodes[i].parent)>> \o F[nodes[i].rest]
    BY <1>5, <1>6, <1>10 DEF NodesListed
  <2> HIDE DEF F
  <2>4. QED  BY <1>3, <1>4, <1>7, <2>1, <2>2, <2>3
<1>11. QED  BY <1>5, <1>6, <1>8, <1>9, <1>10, NodeShape

ScopeRecords == [work : Seq(WorkItems), parent : Nat, extent : Nat]

(* The scope that context i opens, and the stack of scopes in it.          *)
ScopeOf(i) ==
  [work |-> FlatNodes[contexts[i].saved], parent |-> contexts[i].parent,
   extent |-> contexts[i].extent]

ScopesBody(i, F) ==
  IF contexts[i].tag = "Root" THEN <<>> ELSE <<ScopeOf(i)>> \o F[contexts[i].caller]

LEMMA ScopeFacts ==
  ASSUME TypeOK, NEW i \in 1..Len(contexts), contexts[i].tag = "Scoped"
  PROVE  ScopeOf(i) \in ScopeRecords
<1>1. /\ contexts[i].extent \in Nat /\ contexts[i].parent \in Nat
      /\ IsQueue(contexts[i].saved)
  BY ContextShape DEF IsQueue
<1>2. FlatNodes[contexts[i].saved] \in Seq(WorkItems)
  BY <1>1, QueueHoldsWork
<1>3. QED  BY <1>1, <1>2 DEF ScopeOf, ScopeRecords

(* The stacks of scopes of all contexts.                                   *)
ScopesListed ==
  \A c \in 1..Len(contexts) :
    /\ ScopesOf(c) \in Seq(ScopeRecords)
    /\ contexts[c].tag = "Root" => ScopesOf(c) = <<>>
    /\ contexts[c].tag = "Scoped" =>
         ScopesOf(c) = <<ScopeOf(c)>> \o ScopesOf(contexts[c].caller)

LEMMA ListedScopes == TypeOK => ScopesListed
<1> SUFFICES ASSUME TypeOK PROVE ScopesListed
  OBVIOUS
<1> DEFINE Dom == 1..Len(contexts)
           V == Seq(ScopeRecords)
           step == [i \in Dom |-> [g \in [Dom -> V] |-> ScopesBody(i, g)]]
           Solves(F) == F = [i \in Dom |-> ScopesBody(i, F)]
           Scopes == CHOOSE F : Solves(F)
<1>1. Len(contexts) \in Nat
  BY LengthsAreNat
<1>2. ASSUME NEW i \in Dom, NEW F, \A j \in Dom : j < i => F[j] \in V
      PROVE  /\ ScopesBody(i, F) \in V
             /\ \A G : (\A j \in Dom : j < i => F[j] = G[j]) => ScopesBody(i, F) = ScopesBody(i, G)
  <2>1. CASE contexts[i].tag = "Root"
    BY <2>1 DEF ScopesBody
  <2>2. CASE contexts[i].tag # "Root"
    <3>1. contexts[i].tag = "Scoped" /\ contexts[i].caller \in Dom /\ contexts[i].caller < i
      BY <2>2, ContextShape
    <3>2. PICK one : one = <<ScopeOf(i)>>
      OBVIOUS
    <3>3. one \in V
      BY <3>1, <3>2, ScopeFacts
    <3>4. \A G : ScopesBody(i, G) = one \o G[contexts[i].caller]
      BY <2>2, <3>2 DEF ScopesBody
    <3>5. F[contexts[i].caller] \in V
      BY <1>2, <3>1
    <3>6. one \o F[contexts[i].caller] \in V
      BY <3>3, <3>5
    <3>7. QED  BY <3>1, <3>4, <3>6
  <2>3. QED  BY <2>1, <2>2
<1>3. step \in [Dom -> [[Dom -> V] -> V]] /\ V # {}
  <2>1. <<>> \in V
    OBVIOUS
  <2>2. QED  BY <1>2, <2>1
<1>4. /\ \A i \in Dom : \A g \in [Dom -> V] : step[i][g] = ScopesBody(i, g)
      /\ \A i \in Dom : \A g, h \in [Dom -> V] :
           (\A j \in Dom : j < i => g[j] = h[j]) => ScopesBody(i, g) = ScopesBody(i, h)
  <2>1. ASSUME NEW i \in Dom, NEW g \in [Dom -> V]
        PROVE  \A h : (\A j \in Dom : j < i => g[j] = h[j]) => ScopesBody(i, g) = ScopesBody(i, h)
    <3>1. \A j \in Dom : j < i => g[j] \in V
      OBVIOUS
    <3> HIDE DEF V
    <3>2. QED  BY <1>2, <3>1
  <2>2. QED  BY <2>1
<1>5. PICK f \in [Dom -> V] : \A i \in Dom : f[i] = ScopesBody(i, f)
  <2>1. Recursion(Dom, V, step)
    <3> HIDE DEF step, V
    <3>1. \A i \in Dom : \A g, h \in [Dom -> V] :
            (\A j \in Dom : j < i => g[j] = h[j]) => step[i][g] = step[i][h]
      BY <1>4
    <3>2. QED  BY <1>3, <3>1 DEF Recursion
  <2>2. \E f : Solution(Dom, V, step, f)
    <3>1. 1 \in Nat
      OBVIOUS
    <3> HIDE DEF step, V
    <3>2. QED  BY <1>1, <1>3, <2>1, <3>1, RecursionExists
  <2>3. QED  BY <1>4, <2>2 DEF Solution
<1>6. Solves(Scopes)
  <2>1. Solves(f)
    BY <1>5
  <2> HIDE DEF Solves
  <2>2. QED  BY <2>1
<1>7. \A c : ScopesOf(c) = Scopes[c]
  BY DEF ScopesOf, ScopesBody, ScopeOf
<1>8. \A i \in Dom : Scopes[i] = ScopesBody(i, Scopes)
  <2> HIDE DEF Scopes
  <2> QED  BY <1>6
<1> HIDE DEF Scopes
<1>9. \A i \in Dom : Scopes[i] \in V
  <2> DEFINE Bad == {i \in Dom : Scopes[i] \notin V}
  <2>1. SUFFICES ASSUME Bad # {} PROVE FALSE
    OBVIOUS
  <2>2. PICK i \in Bad : \A j \in Bad : i <= j
    <3>1. Bad \in SUBSET Nat
      OBVIOUS
    <3> HIDE DEF Bad
    <3>2. QED  BY <2>1, <3>1, LeastExists
  <2>3. \A j \in Dom : j < i => Scopes[j] \in V
    BY <2>2
  <2>4. ScopesBody(i, Scopes) \in V
    BY <1>2, <2>3
  <2>5. QED  BY <1>8, <2>4
<1>10. ASSUME NEW c \in Dom, contexts[c].tag = "Root" PROVE ScopesOf(c) = <<>>
  BY <1>7, <1>8, <1>10 DEF ScopesBody
<1>11. ASSUME NEW c \in Dom, contexts[c].tag = "Scoped"
       PROVE ScopesOf(c) = <<ScopeOf(c)>> \o ScopesOf(contexts[c].caller)
  BY <1>7, <1>8, <1>11 DEF ScopesBody
<1>12. QED  BY <1>7, <1>9, <1>10, <1>11 DEF ScopesListed

LEMMA NewListedScopes == TypeOK' => ScopesListed'
BY ListedScopes, PTL

LEMMA ScopeKept ==
  ASSUME TypeOK, TypeOK', Grows, NEW c \in 1..Len(contexts), contexts[c].tag = "Scoped"
  PROVE  ScopeOf(c)' = ScopeOf(c)
<1>1. contexts'[c] = contexts[c]
  BY DEF Grows
<1>2. PICK q : q = contexts[c].saved
  OBVIOUS
<1>3. IsQueue(q)
  BY <1>2, ContextShape DEF IsQueue
<1>4. FlatNodes'[q] = FlatNodes[q]
  BY <1>3, ListKept
<1>5. QED  BY <1>1, <1>2, <1>4 DEF ScopeOf

(* A context keeps its scopes.                                             *)
LEMMA ScopesKept ==
  ASSUME TypeOK, TypeOK', Grows, NEW c \in 1..Len(contexts)
  PROVE  ScopesOf(c)' = ScopesOf(c)
<1> DEFINE Bad == {i \in 1..Len(contexts) : ScopesOf(i)' # ScopesOf(i)}
<1>1. SUFFICES ASSUME Bad # {} PROVE FALSE
  OBVIOUS
<1>2. PICK i \in Bad : \A j \in Bad : i <= j
  <2>1. Bad \in SUBSET Nat
    OBVIOUS
  <2> HIDE DEF Bad
  <2>2. QED  BY <1>1, <2>1, LeastExists
<1>3. /\ Len(contexts) \in Nat /\ Len(contexts') \in Nat /\ Len(contexts) <= Len(contexts')
      /\ \A k \in 1..Len(contexts) : contexts'[k] = contexts[k]
  BY LengthsAreNat DEF Grows
<1>4. i \in 1..Len(contexts) /\ ScopesOf(i)' # ScopesOf(i)
  OBVIOUS
<1>5. ASSUME NEW j \in 1..Len(contexts), j < i PROVE ScopesOf(j)' = ScopesOf(j)
  <2>1. j \notin Bad
    <3>1. i \in Nat /\ j \in Nat
      BY <1>3, <1>4
    <3> HIDE DEF Bad
    <3>2. QED  BY <1>2, <1>5, <3>1
  <2>2. QED  BY <2>1
<1> HIDE DEF Bad
<1>6. ScopesListed /\ ScopesListed'
  BY ListedScopes, NewListedScopes
<1>7. i \in 1..Len(contexts') /\ contexts'[i] = contexts[i]
  BY <1>3, <1>4
<1>8. CASE contexts[i].tag = "Root"
  BY <1>4, <1>6, <1>7, <1>8 DEF ScopesListed
<1>9. CASE contexts[i].tag = "Scoped"
  <2>1. PICK j : j = contexts[i].caller
    OBVIOUS
  <2>2. j \in 1..Len(contexts) /\ j < i
    BY <1>4, <1>9, <2>1, ContextShape
  <2>3. ScopesOf(i)' = <<ScopeOf(i)'>> \o ScopesOf(j)'
    BY <1>6, <1>7, <1>9, <2>1 DEF ScopesListed
  <2>4. ScopeOf(i)' = ScopeOf(i) /\ ScopesOf(j)' = ScopesOf(j)
    BY <1>4, <1>5, <1>9, <2>2, ScopeKept
  <2>5. ScopesOf(i) = <<ScopeOf(i)>> \o ScopesOf(j)
    BY <1>4, <1>6, <1>9, <2>1 DEF ScopesListed
  <2>6. QED  BY <1>4, <2>3, <2>4, <2>5
<1>10. QED  BY <1>4, <1>8, <1>9, ContextShape

-----------------------------------------------------------------------------
(* The contract's activations.                                             *)

FlatFrames ==
  [root : Nat, comp : Computations, work : Seq(WorkItems), extent : Nat,
   scopes : Seq(ScopeRecords), await : {"none", "clause", "next", "root", "owned"},
   owner : Nat, calling : Callbacks \cup {NoCallee}]

(* Activations with the same fields are equal.                             *)
LEMMA FlatFramesEqual ==
  ASSUME NEW r \in FlatFrames, NEW s \in FlatFrames,
         r.root = s.root, r.comp = s.comp, r.work = s.work, r.extent = s.extent,
         r.scopes = s.scopes, r.await = s.await, r.owner = s.owner, r.calling = s.calling
  PROVE  r = s
BY DEF FlatFrames

LEMMA FlatFrameFacts ==
  ASSUME TypeOK, NEW frame \in Frames, FrameOK(frame), NEW r, r = AbstractRun(frame)
  PROVE  /\ r \in FlatFrames
         /\ r.root = frame.root /\ r.comp = frame.comp /\ r.extent = frame.extent
         /\ r.await = frame.await /\ r.owner = frame.owner /\ r.calling = frame.callee
         /\ r.work = FlatNodes[frame.queue] /\ r.scopes = ScopesOf(frame.ctx)
<1>1. IsQueue(frame.queue) /\ frame.ctx \in 1..Len(contexts)
  BY DEF FrameOK
<1>2. FlatNodes[frame.queue] \in Seq(WorkItems) /\ ScopesOf(frame.ctx) \in Seq(ScopeRecords)
  BY <1>1, QueueHoldsWork, ListedScopes DEF ScopesListed
<1>3. PICK w, s : w = FlatNodes[frame.queue] /\ s = ScopesOf(frame.ctx)
  OBVIOUS
<1>4. r = [root |-> frame.root, comp |-> frame.comp, work |-> w, extent |-> frame.extent,
           scopes |-> s, await |-> frame.await, owner |-> frame.owner,
           calling |-> frame.callee]
  BY <1>3 DEF AbstractRun
<1>5. QED  BY <1>2, <1>3, <1>4 DEF Frames, FlatFrames

FlatFrameRule ==
  \A frame \in Frames : FrameOK(frame) =>
    LET r == AbstractRun(frame)
    IN  /\ r \in FlatFrames
        /\ r.root = frame.root /\ r.comp = frame.comp /\ r.extent = frame.extent
        /\ r.await = frame.await /\ r.owner = frame.owner /\ r.calling = frame.callee
        /\ r.work = FlatNodes[frame.queue] /\ r.scopes = ScopesOf(frame.ctx)

LEMMA NewFlatFrames == TypeOK' => FlatFrameRule'
<1>1. TypeOK => FlatFrameRule
  BY FlatFrameFacts DEF FlatFrameRule
<1>2. QED  BY <1>1, PTL

(* The contract has the machine's activations.                             *)
LEMMA FlatRunsFacts ==
  ASSUME TypeOK
  PROVE  /\ FlatRuns \in Seq(FlatFrames) /\ Contract!Depth = Depth /\ Depth \in Nat
         /\ Len(FlatRuns) = Depth
         /\ \A d \in 1..Depth : FlatRuns[d] = AbstractRun(stack[d])
<1>1. Depth \in Nat /\ \A d \in 1..Depth : stack[d] \in Frames /\ FrameOK(stack[d])
  BY LengthsAreNat DEF TypeOK, StackOK, Depth
<1>2. \A d \in 1..Depth : AbstractRun(stack[d]) \in FlatFrames
  BY <1>1, FlatFrameFacts
<1>3. QED  BY <1>1, <1>2 DEF FlatRuns, Contract!Depth

LEMMA FlatTop ==
  ASSUME TypeOK, Depth > 0, NEW t, t = Contract!Top
  PROVE  /\ t \in FlatFrames
         /\ t.root = Top.root /\ t.comp = Top.comp /\ t.extent = Top.extent
         /\ t.await = Top.await /\ t.owner = Top.owner /\ t.calling = Top.callee
         /\ t.work = FlatNodes[Top.queue] /\ t.scopes = ScopesOf(Top.ctx)
<1>1. Top \in Frames /\ FrameOK(Top) /\ Depth \in 1..Depth
  BY TopFacts
<1>2. t = AbstractRun(Top)
  BY <1>1, FlatRunsFacts DEF Contract!Top, Top
<1>3. QED  BY <1>1, <1>2, FlatFrameFacts

FlatRunsRule == TypeOK =>
  /\ FlatRuns \in Seq(FlatFrames) /\ Depth \in Nat /\ Len(FlatRuns) = Depth
  /\ \A d \in 1..Depth : FlatRuns[d] = AbstractRun(stack[d])

LEMMA NewFlatRuns == FlatRunsRule'
<1>1. FlatRunsRule
  BY FlatRunsFacts DEF FlatRunsRule
<1>2. QED  BY <1>1, PTL

(* An activation that the step leaves alone is the same for the contract.  *)
LEMMA FlatFrameKept ==
  ASSUME TypeOK, TypeOK', Grows, NEW frame, FrameOK(frame)
  PROVE  AbstractRun(frame)' = AbstractRun(frame)
<1>1. IsQueue(frame.queue) /\ frame.ctx \in 1..Len(contexts)
  BY DEF FrameOK
<1>2. PICK q, c : q = frame.queue /\ c = frame.ctx
  OBVIOUS
<1>3. FlatNodes'[q] = FlatNodes[q] /\ ScopesOf(c)' = ScopesOf(c)
  BY <1>1, <1>2, ListKept, ScopesKept
<1>4. QED  BY <1>2, <1>3 DEF AbstractRun

LEMMA FlatRunKept ==
  ASSUME TypeOK, TypeOK', Grows, NEW d \in 1..Depth, d \in 1..Depth', stack'[d] = stack[d]
  PROVE  FlatRuns'[d] = FlatRuns[d]
<1>1. PICK frame : frame = stack[d]
  OBVIOUS
<1>2. FrameOK(frame)
  BY <1>1 DEF TypeOK, StackOK
<1>3. AbstractRun(frame)' = AbstractRun(frame)
  BY <1>2, FlatFrameKept
<1>4. FlatRuns[d] = AbstractRun(frame) /\ FlatRuns'[d] = AbstractRun(frame)'
  BY <1>1, FlatRunsFacts, NewFlatRuns DEF FlatRunsRule
<1>5. QED  BY <1>3, <1>4

LEMMA SameRunsKept ==
  ASSUME TypeOK, TypeOK', Grows, UNCHANGED stack PROVE FlatRuns' = FlatRuns
<1>1. Depth' = Depth /\ \A d \in 1..Depth : FlatRuns'[d] = FlatRuns[d]
  BY FlatRunKept DEF Depth
<1>2. /\ FlatRuns \in Seq(FlatFrames) /\ Len(FlatRuns) = Depth
      /\ FlatRuns' \in Seq(FlatFrames) /\ Len(FlatRuns') = Depth
  BY <1>1, FlatRunsFacts, NewFlatRuns DEF FlatRunsRule
<1>3. QED  BY <1>1, <1>2, SequencesEqual

(* The step gives the top activation r.                                    *)
LEMMA FlatTopSet ==
  ASSUME TypeOK, TypeOK', Grows, Depth > 0, NEW frame, SetTop(frame)
  PROVE  /\ FrameOK(frame)' /\ frame \in Frames
         /\ \A r : r = AbstractRun(frame)' => FlatRuns' = [FlatRuns EXCEPT ![Contract!Depth] = r]
<1>1. /\ Depth' = Depth /\ stack'[Depth] = frame /\ Depth \in 1..Depth /\ Depth \in Nat
      /\ \A d \in 1..Depth : d # Depth => stack'[d] = stack[d]
  BY TopSet, TopFacts
<1>2. FrameOK(frame)' /\ frame \in Frames
  <2>1. StackOK' /\ Depth \in 1..Depth'
    BY <1>1 DEF TypeOK
  <2>2. \A d \in 1..Depth' : FrameOK(stack[d])' /\ stack'[d] \in Frames
    BY <2>1 DEF StackOK, Depth
  <2>3. FrameOK(stack[Depth])'
    BY <1>1, <2>1, <2>2
  <2>4. QED  BY <1>1, <2>1, <2>2, <2>3 DEF FrameOK
<1>3. PICK r : r = AbstractRun(frame)'
  OBVIOUS
<1>4. FlatRuns'[Depth] = r /\ \A d \in 1..Depth : d # Depth => FlatRuns'[d] = FlatRuns[d]
  BY <1>1, <1>3, NewFlatRuns, FlatRunKept DEF FlatRunsRule
<1>5. /\ FlatRuns \in Seq(FlatFrames) /\ Len(FlatRuns) = Depth /\ Contract!Depth = Depth
      /\ FlatRuns' \in Seq(FlatFrames) /\ Len(FlatRuns') = Depth
  BY <1>1, FlatRunsFacts, NewFlatRuns DEF FlatRunsRule
<1>6. PICK R, N : R = FlatRuns /\ N = FlatRuns'
  OBVIOUS
<1>7. N = [R EXCEPT ![Depth] = r]
  <2>1. r \in FlatFrames
    BY <1>1, <1>4, <1>5, <1>6
  <2>2. [R EXCEPT ![Depth] = r] \in Seq(FlatFrames) /\ Len([R EXCEPT ![Depth] = r]) = Depth
    BY <1>5, <1>6, <2>1
  <2>3. \A d \in 1..Depth : N[d] = [R EXCEPT ![Depth] = r][d]
    BY <1>1, <1>4, <1>5, <1>6
  <2>4. QED  BY <1>5, <1>6, <2>2, <2>3, SequencesEqual
<1>8. QED  BY <1>2, <1>3, <1>5, <1>6, <1>7

(* The end of an activation.                                               *)
LEMMA FlatPopped ==
  ASSUME TypeOK, TypeOK', Grows, Depth > 0, Pop PROVE FlatRuns' = Contract!Popped
<1>1. Depth' = Depth - 1 /\ \A d \in 1..(Depth - 1) : stack'[d] = stack[d]
  BY PopFacts DEF TypeOK, StackOK, Pop, Depth
<1>2. Depth \in Nat
  BY TopFacts
<1>3. \A d \in 1..(Depth - 1) : FlatRuns'[d] = FlatRuns[d]
  BY <1>1, <1>2, FlatRunKept
<1>4. /\ FlatRuns \in Seq(FlatFrames) /\ Len(FlatRuns) = Depth /\ Contract!Depth = Depth
      /\ FlatRuns' \in Seq(FlatFrames) /\ Len(FlatRuns') = Depth - 1
  BY <1>1, FlatRunsFacts, NewFlatRuns DEF FlatRunsRule
<1>5. PICK P, n : n = Depth - 1 /\ P = SubSeq(FlatRuns, 1, n)
  OBVIOUS
<1>6. P \in Seq(FlatFrames) /\ Len(P) = n /\ n \in Nat /\ \A d \in 1..n : P[d] = FlatRuns[d]
  BY <1>2, <1>4, <1>5, PrefixFacts
<1>7. FlatRuns' = P
  BY <1>3, <1>4, <1>5, <1>6, SequencesEqual
<1>8. QED  BY <1>4, <1>5, <1>7 DEF Contract!Popped


-----------------------------------------------------------------------------
(* The contract's resumptions and the scope a dispatch is in.              *)

FlatRawRecords == [work : Seq(WorkItems), checkpoint : Nat]

FlatRawOf(k) == [work |-> FlatNodes[raws[k].queue], checkpoint |-> raws[k].checkpoint]

FlatRawsRule == TypeOK =>
  /\ FlatRaws \in Seq(FlatRawRecords) /\ Len(FlatRaws) = Len(raws) /\ Len(raws) \in Nat
  /\ \A k \in 1..Len(raws) : /\ FlatRaws[k].work = FlatNodes[raws[k].queue]
                             /\ FlatRaws[k].checkpoint = raws[k].checkpoint

LEMMA FlatRawsFacts == FlatRawsRule
<1> SUFFICES ASSUME TypeOK
             PROVE  /\ FlatRaws \in Seq(FlatRawRecords) /\ Len(FlatRaws) = Len(raws)
                    /\ Len(raws) \in Nat
                    /\ \A k \in 1..Len(raws) :
                         /\ FlatRaws[k].work = FlatNodes[raws[k].queue]
                         /\ FlatRaws[k].checkpoint = raws[k].checkpoint
  BY DEF FlatRawsRule
<1>1. /\ Len(raws) \in Nat
      /\ \A k \in 1..Len(raws) : raws[k] \in Raws /\ IsQueue(raws[k].queue)
  BY DEF TypeOK, RawsOK, RawOK
<1>2. \A k \in 1..Len(raws) : FlatNodes[raws[k].queue] \in Seq(WorkItems)
  BY <1>1, QueueHoldsWork
<1>3. \A k \in 1..Len(raws) : FlatRawOf(k) \in FlatRawRecords
  BY <1>1, <1>2 DEF FlatRawOf, FlatRawRecords, Raws
<1>4. FlatRaws = [k \in 1..Len(raws) |-> FlatRawOf(k)]
  BY DEF FlatRaws, FlatRawOf
<1>5. FlatRaws \in Seq(FlatRawRecords) /\ Len(FlatRaws) = Len(raws)
  BY <1>1, <1>3, <1>4
<1>6. \A k \in 1..Len(raws) : FlatRaws[k] = FlatRawOf(k)
  BY <1>4
<1>7. \A k : /\ FlatRawOf(k).work = FlatNodes[raws[k].queue]
             /\ FlatRawOf(k).checkpoint = raws[k].checkpoint
  BY DEF FlatRawOf
<1>8. QED  BY <1>1, <1>5, <1>6, <1>7

LEMMA NewFlatRaws == FlatRawsRule'
BY FlatRawsFacts, PTL

(* A captured queue keeps its list.                                        *)
LEMMA FlatRawKept ==
  ASSUME TypeOK, TypeOK', Grows, NEW k \in 1..Len(raws), k \in 1..Len(raws'),
         raws'[k] = raws[k]
  PROVE  FlatRaws'[k] = FlatRaws[k]
<1>1. PICK q, c : q = raws[k].queue /\ c = raws[k].checkpoint
  OBVIOUS
<1>2. FlatNodes'[q] = FlatNodes[q]
  BY <1>1, ListKept DEF TypeOK, RawsOK, RawOK
<1>3. /\ FlatRaws[k] \in FlatRawRecords /\ FlatRaws'[k] \in FlatRawRecords
      /\ FlatRaws[k].work = FlatNodes[q] /\ FlatRaws'[k].work = FlatNodes'[q]
      /\ FlatRaws[k].checkpoint = c /\ FlatRaws'[k].checkpoint = c
  BY <1>1, FlatRawsFacts, NewFlatRaws DEF FlatRawsRule
<1>4. QED  BY <1>2, <1>3 DEF FlatRawRecords

LEMMA FlatRawsKept ==
  ASSUME TypeOK, TypeOK', Grows, UNCHANGED raws PROVE FlatRaws' = FlatRaws
<1>1. /\ FlatRaws \in Seq(FlatRawRecords) /\ FlatRaws' \in Seq(FlatRawRecords)
      /\ Len(FlatRaws) = Len(raws) /\ Len(FlatRaws') = Len(raws) /\ Len(raws) \in Nat
  BY FlatRawsFacts, NewFlatRaws DEF FlatRawsRule
<1>2. \A k \in 1..Len(raws) : FlatRaws'[k] = FlatRaws[k]
  BY FlatRawKept
<1>3. QED  BY <1>1, <1>2, SequencesEqual

LEMMA FlatRawsCaptured ==
  ASSUME TypeOK, TypeOK', Grows, NEW q, IsQueue(q), NEW c \in Nat,
         NEW raw, raw = [queue |-> q, checkpoint |-> c], raws' = Allocate(raws, raw),
         NEW k, k = [work |-> FlatNodes[q], checkpoint |-> c]
  PROVE  \/ FlatRaws' = Append(FlatRaws, k)
         \/ (\E i \in 1..Len(FlatRaws) : FlatRaws[i] = k) /\ UNCHANGED FlatRaws
<1>1. /\ FlatRaws \in Seq(FlatRawRecords) /\ FlatRaws' \in Seq(FlatRawRecords)
      /\ Len(FlatRaws) = Len(raws) /\ Len(FlatRaws') = Len(raws')
      /\ Len(raws) \in Nat /\ Len(raws') \in Nat /\ raws \in Seq(Raws)
  BY FlatRawsFacts, NewFlatRaws DEF FlatRawsRule, TypeOK, RawsOK
<1>2. k \in FlatRawRecords /\ raw.queue = q /\ raw.checkpoint = c /\ raw \in Raws
  BY QueueHoldsWork, LengthsAreNat DEF FlatRawRecords, Raws, IsQueue
<1>3. CASE Shared(raws, raw)
  <2>1. PICK i \in 1..Len(raws) : raws[i] = raw
    BY <1>3 DEF Shared
  <2>2. FlatRaws[i] \in FlatRawRecords /\ FlatRaws[i].work = FlatNodes[q] /\ FlatRaws[i].checkpoint = c
    BY <1>1, <1>2, <2>1, FlatRawsFacts DEF FlatRawsRule
  <2>3. FlatRaws[i] = k
    BY <1>2, <2>2 DEF FlatRawRecords
  <2>4. UNCHANGED raws
    BY <1>3 DEF Allocate
  <2>5. UNCHANGED FlatRaws
    BY <2>4, FlatRawsKept
  <2>6. QED  BY <1>1, <2>1, <2>3, <2>5
<1>4. CASE ~Shared(raws, raw)
  <2>1. raws' = Append(raws, raw)
    BY <1>4 DEF Allocate
  <2>2. PICK n : n = Len(raws) + 1
    OBVIOUS
  <2>3. /\ Len(raws') = n /\ raws'[n] = raw /\ n \in 1..Len(raws')
        /\ \A i \in 1..Len(raws) : raws'[i] = raws[i] /\ i \in 1..Len(raws')
    <3>1. /\ Len(Append(raws, raw)) = n /\ Append(raws, raw)[n] = raw
          /\ \A i \in 1..Len(raws) : Append(raws, raw)[i] = raws[i]
      BY <1>1, <1>2, <2>2
    <3>2. Len(raws') = n /\ raws'[n] = raw /\ \A i \in 1..Len(raws) : raws'[i] = raws[i]
      BY <2>1, <3>1
    <3>3. n \in 1..Len(raws') /\ \A i \in 1..Len(raws) : i \in 1..Len(raws')
      <4>1. Len(raws) \in Nat /\ Len(raws') = Len(raws) + 1
        BY <1>1, <2>2, <3>2
      <4>2. QED  BY <2>2, <4>1
    <3>4. QED  BY <3>2, <3>3
  <2>4. \A i \in 1..Len(raws) : FlatRaws'[i] = FlatRaws[i]
    BY <2>3, FlatRawKept
  <2>5. FlatRaws'[n] = k
    <3>1. FlatRaws'[n].work = FlatNodes'[raw.queue] /\ FlatRaws'[n].checkpoint = raw.checkpoint
      BY <2>3, NewFlatRaws DEF FlatRawsRule
    <3>2. FlatNodes'[q] = FlatNodes[q]
      BY ListKept
    <3>3. FlatRaws'[n] \in FlatRawRecords
      BY <1>1, <2>3
    <3>4. QED  BY <1>2, <3>1, <3>2, <3>3 DEF FlatRawRecords
  <2>6. PICK A : A = Append(FlatRaws, k)
    OBVIOUS
  <2>7. /\ A \in Seq(FlatRawRecords) /\ Len(A) = n /\ A[n] = k
        /\ \A i \in 1..Len(raws) : A[i] = FlatRaws[i]
    BY <1>1, <1>2, <2>2, <2>6
  <2>8. \A i \in 1..n : FlatRaws'[i] = A[i]
    <3>1. \A i \in 1..n : i = n \/ i \in 1..Len(raws)
      BY <1>1, <2>2
    <3>2. QED  BY <2>4, <2>5, <2>7, <3>1
  <2>9. n \in Nat
    BY <1>1, <2>2
  <2>10. FlatRaws' = A
    BY <1>1, <2>3, <2>7, <2>8, <2>9, SequencesEqual
  <2>11. QED  BY <2>6, <2>10
<1>5. QED  BY <1>3, <1>4

LEMMA HeadAndTail ==
  ASSUME NEW S, NEW item \in S, NEW rest \in Seq(S), NEW w, w = <<item>> \o rest
  PROVE  w # <<>> /\ Head(w) = item /\ Tail(w) = rest /\ w \in Seq(S) /\ Len(w) = Len(rest) + 1
<1>1. w \in Seq(S) /\ Len(w) = Len(rest) + 1 /\ Len(rest) \in Nat
  OBVIOUS
<1>2. Head(w) = item /\ w # <<>>
  BY <1>1
<1>3. Tail(w) \in Seq(S) /\ Len(Tail(w)) = Len(rest)
  BY <1>1
<1>4. \A i \in 1..Len(rest) : Tail(w)[i] = rest[i]
  BY <1>1
<1>5. Tail(w) = rest
  BY <1>1, <1>3, <1>4, SequencesEqual
<1>6. QED  BY <1>1, <1>2, <1>5

LEMMA TopScopes ==
  ASSUME TypeOK, Depth > 0, NEW t, t = Contract!Top
  PROVE  /\ Context.tag \in {"Root", "Scoped"}
         /\ Context.tag = "Root" => t.scopes = <<>>
         /\ Context.tag = "Scoped" =>
              /\ t.scopes # <<>> /\ Head(t.scopes) = ScopeOf(Top.ctx)
              /\ Head(t.scopes).work = FlatNodes[Context.saved]
              /\ Head(t.scopes).extent = Context.extent
              /\ Head(t.scopes).parent = Context.parent
              /\ Tail(t.scopes) = ScopesOf(Context.caller)
              /\ Head(t.scopes) \in ScopeRecords /\ Tail(t.scopes) \in Seq(ScopeRecords)
<1>1. PICK c : c = Top.ctx
  OBVIOUS
<1>2. c \in 1..Len(contexts) /\ t.scopes = ScopesOf(c) /\ Context = contexts[c]
  BY <1>1, TopFacts, FlatTop DEF FrameOK, Context
<1>3. ScopesListed
  BY ListedScopes
<1>4. CASE contexts[c].tag = "Root"
  BY <1>2, <1>3, <1>4 DEF ScopesListed
<1>5. CASE contexts[c].tag = "Scoped"
  <2>1. PICK one, rest : one = ScopeOf(c) /\ rest = ScopesOf(contexts[c].caller)
    OBVIOUS
  <2>2. one \in ScopeRecords /\ rest \in Seq(ScopeRecords)
    BY <1>2, <1>3, <1>5, <2>1, ScopeFacts, ContextShape DEF ScopesListed
  <2>3. t.scopes = <<one>> \o rest
    BY <1>2, <1>3, <1>5, <2>1 DEF ScopesListed
  <2>4. t.scopes # <<>> /\ Head(t.scopes) = one /\ Tail(t.scopes) = rest
    BY <2>2, <2>3, HeadAndTail
  <2>5. /\ one.work = FlatNodes[contexts[c].saved] /\ one.extent = contexts[c].extent
        /\ one.parent = contexts[c].parent
    BY <2>1 DEF ScopeOf
  <2>6. QED  BY <1>1, <1>2, <1>5, <2>1, <2>2, <2>4, <2>5
<1>6. QED  BY <1>2, <1>4, <1>5, ContextShape

(* A request is delimited, and a replay checked, by the same extent.       *)
LEMMA SameDispatchExtent ==
  ASSUME TypeOK, LinearInv, Depth > 0, replay.pc # "rebuild"
  PROVE  Contract!DispatchExtent = ContextExtent
<1>1. PICK t : t = Contract!Top
  OBVIOUS
<1>2. CASE Context.tag = "Scoped"
  BY <1>1, <1>2, TopScopes DEF Contract!DispatchExtent, ContextExtent
<1>3. CASE Context.tag = "Root"
  <2>1. PICK c, e : c = Top.ctx /\ e = contexts[c].extent
    OBVIOUS
  <2>2. c \in 1..Len(contexts) /\ contexts[c].tag = "Root" /\ ContextExtent = e
    BY <1>3, <2>1, TopFacts DEF FrameOK, Context, ContextExtent
  <2>3. IsRoot(e)
    BY <2>1, <2>2, ContextShape
  <2>4. RootOf(e) = Top.root
    BY <2>2, CheckpointSound DEF Sound
  <2>5. RootOf(e) = e
    BY <2>3, RootStep DEF TypeOK, IsRoot, IsExtent
  <2>6. t.scopes = <<>> /\ t.root = Top.root
    BY <1>1, <1>3, TopScopes, FlatTop
  <2>7. QED  BY <1>1, <2>2, <2>4, <2>5, <2>6 DEF Contract!DispatchExtent
<1>4. QED  BY <1>1, <1>2, <1>3, TopScopes

-----------------------------------------------------------------------------
(* The executor's steps.                                                   *)

LEMMA ReturnIsNothing ==
  ASSUME NEW c \in Computations, c.tag = "Return" PROVE c = NoComp
<1>1. c \in [tag : {"Return", "Perform"}]
  BY DEF Computations, Written
<1>2. QED  BY <1>1 DEF NoComp

(* What the executor and the guest see is what the contract sees.          *)
LEMMA OutsideReplay ==
  ASSUME TypeOK, TypeOK', replay.pc # "rebuild", replay'.pc # "rebuild"
  PROVE  /\ Published = extents /\ Published' = extents'
         /\ Contract!Depth = Depth /\ Depth \in Nat
BY AllPublished, NewPublished, FlatRunsFacts DEF PublishedRule

LEMMA ContractDispatches ==
  ASSUME TypeOK, Dispatching, NEW t, t = Contract!Top
  PROVE  /\ Contract!Dispatching /\ Depth > 0 /\ replay.pc = "idle" /\ Top.await = "none"
         /\ outcome = "running"
<1>1. Depth > 0 /\ outcome = "running" /\ Top.await = "none" /\ replay.pc = "idle"
  BY DEF Dispatching
<1>2. t.await = "none" /\ Contract!Depth = Depth
  BY <1>1, FlatTop, FlatRunsFacts
<1>3. QED  BY <1>1, <1>2 DEF Contract!Dispatching

(* A step the contract does not see.                                       *)
LEMMA Unseen ==
  ASSUME TypeOK, TypeOK', Grows, Published' = Published, UNCHANGED raws, FlatRuns' = FlatRuns,
         UNCHANGED <<owners, minted, outcome>>
  PROVE  UNCHANGED Contract!vars
BY FlatRawsKept DEF Contract!vars

(* The top activation becomes x.                                           *)
LEMMA BecomesTop ==
  ASSUME TypeOK, TypeOK', Grows, Depth > 0, NEW frame, SetTop(frame), NEW x \in FlatFrames,
         x.root = frame.root, x.comp = frame.comp, x.work = FlatNodes'[frame.queue],
         x.extent = frame.extent, x.scopes = ScopesOf(frame.ctx)', x.await = frame.await,
         x.owner = frame.owner, x.calling = frame.callee
  PROVE  Contract!SetTop(x)
<1>1. PICK r : r = AbstractRun(frame)'
  OBVIOUS
<1>2. FrameOK(frame)' /\ frame \in Frames
      /\ FlatRuns' = [FlatRuns EXCEPT ![Contract!Depth] = r]
  BY <1>1, FlatTopSet
<1>3. /\ r \in FlatFrames
      /\ r.root = frame.root /\ r.comp = frame.comp /\ r.extent = frame.extent
      /\ r.await = frame.await /\ r.owner = frame.owner /\ r.calling = frame.callee
      /\ r.work = FlatNodes'[frame.queue] /\ r.scopes = ScopesOf(frame.ctx)'
  BY <1>1, <1>2, NewFlatFrames DEF FlatFrameRule
<1>4. r = x
  BY <1>3, FlatFramesEqual
<1>5. QED  BY <1>2, <1>4 DEF Contract!SetTop

(* What the top activation works on, and the scopes it is in, stay.        *)
LEMMA TopStays ==
  ASSUME TypeOK, TypeOK', Grows, Depth > 0
  PROVE  /\ FlatNodes'[Top.queue] = FlatNodes[Top.queue]
         /\ \A c : c = Top.ctx => ScopesOf(c)' = ScopesOf(c)
<1>1. IsQueue(Top.queue) /\ Top.ctx \in 1..Len(contexts)
  BY TopFacts DEF FrameOK
<1>2. QED  BY <1>1, ListKept, ScopesKept

(* At most the idle activation of a bind continuation names a callee.      *)
CalleeIdle == \A d \in 1..Depth : stack[d].await # "next" => stack[d].callee = NoCallee

LEMMA TopIdle ==
  ASSUME TypeOK, CalleeIdle, Depth > 0, Top.await # "next" PROVE Top.callee = NoCallee
BY TopFacts DEF CalleeIdle, Top

LEMMA NewEmptyList == ASSUME TypeOK' PROVE FlatNodes'[Empty] = <<>>
BY NewListedNodes DEF NodesListed, Empty

LEMMA PublishAnswers ==
  ASSUME TypeOK, Publish PROVE Contract!Answer
<1>1. TypeOK' /\ Grows
  BY NextGrows DEF Next, MachineStep, ExecutorStep
<1>2. PICK t : t = Contract!Top
  OBVIOUS
<1>3. /\ Dispatching /\ Top.comp.tag = "Return" /\ Kind(Top.queue) = "Empty"
      /\ Context.tag = "Root" /\ Pop /\ CloseBoundary(Top.root)
      /\ UNCHANGED <<raws, owners, minted, replay, outcome>>
  BY DEF Publish, Returning
<1>4. Depth > 0 /\ replay.pc = "idle" /\ Contract!Dispatching
  BY <1>2, <1>3, ContractDispatches
<1>5. Published = extents /\ Published' = extents'
  BY <1>1, <1>3, <1>4, OutsideReplay
<1>6. FlatRuns' = Contract!Popped /\ FlatRaws' = FlatRaws
  BY <1>1, <1>3, <1>4, FlatPopped, FlatRawsKept
<1>7. t.comp.tag = "Return" /\ t.work = <<>> /\ t.scopes = <<>> /\ t.root = Top.root
  <2>1. IsQueue(Top.queue)
    BY <1>4, TopFacts DEF FrameOK
  <2>2. QED  BY <1>2, <1>3, <1>4, <2>1, FlatTop, TopScopes, EmptyList
<1>8. Published' = Contract!Closing(t.root)
  BY <1>3, <1>5, <1>7 DEF CloseBoundary, Contract!Closing, Closed
<1>9. QED  BY <1>2, <1>3, <1>4, <1>6, <1>7, <1>8 DEF Contract!Answer

LEMMA ReturnClauseReturns ==
  ASSUME TypeOK, CalleeIdle, ReturnClause PROVE Contract!ScopeReturns
<1>1. TypeOK' /\ Grows
  BY NextGrows DEF Next, MachineStep, ExecutorStep
<1>2. PICK t : t = Contract!Top
  OBVIOUS
<1>3. PICK frame : frame = [Top EXCEPT !.await = "clause", !.callee = NoCallee,
                                       !.queue = Empty, !.comp = NoComp]
  OBVIOUS
<1>4. /\ Dispatching /\ Top.comp.tag = "Return" /\ Kind(Top.queue) = "Empty"
      /\ Context.tag = "Scoped" /\ SetTop(frame)
      /\ UNCHANGED <<extents, raws, owners, minted, replay, outcome>>
  BY <1>3 DEF ReturnClause, Returning, Apply, heapVars
<1>5. Depth > 0 /\ replay.pc = "idle" /\ Contract!Dispatching /\ Top.await = "none"
  BY <1>2, <1>4, ContractDispatches
<1>6. Published' = Published /\ FlatRaws' = FlatRaws
  BY <1>1, <1>4, <1>5, OutsideReplay, FlatRawsKept
<1>7. /\ t \in FlatFrames /\ t.root = Top.root /\ t.comp = Top.comp /\ t.extent = Top.extent
      /\ t.await = Top.await /\ t.owner = Top.owner /\ t.calling = Top.callee
      /\ t.work = FlatNodes[Top.queue] /\ t.scopes = ScopesOf(Top.ctx)
  BY <1>2, <1>5, FlatTop
<1>8. Top \in Frames /\ Top.comp \in Computations /\ IsQueue(Top.queue)
  BY <1>5, TopFacts DEF FrameOK, Frames
<1>9. /\ frame.root = Top.root /\ frame.comp = NoComp /\ frame.extent = Top.extent
      /\ frame.await = "clause" /\ frame.owner = Top.owner /\ frame.callee = NoCallee
      /\ frame.queue = Empty /\ frame.ctx = Top.ctx
  BY <1>3, <1>8 DEF Frames
<1>10. t.work = <<>> /\ t.scopes # <<>> /\ t.comp = NoComp /\ t.calling = NoCallee
  BY <1>2, <1>4, <1>5, <1>7, <1>8, EmptyList, TopScopes, ReturnIsNothing, TopIdle
<1>11. PICK x : x = [t EXCEPT !.await = "clause"]
  OBVIOUS
<1>12. x \in FlatFrames /\ x.await = "clause" /\ x.root = t.root /\ x.comp = t.comp
       /\ x.work = t.work /\ x.extent = t.extent /\ x.scopes = t.scopes
       /\ x.owner = t.owner /\ x.calling = t.calling
  BY <1>7, <1>11 DEF FlatFrames
<1>13. ScopesOf(frame.ctx)' = t.scopes /\ FlatNodes'[frame.queue] = <<>>
  BY <1>1, <1>5, <1>7, <1>9, TopStays, NewEmptyList
<1>14. Contract!SetTop(x)
  BY <1>1, <1>4, <1>5, <1>7, <1>9, <1>10, <1>12, <1>13, BecomesTop
<1>15. QED
  BY <1>2, <1>4, <1>5, <1>6, <1>7, <1>10, <1>11, <1>14 DEF Contract!ScopeReturns

(* A step of the top activation, from t to x, in fields.                   *)
LEMMA TopFields ==
  ASSUME TypeOK, Depth > 0, NEW t, t = Contract!Top
  PROVE  /\ t \in FlatFrames /\ t.root = Top.root /\ t.comp = Top.comp /\ t.extent = Top.extent
         /\ t.await = Top.await /\ t.owner = Top.owner /\ t.calling = Top.callee
         /\ t.work = FlatNodes[Top.queue] /\ t.scopes = ScopesOf(Top.ctx)
         /\ Top \in Frames /\ Top.comp \in Computations /\ IsQueue(Top.queue)
         /\ Top.ctx \in 1..Len(contexts) /\ FlatNodes[Top.queue] \in Seq(WorkItems)
<1>1. Top \in Frames /\ FrameOK(Top)
  BY TopFacts
<1>2. QED  BY <1>1, FlatTop, QueueHoldsWork DEF FrameOK, Frames

(* The next continuation of the work is applied.                           *)
LEMMA CallsNext ==
  ASSUME TypeOK, TypeOK', Grows, Dispatching, Top.comp.tag = "Return",
         UNCHANGED <<extents, raws, owners, minted, replay, outcome>>,
         NEW head \in Callbacks, NEW rest \in Seq(WorkItems),
         FlatNodes[Top.queue] = <<Then(head)>> \o rest,
         NEW queue, Apply("next", head, queue), FlatNodes'[queue] = rest
  PROVE  Contract!CallNext
<1>1. PICK t : t = Contract!Top
  OBVIOUS
<1>2. PICK frame : frame = [Top EXCEPT !.await = "next", !.callee = head,
                                       !.queue = queue, !.comp = NoComp]
  OBVIOUS
<1>3. Depth > 0 /\ replay.pc = "idle" /\ Contract!Dispatching /\ SetTop(frame)
  BY <1>1, <1>2, ContractDispatches DEF Apply
<1>4. Published' = Published /\ FlatRaws' = FlatRaws
  BY <1>3, OutsideReplay, FlatRawsKept
<1>5. /\ t \in FlatFrames /\ t.root = Top.root /\ t.comp = Top.comp /\ t.extent = Top.extent
      /\ t.await = Top.await /\ t.owner = Top.owner /\ t.calling = Top.callee
      /\ t.work = FlatNodes[Top.queue] /\ t.scopes = ScopesOf(Top.ctx)
      /\ Top \in Frames /\ Top.comp \in Computations
  BY <1>1, <1>3, TopFields
<1>6. /\ frame.root = Top.root /\ frame.comp = NoComp /\ frame.extent = Top.extent
      /\ frame.await = "next" /\ frame.owner = Top.owner /\ frame.callee = head
      /\ frame.queue = queue /\ frame.ctx = Top.ctx
  BY <1>2, <1>5 DEF Frames
<1>7. t.comp = NoComp
  BY <1>5, ReturnIsNothing
<1>8. PICK i : i = Then(head)
  OBVIOUS
<1>9. i \in WorkItems /\ i.tag = "Then" /\ i.call = head
  BY <1>8 DEF Then, WorkItems
<1>10. t.work # <<>> /\ Head(t.work) = i /\ Tail(t.work) = rest
  <2>1. t.work = <<i>> \o rest
    BY <1>5, <1>8
  <2>2. QED  BY <1>9, <2>1, HeadAndTail
<1>11. PICK x : x = [t EXCEPT !.await = "next", !.work = Tail(@), !.calling = Head(t.work).call]
  OBVIOUS
<1>12. x \in FlatFrames /\ x.await = "next" /\ x.root = t.root /\ x.comp = t.comp
       /\ x.work = rest /\ x.extent = t.extent /\ x.scopes = t.scopes
       /\ x.owner = t.owner /\ x.calling = head
  BY <1>5, <1>9, <1>10, <1>11 DEF FlatFrames
<1>13. ScopesOf(frame.ctx)' = t.scopes
  BY <1>3, <1>5, <1>6, TopStays
<1>14. Contract!SetTop(x)
  BY <1>3, <1>5, <1>6, <1>7, <1>12, <1>13, BecomesTop
<1>15. ~Contract!IsFinish(Head(t.work)) /\ t.comp.tag = "Return"
  BY <1>5, <1>9, <1>10 DEF Contract!IsFinish
<1>16. QED
  BY <1>1, <1>3, <1>4, <1>10, <1>11, <1>14, <1>15 DEF Contract!CallNext

LEMMA ReturnConsCalls ==
  ASSUME TypeOK, ReturnCons PROVE Contract!CallNext
<1>1. TypeOK' /\ Grows
  BY NextGrows DEF Next, MachineStep, ExecutorStep
<1>2. PICK head, tail : head = nodes[Top.queue].head /\ tail = nodes[Top.queue].tail
  OBVIOUS
<1>3. /\ Dispatching /\ Top.comp.tag = "Return" /\ Kind(Top.queue) = "Cons"
      /\ Apply("next", head, tail) /\ UNCHANGED <<extents, raws, owners, minted, replay, outcome>>
      /\ Depth > 0
  BY <1>2 DEF ReturnCons, Returning, heapVars, Dispatching
<1>4. IsQueue(Top.queue)
  BY <1>3, TopFacts DEF FrameOK
<1>5. head \in Callbacks /\ IsQueue(tail)
  BY <1>2, <1>3, <1>4, ConsFacts
<1>6. FlatNodes[Top.queue] = <<Then(head)>> \o FlatNodes[tail]
  BY <1>2, <1>3, <1>4, ConsList
<1>7. PICK rest \in Seq(WorkItems) : rest = FlatNodes[tail]
  BY <1>5, QueueHoldsWork
<1>8. FlatNodes'[tail] = rest
  BY <1>1, <1>5, <1>7, ListKept
<1>9. QED  BY <1>1, <1>3, <1>5, <1>6, <1>7, <1>8, CallsNext

LEMMA ReturnAppendConsCalls ==
  ASSUME TypeOK, ReturnAppendCons PROVE Contract!CallNext
<1>1. TypeOK' /\ Grows
  BY NextGrows DEF Next, MachineStep, ExecutorStep
<1>2. PICK head, tail, right :
        head = nodes[Left].head /\ tail = nodes[Left].tail /\ right = Right
  OBVIOUS
<1>3. PICK pending : pending = AppendNode(tail, right)
  OBVIOUS
<1>4. PICK ref : ref = Ref(nodes, pending)
  OBVIOUS
<1>5. /\ Dispatching /\ Top.comp.tag = "Return" /\ Kind(Top.queue) = "Append"
      /\ Kind(Left) = "Cons" /\ nodes' = Allocate(nodes, pending)
      /\ Apply("next", head, ref) /\ UNCHANGED <<extents, raws, owners, minted, replay, outcome>>
      /\ Depth > 0
  BY <1>2, <1>3, <1>4 DEF ReturnAppendCons, Returning, Dispatching
<1>6. IsQueue(Top.queue)
  BY <1>5, TopFacts DEF FrameOK
<1>7. IsQueue(Left) /\ IsQueue(right)
  BY <1>2, <1>5, <1>6, AppendFacts DEF Left, Right
<1>8. head \in Callbacks /\ IsQueue(tail)
  BY <1>2, <1>5, <1>7, ConsFacts
<1>9. PICK i, a, b, c \in Seq(Items) :
        i = <<Then(head)>> /\ a = FlatNodes[tail] /\ b = FlatNodes[right] /\ c = FlatNodes[Left]
  BY <1>7, <1>8, ItemsMade, QueueList
<1>10. c = i \o a
  BY <1>2, <1>5, <1>7, <1>9, ConsList
<1>11. FlatNodes[Top.queue] = c \o b
  <2>1. FlatNodes[Top.queue] = FlatNodes[Left] \o FlatNodes[Right]
    BY <1>5, <1>6, AppendList DEF Left, Right
  <2>2. QED  BY <1>2, <1>9, <2>1
<1>12. FlatNodes'[ref] = a \o b
  BY <1>1, <1>3, <1>4, <1>5, <1>7, <1>8, <1>9, NewAppend
<1>13. (i \o a) \o b = i \o (a \o b)
  BY ConcatItems
<1>14. PICK rest \in Seq(WorkItems) : rest = a \o b
  <2>1. a \in Seq(WorkItems) /\ b \in Seq(WorkItems)
    BY <1>7, <1>8, <1>9, QueueHoldsWork
  <2>2. a \o b \in Seq(WorkItems)
    BY <2>1
  <2>3. QED  BY <2>2
<1>15. FlatNodes[Top.queue] = <<Then(head)>> \o rest
  BY <1>9, <1>10, <1>11, <1>13, <1>14
<1>16. FlatNodes'[ref] = rest
  BY <1>12, <1>14
<1>17. QED  BY <1>1, <1>5, <1>8, <1>15, <1>16, CallsNext

(* Rotation is invisible.                                                  *)
LEMMA RotateUnseen ==
  ASSUME TypeOK, ReturnRotate \/ HandleNormalize PROVE UNCHANGED Contract!vars
<1>1. TypeOK' /\ Grows
  BY NextGrows DEF Next, MachineStep, ExecutorStep
<1>2. PICK t : t = Contract!Top
  OBVIOUS
<1>3. /\ Dispatching /\ Kind(Top.queue) = "Append"
      /\ RotateEmpty \/ \E kind \in {"Cons", "Append", "Finish"} : Rotate(kind)
      /\ UNCHANGED <<extents, raws, owners, minted, replay, outcome>>
  BY DEF ReturnRotate, HandleNormalize, Returning, Handling
<1>4. Depth > 0 /\ replay.pc = "idle"
  BY <1>2, <1>3, ContractDispatches
<1>5. PICK q : SetTop([Top EXCEPT !.queue = q]) /\ FlatNodes'[q] = FlatNodes[Top.queue]
  BY <1>1, <1>3, <1>4, RotateList
<1>6. PICK frame : frame = [Top EXCEPT !.queue = q]
  OBVIOUS
<1>7. /\ t \in FlatFrames /\ t.root = Top.root /\ t.comp = Top.comp /\ t.extent = Top.extent
      /\ t.await = Top.await /\ t.owner = Top.owner /\ t.calling = Top.callee
      /\ t.work = FlatNodes[Top.queue] /\ t.scopes = ScopesOf(Top.ctx)
      /\ Top \in Frames
  BY <1>2, <1>4, TopFields
<1>8. /\ frame.root = Top.root /\ frame.comp = Top.comp /\ frame.extent = Top.extent
      /\ frame.await = Top.await /\ frame.owner = Top.owner /\ frame.callee = Top.callee
      /\ frame.queue = q /\ frame.ctx = Top.ctx /\ SetTop(frame)
  BY <1>5, <1>6, <1>7 DEF Frames
<1>9. ScopesOf(frame.ctx)' = t.scopes /\ FlatNodes'[frame.queue] = t.work
  BY <1>1, <1>4, <1>5, <1>7, <1>8, TopStays
<1>10. Contract!SetTop(t)
  BY <1>1, <1>4, <1>7, <1>8, <1>9, BecomesTop
<1>11. FlatRuns' = FlatRuns
  <2>1. /\ FlatRuns \in Seq(FlatFrames) /\ Len(FlatRuns) = Depth /\ Contract!Depth = Depth
        /\ Depth \in 1..Depth
    BY <1>4, FlatRunsFacts, TopFacts
  <2>2. t = FlatRuns[Depth]
    BY <1>2, <2>1 DEF Contract!Top
  <2>3. PICK R, d : R = FlatRuns /\ d = Depth
    OBVIOUS
  <2>4. [R EXCEPT ![d] = R[d]] = R
    BY <2>1, <2>3
  <2>5. QED  BY <1>10, <2>1, <2>2, <2>3, <2>4 DEF Contract!SetTop
<1>12. Published' = Published
  BY <1>1, <1>3, <1>4, OutsideReplay
<1>13. QED  BY <1>1, <1>3, <1>11, <1>12, Unseen

LEMMA ReturnFinishCloses ==
  ASSUME TypeOK, ReturnFinish PROVE Contract!CloseScope
<1>1. TypeOK' /\ Grows
  BY NextGrows DEF Next, MachineStep, ExecutorStep
<1>2. PICK t, e, p, q :
        /\ t = Contract!Top /\ e = nodes[Top.queue].extent /\ p = nodes[Top.queue].parent
        /\ q = nodes[Top.queue].rest
  OBVIOUS
<1>3. PICK frame : frame = [Top EXCEPT !.queue = q, !.extent = p]
  OBVIOUS
<1>4. /\ Dispatching /\ Top.comp.tag = "Return" /\ Kind(Top.queue) = "Finish"
      /\ CloseBoundary(e) /\ SetTop(frame)
      /\ UNCHANGED <<raws, owners, minted, replay, outcome>>
  BY <1>2, <1>3 DEF ReturnFinish, Returning
<1>5. Depth > 0 /\ replay.pc = "idle" /\ Contract!Dispatching
  BY <1>2, <1>4, ContractDispatches
<1>6. Published = extents /\ Published' = extents' /\ FlatRaws' = FlatRaws
  BY <1>1, <1>4, <1>5, OutsideReplay, FlatRawsKept
<1>7. /\ t \in FlatFrames /\ t.root = Top.root /\ t.comp = Top.comp /\ t.extent = Top.extent
      /\ t.await = Top.await /\ t.owner = Top.owner /\ t.calling = Top.callee
      /\ t.work = FlatNodes[Top.queue] /\ t.scopes = ScopesOf(Top.ctx)
      /\ Top \in Frames /\ IsQueue(Top.queue)
  BY <1>2, <1>5, TopFields
<1>8. /\ IsQueue(q) /\ e \in Nat /\ p \in Nat
  <2>1. IsScoped(e) /\ IsExtent(p) /\ IsQueue(q)
    BY <1>2, <1>4, <1>7, FinishFacts
  <2>2. QED  BY <2>1, LengthsAreNat DEF IsScoped, IsExtent
<1>9. /\ frame.root = Top.root /\ frame.comp = Top.comp /\ frame.extent = p
      /\ frame.await = Top.await /\ frame.owner = Top.owner /\ frame.callee = Top.callee
      /\ frame.queue = q /\ frame.ctx = Top.ctx
  BY <1>3, <1>7 DEF Frames
<1>10. PICK i : i = Marker(e, p)
  OBVIOUS
<1>11. i \in WorkItems /\ i.tag = "Finish" /\ i.extent = e /\ i.parent = p
  BY <1>8, <1>10 DEF Marker, WorkItems
<1>12. PICK rest \in Seq(WorkItems) : rest = FlatNodes[q]
  BY <1>8, QueueHoldsWork
<1>13. t.work # <<>> /\ Head(t.work) = i /\ Tail(t.work) = rest
  <2>1. t.work = <<i>> \o rest
    BY <1>2, <1>4, <1>7, <1>10, <1>12, FinishList
  <2>2. QED  BY <1>11, <2>1, HeadAndTail
<1>14. PICK x : x = [t EXCEPT !.work = Tail(@), !.extent = Head(t.work).parent]
  OBVIOUS
<1>15. x \in FlatFrames /\ x.await = t.await /\ x.root = t.root /\ x.comp = t.comp
       /\ x.work = rest /\ x.extent = p /\ x.scopes = t.scopes
       /\ x.owner = t.owner /\ x.calling = t.calling
  BY <1>7, <1>8, <1>11, <1>13, <1>14 DEF FlatFrames
<1>16. ScopesOf(frame.ctx)' = t.scopes /\ FlatNodes'[frame.queue] = rest
  BY <1>1, <1>5, <1>7, <1>8, <1>9, <1>12, TopStays, ListKept
<1>17. Contract!SetTop(x)
  BY <1>1, <1>4, <1>5, <1>7, <1>9, <1>15, <1>16, BecomesTop
<1>18. Published' = Contract!Closing(Head(t.work).extent) /\ Contract!IsFinish(Head(t.work))
  BY <1>4, <1>6, <1>11, <1>13 DEF Contract!Closing, CloseBoundary, Closed, Contract!IsFinish
<1>19. QED
  BY <1>2, <1>4, <1>5, <1>6, <1>7, <1>13, <1>14, <1>17, <1>18 DEF Contract!CloseScope

LEMMA PerformRequests ==
  ASSUME TypeOK, LinearInv, CalleeIdle, Perform PROVE Contract!Request
<1>1. TypeOK' /\ Grows
  BY NextGrows DEF Next, MachineStep, ExecutorStep
<1>2. PICK t, await, q, c :
        /\ t = Contract!Top /\ await = IF Context.tag = "Root" THEN "root" ELSE "clause"
        /\ q = Top.queue /\ c = ContextExtent
  OBVIOUS
<1>3. PICK frame : frame = [Top EXCEPT !.await = await, !.callee = NoCallee,
                                       !.queue = Empty, !.comp = NoComp]
  OBVIOUS
<1>4. PICK raw : raw = [queue |-> q, checkpoint |-> c]
  OBVIOUS
<1>5. /\ Dispatching /\ Top.comp.tag = "Perform" /\ SetTop(frame)
      /\ raws' = Allocate(raws, raw)
      /\ UNCHANGED <<nodes, contexts, extents, owners, minted, replay, outcome>>
  BY <1>2, <1>3, <1>4 DEF Perform, Apply, Capture
<1>6. Depth > 0 /\ replay.pc = "idle" /\ Contract!Dispatching /\ Top.await = "none"
  BY <1>2, <1>5, ContractDispatches
<1>7. Published' = Published
  BY <1>1, <1>5, <1>6, OutsideReplay
<1>8. /\ t \in FlatFrames /\ t.root = Top.root /\ t.comp = Top.comp /\ t.extent = Top.extent
      /\ t.await = Top.await /\ t.owner = Top.owner /\ t.calling = Top.callee
      /\ t.work = FlatNodes[Top.queue] /\ t.scopes = ScopesOf(Top.ctx)
      /\ Top \in Frames /\ IsQueue(Top.queue) /\ Top.ctx \in 1..Len(contexts)
  BY <1>2, <1>6, TopFields
<1>9. /\ frame.root = Top.root /\ frame.comp = NoComp /\ frame.extent = Top.extent
      /\ frame.await = await /\ frame.owner = Top.owner /\ frame.callee = NoCallee
      /\ frame.queue = Empty /\ frame.ctx = Top.ctx
  BY <1>3, <1>8 DEF Frames
<1>10. t.calling = NoCallee /\ await = IF t.scopes = <<>> THEN "root" ELSE "clause"
  BY <1>2, <1>6, <1>8, TopIdle, TopScopes
<1>11. PICK x : x = [t EXCEPT !.work = <<>>, !.comp = Contract!Return,
                              !.await = IF t.scopes = <<>> THEN "root" ELSE "clause"]
  OBVIOUS
<1>12. x \in FlatFrames /\ x.await = await /\ x.root = t.root /\ x.comp = NoComp
       /\ x.work = <<>> /\ x.extent = t.extent /\ x.scopes = t.scopes
       /\ x.owner = t.owner /\ x.calling = NoCallee
  <2>1. NoComp \in Computations /\ await \in {"root", "clause"} /\ <<>> \in Seq(WorkItems)
    BY <1>2 DEF NoComp, Computations, Written
  <2>2. Contract!Return = NoComp
    BY DEF Contract!Return, NoComp
  <2>3. QED  BY <1>8, <1>10, <1>11, <2>1, <2>2 DEF FlatFrames
<1>13. ScopesOf(frame.ctx)' = t.scopes /\ FlatNodes'[frame.queue] = <<>>
  BY <1>1, <1>6, <1>8, <1>9, TopStays, NewEmptyList
<1>14. Contract!SetTop(x)
  BY <1>1, <1>5, <1>6, <1>8, <1>9, <1>10, <1>12, <1>13, BecomesTop
<1>15. PICK k : k = [work |-> FlatNodes[q], checkpoint |-> c]
  OBVIOUS
<1>16. \/ FlatRaws' = Append(FlatRaws, k)
       \/ (\E i \in 1..Len(FlatRaws) : FlatRaws[i] = k) /\ UNCHANGED FlatRaws
  <2>1. c \in Nat
    BY <1>2, <1>8, ContextShape DEF ContextExtent, Context
  <2>2. QED  BY <1>1, <1>2, <1>4, <1>5, <1>8, <1>15, <2>1, FlatRawsCaptured
<1>17. k = [work |-> t.work, checkpoint |-> Contract!DispatchExtent]
  BY <1>2, <1>6, <1>8, <1>15, SameDispatchExtent
<1>18. QED
  BY <1>2, <1>5, <1>6, <1>7, <1>8, <1>11, <1>14, <1>16, <1>17 DEF Contract!Request

LEMMA BindSequences ==
  ASSUME TypeOK, Bind PROVE Contract!Sequence
<1>1. TypeOK' /\ Grows
  BY NextGrows DEF Next, MachineStep, ExecutorStep
<1>2. PICK t, then, inner, q :
        /\ t = Contract!Top /\ then = Top.comp.then /\ inner = Text[Top.comp.inner]
        /\ q = Top.queue
  OBVIOUS
<1>3. PICK pending : pending = ConsNode(then, q)
  OBVIOUS
<1>4. PICK ref : ref = Ref(nodes, pending)
  OBVIOUS
<1>5. PICK frame : frame = [Top EXCEPT !.comp = inner, !.queue = ref]
  OBVIOUS
<1>6. /\ Dispatching /\ Top.comp.tag = "Bind" /\ SetTop(frame)
      /\ nodes' = Allocate(nodes, pending)
      /\ UNCHANGED <<contexts, extents, raws, owners, minted, replay, outcome>>
  BY <1>2, <1>3, <1>4, <1>5 DEF Bind
<1>7. Depth > 0 /\ replay.pc = "idle" /\ Contract!Dispatching
  BY <1>2, <1>6, ContractDispatches
<1>8. Published' = Published /\ FlatRaws' = FlatRaws
  BY <1>1, <1>6, <1>7, OutsideReplay, FlatRawsKept
<1>9. /\ t \in FlatFrames /\ t.root = Top.root /\ t.comp = Top.comp /\ t.extent = Top.extent
      /\ t.await = Top.await /\ t.owner = Top.owner /\ t.calling = Top.callee
      /\ t.work = FlatNodes[Top.queue] /\ t.scopes = ScopesOf(Top.ctx)
      /\ Top \in Frames /\ Top.comp \in Computations /\ IsQueue(Top.queue)
      /\ FlatNodes[Top.queue] \in Seq(WorkItems)
  BY <1>2, <1>7, TopFields
<1>10. then \in Callbacks /\ inner \in Computations
  BY <1>2, <1>6, <1>9, ComputationFacts, TextAssumption DEF Computations
<1>11. /\ frame.root = Top.root /\ frame.comp = inner /\ frame.extent = Top.extent
      /\ frame.await = Top.await /\ frame.owner = Top.owner /\ frame.callee = Top.callee
      /\ frame.queue = ref /\ frame.ctx = Top.ctx
  BY <1>5, <1>9 DEF Frames
<1>12. PICK work : work = <<Then(then)>> \o FlatNodes[q]
  OBVIOUS
<1>13. FlatNodes'[ref] = work /\ work \in Seq(WorkItems)
  <2>1. FlatNodes'[ref] = work
    BY <1>1, <1>2, <1>3, <1>4, <1>6, <1>9, <1>10, <1>12, NewCons
  <2>2. Then(then) \in WorkItems
    BY <1>10 DEF Then, WorkItems
  <2>3. QED  BY <1>2, <1>9, <1>12, <2>1, <2>2, HeadAndTail
<1>14. PICK x : x = [t EXCEPT !.comp = Text[t.comp.inner],
                              !.work = <<[tag |-> "Then", call |-> t.comp.then]>> \o @]
  OBVIOUS
<1>15. [t EXCEPT !.comp = inner, !.work = work] = x
  BY <1>2, <1>9, <1>12, <1>14 DEF Then
<1>16. x \in FlatFrames /\ x.await = t.await /\ x.root = t.root /\ x.comp = inner
       /\ x.work = work /\ x.extent = t.extent /\ x.scopes = t.scopes
       /\ x.owner = t.owner /\ x.calling = t.calling
  BY <1>9, <1>10, <1>13, <1>15 DEF FlatFrames
<1>17. ScopesOf(frame.ctx)' = t.scopes
  BY <1>1, <1>7, <1>9, <1>11, TopStays
<1>18. Contract!SetTop(x)
  BY <1>1, <1>6, <1>7, <1>9, <1>11, <1>13, <1>16, <1>17, BecomesTop
<1>19. QED
  BY <1>2, <1>6, <1>7, <1>8, <1>9, <1>14, <1>18 DEF Contract!Sequence

(* A new scope over the work that is saved.                                *)
Entered(run, saved, parent, e) ==
  [run EXCEPT !.comp = Text[run.comp.source], !.work = <<>>, !.extent = e,
     !.scopes = <<[work |-> FlatNodes[saved], parent |-> parent, extent |-> e]>> \o @]

LEMMA EntersScope ==
  ASSUME TypeOK, TypeOK', Grows, Dispatching, NEW saved, IsQueue(saved),
         NEW parent \in Nat, NEW e \in Nat, EnterSource(saved, parent, e),
         Top.comp.tag = "Handle",
         NEW x, x = Entered(Contract!Top, saved, parent, e)
  PROVE  Contract!SetTop(x)
<1> PICK t, scope :
      t = Contract!Top /\ scope = [work |-> FlatNodes[saved], parent |-> parent, extent |-> e]
  OBVIOUS
<1>0. x = [t EXCEPT !.comp = Text[t.comp.source], !.work = <<>>,
                    !.extent = e, !.scopes = <<scope>> \o @]
  BY DEF Entered
<1>1. PICK source, ctx : source = Text[Top.comp.source] /\ ctx = Top.ctx
  OBVIOUS
<1>2. PICK context : context = ScopedContext(saved, parent, ctx, e)
  OBVIOUS
<1>3. PICK ref : ref = Ref(contexts, context)
  OBVIOUS
<1>4. PICK frame : frame = [Top EXCEPT !.comp = source, !.queue = Empty,
                                       !.extent = e, !.ctx = ref]
  OBVIOUS
<1>5. SetTop(frame) /\ contexts' = Allocate(contexts, context) /\ Depth > 0
  BY <1>1, <1>2, <1>3, <1>4 DEF EnterSource, Dispatching
<1>6. /\ t \in FlatFrames /\ t.root = Top.root /\ t.comp = Top.comp /\ t.extent = Top.extent
      /\ t.await = Top.await /\ t.owner = Top.owner /\ t.calling = Top.callee
      /\ t.scopes = ScopesOf(Top.ctx)
      /\ Top \in Frames /\ Top.comp \in Computations /\ ctx \in 1..Len(contexts)
  BY <1>1, <1>5, TopFields
<1>7. source \in Computations
  BY <1>1, <1>6, ComputationFacts, TextAssumption DEF Computations
<1>8. /\ frame.root = Top.root /\ frame.comp = source /\ frame.extent = e
      /\ frame.await = Top.await /\ frame.owner = Top.owner /\ frame.callee = Top.callee
      /\ frame.queue = Empty /\ frame.ctx = ref
  BY <1>4, <1>6 DEF Frames
<1>9. scope \in ScopeRecords
  BY QueueHoldsWork DEF ScopeRecords
<1>10. PICK scopes : scopes = <<scope>> \o t.scopes
  OBVIOUS
<1>11. scopes \in Seq(ScopeRecords)
  BY <1>6, <1>9, <1>10, HeadAndTail DEF FlatFrames
<1>12. /\ context.tag = "Scoped" /\ context.extent = e /\ context.parent = parent
       /\ context.saved = saved /\ context.caller = ctx /\ context \in Contexts
  <2>1. ctx \in Nat /\ saved \in Nat
    BY <1>6, LengthsAreNat DEF IsQueue
  <2>2. QED  BY <1>2, <2>1 DEF ScopedContext, Contexts
<1>13. ref \in 1..Len(contexts') /\ contexts'[ref] = context
  BY <1>3, <1>5, <1>12, AllocateFacts DEF TypeOK, ContextsOK
<1>14. ScopesOf(ref)' = scopes
  <2>1. ScopesOf(ref)' = <<ScopeOf(ref)'>> \o ScopesOf(ctx)'
    BY <1>12, <1>13, NewListedScopes DEF ScopesListed
  <2>2. ScopesOf(ctx)' = t.scopes
    BY <1>1, <1>6, ScopesKept
  <2>3. FlatNodes'[saved] = FlatNodes[saved]
    BY ListKept
  <2>4. ScopeOf(ref)' = scope
    BY <1>12, <1>13, <2>3 DEF ScopeOf
  <2>5. QED  BY <1>10, <2>1, <2>2, <2>4
<1>15. FlatNodes'[Empty] = <<>>
  BY NewEmptyList
<1>16. x \in FlatFrames /\ x.await = t.await /\ x.root = t.root /\ x.comp = source
       /\ x.work = <<>> /\ x.extent = e /\ x.scopes = scopes
       /\ x.owner = t.owner /\ x.calling = t.calling
  <2>1. x = [t EXCEPT !.comp = source, !.work = <<>>, !.extent = e, !.scopes = scopes]
    BY <1>0, <1>1, <1>6, <1>10
  <2>2. <<>> \in Seq(WorkItems)
    OBVIOUS
  <2>3. QED  BY <1>6, <1>7, <1>11, <2>1, <2>2 DEF FlatFrames
<1>17. /\ x.root = frame.root /\ x.comp = frame.comp /\ x.work = FlatNodes'[frame.queue]
       /\ x.extent = frame.extent /\ x.scopes = ScopesOf(frame.ctx)'
       /\ x.await = frame.await /\ x.owner = frame.owner /\ x.calling = frame.callee
  <2>1. ScopesOf(frame.ctx)' = scopes
    BY <1>8, <1>14
  <2>2. QED  BY <1>6, <1>8, <1>15, <1>16, <2>1
<1>18. QED  BY <1>5, <1>16, <1>17, BecomesTop

(* The first item of the work shows in the kind of the queue.              *)
LEMMA WorkKinds ==
  ASSUME TypeOK, NEW q, IsQueue(q), NEW w, w = FlatNodes[q]
  PROVE  /\ Kind(q) = "Empty" => w = <<>>
         /\ Kind(q) = "Cons" =>
              w # <<>> /\ ~Contract!IsFinish(Head(w)) /\ Tail(w) = FlatNodes[nodes[q].tail]
              /\ Head(w).call = nodes[q].head
         /\ Kind(q) = "Finish" =>
              w # <<>> /\ Contract!IsFinish(Head(w)) /\ Tail(w) = FlatNodes[nodes[q].rest]
              /\ Head(w).extent = nodes[q].extent /\ Head(w).parent = nodes[q].parent
              /\ IsQueue(nodes[q].rest) /\ nodes[q].extent \in Nat /\ nodes[q].parent \in Nat
<1>1. CASE Kind(q) = "Empty"
  BY <1>1, EmptyList
<1>2. CASE Kind(q) = "Cons"
  <2>1. PICK head, tail : head = nodes[q].head /\ tail = nodes[q].tail
    OBVIOUS
  <2>2. head \in Callbacks /\ IsQueue(tail)
    BY <1>2, <2>1, ConsFacts
  <2>3. PICK i, rest : i = Then(head) /\ rest = FlatNodes[tail]
    OBVIOUS
  <2>4. i \in WorkItems /\ i.tag = "Then" /\ i.call = head /\ rest \in Seq(WorkItems)
    BY <2>2, <2>3, QueueHoldsWork DEF Then, WorkItems
  <2>5. w = <<i>> \o rest
    BY <1>2, <2>1, <2>3, ConsList
  <2>6. w # <<>> /\ Head(w) = i /\ Tail(w) = rest
    BY <2>4, <2>5, HeadAndTail
  <2>7. QED  BY <1>2, <2>1, <2>3, <2>4, <2>6 DEF Contract!IsFinish
<1>3. CASE Kind(q) = "Finish"
  <2>1. PICK e, p, tail :
          e = nodes[q].extent /\ p = nodes[q].parent /\ tail = nodes[q].rest
    OBVIOUS
  <2>2. IsScoped(e) /\ IsExtent(p) /\ IsQueue(tail)
    BY <1>3, <2>1, FinishFacts
  <2>3. e \in Nat /\ p \in Nat
    BY <2>2, LengthsAreNat DEF IsScoped, IsExtent
  <2>4. PICK i, rest : i = Marker(e, p) /\ rest = FlatNodes[tail]
    OBVIOUS
  <2>5. /\ i \in WorkItems /\ i.tag = "Finish" /\ i.extent = e /\ i.parent = p
        /\ rest \in Seq(WorkItems)
    BY <2>2, <2>3, <2>4, QueueHoldsWork DEF Marker, WorkItems
  <2>6. w = <<i>> \o rest
    BY <1>3, <2>1, <2>4, FinishList
  <2>7. w # <<>> /\ Head(w) = i /\ Tail(w) = rest
    BY <2>5, <2>6, HeadAndTail
  <2>8. QED  BY <1>3, <2>1, <2>2, <2>3, <2>4, <2>5, <2>7 DEF Contract!IsFinish
<1>4. QED  BY <1>1, <1>2, <1>3

LEMMA HandleFreshEnters ==
  ASSUME TypeOK, HandleFresh PROVE Contract!Enter
<1>1. TypeOK' /\ Grows
  BY NextGrows DEF Next, MachineStep, ExecutorStep
<1>2. PICK t, q, p, e :
        t = Contract!Top /\ q = Top.queue /\ p = Top.extent /\ e = Len(extents) + 1
  OBVIOUS
<1>3. /\ Dispatching /\ Top.comp.tag = "Handle" /\ Kind(q) \in {"Empty", "Cons"}
      /\ extents' = FreshExtent(p) /\ EnterSource(q, p, e)
      /\ UNCHANGED <<raws, owners, minted, replay, outcome>>
  BY <1>2 DEF HandleFresh, Handling
<1>4. Depth > 0 /\ replay.pc = "idle" /\ Contract!Dispatching
  BY <1>2, <1>3, ContractDispatches
<1>5. Published = extents /\ Published' = extents' /\ FlatRaws' = FlatRaws
  BY <1>1, <1>3, <1>4, OutsideReplay, FlatRawsKept
<1>6. /\ t \in FlatFrames /\ t.comp = Top.comp /\ t.extent = p /\ t.work = FlatNodes[q]
      /\ IsQueue(q)
  BY <1>2, <1>4, TopFields
<1>7. p \in Nat /\ e \in Nat
  BY <1>2, <1>6, LengthsAreNat DEF FlatFrames
<1>8. PICK scope : scope = [work |-> FlatNodes[q], parent |-> p, extent |-> e]
  OBVIOUS
<1>9. PICK x : x = [t EXCEPT !.comp = Text[t.comp.source], !.work = <<>>,
                             !.extent = e, !.scopes = <<scope>> \o @]
  OBVIOUS
<1>10. Contract!SetTop(x)
  <2>1. /\ Dispatching /\ Top.comp.tag = "Handle" /\ IsQueue(q) /\ p \in Nat /\ e \in Nat
        /\ EnterSource(q, p, e)
    BY <1>3, <1>6, <1>7
  <2>2. x = Entered(Contract!Top, q, p, e)
    BY <1>2, <1>8, <1>9 DEF Entered
  <2>3. QED  BY <1>1, <2>1, <2>2, EntersScope
<1>11. ~(t.work # <<>> /\ Contract!IsFinish(Head(t.work)))
  BY <1>3, <1>6, WorkKinds
<1>12. Published' = Append(Published, [parent |-> t.extent, status |-> 0])
  BY <1>3, <1>5, <1>6 DEF FreshExtent, Live
<1>13. scope = [work |-> t.work, parent |-> t.extent, extent |-> Len(Published) + 1]
       /\ e = Len(Published) + 1
  BY <1>2, <1>5, <1>6, <1>8
<1>14. t.comp.tag = "Handle"
  BY <1>3, <1>6
<1>15. QED
  BY <1>2, <1>3, <1>4, <1>5, <1>9, <1>10, <1>11, <1>12, <1>13, <1>14 DEF Contract!Enter

LEMMA HandleFinishEnters ==
  ASSUME TypeOK, HandleFinish PROVE Contract!Enter
<1>1. TypeOK' /\ Grows
  BY NextGrows DEF Next, MachineStep, ExecutorStep
<1>2. PICK t, q, r, p, e :
        /\ t = Contract!Top /\ q = Top.queue /\ r = nodes[q].rest
        /\ p = nodes[q].parent /\ e = nodes[q].extent
  OBVIOUS
<1>3. /\ Dispatching /\ Top.comp.tag = "Handle" /\ Kind(q) = "Finish"
      /\ EnterSource(r, p, e)
      /\ UNCHANGED <<extents, raws, owners, minted, replay, outcome>>
  BY <1>2 DEF HandleFinish, Handling
<1>4. Depth > 0 /\ replay.pc = "idle" /\ Contract!Dispatching
  BY <1>2, <1>3, ContractDispatches
<1>5. Published' = Published /\ FlatRaws' = FlatRaws
  BY <1>1, <1>3, <1>4, OutsideReplay, FlatRawsKept
<1>6. t \in FlatFrames /\ t.comp = Top.comp /\ t.work = FlatNodes[q] /\ IsQueue(q)
  BY <1>2, <1>4, TopFields
<1>7. /\ t.work # <<>> /\ Contract!IsFinish(Head(t.work)) /\ Tail(t.work) = FlatNodes[r]
      /\ Head(t.work).extent = e /\ Head(t.work).parent = p
      /\ IsQueue(r) /\ e \in Nat /\ p \in Nat
  BY <1>2, <1>3, <1>6, WorkKinds
<1>8. PICK scope : scope = [work |-> FlatNodes[r], parent |-> p, extent |-> e]
  OBVIOUS
<1>9. PICK x : x = [t EXCEPT !.comp = Text[t.comp.source], !.work = <<>>,
                             !.extent = e, !.scopes = <<scope>> \o @]
  OBVIOUS
<1>10. Contract!SetTop(x)
  <2>1. /\ Dispatching /\ Top.comp.tag = "Handle" /\ IsQueue(r) /\ p \in Nat /\ e \in Nat
        /\ EnterSource(r, p, e)
    BY <1>3, <1>7
  <2>2. x = Entered(Contract!Top, r, p, e)
    BY <1>2, <1>8, <1>9 DEF Entered
  <2>3. QED  BY <1>1, <2>1, <2>2, EntersScope
<1>11. scope = [work |-> Tail(t.work), parent |-> Head(t.work).parent, extent |-> e]
  BY <1>7, <1>8
<1>12. t.comp.tag = "Handle"
  BY <1>3, <1>6
<1>13. QED
  BY <1>2, <1>3, <1>4, <1>5, <1>7, <1>9, <1>10, <1>11, <1>12 DEF Contract!Enter

LEMMA OwnedResumeTransfers ==
  ASSUME TypeOK, OwnedResume PROVE Contract!Transfer
<1>1. TypeOK' /\ Grows
  BY NextGrows DEF Next, MachineStep, ExecutorStep
<1>2. PICK t, o : t = Contract!Top /\ o = Top.comp.owner
  OBVIOUS
<1>3. PICK frame : frame = [Top EXCEPT !.await = "owned", !.owner = o, !.comp = NoComp]
  OBVIOUS
<1>4. /\ Dispatching /\ Top.comp.tag = "OwnedResume"
      /\ UNCHANGED <<nodes, contexts, extents, raws, minted, replay>>
      /\ IF owners[o].status = "Pending"
         THEN /\ owners' = [owners EXCEPT ![o] = [status |-> "Running", callback |-> "cleared"]]
              /\ SetTop(frame) /\ outcome' = outcome
         ELSE outcome' = "trapped" /\ UNCHANGED <<owners, stack>>
  BY <1>2, <1>3 DEF OwnedResume, Vacate, Trap
<1>5. Depth > 0 /\ replay.pc = "idle" /\ Contract!Dispatching
  BY <1>2, <1>4, ContractDispatches
<1>6. Published' = Published /\ FlatRaws' = FlatRaws
  BY <1>1, <1>4, <1>5, OutsideReplay, FlatRawsKept
<1>7. /\ t \in FlatFrames /\ t.root = Top.root /\ t.comp = Top.comp /\ t.extent = Top.extent
      /\ t.await = Top.await /\ t.owner = Top.owner /\ t.calling = Top.callee
      /\ t.work = FlatNodes[Top.queue] /\ t.scopes = ScopesOf(Top.ctx)
      /\ Top \in Frames /\ Top.comp \in Computations
  BY <1>2, <1>5, TopFields
<1>8. CASE owners[o].status # "Pending"
  <2>1. outcome' = "trapped" /\ UNCHANGED <<owners, stack>>
    BY <1>4, <1>8
  <2>2. FlatRuns' = FlatRuns
    BY <1>1, <2>1, SameRunsKept
  <2>3. Contract!Trap
    BY <1>4, <1>6, <2>1, <2>2 DEF Contract!Trap
  <2>4. QED  BY <1>2, <1>4, <1>5, <1>7, <1>8, <2>3 DEF Contract!Transfer
<1>9. CASE owners[o].status = "Pending"
  <2>1. o \in Nat
    <3>1. CompOK(Top.comp)
      BY <1>5, TopFacts DEF FrameOK
    <3>2. QED  BY <1>2, <1>4, <3>1, LengthsAreNat DEF CompOK
  <2>2. /\ frame.root = Top.root /\ frame.comp = NoComp /\ frame.extent = Top.extent
        /\ frame.await = "owned" /\ frame.owner = o /\ frame.callee = Top.callee
        /\ frame.queue = Top.queue /\ frame.ctx = Top.ctx /\ SetTop(frame)
    BY <1>3, <1>4, <1>7, <1>9 DEF Frames
  <2>3. PICK x : x = [t EXCEPT !.await = "owned", !.owner = o, !.comp = Contract!Return]
    OBVIOUS
  <2>4. x \in FlatFrames /\ x.await = "owned" /\ x.root = t.root /\ x.comp = NoComp
        /\ x.work = t.work /\ x.extent = t.extent /\ x.scopes = t.scopes
        /\ x.owner = o /\ x.calling = t.calling
    <3>1. NoComp \in Computations /\ Contract!Return = NoComp
      BY DEF NoComp, Computations, Written, Contract!Return
    <3>2. QED  BY <1>7, <2>1, <2>3, <3>1 DEF FlatFrames
  <2>5. FlatNodes'[frame.queue] = t.work /\ ScopesOf(frame.ctx)' = t.scopes
    BY <1>1, <1>5, <1>7, <2>2, TopStays
  <2>6. Contract!SetTop(x)
    BY <1>1, <1>5, <1>7, <2>2, <2>4, <2>5, BecomesTop
  <2>7. QED
    BY <1>2, <1>4, <1>5, <1>6, <1>7, <1>9, <2>3, <2>6 DEF Contract!Transfer
<1>10. QED  BY <1>8, <1>9

-----------------------------------------------------------------------------
(* Native stack exhaustion and guest code.                                 *)

LEMMA ExhaustExpires ==
  ASSUME TypeOK, Exhaust, replay.pc = "idle" PROVE Contract!Exhaust
<1>1. TypeOK' /\ Grows
  BY NextGrows DEF Next
<1>2. PICK t : t = Contract!Top
  OBVIOUS
<1>3. /\ CloseBoundary(Top.root) /\ Pop /\ replay'.pc = "idle"
      /\ UNCHANGED <<raws, owners, minted, outcome>>
  BY DEF Exhaust, Idle
<1>4. /\ Dispatching
      /\ \/ Top.comp.tag = "Resume"
         \/ Top.comp.tag = "Return" /\ Kind(Top.queue) = "Finish"
         \/ Top.comp.tag = "Return" /\ Kind(Top.queue) = "Empty" /\ Context.tag = "Root"
  BY DEF Exhaust, CallsHelper, Returning, Cloning
<1>5. Depth > 0 /\ Contract!Dispatching
  BY <1>2, <1>4, ContractDispatches
<1>6. Published = extents /\ Published' = extents'
  BY <1>1, <1>3, OutsideReplay
<1>7. FlatRuns' = Contract!Popped /\ FlatRaws' = FlatRaws
  BY <1>1, <1>3, <1>5, FlatPopped, FlatRawsKept
<1>8. /\ t.comp = Top.comp /\ t.root = Top.root /\ t.work = FlatNodes[Top.queue]
      /\ IsQueue(Top.queue)
  BY <1>2, <1>5, TopFields
<1>9. Published' = Contract!Closing(t.root)
  BY <1>3, <1>6, <1>8 DEF CloseBoundary, Contract!Closing, Closed
<1>10. \/ t.comp.tag = "Resume"
       \/ t.comp.tag = "Return" /\ t.work = <<>> /\ t.scopes = <<>>
       \/ t.comp.tag = "Return" /\ t.work # <<>> /\ Contract!IsFinish(Head(t.work))
  BY <1>2, <1>4, <1>5, <1>8, WorkKinds, TopScopes
<1>11. QED  BY <1>2, <1>3, <1>5, <1>7, <1>9, <1>10 DEF Contract!Exhaust

(* Guest code runs only between replays.                                   *)
LEMMA GuestIsOutside ==
  ASSUME TypeOK, GuestRuns, NEW t, t = Contract!Top
  PROVE  Contract!GuestRuns /\ replay.pc = "idle"
<1>1. /\ outcome = "running"
      /\ Depth > 0 => Top.await # "none"
      /\ replay.pc # "idle" => Depth > 0 /\ Top.await = "none"
      /\ replay.pc \in {"idle", "clone", "rebuild"}
  BY DEF GuestRuns, TypeOK, ReplayOK, Registers
<1>2. /\ Contract!Depth = Depth
      /\ Depth > 0 => t.await = Top.await
  BY FlatRunsFacts, FlatTop
<1>3. QED  BY <1>1, <1>2, FlatRunsFacts DEF Contract!GuestRuns

LEMMA RawResumeMints ==
  ASSUME TypeOK, NEW k \in 1..Len(raws), RawResume(k)
  PROVE  k \in 1..Len(FlatRaws) /\ Contract!Mint(k)
<1>1. TypeOK' /\ Grows
  BY NextGrows DEF Next, GuestStep
<1>2. /\ GuestRuns /\ UNCHANGED <<extents, raws, owners, stack, replay>>
      /\ IF Usable(raws[k].checkpoint)
         THEN minted' = minted \cup {k} /\ outcome' = outcome
         ELSE outcome' = "trapped" /\ minted' = minted
  BY DEF RawResume, heapVars, Trap
<1>3. Contract!GuestRuns /\ replay.pc = "idle"
  BY <1>2, GuestIsOutside
<1>4. Published' = Published /\ FlatRaws' = FlatRaws /\ FlatRuns' = FlatRuns
  BY <1>1, <1>2, <1>3, OutsideReplay, FlatRawsKept, SameRunsKept
<1>5. PICK e, b : e = raws[k].checkpoint /\ b = Len(extents)
  OBVIOUS
<1>6. /\ Len(FlatRaws) = Len(raws) /\ FlatRaws[k].checkpoint = e
  BY <1>5, FlatRawsFacts DEF FlatRawsRule
<1>7. Contract!Usable(e) <=> Usable(e)
  <2>1. b \in Nat /\ b = Base /\ b <= Len(extents) /\ e \in 1..b
    BY <1>3, <1>5, AllPublished DEF TypeOK, RawsOK, RawOK, IsExtent
  <2>2. QED  BY <2>1, PublishedUsable
<1>8. QED
  BY <1>2, <1>3, <1>4, <1>5, <1>6, <1>7 DEF Contract!Mint, Contract!Trap

LEMMA OnceMakes ==
  ASSUME TypeOK, Once PROVE Contract!Once
<1>1. TypeOK' /\ Grows
  BY NextGrows DEF Next, GuestStep
<1>2. /\ GuestRuns /\ UNCHANGED <<extents, raws, minted, stack, replay, outcome>>
      /\ owners' = Append(owners, [status |-> "Pending", callback |-> "callback"])
  BY DEF Once
<1>3. Contract!GuestRuns /\ replay.pc = "idle"
  BY <1>2, GuestIsOutside
<1>4. Published' = Published /\ FlatRaws' = FlatRaws /\ FlatRuns' = FlatRuns
  BY <1>1, <1>2, <1>3, OutsideReplay, FlatRawsKept, SameRunsKept
<1>5. QED  BY <1>2, <1>3, <1>4 DEF Contract!Once

LEMMA CancelCancels ==
  ASSUME TypeOK, NEW o \in 1..Len(owners), Cancel(o) PROVE Contract!Cancel(o)
<1>1. TypeOK' /\ Grows
  BY NextGrows DEF Next, GuestStep
<1>2. /\ GuestRuns /\ UNCHANGED <<extents, raws, minted, stack, replay>>
      /\ IF owners[o].status = "Pending"
         THEN /\ owners' = [owners EXCEPT ![o] = [status |-> "Cancelled", callback |-> "cleared"]]
              /\ outcome' = outcome
         ELSE outcome' = "trapped" /\ owners' = owners
  BY DEF Cancel, Vacate, Trap
<1>3. Contract!GuestRuns /\ replay.pc = "idle"
  BY <1>2, GuestIsOutside
<1>4. Published' = Published /\ FlatRaws' = FlatRaws /\ FlatRuns' = FlatRuns
  BY <1>1, <1>2, <1>3, OutsideReplay, FlatRawsKept, SameRunsKept
<1>5. QED  BY <1>2, <1>3, <1>4 DEF Contract!Cancel, Contract!Trap

LEMMA ThrowAborts ==
  ASSUME TypeOK, Throw PROVE Contract!Abort
<1>1. TypeOK' /\ Grows
  BY NextGrows DEF Next, GuestStep
<1>2. PICK t : t = Contract!Top
  OBVIOUS
<1>3. /\ GuestRuns /\ Depth > 0 /\ CloseBoundary(Top.root) /\ Pop
      /\ owners' = IF Top.await = "owned"
                   THEN [owners EXCEPT ![Top.owner].status = "Consumed"] ELSE owners
      /\ UNCHANGED <<raws, minted, replay, outcome>>
  BY DEF Throw
<1>4. Contract!GuestRuns /\ replay.pc = "idle" /\ Contract!Depth = Depth
  BY <1>3, GuestIsOutside, FlatRunsFacts
<1>5. Published = extents /\ Published' = extents'
  BY <1>1, <1>3, <1>4, OutsideReplay
<1>6. FlatRuns' = Contract!Popped /\ FlatRaws' = FlatRaws
  BY <1>1, <1>3, FlatPopped, FlatRawsKept
<1>7. t.root = Top.root /\ t.await = Top.await /\ t.owner = Top.owner
  BY <1>2, <1>3, TopFields
<1>8. Published' = Contract!Closing(t.root)
  BY <1>3, <1>5, <1>7 DEF CloseBoundary, Contract!Closing, Closed
<1>9. QED  BY <1>2, <1>3, <1>4, <1>6, <1>7, <1>8 DEF Contract!Abort

(* The computations of the machine's guest are those of the contract's.    *)
LEMMA GuestComputations ==
  ASSUME TypeOK, NEW c \in Suppliable
  PROVE  c \in Contract!Computations /\ c \in Computations
<1>1. c \in Computations
  BY SuppliableFacts
<1>2. NoComp = Contract!Return
  BY DEF NoComp, Contract!Return
<1>3. \A i \in 1..Len(Text) : Text[i] \in Contract!Range(Text)
  BY TextAssumption DEF Contract!Range
<1>4. QED  BY <1>1, <1>2, <1>3 DEF Suppliable, Contract!Computations

LEMMA RunRuns ==
  ASSUME TypeOK, NEW c \in Suppliable, Run(c) PROVE Contract!Run(c)
<1>1. TypeOK' /\ Grows
  BY NextGrows DEF Next, GuestStep
<1>2. PICK root : root = Len(extents) + 1
  OBVIOUS
<1>3. PICK context : context = RootContext(root)
  OBVIOUS
<1>4. PICK ref : ref = Ref(contexts, context)
  OBVIOUS
<1>5. PICK frame :
        frame = [root |-> root, comp |-> c, queue |-> Empty, extent |-> root,
                 ctx |-> ref, await |-> "none", callee |-> NoCallee, owner |-> NoOwner]
  OBVIOUS
<1>6. /\ GuestRuns /\ extents' = FreshExtent(NoExtent)
      /\ contexts' = Allocate(contexts, context) /\ stack' = Append(stack, frame)
      /\ UNCHANGED <<raws, owners, minted, replay, outcome>>
  BY <1>2, <1>3, <1>4, <1>5 DEF Run
<1>7. Contract!GuestRuns /\ replay.pc = "idle"
  BY <1>6, GuestIsOutside
<1>8. Published = extents /\ Published' = extents' /\ FlatRaws' = FlatRaws
  BY <1>1, <1>6, <1>7, OutsideReplay, FlatRawsKept
<1>9. context.tag = "Root" /\ context \in Contexts /\ root \in Nat
  BY <1>2, <1>3, LengthsAreNat DEF RootContext, Contexts
<1>10. ref \in 1..Len(contexts') /\ contexts'[ref] = context
  BY <1>4, <1>6, <1>9, AllocateFacts DEF TypeOK, ContextsOK
<1>11. ScopesOf(ref)' = <<>> /\ FlatNodes'[Empty] = <<>>
  BY <1>1, <1>9, <1>10, NewListedScopes, NewEmptyList DEF ScopesListed
<1>12. PICK x : x = [root |-> root, comp |-> c, work |-> <<>>, extent |-> root,
                     scopes |-> <<>>, await |-> "none", owner |-> 0, calling |-> "none"]
  OBVIOUS
<1>13. AbstractRun(frame)' = x
  <2>1. /\ frame.root = root /\ frame.comp = c /\ frame.queue = Empty /\ frame.extent = root
        /\ frame.ctx = ref /\ frame.await = "none" /\ frame.callee = NoCallee
        /\ frame.owner = NoOwner
    BY <1>5
  <2>2. QED  BY <1>11, <1>12, <2>1 DEF AbstractRun, NoOwner, NoCallee
<1>14. x \in FlatFrames
  BY <1>9, <1>12, GuestComputations DEF FlatFrames, NoCallee
<1>15. PICK n : n = Depth + 1
  OBVIOUS
<1>16. /\ Depth \in Nat /\ n \in Nat /\ Depth' = n /\ stack'[n] = frame
       /\ \A d \in 1..Depth : stack'[d] = stack[d] /\ d \in 1..Depth'
  <2>1. PICK S : S = Frames \cup {frame}
    OBVIOUS
  <2>2. stack \in Seq(S) /\ frame \in S /\ Depth = Len(stack) /\ Depth \in Nat
    BY <2>1 DEF TypeOK, StackOK, Depth
  <2>3. /\ Len(Append(stack, frame)) = n /\ Append(stack, frame)[n] = frame
        /\ \A d \in 1..Depth : Append(stack, frame)[d] = stack[d]
    BY <1>15, <2>2
  <2>4. QED  BY <1>6, <1>15, <2>2, <2>3 DEF Depth
<1>17. /\ FlatRuns'[n] = x /\ \A d \in 1..Depth : FlatRuns'[d] = FlatRuns[d]
  <2>1. n \in 1..n
    BY <1>15, <1>16
  <2>2. FlatRuns'[n] = AbstractRun(stack[n])'
    BY <1>1, <1>16, <2>1, NewFlatRuns DEF FlatRunsRule
  <2>3. AbstractRun(stack[n])' = AbstractRun(frame)'
    BY <1>16 DEF AbstractRun
  <2>4. \A d \in 1..Depth : FlatRuns'[d] = FlatRuns[d]
    BY <1>1, <1>16, FlatRunKept
  <2>5. QED  BY <1>13, <2>2, <2>3, <2>4
<1>18. FlatRuns' = Append(FlatRuns, x)
  <2>1. /\ FlatRuns \in Seq(FlatFrames) /\ Len(FlatRuns) = Depth
        /\ FlatRuns' \in Seq(FlatFrames) /\ Len(FlatRuns') = n
    BY <1>1, <1>16, FlatRunsFacts, NewFlatRuns DEF FlatRunsRule
  <2>2. PICK A : A = Append(FlatRuns, x)
    OBVIOUS
  <2>3. /\ A \in Seq(FlatFrames) /\ Len(A) = n /\ A[n] = x
        /\ \A d \in 1..Depth : A[d] = FlatRuns[d]
    BY <1>14, <1>15, <1>16, <2>1, <2>2
  <2>4. \A d \in 1..n : d = n \/ d \in 1..Depth
    BY <1>15, <1>16
  <2>5. \A d \in 1..n : FlatRuns'[d] = A[d]
    BY <1>17, <2>3, <2>4
  <2>6. QED  BY <1>16, <2>1, <2>2, <2>3, <2>5, SequencesEqual
<1>19. Published' = Append(Published, [parent |-> 0, status |-> 0])
  BY <1>6, <1>8 DEF FreshExtent, NoExtent, Live
<1>20. QED
  BY <1>2, <1>6, <1>7, <1>8, <1>12, <1>18, <1>19 DEF Contract!Run

(* The applied closure answers.                                            *)
LEMMA EnterTargetSupplies ==
  ASSUME TypeOK, LinearInv, NEW c \in Suppliable, Supply(c), EnterTarget(c)
  PROVE  Contract!Supply(c)
<1>1. TypeOK' /\ Grows
  BY NextGrows DEF Next, GuestStep
<1>2. PICK t, e, p, saved, caller :
        /\ t = Contract!Top /\ e = Context.extent /\ p = Context.parent
        /\ saved = Context.saved /\ caller = Context.caller
  OBVIOUS
<1>3. PICK finish : finish = Finish(e, saved, p)
  OBVIOUS
<1>4. PICK ref : ref = Ref(nodes, finish)
  OBVIOUS
<1>5. PICK frame : frame = [Top EXCEPT !.await = "none", !.comp = c, !.queue = ref,
                                       !.extent = e, !.ctx = caller]
  OBVIOUS
<1>6. /\ GuestRuns /\ Depth > 0 /\ Top.await = "clause"
      /\ nodes' = Allocate(nodes, finish) /\ SetTop(frame)
      /\ UNCHANGED <<contexts, extents, raws, owners, minted, replay, outcome>>
  BY <1>2, <1>3, <1>4, <1>5 DEF Supply, EnterTarget
<1>7. Contract!GuestRuns /\ replay.pc = "idle" /\ Contract!Depth = Depth
  BY <1>6, GuestIsOutside, FlatRunsFacts
<1>8. Published' = Published /\ FlatRaws' = FlatRaws
  BY <1>1, <1>6, <1>7, OutsideReplay, FlatRawsKept
<1>9. /\ t \in FlatFrames /\ t.root = Top.root /\ t.comp = Top.comp /\ t.extent = Top.extent
      /\ t.await = Top.await /\ t.owner = Top.owner /\ t.calling = Top.callee
      /\ t.work = FlatNodes[Top.queue] /\ t.scopes = ScopesOf(Top.ctx)
      /\ Top \in Frames /\ Top.ctx \in 1..Len(contexts)
  BY <1>2, <1>6, TopFields
<1>10. Context.tag = "Scoped"
  BY <1>6, TopFacts DEF FrameOK, Context
<1>11. PICK scope : scope = Head(t.scopes)
  OBVIOUS
<1>12. /\ scope.work = FlatNodes[saved] /\ scope.extent = e /\ scope.parent = p
       /\ Tail(t.scopes) = ScopesOf(caller)
       /\ scope \in ScopeRecords /\ Tail(t.scopes) \in Seq(ScopeRecords)
  BY <1>2, <1>6, <1>10, <1>11, TopScopes
<1>13. e \in Nat /\ p \in Nat /\ IsQueue(saved) /\ caller \in 1..Len(contexts)
  BY <1>2, <1>9, <1>10, ContextShape DEF Context, IsQueue
<1>14. /\ frame.root = Top.root /\ frame.comp = c /\ frame.extent = e
       /\ frame.await = "none" /\ frame.owner = Top.owner /\ frame.callee = Top.callee
       /\ frame.queue = ref /\ frame.ctx = caller
  BY <1>5, <1>9 DEF Frames
<1>15. PICK work : work = <<Marker(e, p)>> \o FlatNodes[saved]
  OBVIOUS
<1>16. FlatNodes'[ref] = work /\ work \in Seq(WorkItems)
  <2>1. FlatNodes'[ref] = work
    BY <1>1, <1>3, <1>4, <1>6, <1>13, <1>15, NewFinish
  <2>2. Marker(e, p) \in WorkItems
    BY <1>13 DEF Marker, WorkItems
  <2>3. QED  BY <1>13, <1>15, <2>1, <2>2, HeadAndTail, QueueHoldsWork
<1>17. PICK marker : marker = [tag |-> "Finish", extent |-> scope.extent, parent |-> scope.parent]
  OBVIOUS
<1>18. <<marker>> \o scope.work = work
  BY <1>12, <1>15, <1>17 DEF Marker
<1>19. PICK x : x = [t EXCEPT !.await = "none", !.comp = c, !.extent = scope.extent,
                              !.work = <<marker>> \o scope.work, !.scopes = Tail(@)]
  OBVIOUS
<1>20. x \in FlatFrames /\ x.await = "none" /\ x.root = t.root /\ x.comp = c
       /\ x.work = work /\ x.extent = e /\ x.scopes = Tail(t.scopes)
       /\ x.owner = t.owner /\ x.calling = t.calling
  <2>1. c \in Computations
    BY GuestComputations
  <2>2. QED  BY <1>9, <1>12, <1>13, <1>16, <1>18, <1>19, <2>1 DEF FlatFrames
<1>21. ScopesOf(frame.ctx)' = Tail(t.scopes)
  BY <1>1, <1>12, <1>13, <1>14, ScopesKept
<1>22. Contract!SetTop(x)
  BY <1>1, <1>6, <1>9, <1>14, <1>16, <1>20, <1>21, BecomesTop
<1>23. t.await = "clause"
  BY <1>6, <1>9
<1>24. QED
  BY <1>2, <1>6, <1>7, <1>8, <1>11, <1>17, <1>19, <1>22, <1>23 DEF Contract!Supply

(* Any other applied closure answers where it was called.                  *)
LEMMA AnswersInPlace ==
  ASSUME TypeOK, TypeOK', Grows, NEW c \in Suppliable, GuestRuns, Depth > 0, Top.await # "clause",
         NEW frame, SetTop(frame), frame.root = Top.root, frame.comp = c,
         frame.queue = Top.queue, frame.extent = Top.extent, frame.ctx = Top.ctx,
         frame.await = "none", frame.callee = NoCallee, frame.owner = NoOwner,
         owners' = IF Top.await = "owned"
                   THEN [owners EXCEPT ![Top.owner].status = "Consumed"] ELSE owners,
         UNCHANGED <<extents, raws, minted, replay, outcome>>
  PROVE  Contract!Supply(c)
<1>1. PICK t : t = Contract!Top
  OBVIOUS
<1>2. Contract!GuestRuns /\ replay.pc = "idle" /\ Contract!Depth = Depth
  BY GuestIsOutside, FlatRunsFacts
<1>3. Published' = Published /\ FlatRaws' = FlatRaws
  BY <1>2, OutsideReplay, FlatRawsKept
<1>4. /\ t \in FlatFrames /\ t.root = Top.root /\ t.extent = Top.extent
      /\ t.await = Top.await /\ t.owner = Top.owner
      /\ t.work = FlatNodes[Top.queue] /\ t.scopes = ScopesOf(Top.ctx)
  BY <1>1, TopFields
<1>5. PICK x : x = [t EXCEPT !.await = "none", !.comp = c, !.owner = 0, !.calling = "none"]
  OBVIOUS
<1>6. x \in FlatFrames /\ x.await = "none" /\ x.root = t.root /\ x.comp = c
      /\ x.work = t.work /\ x.extent = t.extent /\ x.scopes = t.scopes
      /\ x.owner = NoOwner /\ x.calling = NoCallee
  <2>1. c \in Computations
    BY GuestComputations
  <2>2. QED  BY <1>4, <1>5, <2>1 DEF FlatFrames, NoCallee, NoOwner
<1>7. FlatNodes'[frame.queue] = t.work /\ ScopesOf(frame.ctx)' = t.scopes
  BY <1>4, TopStays
<1>8. Contract!SetTop(x)
  BY <1>4, <1>6, <1>7, BecomesTop
<1>9. owners' = IF t.await = "owned"
                THEN [owners EXCEPT ![t.owner].status = "Consumed"] ELSE owners
  BY <1>4
<1>10. QED  BY <1>1, <1>2, <1>3, <1>4, <1>5, <1>8, <1>9 DEF Contract!Supply

LEMMA SupplySupplies ==
  ASSUME TypeOK, LinearInv, CalleeIdle, NEW c \in Suppliable, Supply(c)
  PROVE  Contract!Supply(c)
<1>1. TypeOK' /\ Grows
  BY NextGrows DEF Next, GuestStep
<1>2. /\ GuestRuns /\ Depth > 0 /\ UNCHANGED <<extents, raws, minted, replay, outcome>>
      /\ EnterTarget(c) \/ Continue(c) \/ Transferred(c)
  BY DEF Supply
<1>3. CASE EnterTarget(c)
  BY <1>3, EnterTargetSupplies
<1>4. CASE Continue(c)
  <2>1. PICK frame : frame = [Top EXCEPT !.await = "none", !.callee = NoCallee, !.comp = c]
    OBVIOUS
  <2>2. /\ SetTop(frame) /\ Top.await \in {"next", "root"} /\ owners' = owners
    BY <1>4, <2>1 DEF Continue
  <2>3. Top.owner = NoOwner /\ Top \in Frames
    BY <1>2, <2>2, TopFacts DEF FrameOK
  <2>4. /\ frame.root = Top.root /\ frame.comp = c /\ frame.queue = Top.queue
        /\ frame.extent = Top.extent /\ frame.ctx = Top.ctx /\ frame.await = "none"
        /\ frame.callee = NoCallee /\ frame.owner = NoOwner
    BY <2>1, <2>3 DEF Frames
  <2>5. Top.await # "clause"
        /\ owners' = IF Top.await = "owned"
                     THEN [owners EXCEPT ![Top.owner].status = "Consumed"] ELSE owners
    BY <2>2
  <2>6. QED  BY <1>1, <1>2, <2>2, <2>4, <2>5, AnswersInPlace
<1>5. CASE Transferred(c)
  <2>1. PICK frame : frame = [Top EXCEPT !.await = "none", !.owner = NoOwner, !.comp = c]
    OBVIOUS
  <2>2. /\ SetTop(frame) /\ Top.await = "owned"
        /\ owners' = [owners EXCEPT ![Top.owner].status = "Consumed"]
    BY <1>5, <2>1 DEF Transferred
  <2>3. Top.callee = NoCallee /\ Top \in Frames
    BY <1>2, <2>2, TopFacts, TopIdle
  <2>4. /\ frame.root = Top.root /\ frame.comp = c /\ frame.queue = Top.queue
        /\ frame.extent = Top.extent /\ frame.ctx = Top.ctx /\ frame.await = "none"
        /\ frame.callee = NoCallee /\ frame.owner = NoOwner
    BY <2>1, <2>3 DEF Frames
  <2>5. Top.await # "clause"
        /\ owners' = IF Top.await = "owned"
                     THEN [owners EXCEPT ![Top.owner].status = "Consumed"] ELSE owners
    BY <2>2
  <2>6. QED  BY <1>1, <1>2, <2>2, <2>4, <2>5, AnswersInPlace
<1>6. QED  BY <1>2, <1>3, <1>4, <1>5

(* Only a suspended bind continuation names a callee.                      *)
LEMMA IdleTop ==
  ASSUME TypeOK, CalleeIdle, Depth > 0, NEW frame, SetTop(frame),
         frame.await # "next" => frame.callee = NoCallee
  PROVE  CalleeIdle'
<1>1. /\ Depth' = Depth /\ stack'[Depth] = frame
      /\ \A d \in 1..Depth : d # Depth => stack'[d] = stack[d]
  BY TopSet
<1>2. QED  BY <1>1 DEF CalleeIdle

LEMMA NextIdle == ASSUME TypeOK, CalleeIdle, Next PROVE CalleeIdle'
<1>1. CASE UNCHANGED stack
  BY <1>1 DEF CalleeIdle, Depth
<1>2. CASE Depth > 0 /\ Pop
  <2>1. Depth' = Depth - 1 /\ \A d \in 1..(Depth - 1) : stack'[d] = stack[d]
    BY <1>2, PopFacts DEF TypeOK, StackOK, Pop, Depth
  <2>2. Depth \in Nat
    BY <1>2, TopFacts
  <2>3. QED  BY <2>1, <2>2 DEF CalleeIdle
<1>3. ASSUME Depth > 0, NEW await \in {"clause", "next", "root"}, NEW callee, NEW queue,
             Apply(await, callee, queue), await # "next" => callee = NoCallee
      PROVE  CalleeIdle'
  <2>1. PICK frame : frame = [Top EXCEPT !.await = await, !.callee = callee,
                                         !.queue = queue, !.comp = NoComp]
    OBVIOUS
  <2>2. SetTop(frame) /\ frame.await = await /\ frame.callee = callee
    BY <1>3, <2>1, TopFacts DEF Apply, Frames
  <2>3. QED  BY <1>3, <2>2, IdleTop
<1>4. ASSUME ReturnClause \/ ReturnCons \/ ReturnAppendCons \/ Perform PROVE CalleeIdle'
  <2>1. /\ Depth > 0
        /\ \E await \in {"clause", "next", "root"} : \E callee, queue :
             Apply(await, callee, queue) /\ (await # "next" => callee = NoCallee)
    BY <1>4 DEF ReturnClause, ReturnCons, ReturnAppendCons, Perform, Returning, Dispatching
  <2>2. QED  BY <1>3, <2>1
<1>5. ASSUME ReturnRotate \/ HandleNormalize \/ ReturnFinish \/ Bind \/ HandleFresh \/ HandleFinish
      PROVE  CalleeIdle'
  <2>1. Dispatching /\ Depth > 0
    BY <1>5 DEF ReturnRotate, HandleNormalize, ReturnFinish, Bind, HandleFresh, HandleFinish,
       Returning, Handling, Dispatching
  <2>2. PICK frame : /\ SetTop(frame)
                     /\ frame.await = Top.await /\ frame.callee = Top.callee
    <3>1. Top \in Frames
      BY <2>1, TopFacts
    <3>2. CASE ReturnRotate \/ HandleNormalize
      <4>1. PICK queue, frame :
              /\ SetTop(frame)
              /\ frame = [Top EXCEPT !.queue = queue]
        BY <3>2 DEF ReturnRotate, HandleNormalize, RotateEmpty, Rotate
      <4>2. frame.await = Top.await /\ frame.callee = Top.callee
        BY <3>1, <4>1 DEF Frames
      <4>3. QED  BY <4>1, <4>2
    <3>3. CASE ReturnFinish
      <4>1. PICK queue, extent, frame :
              /\ SetTop(frame)
              /\ frame = [Top EXCEPT !.queue = queue, !.extent = extent]
        BY <3>3 DEF ReturnFinish
      <4>2. frame.await = Top.await /\ frame.callee = Top.callee
        BY <3>1, <4>1 DEF Frames
      <4>3. QED  BY <4>1, <4>2
    <3>4. CASE Bind
      <4>1. PICK comp, queue, frame :
              /\ SetTop(frame)
              /\ frame = [Top EXCEPT !.comp = comp, !.queue = queue]
        BY <3>4 DEF Bind
      <4>2. frame.await = Top.await /\ frame.callee = Top.callee
        BY <3>1, <4>1 DEF Frames
      <4>3. QED  BY <4>1, <4>2
    <3>5. CASE HandleFresh \/ HandleFinish
      <4>1. PICK comp, queue, extent, ctx, frame :
              /\ SetTop(frame)
              /\ frame = [Top EXCEPT !.comp = comp, !.queue = queue, !.extent = extent,
                                !.ctx = ctx]
        BY <3>5 DEF HandleFresh, HandleFinish, EnterSource
      <4>2. frame.await = Top.await /\ frame.callee = Top.callee
        BY <3>1, <4>1 DEF Frames
      <4>3. QED  BY <4>1, <4>2
    <3>6. QED  BY <1>5, <3>2, <3>3, <3>4, <3>5
  <2>3. Top.callee = NoCallee
    BY <2>1, TopIdle DEF Dispatching
  <2>4. QED  BY <2>1, <2>2, <2>3, IdleTop
<1>6. ASSUME OwnedResume PROVE CalleeIdle'
  <2>1. CASE UNCHANGED stack
    BY <1>1, <2>1
  <2>2. CASE ~UNCHANGED stack
    <3>1. PICK o : o = Top.comp.owner
      OBVIOUS
    <3>2. PICK frame : frame = [Top EXCEPT !.await = "owned", !.owner = o, !.comp = NoComp]
      OBVIOUS
    <3>3. Depth > 0 /\ Top.await = "none" /\ SetTop(frame)
      BY <1>6, <2>2, <3>1, <3>2 DEF OwnedResume, Dispatching
    <3>4. frame.callee = NoCallee
      BY <3>2, <3>3, TopIdle, TopFacts DEF Frames
    <3>5. QED  BY <3>3, <3>4, IdleTop
  <2>3. QED  BY <2>1, <2>2
<1>7. ASSUME RebuildDone PROVE CalleeIdle'
  <2>1. CASE UNCHANGED stack
    BY <1>1, <2>1
  <2>2. CASE ~UNCHANGED stack
    <3>1. PICK ref, active : SetTop([Top EXCEPT !.comp = NoComp, !.queue = ref, !.extent = active])
      BY <1>7, <2>2 DEF RebuildDone
    <3>2. PICK frame : frame = [Top EXCEPT !.comp = NoComp, !.queue = ref, !.extent = active]
      OBVIOUS
    <3>3. Depth > 0 /\ Top.await = "none"
      BY <1>7 DEF RebuildDone, Rebuilding, TypeOK, ReplayOK
    <3>4. frame.callee = NoCallee
      BY <3>2, <3>3, TopIdle, TopFacts DEF Frames
    <3>5. QED  BY <3>1, <3>2, <3>3, <3>4, IdleTop
  <2>3. QED  BY <2>1, <2>2
<1>8. ASSUME NEW c \in Suppliable, Supply(c) PROVE CalleeIdle'
  <2>1. /\ Depth > 0
        /\ EnterTarget(c) \/ Continue(c) \/ Transferred(c)
    BY <1>8 DEF Supply
  <2>2. CASE EnterTarget(c)
    <3>1. PICK queue, extent, ctx :
            SetTop([Top EXCEPT !.await = "none", !.comp = c, !.queue = queue,
                               !.extent = extent, !.ctx = ctx])
      BY <2>2 DEF EnterTarget
    <3>2. PICK frame : frame = [Top EXCEPT !.await = "none", !.comp = c, !.queue = queue,
                                           !.extent = extent, !.ctx = ctx]
      OBVIOUS
    <3>3. frame.callee = NoCallee
      BY <2>1, <2>2, <3>2, TopIdle, TopFacts DEF Frames, EnterTarget
    <3>4. QED  BY <2>1, <3>1, <3>2, <3>3, IdleTop
  <2>3. CASE Continue(c)
    <3>1. PICK frame : frame = [Top EXCEPT !.await = "none", !.callee = NoCallee, !.comp = c]
      OBVIOUS
    <3>2. SetTop(frame) /\ frame.callee = NoCallee
      BY <2>1, <2>3, <3>1, TopFacts DEF Continue, Frames
    <3>3. QED  BY <2>1, <3>2, IdleTop
  <2>4. CASE Transferred(c)
    <3>1. PICK frame : frame = [Top EXCEPT !.await = "none", !.owner = NoOwner, !.comp = c]
      OBVIOUS
    <3>2. SetTop(frame) /\ frame.callee = NoCallee
      BY <2>1, <2>4, <3>1, TopIdle, TopFacts DEF Transferred, Frames
    <3>3. QED  BY <2>1, <3>2, IdleTop
  <2>5. QED  BY <2>1, <2>2, <2>3, <2>4
<1>9. ASSUME NEW c, Run(c) PROVE CalleeIdle'
  <2>1. PICK frame : stack' = Append(stack, frame) /\ frame.callee = NoCallee
    BY <1>9 DEF Run
  <2>2. PICK S : S = Frames \cup {frame}
    OBVIOUS
  <2>3. stack \in Seq(S) /\ frame \in S /\ Depth = Len(stack) /\ Depth \in Nat
    BY <2>2 DEF TypeOK, StackOK, Depth
  <2>4. /\ Depth' = Depth + 1 /\ stack'[Depth + 1] = frame
        /\ \A d \in 1..Depth : stack'[d] = stack[d]
    BY <2>1, <2>3 DEF Depth
  <2>5. QED  BY <2>1, <2>3, <2>4 DEF CalleeIdle
<1>10. ASSUME ReplayStep PROVE UNCHANGED stack \/ RebuildDone
  BY <1>10 DEF ReplayStep, CloneCons, CloneAppend, CloneFinish, CloneTodo, RebuildCons,
     RebuildFinish
<1>11. ASSUME ExecutorStep PROVE CalleeIdle'
  <2>1. ASSUME Publish PROVE Depth > 0 /\ Pop
    BY <2>1 DEF Publish, Returning, Dispatching
  <2>2. ASSUME Resume PROVE UNCHANGED stack
    BY <2>2 DEF Resume
  <2>3. QED  BY <1>1, <1>2, <1>4, <1>5, <1>6, <1>11, <2>1, <2>2 DEF ExecutorStep
<1>12. ASSUME GuestStep PROVE CalleeIdle'
  <2>1. ASSUME NEW k, RawResume(k) \/ Once \/ Cancel(k) PROVE UNCHANGED stack
    BY <2>1 DEF RawResume, Once, Cancel
  <2>2. ASSUME Throw PROVE Depth > 0 /\ Pop
    BY <2>2 DEF Throw
  <2>3. QED  BY <1>1, <1>2, <1>8, <1>9, <1>12, <2>1, <2>2 DEF GuestStep
<1>13. ASSUME Exhaust PROVE Depth > 0 /\ Pop
  BY <1>13, ExhaustFacts DEF Exhaust
<1>14. QED  BY <1>1, <1>2, <1>7, <1>10, <1>11, <1>12, <1>13 DEF Next, MachineStep

LEMMA CalleesIdle == Spec => []CalleeIdle
<1>1. Init => CalleeIdle
  BY DEF Init, CalleeIdle, Depth
<1>2. TypeOK /\ CalleeIdle /\ [Next]_vars => CalleeIdle'
  <2>1. CalleeIdle /\ UNCHANGED vars => CalleeIdle'
    BY DEF vars, CalleeIdle, Depth
  <2>2. QED  BY <2>1, NextIdle
<1>3. QED  BY <1>1, <1>2, TypeCorrect, PTL DEF Spec

-----------------------------------------------------------------------------
(* The lists of a replay: W is what was captured, R the reversed list of   *)
(* what was traversed, X what is still to be traversed.                    *)

LEMMA Prepended ==
  ASSUME NEW S, NEW item \in S, NEW rest \in Seq(S), NEW w, w = <<item>> \o rest
  PROVE  /\ w \in Seq(S) /\ Len(rest) \in Nat /\ Len(w) = Len(rest) + 1
         /\ w[1] = item /\ \A i \in 1..Len(rest) : w[i + 1] = rest[i]
OBVIOUS

LEMMA OneItem ==
  ASSUME NEW S, NEW item \in S PROVE <<item>> \in Seq(S)
OBVIOUS

LEMMA WorkAssociates ==
  ASSUME NEW a \in Seq(WorkItems), NEW b \in Seq(WorkItems), NEW c \in Seq(WorkItems)
  PROVE  (a \o b) \o c = a \o (b \o c)
<1>1. WorkItems \subseteq Items
  BY DEF WorkItems, Items
<1>2. a \in Seq(Items) /\ b \in Seq(Items) /\ c \in Seq(Items)
  BY <1>1
<1>3. QED  BY <1>2, ListsAssociate

(* Places counted from the second occurrence of a list.                    *)
LEMMA PlacesAfterFirst ==
  ASSUME NEW n \in Nat, NEW i \in 1..(n + 1), i # 1, NEW k, k = i - 1
  PROVE  k \in 1..n /\ i = k + 1 /\ i - 1 = k /\ \A m \in Nat : (m + 1) + k = m + i
OBVIOUS

LEMMA PlacesBeforeLast ==
  ASSUME NEW n \in Nat, NEW i \in 1..n, NEW j \in 1..n, i + j = n + 1, NEW k, k = i + 1
  PROVE  k \in 1..(n + 1) /\ j \in 1..(n + 1) /\ k + j = (n + 1) + 1
OBVIOUS

(* The same occurrence; a saved finish loses the extent it restores.       *)
Alike(x, y) ==
  /\ x.tag = y.tag
  /\ x.tag = "Then" => x = y
  /\ x.tag = "Finish" => x.extent = y.extent

Mirrors(W, R) ==
  /\ Len(R) <= Len(W)
  /\ \A i, j \in 1..Len(R) : i + j = Len(R) + 1 => Alike(R[i], W[j])

Follows(W, n, X) == Len(W) = n + Len(X) /\ \A i \in 1..Len(X) : W[n + i] = X[i]

LEMMA MirrorsMore ==
  ASSUME NEW W \in Seq(WorkItems), NEW R \in Seq(WorkItems), Mirrors(W, R),
         NEW y \in WorkItems, NEW N, N = <<y>> \o R, Len(R) + 1 <= Len(W),
         Alike(y, W[Len(R) + 1])
  PROVE  Mirrors(W, N)
<1>1. /\ Len(R) \in Nat /\ Len(N) = Len(R) + 1
      /\ N[1] = y /\ \A i \in 1..Len(R) : N[i + 1] = R[i]
  BY Prepended
<1>2. \A i \in 1..Len(N) : i = 1 \/ (i - 1 \in 1..Len(R) /\ N[i] = R[i - 1])
  <2>1. \A i \in 1..Len(N) : i = 1 \/ (i - 1 \in 1..Len(R) /\ i = (i - 1) + 1)
    BY <1>1
  <2>2. QED  BY <1>1, <2>1
<1>3. ASSUME NEW i \in 1..Len(N), NEW j \in 1..Len(N), i + j = Len(N) + 1
      PROVE  Alike(N[i], W[j])
  <2>1. CASE i = 1
    BY <1>1, <1>3, <2>1
  <2>2. CASE i # 1
    <3>1. PICK k : k = i - 1
      OBVIOUS
    <3>2. k \in 1..Len(R) /\ j \in 1..Len(R) /\ k + j = Len(R) + 1 /\ N[i] = R[k]
      BY <1>1, <1>2, <1>3, <2>2, <3>1
    <3>3. QED  BY <3>2 DEF Mirrors
  <2>3. QED  BY <2>1, <2>2
<1>4. QED  BY <1>1, <1>3 DEF Mirrors

LEMMA MirrorsLess ==
  ASSUME NEW W \in Seq(WorkItems), NEW R \in Seq(WorkItems), NEW y \in WorkItems,
         NEW N, N = <<y>> \o R, Mirrors(W, N)
  PROVE  Mirrors(W, R) /\ Len(R) + 1 <= Len(W) /\ Alike(y, W[Len(R) + 1])
<1>1. /\ Len(R) \in Nat /\ Len(N) = Len(R) + 1
      /\ N[1] = y /\ \A i \in 1..Len(R) : N[i + 1] = R[i]
  BY Prepended
<1>2. Alike(N[1], W[Len(R) + 1])
  BY <1>1 DEF Mirrors
<1>3. ASSUME NEW i \in 1..Len(R), NEW j \in 1..Len(R), i + j = Len(R) + 1
      PROVE  Alike(R[i], W[j])
  <2>1. PICK k : k = i + 1
    OBVIOUS
  <2>2. k \in 1..Len(N) /\ j \in 1..Len(N) /\ k + j = Len(N) + 1 /\ N[k] = R[i]
    <3>1. k \in 1..(Len(R) + 1) /\ j \in 1..(Len(R) + 1) /\ k + j = (Len(R) + 1) + 1
      BY <1>1, <1>3, <2>1, PlacesBeforeLast
    <3>2. N[k] = R[i]
      BY <1>1, <2>1
    <3>3. QED  BY <1>1, <3>1, <3>2
  <2>3. Alike(N[k], W[j])
    BY <2>2 DEF Mirrors
  <2>4. QED  BY <2>2, <2>3
<1>4. QED  BY <1>1, <1>2, <1>3 DEF Mirrors

LEMMA FollowsLess ==
  ASSUME NEW S, NEW W \in Seq(S), NEW n \in Nat, NEW x \in S, NEW Y \in Seq(S),
         NEW X, X = <<x>> \o Y, Follows(W, n, X)
  PROVE  W[n + 1] = x /\ n + 1 <= Len(W) /\ Follows(W, n + 1, Y)
<1>1. /\ Len(Y) \in Nat /\ Len(X) = Len(Y) + 1
      /\ X[1] = x /\ \A i \in 1..Len(Y) : X[i + 1] = Y[i]
  BY Prepended
<1>2. Len(W) = n + Len(X) /\ \A i \in 1..Len(X) : W[n + i] = X[i]
  BY DEF Follows
<1>3. W[n + 1] = x /\ n + 1 <= Len(W) /\ Len(W) = (n + 1) + Len(Y)
  BY <1>1, <1>2
<1>4. ASSUME NEW i \in 1..Len(Y) PROVE W[(n + 1) + i] = Y[i]
  <2>1. PICK k : k = i + 1
    OBVIOUS
  <2>2. k \in 1..Len(X) /\ X[k] = Y[i] /\ n + k = (n + 1) + i
    BY <1>1, <2>1
  <2>3. W[n + k] = X[k]
    BY <1>2, <2>2
  <2>4. QED  BY <2>2, <2>3
<1>5. QED  BY <1>3, <1>4 DEF Follows

LEMMA FollowsMore ==
  ASSUME NEW S, NEW W \in Seq(S), NEW n \in Nat, NEW x \in S, NEW Y \in Seq(S),
         NEW X, X = <<x>> \o Y, W[n + 1] = x, Follows(W, n + 1, Y)
  PROVE  Follows(W, n, X)
<1>1. /\ Len(Y) \in Nat /\ Len(X) = Len(Y) + 1
      /\ X[1] = x /\ \A i \in 1..Len(Y) : X[i + 1] = Y[i]
  BY Prepended
<1>2. Len(W) = (n + 1) + Len(Y) /\ \A i \in 1..Len(Y) : W[(n + 1) + i] = Y[i]
  BY DEF Follows
<1>3. ASSUME NEW i \in 1..Len(X) PROVE W[n + i] = X[i]
  <2>1. CASE i = 1
    BY <1>1, <2>1
  <2>2. CASE i # 1
    <3>1. PICK k : k = i - 1
      OBVIOUS
    <3>2. k \in 1..Len(Y) /\ i = k + 1 /\ (n + 1) + k = n + i
      <4>1. i \in 1..(Len(Y) + 1)
        BY <1>1
      <4>2. QED  BY <1>1, <2>2, <3>1, <4>1, PlacesAfterFirst
    <3>3. X[i] = Y[k] /\ W[(n + 1) + k] = Y[k]
      BY <1>1, <1>2, <3>2
    <3>4. QED  BY <3>2, <3>3
  <2>3. QED  BY <2>1, <2>2
<1>4. QED  BY <1>1, <1>2, <1>3 DEF Follows

(* How many finishes a list has from a place on.                           *)
FinishPlaces(W, i) == {j \in i..Len(W) : Contract!IsFinish(W[j])}

LEMMA FinishesCounted ==
  ASSUME NEW W \in Seq(WorkItems), NEW i \in Nat
  PROVE  /\ IsFiniteSet(FinishPlaces(W, i))
         /\ Contract!FinishesFrom(W, i) = Cardinality(FinishPlaces(W, i))
         /\ Contract!FinishesFrom(W, i) \in Nat
<1>1. IsFiniteSet(i..Len(W))
  <2>1. i \in Int /\ Len(W) \in Int
    OBVIOUS
  <2>2. QED  BY <2>1, FS_Interval
<1>2. IsFiniteSet(FinishPlaces(W, i))
  <2>1. FinishPlaces(W, i) \in SUBSET (i..Len(W))
    BY DEF FinishPlaces
  <2>2. QED  BY <1>1, <2>1, FS_Subset
<1>3. Contract!FinishesFrom(W, i) = Cardinality(FinishPlaces(W, i))
  BY Zenon DEF FinishPlaces, Contract!FinishesFrom, Cardinality, Contract!Cardinality
<1>4. QED  BY <1>2, <1>3, FS_CardinalityType

LEMMA FinishesStep ==
  ASSUME NEW W \in Seq(WorkItems), NEW i \in 1..Len(W)
  PROVE  /\ W[i].tag = "Finish" =>
              Contract!FinishesFrom(W, i) = Contract!FinishesFrom(W, i + 1) + 1
         /\ W[i].tag # "Finish" =>
              Contract!FinishesFrom(W, i) = Contract!FinishesFrom(W, i + 1)
<1>1. PICK n : n = i + 1
  OBVIOUS
<1>2. i \in Nat /\ n \in Nat /\ i \notin n..Len(W) /\ \A j \in i..Len(W) : j = i \/ j \in n..Len(W)
  BY <1>1
<1>3. /\ IsFiniteSet(FinishPlaces(W, n))
      /\ Contract!FinishesFrom(W, n) = Cardinality(FinishPlaces(W, n))
      /\ Contract!FinishesFrom(W, i) = Cardinality(FinishPlaces(W, i))
  BY <1>2, FinishesCounted
<1>4. CASE W[i].tag = "Finish"
  <2>1. FinishPlaces(W, i) = FinishPlaces(W, n) \cup {i}
    BY <1>1, <1>2, <1>4 DEF FinishPlaces, Contract!IsFinish
  <2>2. i \notin FinishPlaces(W, n)
    BY <1>2 DEF FinishPlaces
  <2>3. Cardinality(FinishPlaces(W, i)) = Cardinality(FinishPlaces(W, n)) + 1
    BY <1>3, <2>1, <2>2, FS_AddElement
  <2>4. QED  BY <1>1, <1>3, <1>4, <2>3
<1>5. CASE W[i].tag # "Finish"
  <2>1. FinishPlaces(W, i) = FinishPlaces(W, n)
    BY <1>1, <1>2, <1>5 DEF FinishPlaces, Contract!IsFinish
  <2>2. QED  BY <1>1, <1>3, <1>5, <2>1
<1>6. QED  BY <1>4, <1>5

(* What the contract's replay makes of the captured list.                  *)
LEMMA ReplayedFacts ==
  ASSUME NEW W \in Seq(WorkItems), NEW b \in Nat, NEW a \in Nat,
         NEW V, V = Contract!Replayed(W, b, a)
  PROVE  /\ V \in Seq(WorkItems) /\ Len(V) = Len(W)
         /\ \A i \in 1..Len(W) :
              /\ V[i].tag = W[i].tag
              /\ W[i].tag = "Then" => V[i] = W[i]
              /\ W[i].tag = "Finish" =>
                   LET n == Contract!FinishesFrom(W, i)
                   IN  V[i] = Marker(b + n, IF n = 1 THEN a ELSE b + n - 1)
<1> DEFINE Item(i) ==
             IF Contract!IsFinish(W[i])
             THEN [W[i] EXCEPT !.extent = b + Contract!FinishesFrom(W, i),
                               !.parent = IF Contract!FinishesFrom(W, i) = 1 THEN a
                                          ELSE b + Contract!FinishesFrom(W, i) - 1]
             ELSE W[i]
<1>1. V = [i \in 1..Len(W) |-> Item(i)]
  BY Zenon DEF Contract!Replayed
<1>2. ASSUME NEW i \in 1..Len(W)
      PROVE  /\ Item(i) \in WorkItems /\ Item(i).tag = W[i].tag
             /\ W[i].tag = "Then" => Item(i) = W[i]
             /\ W[i].tag = "Finish" =>
                  Item(i) = Marker(b + Contract!FinishesFrom(W, i),
                                   IF Contract!FinishesFrom(W, i) = 1 THEN a
                                   ELSE b + Contract!FinishesFrom(W, i) - 1)
  <2>1. PICK x : x = W[i]
    OBVIOUS
  <2>2. x \in WorkItems
    BY <2>1
  <2>3. CASE x.tag = "Finish"
    <3>1. PICK n, p : n = Contract!FinishesFrom(W, i) /\ p = IF n = 1 THEN a ELSE b + n - 1
      OBVIOUS
    <3>2. n \in Nat /\ n >= 1
      <4>1. n = Contract!FinishesFrom(W, i + 1) + 1
        BY <2>1, <2>3, <3>1, FinishesStep
      <4>2. Contract!FinishesFrom(W, i + 1) \in Nat
        <5>1. i + 1 \in Nat
          OBVIOUS
        <5>2. QED  BY <5>1, FinishesCounted
      <4>3. QED  BY <4>1, <4>2
    <3>3. p \in Nat
      BY <3>1, <3>2
    <3>4. x \in [tag : {"Finish"}, extent : Nat, parent : Nat]
      BY <2>2, <2>3 DEF WorkItems
    <3>5. Item(i) = [x EXCEPT !.extent = b + n, !.parent = p]
      BY <2>1, <2>3, <3>1 DEF Contract!IsFinish
    <3> HIDE DEF Item
    <3>6. Item(i) = Marker(b + n, p)
      BY <3>4, <3>5 DEF Marker
    <3>7. Item(i) \in WorkItems /\ Item(i).tag = "Finish"
      BY <3>2, <3>3, <3>6 DEF Marker, WorkItems
    <3>8. QED  BY <2>1, <2>3, <3>1, <3>6, <3>7
  <2>4. CASE x.tag # "Finish"
    <3>1. Item(i) = x
      BY <2>1, <2>4 DEF Contract!IsFinish
    <3> HIDE DEF Item
    <3>2. QED  BY <2>1, <2>2, <2>4, <3>1
  <2>5. QED  BY <2>3, <2>4
<1> HIDE DEF Item
<1>3. V \in Seq(WorkItems) /\ Len(V) = Len(W) /\ \A i \in 1..Len(W) : V[i] = Item(i)
  BY <1>1, <1>2
<1>4. QED  BY <1>2, <1>3

SameTags(V, W) == Len(V) = Len(W) /\ \A i \in 1..Len(W) : V[i].tag = W[i].tag

LEMMA ReplayedTags ==
  ASSUME NEW W \in Seq(WorkItems), NEW b \in Nat, NEW a \in Nat
  PROVE  /\ Contract!Replayed(W, b, a) \in Seq(WorkItems)
         /\ SameTags(Contract!Replayed(W, b, a), W)
<1>1. PICK V : V = Contract!Replayed(W, b, a)
  OBVIOUS
<1>2. V \in Seq(WorkItems) /\ Len(V) = Len(W) /\ \A i \in 1..Len(W) : V[i].tag = W[i].tag
  BY <1>1, ReplayedFacts
<1>3. SameTags(V, W)
  BY <1>2 DEF SameTags
<1>4. QED  BY <1>1, <1>2, <1>3

(* A replay in progress has allocated one extent for each finish it has    *)
(* rebuilt.                                                                *)
LEMMA RebuiltCount ==
  ASSUME NEW W \in Seq(WorkItems), NEW V \in Seq(WorkItems), SameTags(V, W),
         NEW n \in Nat, NEW T \in Seq(WorkItems), Follows(V, n, T)
  PROVE  Cardinality(Markers(T)) = Contract!FinishesFrom(W, n + 1)
<1>1. PICK k \in Nat : k = n + 1
  OBVIOUS
<1>2. /\ Len(V) = Len(W) /\ Len(V) = n + Len(T) /\ \A i \in 1..Len(T) : V[n + i] = T[i]
      /\ \A i \in 1..Len(W) : V[i].tag = W[i].tag
  BY DEF Follows, SameTags
<1>3. \A i \in 1..Len(W) : W[i].tag \in {"Then", "Finish"}
  BY DEF WorkItems
<1>4. ASSUME NEW i \in 1..Len(T)
      PROVE  n + i \in k..Len(W) /\ n + i \in 1..Len(W) /\ W[n + i].tag = T[i].tag
  <2>1. PICK l, j : l = Len(T) /\ j = n + i
    OBVIOUS
  <2>2. l \in Nat /\ Len(W) = n + l /\ i \in 1..l
    BY <1>2, <2>1
  <2>3. j \in k..Len(W) /\ j \in 1..Len(W)
    BY <1>1, <2>1, <2>2
  <2>4. W[j].tag = T[i].tag
    BY <1>2, <2>1, <2>3
  <2>5. QED  BY <2>1, <2>3, <2>4
<1>5. ASSUME NEW j \in k..Len(W) PROVE j - n \in 1..Len(T) /\ n + (j - n) = j
  BY <1>1, <1>2
<1> DEFINE A == FinishPlaces(W, k)
           B == Markers(T)
           f == [j \in A |-> j - n]
<1>6. ASSUME NEW j \in A PROVE j - n \in B
  <2>1. j \in k..Len(W) /\ W[j].tag = "Finish"
    BY DEF FinishPlaces, Contract!IsFinish
  <2>2. PICK i : i = j - n
    OBVIOUS
  <2>3. i \in 1..Len(T) /\ n + i = j
    BY <1>5, <2>1, <2>2
  <2>4. T[i].tag = "Finish"
    BY <1>4, <2>1, <2>3
  <2>5. QED  BY <2>2, <2>3, <2>4 DEF Markers
<1>7. ASSUME NEW i \in B PROVE n + i \in A /\ (n + i) - n = i
  <2>1. i \in 1..Len(T) /\ T[i].tag # "Then"
    BY DEF Markers
  <2>2. PICK j : j = n + i
    OBVIOUS
  <2>3. j \in k..Len(W) /\ W[j].tag = "Finish"
    BY <1>3, <1>4, <2>1, <2>2
  <2>4. QED  BY <2>1, <2>2, <2>3 DEF FinishPlaces, Contract!IsFinish
<1>8. A \subseteq Nat
  BY <1>1 DEF FinishPlaces
<1>9. f \in Bijection(A, B)
  <2>1. f \in [A -> B]
    BY <1>6
  <2>2. \A x, y \in A : f[x] = f[y] => x = y
    BY <1>8
  <2>3. \A i \in B : \E j \in A : f[j] = i
    BY <1>7
  <2> HIDE DEF f, A, B
  <2>4. QED  BY <2>1, <2>2, <2>3 DEF Bijection, Injection, Surjection, IsInjective
<1>10. IsFiniteSet(A) /\ Contract!FinishesFrom(W, k) = Cardinality(A)
  BY <1>1, FinishesCounted
<1> HIDE DEF f, A, B
<1>11. ExistsBijection(A, B)
  BY <1>9 DEF ExistsBijection
<1>12. Cardinality(B) = Cardinality(A)
  BY <1>10, <1>11, FS_Bijection
<1>13. QED  BY <1>1, <1>10, <1>12 DEF B

-----------------------------------------------------------------------------
(* Where a replay stands.                                                  *)

(* The sets of Append nodes, and Empty, that hold what is to their right.  *)
Spines ==
  {S \in SUBSET (0..Len(nodes)) :
     \A q \in S : q = Empty \/ (nodes[q].tag = "Append" /\ nodes[q].right \in S)}

IsSpine(q) == \E S \in Spines : q \in S

LEMMA EmptyIsSpine == TypeOK => IsSpine(Empty)
<1> SUFFICES ASSUME TypeOK PROVE IsSpine(Empty)
  OBVIOUS
<1>1. {Empty} \in SUBSET (0..Len(nodes))
  BY LengthsAreNat DEF Empty
<1>2. {Empty} \in Spines
  BY <1>1 DEF Spines
<1>3. QED  BY <1>2 DEF IsSpine

LEMMA NewEmptyIsSpine == TypeOK' => IsSpine(Empty)'
BY EmptyIsSpine, PTL DEF Empty

LEMMA SpineParts ==
  ASSUME TypeOK, NEW q, IsSpine(q)
  PROVE  /\ Kind(q) \in {"Empty", "Append"}
         /\ Kind(q) = "Append" => IsSpine(nodes[q].right)
<1>1. PICK S \in Spines : q \in S
  BY DEF IsSpine
<1>2. CASE q = Empty
  BY <1>2 DEF Kind
<1>3. CASE q # Empty
  <2>1. Kind(q) = nodes[q].tag
    BY <1>3 DEF Kind
  <2>2. nodes[q].tag = "Append" /\ nodes[q].right \in S
    BY <1>1, <1>3 DEF Spines
  <2>3. QED  BY <2>1, <2>2 DEF IsSpine
<1>4. QED  BY <1>2, <1>3

LEMMA SpineGrows ==
  ASSUME TypeOK, TypeOK', Grows, NEW q, IsSpine(q) PROVE IsSpine(q)'
<1>1. PICK S \in Spines : q \in S
  BY DEF IsSpine
<1>2. Len(nodes) \in Nat /\ Len(nodes') \in Nat /\ Len(nodes) <= Len(nodes')
  BY LengthsAreNat DEF Grows
<1>3. S \in SUBSET (0..Len(nodes)) /\ S \in SUBSET (0..Len(nodes'))
  BY <1>2 DEF Spines
<1>4. \A i \in S : i # Empty => nodes'[i] = nodes[i]
  BY <1>2, <1>3 DEF Grows, Empty
<1>5. S \in Spines'
  BY <1>3, <1>4 DEF Spines
<1>6. QED  BY <1>1, <1>5 DEF IsSpine

SpineRule ==
  \A q \in 1..Len(nodes) :
    nodes[q].tag = "Append" /\ IsSpine(nodes[q].right) => IsSpine(q)

LEMMA NewSpines == SpineRule'
<1>1. SpineRule
  <2>1. ASSUME NEW q \in 1..Len(nodes), nodes[q].tag = "Append", IsSpine(nodes[q].right)
        PROVE  IsSpine(q)
    <3>1. PICK S \in Spines : nodes[q].right \in S
      BY <2>1 DEF IsSpine
    <3>2. q \in 0..Len(nodes)
      OBVIOUS
    <3>3. S \cup {q} \in Spines
      BY <2>1, <3>1, <3>2 DEF Spines
    <3>4. QED  BY <3>3 DEF IsSpine
  <2>2. QED  BY <2>1 DEF SpineRule
<1>2. QED  BY <1>1, PTL

(* What the replay is of, for the contract.                                *)
Resumed == FlatRaws[Contract!Top.comp.raw]

FinishesUsable(W, n) ==
  \A i \in 1..n : W[i].tag = "Finish" => Contract!Usable(W[i].extent)

(* The traversal has mirrored a part of the captured list, whose finishes  *)
(* are all usable; the queue it is in and the ones on the stack follow.    *)
Traverses ==
  /\ Mirrors(Resumed.work, FlatNodes[replay.reversed])
  /\ Follows(Resumed.work, Len(FlatNodes[replay.reversed]),
             FlatNodes[replay.queue] \o FlatNodes[replay.todo])
  /\ FinishesUsable(Resumed.work, Len(FlatNodes[replay.reversed]))
  /\ IsSpine(replay.todo)
  /\ replay.active = Contract!Top.extent
  /\ replay.parent = Contract!DispatchExtent

(* The captured list, as the contract's replay leaves it.                  *)
Result == Contract!Replayed(Resumed.work, Base, Contract!Top.extent)

(* n extents from b on, each a child of the one before it.                 *)
ExtentsFrom(E, b, n, D) ==
  \A j \in 1..n :
    E[b + j] = [parent |-> IF j = 1 THEN D ELSE b + j - 1, status |-> 0]

(* The extent that holds the ones rebuilt so far.                          *)
Innermost(e) == IF Unpublished = 0 THEN e ELSE Len(extents)

(* The last part of the list is rebuilt as the contract's replay does it,  *)
(* the rest is still mirrored.                                             *)
Rebuilds ==
  /\ Mirrors(Resumed.work, FlatNodes[replay.reversed])
  /\ Follows(Result, Len(FlatNodes[replay.reversed]), FlatNodes[replay.todo])
  /\ FinishesUsable(Resumed.work, Len(Resumed.work))
  /\ Unpublished \in Nat /\ Base \in Nat
  /\ ExtentsFrom(extents, Base, Unpublished, Contract!DispatchExtent)
  /\ replay.active = Innermost(Contract!Top.extent)
  /\ replay.parent = Innermost(Contract!DispatchExtent)

ReplayInv ==
  replay.pc # "idle" =>
    /\ Contract!Top.comp.tag = "Resume"
    /\ Contract!Usable(Resumed.checkpoint)
    /\ replay.pc = "clone" => Traverses
    /\ replay.pc = "rebuild" => Rebuilds

LEMMA ResumedFacts ==
  ASSUME TypeOK, Depth > 0, NEW t, t = Contract!Top, t.comp.tag = "Resume"
  PROVE  /\ t \in FlatFrames /\ t.comp = Top.comp /\ t.extent \in Nat
         /\ t.comp.raw \in 1..Len(raws) /\ t.comp.raw \in 1..Len(FlatRaws)
         /\ Resumed = FlatRaws[t.comp.raw] /\ Resumed \in FlatRawRecords
         /\ Resumed.work \in Seq(WorkItems)
         /\ Resumed.work = FlatNodes[raws[t.comp.raw].queue]
         /\ Resumed.checkpoint = raws[t.comp.raw].checkpoint
<1>1. t \in FlatFrames /\ t.comp = Top.comp /\ FrameOK(Top)
  BY TopFields, TopFacts
<1>2. PICK k : k = t.comp.raw
  OBVIOUS
<1>3. k \in 1..Len(raws)
  BY <1>1, <1>2 DEF FrameOK, CompOK
<1>4. /\ FlatRaws[k] \in FlatRawRecords /\ FlatRaws[k].work = FlatNodes[raws[k].queue]
      /\ FlatRaws[k].checkpoint = raws[k].checkpoint /\ k \in 1..Len(FlatRaws)
  BY <1>3, FlatRawsFacts DEF FlatRawsRule
<1>5. Resumed = FlatRaws[k]
  BY <1>2 DEF Resumed
<1>6. t.extent \in Nat
  BY <1>1 DEF FlatFrames
<1>7. Resumed.work \in Seq(WorkItems)
  BY <1>4, <1>5 DEF FlatRawRecords
<1>8. QED  BY <1>1, <1>2, <1>3, <1>4, <1>5, <1>6, <1>7

(* The lists a replay works on.                                            *)
LEMMA ReplayLists ==
  ASSUME TypeOK, replay.pc # "idle", ReplayInv
  PROVE  /\ Depth > 0 /\ RegistersOK(replay) /\ Contract!Top.comp.tag = "Resume"
         /\ FlatNodes[replay.reversed] \in Seq(WorkItems)
         /\ FlatNodes[replay.queue] \in Seq(WorkItems)
         /\ FlatNodes[replay.todo] \in Seq(WorkItems)
         /\ Resumed.work \in Seq(WorkItems)
         /\ Contract!Top.extent \in Nat
<1>1. Depth > 0 /\ RegistersOK(replay)
  BY ReplayFacts
<1>2. PICK t : t = Contract!Top
  OBVIOUS
<1>3. t.comp.tag = "Resume"
  BY <1>2 DEF ReplayInv
<1>4. Resumed.work \in Seq(WorkItems) /\ t.extent \in Nat
  BY <1>1, <1>2, <1>3, ResumedFacts
<1>5. /\ FlatNodes[replay.reversed] \in Seq(WorkItems)
      /\ FlatNodes[replay.queue] \in Seq(WorkItems)
      /\ FlatNodes[replay.todo] \in Seq(WorkItems)
  BY <1>1, QueueHoldsWork DEF RegistersOK
<1>6. QED  BY <1>1, <1>2, <1>3, <1>4, <1>5

(* Nothing the contract sees changes.                                      *)
LEMMA SameContract ==
  ASSUME TypeOK, TypeOK', Grows, UNCHANGED <<stack, raws>>, Published' = Published
  PROVE  /\ FlatRuns' = FlatRuns /\ FlatRaws' = FlatRaws
         /\ Contract!Top' = Contract!Top /\ Resumed' = Resumed
         /\ Contract!DispatchExtent' = Contract!DispatchExtent
         /\ \A e : Contract!Usable(e)' <=> Contract!Usable(e)
         /\ \A W, n : FinishesUsable(W, n)' <=> FinishesUsable(W, n)
<1>1. FlatRuns' = FlatRuns /\ FlatRaws' = FlatRaws
  BY SameRunsKept, FlatRawsKept
<1>2. Contract!Top' = Contract!Top
  BY <1>1 DEF Contract!Top, Contract!Depth
<1>3. Resumed' = Resumed /\ Contract!DispatchExtent' = Contract!DispatchExtent
  BY <1>1, <1>2 DEF Resumed, Contract!DispatchExtent
<1>4. PICK E : E = Published
  OBVIOUS
<1>5. \A e : Contract!Usable(e)' <=> Contract!Usable(e)
  <2>1. TAKE e
  <2> DEFINE Chain ==
               CHOOSE F : F = [i \in 0..Len(E) |->
                                 IF i = 0 THEN TRUE ELSE E[i].status = 0 /\ F[E[i].parent]]
  <2>2. Contract!Usable(e) = Chain[e]
    BY <1>4 DEF Contract!Usable
  <2>3. Contract!Usable(e)' = Chain[e]
    BY <1>4 DEF Contract!Usable
  <2> HIDE DEF Chain
  <2>4. QED  BY <2>2, <2>3
<1>6. \A W, n : FinishesUsable(W, n)' <=> FinishesUsable(W, n)
  BY <1>5 DEF FinishesUsable
<1>7. QED  BY <1>1, <1>2, <1>3, <1>5, <1>6

(* A finish in a queue is usable for the contract if it is.                *)
LEMMA SeenUsable ==
  ASSUME TypeOK, replay.pc # "rebuild", NEW e, IsExtent(e)
  PROVE  Contract!Usable(e) <=> Usable(e)
<1>1. PICK b : b = Len(extents)
  OBVIOUS
<1>2. b \in Nat /\ b = Base /\ b <= Len(extents) /\ e \in 1..b
  BY <1>1, AllPublished DEF IsExtent
<1>3. QED  BY <1>2, PublishedUsable

(* The extents of the contract when the replay has none.                   *)
LEMMA NothingUnpublished ==
  ASSUME TypeOK, Unpublished = 0
  PROVE  Published = extents /\ Base = Len(extents) /\ Len(extents) \in Nat
<1>1. extents \in Seq(Extents) /\ Len(extents) \in Nat
  BY DEF TypeOK, ExtentsOK
<1>2. PICK n : n = Len(extents) - Unpublished
  OBVIOUS
<1>3. n = Len(extents) /\ n \in Nat
  BY <1>1, <1>2
<1>4. SubSeq(extents, 1, n) = extents
  <2>1. /\ SubSeq(extents, 1, n) \in Seq(Extents) /\ Len(SubSeq(extents, 1, n)) = n
        /\ \A i \in 1..n : SubSeq(extents, 1, n)[i] = extents[i]
    BY <1>1, <1>3, PrefixFacts
  <2>2. QED  BY <1>1, <1>3, <2>1, SequencesEqual
<1>5. QED  BY <1>1, <1>2, <1>3, <1>4 DEF Published, Base

NothingUnpublishedRule ==
  TypeOK /\ Unpublished = 0 => Published = extents /\ Base = Len(extents)

LEMMA NewNothingUnpublished == NothingUnpublishedRule'
<1>1. NothingUnpublishedRule
  BY NothingUnpublished DEF NothingUnpublishedRule
<1>2. QED  BY <1>1, PTL

(* A state of the traversal.                                               *)
LEMMA TraversesSet ==
  ASSUME TypeOK, TypeOK', Grows, UNCHANGED <<stack, raws>>, Published' = Published,
         replay'.pc = "clone", Contract!Top.comp.tag = "Resume",
         Contract!Usable(Resumed.checkpoint),
         NEW W, W = Resumed.work, NEW R, R = FlatNodes'[replay'.reversed],
         NEW X, X = FlatNodes'[replay'.queue] \o FlatNodes'[replay'.todo],
         Mirrors(W, R), Follows(W, Len(R), X), FinishesUsable(W, Len(R)),
         NEW todo, todo = replay'.todo, IsSpine(todo)',
         replay'.active = Contract!Top.extent, replay'.parent = Contract!DispatchExtent
  PROVE  ReplayInv'
<1>1. /\ Contract!Top' = Contract!Top /\ Resumed' = Resumed
      /\ Contract!DispatchExtent' = Contract!DispatchExtent
      /\ \A e : Contract!Usable(e)' <=> Contract!Usable(e)
      /\ \A V, n : FinishesUsable(V, n)' <=> FinishesUsable(V, n)
  BY SameContract
<1>2. PICK n, c : n = Len(R) /\ c = Resumed.checkpoint
  OBVIOUS
<1>3. FinishesUsable(W, n)' /\ Contract!Usable(c)'
  BY <1>1, <1>2
<1>4. Traverses'
  <2>1. FinishesUsable(Resumed.work, Len(FlatNodes[replay.reversed]))'
    BY <1>1, <1>2, <1>3 DEF FinishesUsable
  <2>2. IsSpine(replay.todo)'
    BY DEF IsSpine
  <2>3. Mirrors(Resumed.work, FlatNodes[replay.reversed])'
    BY <1>1 DEF Mirrors
  <2>4. Follows(Resumed.work, Len(FlatNodes[replay.reversed]),
                FlatNodes[replay.queue] \o FlatNodes[replay.todo])'
    BY <1>1 DEF Follows
  <2>5. QED  BY <1>1, <2>1, <2>2, <2>3, <2>4 DEF Traverses
<1>5. Contract!Usable(Resumed.checkpoint)'
  BY <1>1, <1>2, <1>3
<1>6. QED  BY <1>1, <1>4, <1>5 DEF ReplayInv

(* A state of the rebuilding.                                              *)
LEMMA RebuildsSet ==
  ASSUME TypeOK, TypeOK', Grows, UNCHANGED <<stack, raws>>, Published' = Published,
         replay'.pc = "rebuild", Contract!Top.comp.tag = "Resume",
         Contract!Usable(Resumed.checkpoint), Base' \in Nat, Unpublished' \in Nat,
         Mirrors(Resumed.work, FlatNodes'[replay'.reversed]),
         Follows(Contract!Replayed(Resumed.work, Base', Contract!Top.extent),
                 Len(FlatNodes'[replay'.reversed]), FlatNodes'[replay'.todo]),
         FinishesUsable(Resumed.work, Len(Resumed.work)),
         ExtentsFrom(extents', Base', Unpublished', Contract!DispatchExtent),
         replay'.active = IF Unpublished' = 0 THEN Contract!Top.extent ELSE Len(extents'),
         replay'.parent = IF Unpublished' = 0 THEN Contract!DispatchExtent ELSE Len(extents')
  PROVE  ReplayInv'
<1>1. /\ Contract!Top' = Contract!Top /\ Resumed' = Resumed
      /\ Contract!DispatchExtent' = Contract!DispatchExtent
      /\ \A e : Contract!Usable(e)' <=> Contract!Usable(e)
      /\ \A V, m : FinishesUsable(V, m)' <=> FinishesUsable(V, m)
  BY SameContract
<1>2. PICK W, m, c : W = Resumed.work /\ m = Len(W) /\ c = Resumed.checkpoint
  OBVIOUS
<1>3. FinishesUsable(W, m)' /\ Contract!Usable(c)'
  BY <1>1, <1>2
<1>4. Rebuilds'
  <2>1. FinishesUsable(Resumed.work, Len(Resumed.work))'
    BY <1>1, <1>2, <1>3 DEF FinishesUsable
  <2>2. Mirrors(Resumed.work, FlatNodes[replay.reversed])'
    BY <1>1 DEF Mirrors
  <2>3. Follows(Result, Len(FlatNodes[replay.reversed]), FlatNodes[replay.todo])'
    BY <1>1 DEF Follows, Result
  <2>4. Innermost(Contract!Top.extent)' = replay'.active
    BY <1>1 DEF Innermost
  <2>5. Innermost(Contract!DispatchExtent)' = replay'.parent
    BY <1>1 DEF Innermost
  <2>6. ExtentsFrom(extents, Base, Unpublished, Contract!DispatchExtent)'
    BY <1>1 DEF ExtentsFrom
  <2>7. QED  BY <1>1, <2>1, <2>2, <2>3, <2>4, <2>5, <2>6 DEF Rebuilds
<1>5. Contract!Usable(Resumed.checkpoint)'
  BY <1>1, <1>2, <1>3
<1>6. QED  BY <1>1, <1>4, <1>5 DEF ReplayInv


-----------------------------------------------------------------------------
(* A replay begins, and traverses what was captured.                       *)

(* The contract rejects a resumption when the machine does.                *)
LEMMA ReplayRejects ==
  ASSUME TypeOK, TypeOK', Grows, replay.pc # "rebuild",
         Depth > 0, Top.await = "none", outcome = "running", outcome' = "trapped",
         UNCHANGED <<extents, raws, owners, minted, stack, replay>>,
         Contract!Top.comp.tag = "Resume",
         \/ ~Contract!Usable(Resumed.checkpoint)
         \/ \E i \in 1..Len(Resumed.work) :
              Resumed.work[i].tag = "Finish" /\ ~Contract!Usable(Resumed.work[i].extent)
  PROVE  Contract!Replay
<1>1. Published' = Published /\ FlatRaws' = FlatRaws /\ FlatRuns' = FlatRuns
  BY OutsideReplay, FlatRawsKept, SameRunsKept
<1>2. Contract!Trap
  BY <1>1 DEF Contract!Trap
<1>3. Contract!Dispatching
  BY TopFields, FlatRunsFacts DEF Contract!Dispatching
<1>4. PICK k : k = Resumed
  OBVIOUS
<1>5. ~(/\ Contract!Usable(k.checkpoint)
        /\ \A i \in 1..Len(k.work) :
             Contract!IsFinish(k.work[i]) => Contract!Usable(k.work[i].extent))
  BY <1>4 DEF Contract!IsFinish
<1>6. FlatRaws[Contract!Top.comp.raw] = k
  BY <1>4 DEF Resumed
<1>7. QED  BY <1>2, <1>3, <1>5, <1>6 DEF Contract!Replay

LEMMA ResumeBegins ==
  ASSUME TypeOK, LinearInv, Resume
  PROVE  ReplayInv' /\ (UNCHANGED Contract!vars \/ Contract!Replay)
<1>1. TypeOK' /\ Grows
  BY NextGrows DEF Next, MachineStep, ExecutorStep
<1>2. PICK t, k, e, q, D :
        /\ t = Contract!Top /\ k = Top.comp.raw /\ e = raws[k].checkpoint
        /\ q = raws[k].queue /\ D = ContextExtent
  OBVIOUS
<1>3. /\ Dispatching /\ Top.comp.tag = "Resume"
      /\ UNCHANGED <<extents, raws, owners, minted, stack>>
  BY DEF Resume, heapVars
<1>4. /\ Depth > 0 /\ replay.pc = "idle" /\ outcome = "running" /\ Top.await = "none"
  BY <1>2, <1>3, ContractDispatches
<1>5. t.comp = Top.comp /\ t.comp.tag = "Resume" /\ t.extent = Top.extent
  BY <1>2, <1>3, <1>4, TopFields
<1>6. /\ k \in 1..Len(raws) /\ Resumed.checkpoint = e /\ Resumed.work = FlatNodes[q]
      /\ Resumed.work \in Seq(WorkItems)
  BY <1>2, <1>4, <1>5, ResumedFacts
<1>7. IsExtent(e) /\ IsQueue(q)
  BY <1>2, <1>6 DEF TypeOK, RawsOK, RawOK
<1>8. Contract!Usable(Resumed.checkpoint) <=> Usable(e)
  BY <1>4, <1>6, <1>7, SeenUsable
<1>9. CASE Usable(e)
  <2>1. /\ replay' = [Idle EXCEPT !.pc = "clone", !.queue = q, !.active = Top.extent,
                                 !.parent = D]
        /\ UNCHANGED outcome
    BY <1>2, <1>9 DEF Resume
  <2>2. /\ replay'.pc = "clone" /\ replay'.queue = q /\ replay'.todo = Empty
        /\ replay'.reversed = Empty /\ replay'.active = Top.extent /\ replay'.parent = D
    BY <2>1 DEF Idle
  <2>3. Published' = Published
    BY <1>1, <1>3, <1>4, <2>2, OutsideReplay
  <2>4. PICK W, R, X :
          /\ W = Resumed.work /\ R = FlatNodes'[replay'.reversed]
          /\ X = FlatNodes'[replay'.queue] \o FlatNodes'[replay'.todo]
    OBVIOUS
  <2>5. W \in Seq(WorkItems) /\ R = <<>> /\ X = W
    <3>1. FlatNodes'[Empty] = <<>> /\ FlatNodes'[q] = W
      BY <1>1, <1>6, <1>7, <2>4, NewEmptyList, ListKept
    <3>2. W \in Seq(WorkItems)
      BY <1>6, <2>4
    <3>3. W \o <<>> = W
      BY <3>2
    <3>4. QED  BY <2>2, <2>4, <3>1, <3>2, <3>3
  <2>6. Mirrors(W, R) /\ Follows(W, Len(R), X) /\ FinishesUsable(W, Len(R))
    BY <2>5 DEF Mirrors, Follows, FinishesUsable
  <2>7. IsSpine(Empty)'
    BY <1>1, NewEmptyIsSpine
  <2>8. Contract!DispatchExtent = D
    BY <1>2, <1>4, SameDispatchExtent
  <2>9. PICK todo : todo = replay'.todo
    OBVIOUS
  <2>10. IsSpine(todo)'
    BY <2>2, <2>7, <2>9 DEF IsSpine
  <2>11. ReplayInv'
    BY <1>1, <1>2, <1>3, <1>5, <1>8, <1>9, <2>2, <2>3, <2>4, <2>6, <2>8, <2>9, <2>10,
       TraversesSet
  <2>12. UNCHANGED Contract!vars
    BY <1>1, <1>3, <2>1, <2>3, SameRunsKept, Unseen
  <2>13. QED  BY <2>11, <2>12
<1>10. CASE ~Usable(e)
  <2>1. outcome' = "trapped" /\ UNCHANGED replay
    BY <1>2, <1>10 DEF Resume, Trap
  <2>2. Contract!Replay
    BY <1>1, <1>2, <1>3, <1>4, <1>5, <1>8, <1>10, <2>1, ReplayRejects
  <2>3. ReplayInv'
    BY <1>4, <2>1 DEF ReplayInv
  <2>4. QED  BY <2>2, <2>3
<1>11. QED  BY <1>9, <1>10

(* What every step of the traversal has in common.                         *)
LEMMA TraversalStep ==
  ASSUME TypeOK, ReplayInv, ReplayStep, replay.pc = "clone"
  PROVE  /\ TypeOK' /\ Grows /\ UNCHANGED <<extents, raws, owners, minted, stack>>
         /\ outcome = "running" /\ Depth > 0 /\ Top.await = "none" /\ replay \in Registers
         /\ IsQueue(replay.queue) /\ IsQueue(replay.todo) /\ IsQueue(replay.reversed)
         /\ IsExtent(replay.parent)
         /\ Contract!Top.comp.tag = "Resume" /\ Contract!Usable(Resumed.checkpoint)
         /\ Traverses
<1>1. TypeOK' /\ Grows
  BY NextGrows DEF Next, MachineStep
<1>2. /\ UNCHANGED <<extents, raws, owners, minted, stack>> /\ outcome = "running"
  BY DEF ReplayStep, CloneCons, CloneAppend, CloneFinish, CloneTodo, RebuildCons,
     RebuildFinish, RebuildDone, Cloning, Rebuilding, heapVars
<1>3. Depth > 0 /\ Top.await = "none" /\ RegistersOK(replay)
  BY ReplayFacts
<1>4. QED  BY <1>1, <1>2, <1>3 DEF RegistersOK, ReplayInv

(* The traversal passes one occurrence.                                    *)
LEMMA TraversalPasses ==
  ASSUME TypeOK, ReplayInv, ReplayStep, replay.pc = "clone", UNCHANGED outcome,
         NEW x \in WorkItems, NEW y \in WorkItems, Alike(y, x),
         x.tag = "Finish" => Contract!Usable(x.extent),
         NEW q, IsQueue(q), FlatNodes[replay.queue] = <<x>> \o FlatNodes[q],
         NEW ref, FlatNodes'[ref] = <<y>> \o FlatNodes[replay.reversed],
         replay' = [replay EXCEPT !.queue = q, !.reversed = ref]
  PROVE  ReplayInv' /\ UNCHANGED Contract!vars
<1>1. /\ TypeOK' /\ Grows /\ UNCHANGED <<extents, raws, owners, minted, stack>>
      /\ replay \in Registers
      /\ IsQueue(replay.queue) /\ IsQueue(replay.todo) /\ IsQueue(replay.reversed)
      /\ Contract!Top.comp.tag = "Resume" /\ Contract!Usable(Resumed.checkpoint)
      /\ Traverses
  BY TraversalStep
<1>2. /\ replay'.pc = "clone" /\ replay'.queue = q /\ replay'.todo = replay.todo
      /\ replay'.reversed = ref /\ replay'.active = replay.active
      /\ replay'.parent = replay.parent
  BY <1>1 DEF Registers
<1>3. Published' = Published
  BY <1>1, <1>2, OutsideReplay
<1>4. PICK W, R, Y, T, todo :
        /\ W = Resumed.work /\ R = FlatNodes[replay.reversed] /\ Y = FlatNodes[q]
        /\ todo = replay.todo /\ T = FlatNodes[todo]
  OBVIOUS
<1>5. W \in Seq(WorkItems) /\ R \in Seq(WorkItems) /\ Y \in Seq(WorkItems) /\ T \in Seq(WorkItems)
  BY <1>1, <1>4, ReplayLists, QueueHoldsWork
<1>6. PICK n, X, Z : n = Len(R) /\ X = (<<x>> \o Y) \o T /\ Z = Y \o T
  OBVIOUS
<1>7. n \in Nat /\ Z \in Seq(WorkItems) /\ X = <<x>> \o Z
  <2>1. PICK l \in Seq(WorkItems) : l = <<x>>
    BY OneItem
  <2>2. (l \o Y) \o T = l \o (Y \o T)
    BY <1>5, WorkAssociates
  <2>3. n \in Nat /\ Z \in Seq(WorkItems)
    BY <1>5, <1>6
  <2>4. X = <<x>> \o Z
    BY <1>6, <2>1, <2>2, Zenon
  <2>5. QED  BY <2>3, <2>4
<1>8. Mirrors(W, R) /\ Follows(W, n, X) /\ FinishesUsable(W, n)
  BY <1>1, <1>4, <1>6 DEF Traverses
<1>9. W[n + 1] = x /\ n + 1 <= Len(W) /\ Follows(W, n + 1, Z)
  BY <1>5, <1>7, <1>8, FollowsLess
<1>10. PICK N, F : N = <<y>> \o R /\ F = FlatNodes'[q] \o FlatNodes'[todo]
  OBVIOUS
<1>11. Len(N) = n + 1 /\ Mirrors(W, N)
  <2>1. Len(N) = n + 1
    BY <1>5, <1>6, <1>10, Prepended
  <2>2. Len(R) + 1 <= Len(W) /\ Alike(y, W[Len(R) + 1])
    BY <1>6, <1>9
  <2>3. Mirrors(W, N)
    BY <1>5, <1>8, <1>10, <2>2, MirrorsMore
  <2>4. QED  BY <2>1, <2>3
<1>12. F = Z
  <2>1. FlatNodes'[q] = Y /\ FlatNodes'[todo] = T
    BY <1>1, <1>4, ListKept
  <2>2. QED  BY <1>6, <1>10, <2>1
<1>13. FinishesUsable(W, Len(N))
  <2>1. \A i \in 1..(n + 1) : i \in 1..n \/ i = n + 1
    BY <1>7
  <2>2. QED  BY <1>8, <1>9, <1>11, <2>1 DEF FinishesUsable
<1>14. IsSpine(todo)'
  BY <1>1, <1>4, SpineGrows DEF Traverses
<1>15. /\ todo = replay'.todo /\ N = FlatNodes'[replay'.reversed]
       /\ F = FlatNodes'[replay'.queue] \o FlatNodes'[replay'.todo]
       /\ replay'.active = Contract!Top.extent /\ replay'.parent = Contract!DispatchExtent
       /\ Follows(W, Len(N), F)
  BY <1>1, <1>2, <1>4, <1>9, <1>10, <1>11, <1>12 DEF Traverses
<1>16. ReplayInv'
  BY <1>1, <1>2, <1>3, <1>4, <1>11, <1>13, <1>14, <1>15, TraversesSet
<1>17. UNCHANGED Contract!vars
  BY <1>1, <1>3, SameRunsKept, Unseen
<1>18. QED  BY <1>16, <1>17

LEMMA CloneConsPasses ==
  ASSUME TypeOK, ReplayInv, CloneCons PROVE ReplayInv' /\ UNCHANGED Contract!vars
<1>1. ReplayStep /\ replay.pc = "clone" /\ Kind(replay.queue) = "Cons" /\ UNCHANGED outcome
  BY DEF ReplayStep, CloneCons, Cloning
<1>2. /\ TypeOK' /\ Grows /\ IsQueue(replay.queue) /\ IsQueue(replay.reversed)
  BY <1>1, TraversalStep
<1>3. PICK head, q, rev :
        /\ head = nodes[replay.queue].head /\ q = nodes[replay.queue].tail
        /\ rev = replay.reversed
  OBVIOUS
<1>4. PICK seen : seen = ConsNode(head, rev)
  OBVIOUS
<1>5. PICK ref : ref = Ref(nodes, seen)
  OBVIOUS
<1>6. /\ nodes' = Allocate(nodes, seen)
      /\ replay' = [replay EXCEPT !.queue = q, !.reversed = ref]
  BY <1>3, <1>4, <1>5 DEF CloneCons
<1>7. head \in Callbacks /\ IsQueue(q) /\ IsQueue(rev)
  BY <1>1, <1>2, <1>3, ConsFacts
<1>8. PICK x : x = Then(head)
  OBVIOUS
<1>9. x \in WorkItems /\ Alike(x, x) /\ x.tag = "Then"
  BY <1>7, <1>8 DEF Then, WorkItems, Alike
<1>10. FlatNodes[replay.queue] = <<x>> \o FlatNodes[q]
  BY <1>1, <1>2, <1>3, <1>8, ConsList
<1>11. FlatNodes'[ref] = <<x>> \o FlatNodes[rev]
  BY <1>2, <1>4, <1>5, <1>6, <1>7, <1>8, NewCons
<1>12. QED  BY <1>1, <1>3, <1>6, <1>7, <1>9, <1>10, <1>11, TraversalPasses

LEMMA CloneFinishPasses ==
  ASSUME TypeOK, ReplayInv, CloneFinish
  PROVE  ReplayInv' /\ (UNCHANGED Contract!vars \/ Contract!Replay)
<1>1. ReplayStep /\ replay.pc = "clone" /\ Kind(replay.queue) = "Finish"
  BY DEF ReplayStep, CloneFinish, Cloning
<1>2. /\ TypeOK' /\ Grows /\ IsQueue(replay.queue) /\ IsQueue(replay.reversed)
      /\ IsQueue(replay.todo) /\ IsExtent(replay.parent)
      /\ UNCHANGED <<extents, raws, owners, minted, stack>>
      /\ outcome = "running" /\ Depth > 0 /\ Top.await = "none"
      /\ Contract!Top.comp.tag = "Resume" /\ Traverses
  BY <1>1, TraversalStep
<1>3. PICK e, p, s, q, rev :
        /\ e = nodes[replay.queue].extent /\ p = replay.parent /\ q = nodes[replay.queue].rest
        /\ rev = replay.reversed /\ s = nodes[replay.queue].parent
  OBVIOUS
<1>4. PICK seen : seen = Finish(e, rev, p)
  OBVIOUS
<1>5. PICK ref : ref = Ref(nodes, seen)
  OBVIOUS
<1>6. /\ IsExtent(e) /\ IsQueue(q) /\ IsQueue(rev) /\ e \in Nat /\ p \in Nat /\ s \in Nat
  <2>1. IsScoped(e) /\ IsExtent(s) /\ IsQueue(q)
    BY <1>1, <1>2, <1>3, FinishFacts
  <2>2. IsExtent(e) /\ IsExtent(p)
    BY <1>2, <1>3, <2>1 DEF IsScoped
  <2>3. QED  BY <1>2, <1>3, <2>1, <2>2, LengthsAreNat DEF IsExtent
<1>7. PICK x, y : x = Marker(e, s) /\ y = Marker(e, p)
  OBVIOUS
<1>8. x \in WorkItems /\ y \in WorkItems /\ Alike(y, x) /\ x.tag = "Finish" /\ x.extent = e
  BY <1>6, <1>7 DEF Marker, WorkItems, Alike
<1>9. FlatNodes[replay.queue] = <<x>> \o FlatNodes[q]
  BY <1>1, <1>2, <1>3, <1>7, FinishList
<1>10. Contract!Usable(e) <=> Usable(e)
  BY <1>1, <1>6, SeenUsable
<1>11. CASE Usable(e)
  <2>1. /\ nodes' = Allocate(nodes, seen) /\ UNCHANGED outcome
        /\ replay' = [replay EXCEPT !.queue = q, !.reversed = ref]
    BY <1>3, <1>4, <1>5, <1>11 DEF CloneFinish
  <2>2. FlatNodes'[ref] = <<y>> \o FlatNodes[rev]
    BY <1>2, <1>4, <1>5, <1>6, <1>7, <2>1, NewFinish
  <2>3. QED
    BY <1>1, <1>3, <1>6, <1>8, <1>9, <1>10, <1>11, <2>1, <2>2, TraversalPasses
<1>12. CASE ~Usable(e)
  <2>1. outcome' = "trapped" /\ UNCHANGED <<nodes, replay>>
    BY <1>3, <1>12 DEF CloneFinish, Trap
  <2>2. PICK W, n, Y, T :
          /\ W = Resumed.work /\ n = Len(FlatNodes[replay.reversed])
          /\ Y = FlatNodes[q] /\ T = FlatNodes[replay.todo]
    OBVIOUS
  <2>3. W \in Seq(WorkItems) /\ n \in Nat /\ Y \in Seq(WorkItems) /\ T \in Seq(WorkItems)
    BY <1>1, <1>6, <2>2, ReplayLists, QueueHoldsWork
  <2>4. PICK X : X = (<<x>> \o Y) \o T
    OBVIOUS
  <2>5. Len(X) \in Nat /\ Len(X) >= 1 /\ X[1] = x
    BY <1>8, <2>3, <2>4
  <2>6. Follows(W, n, X)
    BY <1>2, <1>9, <2>2, <2>4 DEF Traverses
  <2>7. PICK i : i = n + 1
    OBVIOUS
  <2>8. i \in 1..Len(W) /\ W[i] = x
    BY <2>3, <2>5, <2>6, <2>7 DEF Follows
  <2>9. \E j \in 1..Len(W) : W[j].tag = "Finish" /\ ~Contract!Usable(W[j].extent)
    BY <1>8, <1>10, <1>12, <2>8
  <2>10. Contract!Replay
    BY <1>1, <1>2, <2>1, <2>2, <2>9, ReplayRejects
  <2>11. UNCHANGED <<stack, raws>> /\ Published' = Published
    BY <1>1, <1>2, <2>1, OutsideReplay
  <2>12. ReplayInv'
    <3>1. PICK R, F, todo, P :
            /\ R = FlatNodes'[replay'.reversed] /\ todo = replay.todo /\ P = replay.queue
            /\ F = FlatNodes'[replay'.queue] \o FlatNodes'[replay'.todo]
      OBVIOUS
    <3>2. FlatNodes' = FlatNodes
      BY <2>1 DEF FlatNodes
    <3>3. /\ R = FlatNodes[replay.reversed] /\ todo = replay'.todo
          /\ F = FlatNodes[replay.queue] \o FlatNodes[replay.todo]
      BY <2>1, <3>1, <3>2
    <3>4. IsSpine(todo)'
      BY <1>2, <3>1, SpineGrows DEF Traverses
    <3>5. /\ Mirrors(W, R) /\ Follows(W, Len(R), F) /\ FinishesUsable(W, Len(R))
          /\ replay'.active = Contract!Top.extent /\ replay'.parent = Contract!DispatchExtent
          /\ replay'.pc = "clone" /\ Contract!Usable(Resumed.checkpoint)
      BY <1>1, <1>2, <2>1, <2>2, <3>3 DEF Traverses, ReplayInv
    <3>6. QED  BY <1>2, <2>2, <2>11, <3>1, <3>3, <3>4, <3>5, TraversesSet
  <2>13. QED  BY <2>10, <2>12
<1>13. QED  BY <1>11, <1>12

(* The traversal goes down, or back to what is on its stack.               *)
LEMMA TraversalTurns ==
  ASSUME TypeOK, ReplayInv, ReplayStep, replay.pc = "clone", UNCHANGED outcome,
         replay'.pc = "clone", NEW todo, todo = replay'.todo, IsSpine(todo)',
         FlatNodes'[replay'.queue] \o FlatNodes'[todo]
           = FlatNodes[replay.queue] \o FlatNodes[replay.todo],
         replay'.reversed = replay.reversed, replay'.active = replay.active,
         replay'.parent = replay.parent
  PROVE  ReplayInv' /\ UNCHANGED Contract!vars
<1>1. /\ TypeOK' /\ Grows /\ UNCHANGED <<extents, raws, owners, minted, stack>>
      /\ IsQueue(replay.reversed)
      /\ Contract!Top.comp.tag = "Resume" /\ Contract!Usable(Resumed.checkpoint)
      /\ Traverses
  BY TraversalStep
<1>2. Published' = Published
  BY <1>1, OutsideReplay
<1>3. PICK W, R, X, rev :
        /\ W = Resumed.work /\ rev = replay.reversed /\ R = FlatNodes[rev]
        /\ X = FlatNodes'[replay'.queue] \o FlatNodes'[replay'.todo]
  OBVIOUS
<1>4. FlatNodes'[rev] = R
  BY <1>1, <1>3, ListKept
<1>5. /\ Mirrors(W, R) /\ Follows(W, Len(R), X) /\ FinishesUsable(W, Len(R))
      /\ R = FlatNodes'[replay'.reversed]
      /\ replay'.active = Contract!Top.extent /\ replay'.parent = Contract!DispatchExtent
  BY <1>1, <1>3, <1>4 DEF Traverses
<1>6. ReplayInv'
  BY <1>1, <1>2, <1>3, <1>5, TraversesSet
<1>7. QED  BY <1>1, <1>2, <1>6, SameRunsKept, Unseen

LEMMA CloneAppendTurns ==
  ASSUME TypeOK, ReplayInv, CloneAppend PROVE ReplayInv' /\ UNCHANGED Contract!vars
<1>1. ReplayStep /\ replay.pc = "clone" /\ Kind(replay.queue) = "Append" /\ UNCHANGED outcome
  BY DEF ReplayStep, CloneAppend, Cloning
<1>2. /\ TypeOK' /\ Grows /\ IsQueue(replay.queue) /\ IsQueue(replay.todo)
      /\ replay \in Registers /\ Traverses
  BY <1>1, TraversalStep
<1>3. PICK left, right, todo :
        /\ left = nodes[replay.queue].left /\ right = nodes[replay.queue].right
        /\ todo = replay.todo
  OBVIOUS
<1>4. PICK node : node = AppendNode(right, todo)
  OBVIOUS
<1>5. PICK ref : ref = Ref(nodes, node)
  OBVIOUS
<1>6. /\ nodes' = Allocate(nodes, node)
      /\ replay' = [replay EXCEPT !.queue = left, !.todo = ref]
  BY <1>3, <1>4, <1>5 DEF CloneAppend
<1>7. IsQueue(left) /\ IsQueue(right) /\ IsQueue(todo)
  BY <1>1, <1>2, <1>3, AppendFacts
<1>8. /\ replay'.pc = "clone" /\ replay'.todo = ref /\ replay'.queue = left
      /\ replay'.reversed = replay.reversed /\ replay'.active = replay.active
      /\ replay'.parent = replay.parent
  BY <1>1, <1>2, <1>6 DEF Registers
<1>9. PICK a, b, c \in Seq(Items) :
        a = FlatNodes[left] /\ b = FlatNodes[right] /\ c = FlatNodes[todo]
  BY <1>7, QueueList
<1>10. FlatNodes[replay.queue] = a \o b
  BY <1>1, <1>2, <1>3, <1>9, AppendList
<1>11. FlatNodes'[ref] = b \o c /\ FlatNodes'[left] = a
  <2>1. FlatNodes'[ref] = FlatNodes[right] \o FlatNodes[todo]
    BY <1>2, <1>4, <1>5, <1>6, <1>7, NewAppend
  <2>2. FlatNodes'[left] = FlatNodes[left]
    BY <1>2, <1>7, ListKept
  <2>3. QED  BY <1>9, <2>1, <2>2
<1>12. (a \o b) \o c = a \o (b \o c)
  BY ListsAssociate, Zenon
<1>13. IsSpine(ref)'
  <2>1. IsSpine(todo)'
    BY <1>2, <1>3, SpineGrows DEF Traverses
  <2>2. node \in Nodes /\ node.tag = "Append" /\ node.right = todo
    BY <1>4, <1>7, FreshNodes DEF AppendNode
  <2>3. ref \in 1..Len(nodes') /\ nodes'[ref] = node
    BY <1>2, <1>5, <1>6, <2>2, AllocatedNode
  <2>4. IsSpine(nodes[ref].right)'
    BY <2>1, <2>2, <2>3 DEF IsSpine
  <2>5. QED  BY <2>2, <2>3, <2>4, NewSpines DEF SpineRule
<1>14. FlatNodes'[replay'.queue] \o FlatNodes'[ref]
         = FlatNodes[replay.queue] \o FlatNodes[replay.todo]
  BY <1>3, <1>8, <1>9, <1>10, <1>11, <1>12
<1>15. QED  BY <1>1, <1>8, <1>13, <1>14, TraversalTurns

LEMMA CloneTodoTurns ==
  ASSUME TypeOK, ReplayInv, CloneTodo PROVE ReplayInv' /\ UNCHANGED Contract!vars
<1>1. ReplayStep /\ replay.pc = "clone" /\ Kind(replay.queue) = "Empty" /\ UNCHANGED nodes
  BY DEF ReplayStep, CloneTodo, Cloning, heapVars
<1>2. /\ TypeOK' /\ Grows /\ UNCHANGED <<extents, raws, owners, minted, stack>>
      /\ IsQueue(replay.queue) /\ IsQueue(replay.todo) /\ IsQueue(replay.reversed)
      /\ replay \in Registers /\ Depth > 0
      /\ Contract!Top.comp.tag = "Resume" /\ Contract!Usable(Resumed.checkpoint)
      /\ Traverses
  BY <1>1, TraversalStep
<1>3. FlatNodes' = FlatNodes
  BY <1>1 DEF FlatNodes
<1>4. FlatNodes[replay.queue] = <<>>
  BY <1>1, <1>2, EmptyList
<1>5. Kind(replay.todo) \in {"Empty", "Append"}
  BY <1>2, SpineParts DEF Traverses
<1>6. CASE Kind(replay.todo) = "Append"
  <2>1. PICK left, right, todo :
          todo = replay.todo /\ left = nodes[todo].left /\ right = nodes[todo].right
    OBVIOUS
  <2>2. replay' = [replay EXCEPT !.queue = left, !.todo = right] /\ UNCHANGED outcome
    BY <1>6, <2>1 DEF CloneTodo
  <2>3. /\ replay'.pc = "clone" /\ replay'.todo = right /\ replay'.queue = left
        /\ replay'.reversed = replay.reversed /\ replay'.active = replay.active
        /\ replay'.parent = replay.parent
    BY <1>1, <1>2, <2>2 DEF Registers
  <2>4. IsSpine(right)'
    <3>1. IsSpine(right)
      BY <1>2, <1>6, <2>1, SpineParts DEF Traverses
    <3>2. QED  BY <1>2, <3>1, SpineGrows
  <2>5. PICK a, b \in Seq(WorkItems) : a = FlatNodes[left] /\ b = FlatNodes[right]
    <3>1. IsQueue(left) /\ IsQueue(right)
      BY <1>2, <1>6, <2>1, AppendFacts
    <3>2. QED  BY <3>1, QueueHoldsWork
  <2>6. FlatNodes[todo] = a \o b
    BY <1>2, <1>6, <2>1, <2>5, AppendList
  <2>7. <<>> \o (a \o b) = a \o b
    OBVIOUS
  <2>8. FlatNodes'[replay'.queue] \o FlatNodes'[right]
          = FlatNodes[replay.queue] \o FlatNodes[replay.todo]
    BY <1>3, <1>4, <2>1, <2>3, <2>5, <2>6, <2>7
  <2>9. QED  BY <1>1, <2>2, <2>3, <2>4, <2>8, TraversalTurns
<1>7. CASE Kind(replay.todo) = "Empty"
  <2>1. replay' = [replay EXCEPT !.pc = "rebuild", !.queue = Empty] /\ UNCHANGED outcome
    BY <1>7 DEF CloneTodo
  <2>2. /\ replay'.pc = "rebuild" /\ replay'.todo = replay.todo
        /\ replay'.reversed = replay.reversed /\ replay'.active = replay.active
        /\ replay'.parent = replay.parent
    BY <1>2, <2>1 DEF Registers
  <2>3. FlatNodes[replay.todo] = <<>> /\ FlatNodes'[replay'.todo] = <<>>
    BY <1>2, <1>3, <1>7, <2>2, EmptyList
  <2>4. Unpublished' = 0
    <3>1. Markers(<<>>) = {}
      BY DEF Markers
    <3>2. Unpublished' = Cardinality(Markers(FlatNodes'[replay'.todo]))
      BY <2>2 DEF Unpublished, Markers
    <3>3. QED  BY <2>3, <3>1, <3>2, FS_EmptySet
  <2>5. Published = extents /\ Len(extents) \in Nat /\ Base = Len(extents)
    BY <1>1, AllPublished
  <2>6. Published' = Published /\ Base' = Len(extents)
    BY <1>2, <2>4, <2>5, NewNothingUnpublished DEF NothingUnpublishedRule
  <2>7. PICK W, R, T, b, n, D, a :
          /\ W = Resumed.work /\ R = FlatNodes[replay.reversed] /\ T = FlatNodes'[replay'.todo]
          /\ b = Base' /\ n = Unpublished' /\ D = Contract!DispatchExtent
          /\ a = Contract!Top.extent
    OBVIOUS
  <2>8. W \in Seq(WorkItems) /\ R \in Seq(WorkItems) /\ b \in Nat /\ a \in Nat /\ n = 0 /\ T = <<>>
    BY <1>1, <2>3, <2>4, <2>5, <2>6, <2>7, ReplayLists
  <2>9. Mirrors(W, R) /\ Follows(W, Len(R), <<>>) /\ FinishesUsable(W, Len(R))
    <3>1. <<>> \o <<>> = <<>>
      OBVIOUS
    <3>2. QED  BY <1>2, <1>4, <2>3, <2>7, <3>1 DEF Traverses
  <2>10. Len(W) = Len(R)
    BY <2>8, <2>9 DEF Follows
  <2>11. PICK V : V = Contract!Replayed(W, b, a)
    OBVIOUS
  <2>12. V \in Seq(WorkItems) /\ Len(V) = Len(W)
    BY <2>8, <2>11, ReplayedTags DEF SameTags
  <2>13. Follows(V, Len(R), T)
    BY <2>8, <2>10, <2>12 DEF Follows
  <2>14. /\ R = FlatNodes'[replay'.reversed] /\ FinishesUsable(W, Len(W))
         /\ replay'.active = IF n = 0 THEN a ELSE Len(extents')
         /\ replay'.parent = IF n = 0 THEN D ELSE Len(extents')
         /\ ExtentsFrom(extents', b, n, D)
    BY <1>2, <1>3, <2>2, <2>7, <2>8, <2>9, <2>10 DEF Traverses, ExtentsFrom
  <2>15. ReplayInv'
    <3>1. /\ Base' \in Nat /\ Unpublished' \in Nat
          /\ Mirrors(Resumed.work, FlatNodes'[replay'.reversed])
          /\ Follows(Contract!Replayed(Resumed.work, Base', Contract!Top.extent),
                     Len(FlatNodes'[replay'.reversed]), FlatNodes'[replay'.todo])
          /\ FinishesUsable(Resumed.work, Len(Resumed.work))
          /\ ExtentsFrom(extents', Base', Unpublished', Contract!DispatchExtent)
          /\ replay'.active = IF Unpublished' = 0 THEN Contract!Top.extent ELSE Len(extents')
          /\ replay'.parent =
               IF Unpublished' = 0 THEN Contract!DispatchExtent ELSE Len(extents')
      BY <2>7, <2>8, <2>9, <2>11, <2>13, <2>14
    <3>2. QED  BY <1>2, <2>2, <2>6, <3>1, RebuildsSet
  <2>16. UNCHANGED Contract!vars
    BY <1>2, <2>1, <2>6, SameRunsKept, Unseen
  <2>17. QED  BY <2>15, <2>16
<1>8. QED  BY <1>5, <1>6, <1>7
-----------------------------------------------------------------------------
(* A replay rebuilds what it traversed.                                    *)

LEMMA RebuildState ==
  ASSUME TypeOK, ReplayInv, replay.pc = "rebuild"
  PROVE  /\ Resumed.work \in Seq(WorkItems) /\ FlatNodes[replay.reversed] \in Seq(WorkItems)
         /\ FlatNodes[replay.todo] \in Seq(WorkItems) /\ Result \in Seq(WorkItems)
         /\ SameTags(Result, Resumed.work)
         /\ Base \in Nat /\ Unpublished \in Nat /\ Contract!Top.extent \in Nat
         /\ Len(extents) = Base + Unpublished /\ Len(extents) \in Nat
         /\ Mirrors(Resumed.work, FlatNodes[replay.reversed])
         /\ Follows(Result, Len(FlatNodes[replay.reversed]), FlatNodes[replay.todo])
         /\ FinishesUsable(Resumed.work, Len(Resumed.work))
         /\ Unpublished
              = Contract!FinishesFrom(Resumed.work, Len(FlatNodes[replay.reversed]) + 1)
<1>1. PICK W, R, T, V, m, a :
        /\ W = Resumed.work /\ R = FlatNodes[replay.reversed] /\ T = FlatNodes[replay.todo]
        /\ V = Result /\ m = Len(R) /\ a = Contract!Top.extent
  OBVIOUS
<1>2. /\ W \in Seq(WorkItems) /\ R \in Seq(WorkItems) /\ T \in Seq(WorkItems) /\ a \in Nat
      /\ m \in Nat
  BY <1>1, ReplayLists
<1>3. Rebuilds
  BY DEF ReplayInv
<1>4. /\ Base \in Nat /\ Unpublished \in Nat /\ Mirrors(W, R) /\ Follows(V, m, T)
      /\ FinishesUsable(W, Len(W))
  BY <1>1, <1>3 DEF Rebuilds
<1>5. Len(extents) \in Nat /\ Len(extents) = Base + Unpublished
  BY <1>4, LengthsAreNat DEF Base
<1>6. V \in Seq(WorkItems) /\ SameTags(V, W)
  <2>1. V = Contract!Replayed(W, Base, a)
    BY <1>1 DEF Result
  <2>2. QED  BY <1>2, <1>4, <2>1, ReplayedTags
<1>7. Cardinality(Markers(T)) = Contract!FinishesFrom(W, m + 1)
  BY <1>2, <1>4, <1>6, RebuiltCount
<1>8. Unpublished = Cardinality(Markers(T))
  BY <1>1 DEF Unpublished
<1>9. QED  BY <1>1, <1>2, <1>4, <1>5, <1>6, <1>7, <1>8

(* The last occurrence that is still mirrored, and its replayed form.      *)
LEMMA RebuildItem ==
  ASSUME TypeOK, ReplayInv, replay.pc = "rebuild",
         NEW x \in WorkItems, NEW S \in Seq(WorkItems),
         FlatNodes[replay.reversed] = <<x>> \o S
  PROVE  /\ Len(S) \in Nat /\ Len(S) + 1 \in 1..Len(Resumed.work)
         /\ Mirrors(Resumed.work, S)
         /\ Follows(Result, Len(S) + 1, FlatNodes[replay.todo])
         /\ x.tag = "Then" =>
              /\ Result[Len(S) + 1] = x
              /\ Contract!FinishesFrom(Resumed.work, Len(S) + 1) = Unpublished
         /\ x.tag = "Finish" =>
              /\ Result[Len(S) + 1]
                   = Marker(Base + Unpublished + 1,
                            IF Unpublished = 0 THEN Contract!Top.extent
                            ELSE Base + Unpublished)
              /\ Contract!FinishesFrom(Resumed.work, Len(S) + 1) = Unpublished + 1
<1>1. PICK W, R, V, T, m, k, b, n, a :
        /\ W = Resumed.work /\ R = FlatNodes[replay.reversed] /\ V = Result
        /\ T = FlatNodes[replay.todo] /\ m = Len(S) /\ k = m + 1
        /\ b = Base /\ n = Unpublished /\ a = Contract!Top.extent
  OBVIOUS
<1>2. /\ W \in Seq(WorkItems) /\ R \in Seq(WorkItems)
      /\ b \in Nat /\ n \in Nat /\ a \in Nat
      /\ Mirrors(W, R) /\ Follows(V, Len(R), T)
      /\ n = Contract!FinishesFrom(W, Len(R) + 1)
  BY <1>1, RebuildState
<1>3. m \in Nat /\ Len(R) = k /\ k \in Nat /\ R = <<x>> \o S
  BY <1>1, Prepended
<1>4. Mirrors(W, S) /\ m + 1 <= Len(W) /\ Alike(x, W[m + 1])
  BY <1>1, <1>2, <1>3, MirrorsLess
<1>5. k \in 1..Len(W) /\ Alike(x, W[k])
  BY <1>1, <1>2, <1>3, <1>4
<1>6. /\ W[k].tag = "Finish" =>
           Contract!FinishesFrom(W, k) = Contract!FinishesFrom(W, k + 1) + 1
      /\ W[k].tag # "Finish" =>
           Contract!FinishesFrom(W, k) = Contract!FinishesFrom(W, k + 1)
  BY <1>2, <1>5, FinishesStep
<1>7. V = Contract!Replayed(W, b, a)
  BY <1>1 DEF Result
<1>8. /\ W[k].tag = "Then" => V[k] = W[k]
      /\ W[k].tag = "Finish" =>
           V[k] = Marker(b + Contract!FinishesFrom(W, k),
                         IF Contract!FinishesFrom(W, k) = 1 THEN a
                         ELSE b + Contract!FinishesFrom(W, k) - 1)
  BY <1>2, <1>5, <1>7, ReplayedFacts
<1>9. ASSUME x.tag = "Then" PROVE V[k] = x /\ Contract!FinishesFrom(W, k) = n
  <2>1. W[k] = x
    BY <1>5, <1>9 DEF Alike
  <2>2. QED  BY <1>2, <1>3, <1>6, <1>8, <1>9, <2>1
<1>10. ASSUME x.tag = "Finish"
       PROVE  /\ V[k] = Marker(b + n + 1, IF n = 0 THEN a ELSE b + n)
              /\ Contract!FinishesFrom(W, k) = n + 1
  <2>1. W[k].tag = "Finish"
    BY <1>5, <1>10 DEF Alike
  <2>2. PICK f : f = n + 1
    OBVIOUS
  <2>3. Contract!FinishesFrom(W, k) = f
    BY <1>2, <1>3, <1>6, <2>1, <2>2
  <2>4. V[k] = Marker(b + f, IF f = 1 THEN a ELSE b + f - 1)
    BY <1>8, <2>1, <2>3
  <2>5. b + f = b + n + 1 /\ (f = 1 <=> n = 0) /\ b + f - 1 = b + n
    <3>1. b \in Nat /\ n \in Nat
      BY <1>2
    <3>2. QED  BY <2>2, <3>1
  <2>6. V[k] = Marker(b + n + 1, IF n = 0 THEN a ELSE b + n)
    BY <2>4, <2>5
  <2>7. QED  BY <2>2, <2>3, <2>6
<1>11. QED  BY <1>1, <1>2, <1>3, <1>4, <1>5, <1>9, <1>10

(* One more occurrence is rebuilt.                                         *)
LEMMA RebuildsMore ==
  ASSUME TypeOK, TypeOK', Grows, ReplayInv, replay.pc = "rebuild", replay'.pc = "rebuild",
         UNCHANGED <<raws, owners, minted, stack, outcome>>,
         NEW x \in WorkItems, NEW S \in Seq(WorkItems),
         FlatNodes[replay.reversed] = <<x>> \o S, FlatNodes'[replay'.reversed] = S,
         NEW y \in WorkItems, FlatNodes'[replay'.todo] = <<y>> \o FlatNodes[replay.todo],
         y = Result[Len(S) + 1],
         NEW f \in Nat, f = Contract!FinishesFrom(Resumed.work, Len(S) + 1),
         Len(extents') = Base + f,
         \A i \in 1..Base : extents'[i] = extents[i],
         ExtentsFrom(extents', Base, f, Contract!DispatchExtent),
         replay'.active = IF f = 0 THEN Contract!Top.extent ELSE Base + f,
         replay'.parent = IF f = 0 THEN Contract!DispatchExtent ELSE Base + f
  PROVE  ReplayInv' /\ UNCHANGED Contract!vars
<1>1. PICK W, V, T, N, R, m, b, n, a :
        /\ W = Resumed.work /\ V = Result /\ T = FlatNodes[replay.todo]
        /\ N = <<y>> \o T /\ R = <<x>> \o S /\ m = Len(S)
        /\ b = Base /\ n = Unpublished /\ a = Contract!Top.extent
  OBVIOUS
<1>2. /\ W \in Seq(WorkItems) /\ T \in Seq(WorkItems)
      /\ V \in Seq(WorkItems) /\ SameTags(V, W)
      /\ b \in Nat /\ n \in Nat /\ a \in Nat
      /\ Len(extents) = b + n /\ Len(extents) \in Nat /\ FinishesUsable(W, Len(W))
  BY <1>1, RebuildState
<1>3. m \in Nat /\ Mirrors(W, S) /\ Follows(V, m + 1, T)
  BY <1>1, RebuildItem
<1>4. N \in Seq(WorkItems) /\ Follows(V, m, N)
  <2>1. N \in Seq(WorkItems)
    BY <1>1, <1>2, Prepended
  <2>2. y = V[m + 1]
    BY <1>1
  <2>3. QED  BY <1>1, <1>2, <1>3, <2>1, <2>2, FollowsMore
<1>5. Unpublished' = f
  <2>1. Cardinality(Markers(N)) = Contract!FinishesFrom(W, m + 1)
    BY <1>2, <1>3, <1>4, RebuiltCount
  <2>2. Unpublished' = Cardinality(Markers(FlatNodes'[replay'.todo]))
    BY DEF Unpublished, Markers
  <2>3. QED  BY <1>1, <2>1, <2>2
<1>6. Base' = b
  BY <1>1, <1>2, <1>5 DEF Base
<1>7. Published' = Published
  <2>1. PICK E, F : E = SubSeq(extents, 1, b) /\ F = SubSeq(extents', 1, b)
    OBVIOUS
  <2>2. extents \in Seq(Extents) /\ extents' \in Seq(Extents)
    BY DEF TypeOK, ExtentsOK
  <2>3. b <= Len(extents) /\ b <= Len(extents') /\ b \in 0..Len(extents) /\ b \in 0..Len(extents')
    BY <1>1, <1>2
  <2>4. E \in Seq(Extents) /\ Len(E) = b /\ \A i \in 1..b : E[i] = extents[i]
    BY <1>2, <2>1, <2>2, <2>3, PrefixFacts
  <2>5. F \in Seq(Extents) /\ Len(F) = b /\ \A i \in 1..b : F[i] = extents'[i]
    BY <1>2, <2>1, <2>2, <2>3, PrefixFacts
  <2>6. \A i \in 1..b : E[i] = F[i]
    BY <1>1, <2>4, <2>5
  <2>7. E = F
    BY <1>2, <2>4, <2>5, <2>6, SequencesEqual
  <2>8. Published = E /\ Published' = F
    BY <1>1, <1>6, <2>1 DEF Published, Base
  <2>9. QED  BY <2>7, <2>8
<1>8. ReplayInv'
  <2>1. Contract!Top.comp.tag = "Resume" /\ Contract!Usable(Resumed.checkpoint)
    BY DEF ReplayInv
  <2>2. /\ replay'.active = IF Unpublished' = 0 THEN Contract!Top.extent ELSE Len(extents')
        /\ replay'.parent = IF Unpublished' = 0 THEN Contract!DispatchExtent ELSE Len(extents')
        /\ Base' \in Nat /\ Unpublished' \in Nat
        /\ ExtentsFrom(extents', Base', Unpublished', Contract!DispatchExtent)
    BY <1>1, <1>2, <1>5, <1>6
  <2>3. Contract!Replayed(Resumed.work, Base', Contract!Top.extent) = V
    BY <1>1, <1>6 DEF Result
  <2>4. /\ Mirrors(Resumed.work, FlatNodes'[replay'.reversed])
        /\ Follows(Contract!Replayed(Resumed.work, Base', Contract!Top.extent),
                   Len(FlatNodes'[replay'.reversed]), FlatNodes'[replay'.todo])
        /\ FinishesUsable(Resumed.work, Len(Resumed.work))
    BY <1>1, <1>2, <1>3, <1>4, <2>3
  <2>5. UNCHANGED <<stack, raws>>
    OBVIOUS
  <2>6. QED  BY <1>7, <2>1, <2>2, <2>4, <2>5, RebuildsSet
<1>9. UNCHANGED Contract!vars
  BY <1>7, SameRunsKept, Unseen
<1>10. QED  BY <1>8, <1>9

LEMMA RebuildConsMore ==
  ASSUME TypeOK, ReplayInv, RebuildCons PROVE ReplayInv' /\ UNCHANGED Contract!vars
<1>1. TypeOK' /\ Grows
  BY NextGrows DEF Next, MachineStep, ReplayStep
<1>2. /\ replay.pc = "rebuild" /\ Kind(replay.reversed) = "Cons"
      /\ UNCHANGED <<extents, raws, owners, minted, stack, outcome>>
  BY DEF RebuildCons, Rebuilding
<1>3. Depth > 0 /\ RegistersOK(replay)
  BY <1>2, ReplayFacts
<1>4. PICK head, q, todo :
        /\ head = nodes[replay.reversed].head /\ q = nodes[replay.reversed].tail
        /\ todo = replay.todo
  OBVIOUS
<1>5. PICK next : next = ConsNode(head, todo)
  OBVIOUS
<1>6. PICK ref : ref = Ref(nodes, next)
  OBVIOUS
<1>7. /\ nodes' = Allocate(nodes, next)
      /\ replay' = [replay EXCEPT !.reversed = q, !.todo = ref]
  BY <1>4, <1>5, <1>6 DEF RebuildCons
<1>8. IsQueue(todo) /\ IsQueue(replay.reversed) /\ replay \in Registers
  BY <1>3, <1>4 DEF RegistersOK
<1>9. head \in Callbacks /\ IsQueue(q)
  BY <1>2, <1>4, <1>8, ConsFacts
<1>10. /\ replay'.pc = "rebuild" /\ replay'.todo = ref /\ replay'.reversed = q
       /\ replay'.active = replay.active /\ replay'.parent = replay.parent
  BY <1>2, <1>7, <1>8 DEF Registers
<1>11. PICK x, S, T, b, n, a, D :
         /\ x = Then(head) /\ S = FlatNodes[q] /\ T = FlatNodes[todo]
         /\ b = Base /\ n = Unpublished
         /\ a = Contract!Top.extent /\ D = Contract!DispatchExtent
  OBVIOUS
<1>12. x \in WorkItems /\ x.tag = "Then" /\ S \in Seq(WorkItems)
  BY <1>9, <1>11, QueueHoldsWork DEF Then, WorkItems
<1>13. FlatNodes[replay.reversed] = <<x>> \o S /\ FlatNodes'[q] = S
  BY <1>1, <1>2, <1>4, <1>8, <1>9, <1>11, ConsList, ListKept
<1>14. FlatNodes'[ref] = <<x>> \o T
  BY <1>1, <1>5, <1>6, <1>7, <1>8, <1>9, <1>11, NewCons
<1>15. Result[Len(S) + 1] = x /\ Contract!FinishesFrom(Resumed.work, Len(S) + 1) = Unpublished
  BY <1>2, <1>12, <1>13, RebuildItem
<1>16. Rebuilds
  BY <1>2 DEF ReplayInv
<1>17. b \in Nat /\ n \in Nat /\ Len(extents) = b + n /\ Len(extents) \in Nat
  BY <1>11, <1>16, LengthsAreNat DEF Rebuilds, Base
<1>18. /\ ExtentsFrom(extents', Base, Unpublished, Contract!DispatchExtent)
       /\ replay'.active = IF Unpublished = 0 THEN Contract!Top.extent ELSE Base + Unpublished
       /\ replay'.parent =
            IF Unpublished = 0 THEN Contract!DispatchExtent ELSE Base + Unpublished
       /\ Unpublished \in Nat /\ Len(extents') = Base + Unpublished
       /\ \A i \in 1..Base : extents'[i] = extents[i]
  BY <1>2, <1>10, <1>11, <1>16, <1>17 DEF Rebuilds, Innermost, ExtentsFrom
<1>19. /\ FlatNodes'[replay'.reversed] = S
       /\ FlatNodes'[replay'.todo] = <<x>> \o FlatNodes[replay.todo]
  BY <1>4, <1>10, <1>11, <1>13, <1>14
<1>20. QED
  BY <1>1, <1>2, <1>10, <1>12, <1>13, <1>15, <1>18, <1>19, RebuildsMore

LEMMA RebuildFinishMore ==
  ASSUME TypeOK, ReplayInv, RebuildFinish PROVE ReplayInv' /\ UNCHANGED Contract!vars
<1>1. TypeOK' /\ Grows
  BY NextGrows DEF Next, MachineStep, ReplayStep
<1>2. /\ replay.pc = "rebuild" /\ Kind(replay.reversed) = "Finish"
      /\ UNCHANGED <<raws, owners, minted, stack, outcome>>
  BY DEF RebuildFinish, Rebuilding
<1>3. Depth > 0 /\ RegistersOK(replay)
  BY <1>2, ReplayFacts
<1>4. PICK e, s, p, q, todo, active, parent :
        /\ e = Len(extents) + 1 /\ q = nodes[replay.reversed].rest
        /\ s = nodes[replay.reversed].extent /\ p = nodes[replay.reversed].parent
        /\ todo = replay.todo /\ active = replay.active /\ parent = replay.parent
  OBVIOUS
<1>5. PICK next : next = Finish(e, todo, active)
  OBVIOUS
<1>6. PICK ref : ref = Ref(nodes, next)
  OBVIOUS
<1>7. /\ nodes' = Allocate(nodes, next) /\ extents' = FreshExtent(parent)
      /\ replay' = [replay EXCEPT !.reversed = q, !.todo = ref, !.active = e, !.parent = e]
  BY <1>4, <1>5, <1>6 DEF RebuildFinish
<1>8. /\ IsQueue(todo) /\ IsQueue(replay.reversed) /\ replay \in Registers
      /\ IsExtent(active) /\ IsExtent(parent)
  BY <1>3, <1>4 DEF RegistersOK
<1>9. IsQueue(q) /\ s \in Nat /\ p \in Nat /\ active \in Nat /\ e \in Nat
  <2>1. IsQueue(q) /\ IsExtent(s) /\ IsExtent(p)
    BY <1>2, <1>4, <1>8, FinishFacts DEF IsScoped
  <2>2. s \in Nat /\ p \in Nat /\ active \in Nat
    BY <1>8, <2>1, LengthsAreNat DEF IsExtent
  <2>3. e \in Nat
    BY <1>4, LengthsAreNat
  <2>4. QED  BY <2>1, <2>2, <2>3
<1>10. /\ replay'.pc = "rebuild" /\ replay'.todo = ref /\ replay'.reversed = q
       /\ replay'.active = e /\ replay'.parent = e
  BY <1>2, <1>7, <1>8 DEF Registers
<1>11. PICK x, y, S, T, b, n, a, D :
         /\ x = Marker(s, p) /\ y = Marker(e, active)
         /\ S = FlatNodes[q] /\ T = FlatNodes[todo]
         /\ b = Base /\ n = Unpublished
         /\ a = Contract!Top.extent /\ D = Contract!DispatchExtent
  OBVIOUS
<1>12. x \in WorkItems /\ x.tag = "Finish" /\ y \in WorkItems /\ S \in Seq(WorkItems)
  BY <1>9, <1>11, QueueHoldsWork DEF Marker, WorkItems
<1>13. FlatNodes[replay.reversed] = <<x>> \o S /\ FlatNodes'[q] = S
  BY <1>1, <1>2, <1>4, <1>8, <1>9, <1>11, FinishList, ListKept
<1>14. FlatNodes'[ref] = <<y>> \o T
  BY <1>1, <1>5, <1>6, <1>7, <1>8, <1>9, <1>11, NewFinish
<1>15. /\ Result[Len(S) + 1] = Marker(b + n + 1, IF n = 0 THEN a ELSE b + n)
       /\ Contract!FinishesFrom(Resumed.work, Len(S) + 1) = n + 1
  BY <1>2, <1>11, <1>12, <1>13, RebuildItem
<1>16. Rebuilds
  BY <1>2 DEF ReplayInv
<1>17. b \in Nat /\ n \in Nat /\ Len(extents) = b + n /\ Len(extents) \in Nat
  BY <1>11, <1>16, LengthsAreNat DEF Rebuilds, Base
<1>18. e = b + n + 1 /\ active = (IF n = 0 THEN a ELSE b + n)
       /\ parent = IF n = 0 THEN D ELSE b + n
  BY <1>4, <1>11, <1>16, <1>17 DEF Rebuilds, Innermost
<1>19. y = Result[Len(S) + 1]
  BY <1>11, <1>15, <1>18
<1>20. /\ Len(extents') = e /\ extents'[e] = [parent |-> parent, status |-> 0]
       /\ \A i \in 1..Len(extents) : extents'[i] = extents[i]
  <2>1. PICK o : o = [parent |-> parent, status |-> Live]
    OBVIOUS
  <2>2. PICK O : O = Extents \cup {o}
    OBVIOUS
  <2>3. extents \in Seq(O) /\ o \in O
    BY <2>2 DEF TypeOK, ExtentsOK
  <2>4. /\ Len(Append(extents, o)) = Len(extents) + 1 /\ Append(extents, o)[Len(extents) + 1] = o
        /\ \A i \in 1..Len(extents) : Append(extents, o)[i] = extents[i]
    BY <2>3
  <2>5. extents' = Append(extents, o)
    BY <1>7, <2>1 DEF FreshExtent
  <2>6. QED  BY <1>4, <2>1, <2>4, <2>5 DEF Live
<1>21. PICK f : f = n + 1
  OBVIOUS
<1>22. f \in Nat /\ f # 0 /\ e = b + f
  BY <1>17, <1>18, <1>21
<1>23. ASSUME NEW j \in 1..f
       PROVE  extents'[b + j] = [parent |-> IF j = 1 THEN D ELSE b + j - 1, status |-> 0]
  <2>1. CASE j = f
    <3>1. parent = IF j = 1 THEN D ELSE b + j - 1
      BY <1>17, <1>18, <1>21, <2>1
    <3>2. QED  BY <1>20, <1>22, <2>1, <3>1
  <2>2. CASE j # f
    <3>1. PICK i : i = b + j
      OBVIOUS
    <3>2. j \in 1..n /\ i \in 1..Len(extents)
      BY <1>17, <1>21, <1>23, <2>2, <3>1
    <3>3. extents[b + j] = [parent |-> IF j = 1 THEN D ELSE b + j - 1, status |-> 0]
      BY <1>11, <1>16, <3>2 DEF Rebuilds, ExtentsFrom
    <3>4. extents'[i] = extents[i]
      BY <1>20, <3>2
    <3>5. QED  BY <3>1, <3>3, <3>4
  <2>3. QED  BY <2>1, <2>2
<1>24. \A i \in 1..Base : extents'[i] = extents[i]
  <2>1. \A i \in 1..b : i \in 1..Len(extents)
    BY <1>17
  <2>2. QED  BY <1>11, <1>20, <2>1
<1>25. /\ FlatNodes'[replay'.reversed] = S
       /\ FlatNodes'[replay'.todo] = <<y>> \o FlatNodes[replay.todo]
  BY <1>4, <1>10, <1>11, <1>13, <1>14
<1>26. /\ Len(extents') = Base + f
       /\ f = Contract!FinishesFrom(Resumed.work, Len(S) + 1)
       /\ replay'.active = (IF f = 0 THEN Contract!Top.extent ELSE Base + f)
       /\ replay'.parent = (IF f = 0 THEN Contract!DispatchExtent ELSE Base + f)
       /\ ExtentsFrom(extents', Base, f, Contract!DispatchExtent)
  BY <1>4, <1>10, <1>11, <1>15, <1>20, <1>21, <1>22, <1>23 DEF ExtentsFrom
<1>27. UNCHANGED <<raws, owners, minted, stack, outcome>> /\ f \in Nat
  BY <1>2, <1>22
<1>28. QED
  BY <1>1, <1>2, <1>10, <1>12, <1>13, <1>19, <1>24, <1>25, <1>26, <1>27, RebuildsMore

After(X, b, n) == [j \in 1..n |-> X[b + j]]

LEMMA JoinedExtents ==
  ASSUME TypeOK, ReplayInv, replay.pc = "rebuild"
  PROVE  /\ Len(Published) = Base
         /\ Published \o After(extents, Base, Unpublished) = extents
<1> PICK X, b, n, P, E :
      /\ X = extents /\ b = Base /\ n = Unpublished
      /\ P = SubSeq(X, 1, b) /\ E = After(X, b, n)
  OBVIOUS
<1>1. X \in Seq(Extents) /\ b \in Nat /\ n \in Nat /\ Len(X) = b + n /\ b <= Len(X)
  <2>1. b \in Nat /\ n \in Nat /\ Len(X) = b + n
    BY RebuildState
  <2>2. QED  BY <2>1 DEF TypeOK, ExtentsOK
<1>2. P \in Seq(Extents) /\ Len(P) = b /\ \A i \in 1..b : P[i] = X[i]
  BY <1>1, PrefixFacts
<1>3. E \in Seq(Extents) /\ Len(E) = n /\ \A j \in 1..n : E[j] = X[b + j]
  <2>1. \A j \in 1..n : b + j \in 1..Len(X) /\ X[b + j] \in Extents
    BY <1>1
  <2>2. QED  BY <1>1, <2>1 DEF After
<1>4. PICK J : J = P \o E
  OBVIOUS
<1>5. /\ J \in Seq(Extents) /\ Len(J) = Len(P) + Len(E)
      /\ \A i \in 1..Len(P) + Len(E) :
           J[i] = IF i <= Len(P) THEN P[i] ELSE E[i - Len(P)]
  BY <1>2, <1>3, <1>4, ConcatProperties
<1>6. Len(J) = b + n
  BY <1>1, <1>2, <1>3, <1>5
<1>7. ASSUME NEW i \in 1..(b + n) PROVE J[i] = X[i]
  <2>1. J[i] = IF i <= b THEN P[i] ELSE E[i - b]
    <3>1. Len(P) + Len(E) = b + n /\ Len(P) = b
      BY <1>2, <1>3
    <3>2. i \in 1..Len(P) + Len(E)
      BY <3>1
    <3>3. J[i] = IF i <= Len(P) THEN P[i] ELSE E[i - Len(P)]
      BY <1>5, <3>2
    <3>4. QED  BY <3>1, <3>3
  <2>2. CASE i <= b
    BY <1>1, <1>2, <2>1, <2>2
  <2>3. CASE ~(i <= b)
    <3>1. PICK j : j = i - b
      OBVIOUS
    <3>2. j \in 1..n /\ i = b + j
      BY <1>1, <2>3, <3>1
    <3>3. J[i] = E[j]
      BY <2>1, <2>3, <3>1
    <3>4. QED  BY <1>3, <3>2, <3>3
  <2>4. QED  BY <2>2, <2>3
<1>8. J = X
  BY <1>1, <1>5, <1>6, <1>7, SequencesEqual
<1>9. P = Published
  BY DEF Published, Base
<1>10. QED  BY <1>2, <1>4, <1>8, <1>9

(* The replay ends: the contract makes it in this step.                    *)
LEMMA RebuildDoneReplays ==
  ASSUME TypeOK, CombsInv, ReplayInv, RebuildDone PROVE ReplayInv' /\ Contract!Replay
<1>1. TypeOK' /\ Grows
  BY NextGrows DEF Next, MachineStep, ReplayStep
<1>2. /\ replay.pc = "rebuild" /\ outcome = "running"
      /\ Kind(replay.reversed) \in {"Empty", "Append"}
      /\ UNCHANGED <<contexts, extents, raws, owners, minted>>
  BY DEF RebuildDone, Rebuilding
<1>3. Depth > 0 /\ RegistersOK(replay) /\ Top.await = "none"
  BY <1>2, ReplayFacts
<1>4. Kind(replay.reversed) = "Empty"
  BY <1>2, ChainParts DEF CombsInv, ReplayedChains
<1>5. PICK todo, active, q : todo = replay.todo /\ active = replay.active /\ q = Top.queue
  OBVIOUS
<1>6. PICK pending : pending = AppendNode(todo, q)
  OBVIOUS
<1>7. PICK ref : ref = Ref(nodes, pending)
  OBVIOUS
<1>8. PICK frame : frame = [Top EXCEPT !.comp = NoComp, !.queue = ref, !.extent = active]
  OBVIOUS
<1>9. /\ nodes' = Allocate(nodes, pending) /\ SetTop(frame) /\ replay' = Idle
      /\ UNCHANGED outcome
  BY <1>4, <1>5, <1>6, <1>7, <1>8 DEF RebuildDone
<1>10. replay'.pc = "idle"
  BY <1>9 DEF Idle
<1>11. PICK t, k, W, R, T, b, n, a, D, V :
         /\ t = Contract!Top /\ k = Resumed /\ W = k.work
         /\ R = FlatNodes[replay.reversed] /\ T = FlatNodes[todo] /\ b = Base
         /\ n = Unpublished /\ a = t.extent /\ D = Contract!DispatchExtent
         /\ V = Result
  OBVIOUS
<1>12. /\ W \in Seq(WorkItems) /\ T \in Seq(WorkItems)
       /\ V \in Seq(WorkItems) /\ SameTags(V, W)
       /\ b \in Nat /\ n \in Nat /\ a \in Nat
       /\ Len(extents) = b + n /\ Len(extents) \in Nat
       /\ Follows(V, Len(R), T) /\ FinishesUsable(W, Len(W))
       /\ n = Contract!FinishesFrom(W, Len(R) + 1)
  BY <1>2, <1>5, <1>11, RebuildState
<1>13. R = <<>> /\ Len(R) = 0
  BY <1>3, <1>4, <1>11, EmptyList DEF RegistersOK
<1>14. T = V /\ n = Contract!FinishesFrom(W, 1)
  <2>1. Len(T) = Len(V) /\ \A i \in 1..Len(T) : V[i] = T[i]
    BY <1>12, <1>13 DEF Follows
  <2>2. PICK l : l = Len(T)
    OBVIOUS
  <2>3. l \in Nat /\ Len(V) = l /\ \A i \in 1..l : T[i] = V[i]
    BY <1>12, <2>1, <2>2
  <2>4. T = V
    BY <1>12, <2>2, <2>3, SequencesEqual
  <2>5. Len(R) + 1 = 1
    BY <1>13
  <2>6. QED  BY <1>12, <2>4, <2>5
<1>15. /\ t \in FlatFrames /\ t.root = Top.root /\ t.comp = Top.comp /\ t.extent = Top.extent
       /\ t.await = Top.await /\ t.owner = Top.owner /\ t.calling = Top.callee
       /\ t.work = FlatNodes[q] /\ t.scopes = ScopesOf(Top.ctx)
       /\ Top \in Frames /\ IsQueue(q) /\ t.work \in Seq(WorkItems)
  BY <1>3, <1>5, <1>11, TopFields
<1>16. t.comp.tag = "Resume" /\ Contract!Usable(k.checkpoint) /\ Rebuilds
  BY <1>2, <1>11 DEF ReplayInv
<1>17. active = (IF n = 0 THEN a ELSE b + n) /\ active \in Nat
  BY <1>5, <1>11, <1>12, <1>16 DEF Rebuilds, Innermost
<1>18. /\ frame.root = Top.root /\ frame.comp = NoComp /\ frame.extent = active
       /\ frame.await = Top.await /\ frame.owner = Top.owner /\ frame.callee = Top.callee
       /\ frame.queue = ref /\ frame.ctx = Top.ctx
  BY <1>8, <1>15 DEF Frames
<1>19. FlatNodes'[ref] = V \o t.work
  <2>1. IsQueue(todo)
    BY <1>3, <1>5 DEF RegistersOK
  <2>2. FlatNodes'[ref] = FlatNodes[todo] \o FlatNodes[q]
    <3>1. /\ pending = AppendNode(todo, q) /\ ref = Ref(nodes, pending)
          /\ nodes' = Allocate(nodes, pending)
      BY <1>6, <1>7, <1>9
    <3>2. IsQueue(q)
      BY <1>15
    <3>3. QED  BY <1>1, <2>1, <3>1, <3>2, NewAppend
  <2>3. QED  BY <1>11, <1>14, <1>15, <2>2
<1>20. PICK work : work = V \o t.work
  OBVIOUS
<1>21. work \in Seq(WorkItems)
  BY <1>12, <1>15, <1>20
<1>22. PICK x : x = [t EXCEPT !.comp = Contract!Return, !.work = work, !.extent = active]
  OBVIOUS
<1>23. x \in FlatFrames /\ x.await = t.await /\ x.root = t.root /\ x.comp = NoComp
       /\ x.work = work /\ x.extent = active /\ x.scopes = t.scopes
       /\ x.owner = t.owner /\ x.calling = t.calling
  <2>1. Contract!Return = NoComp /\ NoComp \in Computations
    BY DEF Contract!Return, NoComp, Computations, Written
  <2>2. QED  BY <1>15, <1>17, <1>21, <1>22, <2>1 DEF FlatFrames
<1>24. ScopesOf(frame.ctx)' = t.scopes
  BY <1>1, <1>3, <1>15, <1>18, TopStays
<1>25. Contract!SetTop(x)
  <2>1. FlatNodes'[frame.queue] = x.work
    BY <1>18, <1>19, <1>20, <1>23
  <2>2. QED  BY <1>1, <1>3, <1>9, <1>15, <1>18, <1>23, <1>24, <2>1, BecomesTop
<1>26. Published' = Published \o Contract!ReplayExtents(n, b, D) /\ Len(Published) = b
  <2>1. Published' = extents
    BY <1>1, <1>2, <1>10, NewPublished DEF PublishedRule
  <2>2. Len(Published) = b /\ Published \o After(extents, b, n) = extents
    BY <1>2, <1>11, JoinedExtents
  <2>3. Contract!ReplayExtents(n, b, D) = After(extents, b, n)
    <3>1. ASSUME NEW j \in 1..n
          PROVE  [parent |-> IF j = 1 THEN D ELSE b + j - 1, status |-> 0] = extents[b + j]
      <4>1. ExtentsFrom(extents, b, n, D)
        BY <1>11, <1>16 DEF Rebuilds
      <4>2. QED  BY <4>1 DEF ExtentsFrom
    <3>2. Contract!ReplayExtents(n, b, D)
            = [j \in 1..n |-> [parent |-> IF j = 1 THEN D ELSE b + j - 1, status |-> 0]]
      BY DEF Contract!ReplayExtents
    <3>3. QED  BY <3>1, <3>2, Zenon DEF After
  <2>4. QED  BY <2>1, <2>2, <2>3
<1>27. Contract!Dispatching
  BY <1>2, <1>3, <1>11, <1>15, FlatRunsFacts DEF Contract!Dispatching
<1>28. FlatRaws' = FlatRaws /\ FlatRaws[t.comp.raw] = k
  BY <1>1, <1>2, <1>11, FlatRawsKept DEF Resumed
<1>29. /\ Contract!Usable(k.checkpoint)
       /\ \A i \in 1..Len(k.work) :
            Contract!IsFinish(k.work[i]) => Contract!Usable(k.work[i].extent)
  BY <1>11, <1>12, <1>16 DEF FinishesUsable, Contract!IsFinish
<1>30. x = [t EXCEPT !.comp = Contract!Return,
                     !.work = Contract!Replayed(k.work, Len(Published), t.extent) \o @,
                     !.extent = IF n = 0 THEN @ ELSE Len(Published) + n]
  <2>1. active = (IF n = 0 THEN t.extent ELSE Len(Published) + n)
    BY <1>11, <1>17, <1>26
  <2>2. work = Contract!Replayed(k.work, Len(Published), t.extent) \o t.work
    BY <1>11, <1>20, <1>26 DEF Result
  <2>3. QED  BY <1>15, <1>22, <2>1, <2>2 DEF FlatFrames
<1>31. n = Contract!FinishesFrom(k.work, 1)
  BY <1>11, <1>14
<1>32. Contract!Replay
  BY <1>2, <1>9, <1>11, <1>16, <1>25, <1>26, <1>27, <1>28, <1>29, <1>30, <1>31
     DEF Contract!Replay
<1>33. QED  BY <1>10, <1>32 DEF ReplayInv

-----------------------------------------------------------------------------
(* The refinement.                                                         *)

(* Exhaustion during the traversal of a replay.                            *)
LEMMA ExhaustInReplay ==
  ASSUME TypeOK, ReplayInv, Exhaust, replay.pc # "idle" PROVE Contract!Exhaust
<1>1. TypeOK' /\ Grows
  BY NextGrows DEF Next
<1>2. PICK t : t = Contract!Top
  OBVIOUS
<1>3. /\ CloseBoundary(Top.root) /\ Pop /\ replay'.pc = "idle" /\ replay.pc = "clone"
      /\ outcome = "running" /\ UNCHANGED <<raws, owners, minted, outcome>>
  BY DEF Exhaust, Idle, CallsHelper, Returning, Dispatching, Cloning
<1>4. Depth > 0 /\ Top.await = "none" /\ t.comp.tag = "Resume"
  BY <1>2, ReplayFacts DEF ReplayInv
<1>5. t.root = Top.root /\ t.await = Top.await
  BY <1>2, <1>4, TopFields
<1>6. Contract!Dispatching
  BY <1>2, <1>3, <1>4, <1>5, FlatRunsFacts DEF Contract!Dispatching
<1>7. Published = extents /\ Published' = extents'
  BY <1>1, <1>3, OutsideReplay
<1>8. FlatRuns' = Contract!Popped /\ FlatRaws' = FlatRaws
  BY <1>1, <1>3, <1>4, FlatPopped, FlatRawsKept
<1>9. Published' = Contract!Closing(t.root)
  BY <1>3, <1>5, <1>7 DEF CloseBoundary, Contract!Closing, Closed
<1>10. QED  BY <1>2, <1>3, <1>4, <1>6, <1>8, <1>9 DEF Contract!Exhaust

(* Steps that start no replay and are in none.                             *)
LEMMA OtherSteps ==
  ASSUME TypeOK, Next, ~ReplayStep, ~Resume
  PROVE  ReplayInv'
<1>1. replay'.pc = "idle"
  <2>1. ASSUME Dispatching \/ GuestRuns PROVE replay.pc = "idle"
    BY <2>1, GuestIsOutside DEF Dispatching
  <2>2. CASE Exhaust
    BY <2>2 DEF Exhaust, Idle
  <2>3. CASE ExecutorStep
    <3>1. Dispatching /\ UNCHANGED replay
      BY <2>3 DEF ExecutorStep, Publish, ReturnClause, ReturnCons, ReturnAppendCons,
         ReturnRotate, ReturnFinish, Perform, Bind, HandleFresh, HandleFinish,
         HandleNormalize, OwnedResume, Returning, Handling
    <3>2. QED  BY <2>1, <3>1
  <2>4. CASE GuestStep
    <3>1. GuestRuns /\ UNCHANGED replay
      BY <2>4 DEF GuestStep, Supply, Run, RawResume, Once, Cancel, Throw
    <3>2. QED  BY <2>1, <3>1
  <2>5. QED  BY <2>2, <2>3, <2>4 DEF Next, MachineStep
<1>2. QED  BY <1>1 DEF ReplayInv

LEMMA ReplayStutters ==
  ASSUME TypeOK, TypeOK', ReplayInv, UNCHANGED vars PROVE ReplayInv'
<1>1. Grows /\ UNCHANGED <<nodes, stack, raws, extents, replay>>
  BY LengthsAreNat DEF vars, Grows
<1>2. FlatNodes' = FlatNodes
  BY <1>1 DEF FlatNodes
<1>3. Unpublished' = Unpublished /\ Base' = Base /\ Published' = Published
  <2>1. Unpublished' = Unpublished
    BY <1>1, <1>2 DEF Unpublished, Markers
  <2>2. QED  BY <1>1, <2>1 DEF Base, Published
<1>4. CASE replay.pc = "idle"
  BY <1>1, <1>4 DEF ReplayInv
<1>5. CASE replay.pc = "clone"
  <2>1. PICK W, R, X, todo :
          /\ W = Resumed.work /\ R = FlatNodes[replay.reversed] /\ todo = replay.todo
          /\ X = FlatNodes[replay.queue] \o FlatNodes[replay.todo]
    OBVIOUS
  <2>2. Traverses /\ Contract!Top.comp.tag = "Resume" /\ Contract!Usable(Resumed.checkpoint)
    BY <1>5 DEF ReplayInv
  <2>3. IsSpine(todo)'
    BY <1>1, <2>1, <2>2, SpineGrows DEF Traverses
  <2>4. /\ R = FlatNodes'[replay'.reversed] /\ todo = replay'.todo
        /\ X = FlatNodes'[replay'.queue] \o FlatNodes'[replay'.todo]
        /\ Mirrors(W, R) /\ Follows(W, Len(R), X) /\ FinishesUsable(W, Len(R))
        /\ replay'.active = Contract!Top.extent /\ replay'.parent = Contract!DispatchExtent
        /\ replay'.pc = "clone"
    BY <1>1, <1>2, <1>5, <2>1, <2>2 DEF Traverses
  <2>5. QED  BY <1>1, <1>3, <2>1, <2>2, <2>3, <2>4, TraversesSet
<1>6. CASE replay.pc = "rebuild"
  <2>1. Rebuilds /\ Contract!Top.comp.tag = "Resume" /\ Contract!Usable(Resumed.checkpoint)
    BY <1>6 DEF ReplayInv
  <2>2. /\ Base' \in Nat /\ Unpublished' \in Nat /\ replay'.pc = "rebuild"
        /\ Mirrors(Resumed.work, FlatNodes'[replay'.reversed])
        /\ Follows(Contract!Replayed(Resumed.work, Base', Contract!Top.extent),
                   Len(FlatNodes'[replay'.reversed]), FlatNodes'[replay'.todo])
        /\ FinishesUsable(Resumed.work, Len(Resumed.work))
        /\ ExtentsFrom(extents', Base', Unpublished', Contract!DispatchExtent)
    BY <1>1, <1>2, <1>3, <1>6, <2>1 DEF Rebuilds, Result
  <2>3. /\ replay'.active = IF Unpublished' = 0 THEN Contract!Top.extent ELSE Len(extents')
        /\ replay'.parent = IF Unpublished' = 0 THEN Contract!DispatchExtent ELSE Len(extents')
    BY <1>1, <1>2, <1>3, <2>1 DEF Rebuilds, Innermost
  <2>4. QED  BY <1>1, <1>3, <2>1, <2>2, <2>3, RebuildsSet
<1>7. QED  BY <1>4, <1>5, <1>6 DEF TypeOK, ReplayOK, Registers

(* A step of a replay is the contract's, or the contract does not see it.  *)
LEMMA ReplaySteps ==
  ASSUME TypeOK, CombsInv, ReplayInv, ReplayStep
  PROVE  ReplayInv' /\ (UNCHANGED Contract!vars \/ Contract!Replay)
BY CloneConsPasses, CloneAppendTurns, CloneFinishPasses, CloneTodoTurns, RebuildConsMore,
   RebuildFinishMore, RebuildDoneReplays DEF ReplayStep

LEMMA CombsStaySo == Spec => []CombsInv
<1>1. Init => CombsInv
  BY DEF Init, CombsInv, StackOfCombs, SavedCombs, ReplayedChains, Depth, Idle
<1>2. QED  BY <1>1, TypeCorrect, CombsKept, PTL DEF Spec

LEMMA ReplayStaysSo == Spec => []ReplayInv
<1>1. Init => ReplayInv
  BY DEF Init, ReplayInv, Idle
<1>2. TypeOK /\ TypeOK' /\ LinearInv /\ CombsInv /\ ReplayInv /\ [Next]_vars => ReplayInv'
  BY ReplayStutters, ReplaySteps, ResumeBegins, OtherSteps
<1>3. QED  BY <1>1, <1>2, TypeCorrect, LinearStaysSo, CombsStaySo, PTL DEF Spec

LEMMA ContractInit == Init => Contract!Init
<1> SUFFICES ASSUME Init PROVE Contract!Init
  OBVIOUS
<1>1. /\ extents = <<>> /\ raws = <<>> /\ owners = <<>> /\ minted = {} /\ stack = <<>>
      /\ replay.pc = "idle" /\ outcome = "running"
  BY DEF Init, Idle
<1>2. Published = <<>>
  <2>1. Unpublished = 0
    BY <1>1 DEF Unpublished
  <2>2. PICK E, n : E = extents /\ n = Len(extents) - Unpublished
    OBVIOUS
  <2>3. n = 0 /\ E = <<>>
    BY <1>1, <2>1, <2>2
  <2>4. SubSeq(E, 1, n) = <<>>
    BY <2>3
  <2>5. QED  BY <2>2, <2>4 DEF Published
<1>3. FlatRaws = <<>>
  BY <1>1 DEF FlatRaws
<1>4. FlatRuns = <<>>
  BY <1>1 DEF FlatRuns, Depth
<1>5. QED  BY <1>1, <1>2, <1>3, <1>4 DEF Contract!Init

LEMMA ExecutorSteps ==
  ASSUME TypeOK, LinearInv, CalleeIdle, ExecutorStep
  PROVE  UNCHANGED Contract!vars \/ Contract!Next
<1>1. CASE Publish \/ ReturnClause \/ ReturnCons \/ ReturnAppendCons \/ ReturnFinish
  BY <1>1, PublishAnswers, ReturnClauseReturns, ReturnConsCalls, ReturnAppendConsCalls,
     ReturnFinishCloses DEF Contract!Next
<1>2. CASE ReturnRotate \/ HandleNormalize
  BY <1>2, RotateUnseen
<1>3. CASE Perform \/ Bind \/ Resume
  BY <1>3, PerformRequests, BindSequences, ResumeBegins DEF Contract!Next
<1>4. CASE HandleFresh \/ HandleFinish \/ OwnedResume
  BY <1>4, HandleFreshEnters, HandleFinishEnters, OwnedResumeTransfers DEF Contract!Next
<1>5. QED  BY <1>1, <1>2, <1>3, <1>4 DEF ExecutorStep

LEMMA GuestSteps ==
  ASSUME TypeOK, LinearInv, CalleeIdle, GuestStep PROVE Contract!Next
<1>1. CASE \E c \in Suppliable : Supply(c) \/ Run(c)
  <2>1. PICK c \in Suppliable : Supply(c) \/ Run(c)
    BY <1>1
  <2>2. c \in Contract!Computations
    BY GuestComputations
  <2>3. Contract!Supply(c) \/ Contract!Run(c)
    BY <2>1, SupplySupplies, RunRuns
  <2>4. QED  BY <2>2, <2>3 DEF Contract!Next
<1>2. CASE \E k \in 1..Len(raws) : RawResume(k)
  <2>1. PICK k \in 1..Len(raws) : RawResume(k)
    BY <1>2
  <2>2. k \in 1..Len(FlatRaws) /\ Contract!Mint(k)
    BY <2>1, RawResumeMints
  <2>3. QED  BY <2>2 DEF Contract!Next
<1>3. CASE \E o \in 1..Len(owners) : Cancel(o)
  <2>1. PICK o \in 1..Len(owners) : Cancel(o)
    BY <1>3
  <2>2. Contract!Cancel(o)
    BY <2>1, CancelCancels
  <2>3. QED  BY <2>2 DEF Contract!Next
<1>4. CASE Once \/ Throw
  BY <1>4, OnceMakes, ThrowAborts DEF Contract!Next
<1>5. QED  BY <1>1, <1>2, <1>3, <1>4 DEF GuestStep

LEMMA ContractStutters ==
  ASSUME TypeOK, TypeOK', UNCHANGED vars PROVE UNCHANGED Contract!vars
<1>1. Grows /\ UNCHANGED <<nodes, stack, raws, extents, replay, owners, minted, outcome>>
  BY LengthsAreNat DEF vars, Grows
<1>2. FlatNodes' = FlatNodes
  BY <1>1 DEF FlatNodes
<1>3. Published' = Published
  <2>1. Unpublished' = Unpublished
    BY <1>1, <1>2 DEF Unpublished, Markers
  <2>2. QED  BY <1>1, <2>1 DEF Published
<1>4. QED  BY <1>1, <1>3, SameRunsKept, Unseen

(* The control machine implements the contract, for every program and any  *)
(* number of nodes, extents, resumptions, owners and runs: whatever the    *)
(* guest does, what the machine's Append trees, normalisation and replay   *)
(* in two passes compute is what flat one-step continuations do.           *)
THEOREM MachineImplementsContract == Spec => ImplementsContract
<1>1. TypeOK /\ TypeOK' /\ LinearInv /\ CombsInv /\ CalleeIdle /\ ReplayInv /\ [Next]_vars
        => [Contract!Next]_(Contract!vars)
  <2> SUFFICES ASSUME TypeOK, TypeOK', LinearInv, CombsInv, CalleeIdle, ReplayInv,
                      [Next]_vars
               PROVE  Contract!Next \/ UNCHANGED Contract!vars
    OBVIOUS
  <2>1. CASE UNCHANGED vars
    BY <2>1, ContractStutters
  <2>2. CASE ReplayStep
    BY <2>2, ReplaySteps DEF Contract!Next
  <2>3. CASE ExecutorStep
    BY <2>3, ExecutorSteps
  <2>4. CASE GuestStep
    BY <2>4, GuestSteps
  <2>5. CASE Exhaust
    BY <2>5, ExhaustExpires, ExhaustInReplay DEF Contract!Next
  <2>6. QED  BY <2>1, <2>2, <2>3, <2>4, <2>5 DEF Next, MachineStep
<1>2. QED
  BY <1>1, ContractInit, TypeCorrect, LinearStaysSo, CombsStaySo, CalleesIdle, ReplayStaysSo,
     PTL DEF Spec, ImplementsContract, Contract!Spec
=============================================================================
