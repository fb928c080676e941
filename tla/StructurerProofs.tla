-------------------------- MODULE StructurerProofs ---------------------------
(***************************************************************************)
(* The code the structurer emits follows the control-flow graph, for every *)
(* set of blocks and every function the verifier accepts, and every graph  *)
(* that is reducible gets structured code.                                 *)
(*                                                                         *)
(* That it follows the graph has three parts.  The analysis: closures are  *)
(* least closed sets, the sweeps end with the dominators, and from         *)
(* dominance it follows how regions, loops and handlers may lie, and that  *)
(* the units of a region share no block and are entered at their headers   *)
(* only.  The code: every place in it has the labels that stand around it  *)
(* and a block it leads to, and so does every label.  The machine: a step  *)
(* from such a place leads to such a place, and a branch, an exception or  *)
(* a turn of the dispatcher goes where the label says.                     *)
(*                                                                         *)
(* That reducible graphs get code has four: natural loops and regions      *)
(* nest, the units of a region have an order when every cycle has a block  *)
(* that dominates it, every branch then has a label, and such a cycle is   *)
(* entered once.                                                           *)
(***************************************************************************)
EXTENDS Structurer, StackLemmas

-----------------------------------------------------------------------------
(* Closures *)

Growing(next, g) ==
    g = [T \in SUBSET DOMAIN next |-> IF Spread(T, next) = T THEN T ELSE g[Spread(T, next)]]

(* What a block leads to stays in W.                                       *)
Closed(next, W) == \A b \in W \cap DOMAIN next : next[b] \subseteq W

LEMMA FewerLeft ==
    ASSUME NEW D, IsFiniteSet(D), NEW next \in [D -> SUBSET D], NEW T \in SUBSET D,
           Spread(T, next) # T
    PROVE  /\ Spread(T, next) \in SUBSET D
           /\ Cardinality(D \ Spread(T, next)) < Cardinality(D \ T)
           /\ Cardinality(D \ T) \in Nat /\ Cardinality(D \ Spread(T, next)) \in Nat
<1>1. Spread(T, next) \in SUBSET D /\ T \subseteq Spread(T, next)
  BY DEF Spread
<1>2. D \ Spread(T, next) \in SUBSET (D \ T) /\ D \ Spread(T, next) # D \ T
  BY <1>1
<1>3. D \ T \in SUBSET D
  OBVIOUS
<1>4. IsFiniteSet(D \ T)
  BY <1>3, FS_Subset
<1>5. /\ IsFiniteSet(D \ Spread(T, next))
      /\ Cardinality(D \ Spread(T, next)) <= Cardinality(D \ T)
      /\ Cardinality(D \ Spread(T, next)) # Cardinality(D \ T)
  BY <1>2, <1>4, FS_Subset
<1>6. Cardinality(D \ T) \in Nat /\ Cardinality(D \ Spread(T, next)) \in Nat
  BY <1>4, <1>5, FS_CardinalityType
<1>7. QED  BY <1>1, <1>5, <1>6

LEMMA GrowExists ==
    ASSUME NEW D, IsFiniteSet(D), NEW next \in [D -> SUBSET D]
    PROVE  \E g : Growing(next, g)
<1> DEFINE Unfold(g, T) == IF Spread(T, next) = T THEN T ELSE g[Spread(T, next)]
           Upto(n, g) == \A T \in SUBSET D : Cardinality(D \ T) <= n => g[T] = Unfold(g, T)
           Missing == {n \in Nat : \A g : ~Upto(n, g)}
<1>0. DOMAIN next = D
  OBVIOUS
<1>1. \A T \in SUBSET D : Cardinality(D \ T) \in Nat
  <2> TAKE T \in SUBSET D
  <2>1. D \ T \in SUBSET D
    OBVIOUS
  <2>2. QED  BY <2>1, FS_Subset, FS_CardinalityType
<1>2. ASSUME NEW n \in Nat, NEW g, \A T \in SUBSET D : Cardinality(D \ T) < n => g[T] = Unfold(g, T)
      PROVE  n \notin Missing
  <2> DEFINE h == [T \in SUBSET D |-> Unfold(g, T)]
  <2>1. ASSUME NEW T \in SUBSET D, Cardinality(D \ T) <= n  PROVE h[T] = Unfold(h, T)
    <3>1. CASE Spread(T, next) = T
      BY <3>1
    <3>2. CASE Spread(T, next) # T
      <4>1. /\ Spread(T, next) \in SUBSET D
            /\ Cardinality(D \ Spread(T, next)) < Cardinality(D \ T)
            /\ Cardinality(D \ T) \in Nat /\ Cardinality(D \ Spread(T, next)) \in Nat
        BY <3>2, FewerLeft
      <4>2. g[Spread(T, next)] = Unfold(g, Spread(T, next))
        BY <1>2, <2>1, <4>1
      <4>3. h[Spread(T, next)] = g[Spread(T, next)]
        BY <4>1, <4>2
      <4>4. QED  BY <3>2, <4>3
    <3>3. QED  BY <3>1, <3>2
  <2>2. Upto(n, h)
    <3> HIDE DEF h, Unfold
    <3> QED  BY <2>1
  <2>3. QED
    <3> HIDE DEF h, Upto
    <3> QED  BY <2>2
<1>3. Missing = {}
  <2>1. SUFFICES ASSUME Missing # {} PROVE FALSE
    OBVIOUS
  <2>2. Missing \in SUBSET Nat
    OBVIOUS
  <2>3. PICK k \in Missing : \A j \in Missing : k <= j
    <3> HIDE DEF Missing
    <3> QED  BY <2>1, <2>2, LeastExists
  <2>4. k \in Nat
    OBVIOUS
  <2>5. CASE k = 0
    <3> DEFINE g == [T \in SUBSET D |-> T]
    <3>1. \A T \in SUBSET D : Cardinality(D \ T) < k => g[T] = Unfold(g, T)
      <4> TAKE T \in SUBSET D
      <4>1. Cardinality(D \ T) \in Nat
        BY <1>1
      <4> HIDE DEF Unfold, g
      <4>2. QED  BY <2>5, <4>1
    <3>2. QED
      <4> HIDE DEF Unfold, g, Missing
      <4> QED  BY <1>2, <2>3, <2>4, <3>1
  <2>6. CASE k # 0
    <3>1. k - 1 \in Nat /\ ~(k <= k - 1)
      BY <2>4, <2>6
    <3>2. k - 1 \notin Missing
      <4> HIDE DEF Missing
      <4> QED  BY <2>3, <3>1
    <3>3. PICK g : Upto(k - 1, g)
      BY <3>1, <3>2
    <3>4. \A T \in SUBSET D : Cardinality(D \ T) < k => g[T] = Unfold(g, T)
      <4> TAKE T \in SUBSET D
      <4>1. Cardinality(D \ T) \in Nat
        BY <1>1
      <4>2. Cardinality(D \ T) < k => Cardinality(D \ T) <= k - 1
        BY <2>4, <4>1
      <4> HIDE DEF Unfold
      <4> QED  BY <3>3, <4>2
    <3>5. QED
      <4> HIDE DEF Unfold, Missing
      <4> QED  BY <1>2, <2>3, <2>4, <3>4
  <2>7. QED  BY <2>5, <2>6
<1>4. Cardinality(D) \in Nat
  BY FS_CardinalityType
<1>5. PICK g : Upto(Cardinality(D), g)
  <2> HIDE DEF Upto
  <2> QED  BY <1>3, <1>4
<1>6. \A T \in SUBSET D : Cardinality(D \ T) <= Cardinality(D)
  <2> TAKE T \in SUBSET D
  <2>1. D \ T \in SUBSET D
    OBVIOUS
  <2>2. QED  BY <2>1, FS_Subset
<1>7. \A T \in SUBSET D : g[T] = Unfold(g, T)
  <2> HIDE DEF Unfold
  <2> QED  BY <1>5, <1>6
<1> DEFINE h == [T \in SUBSET D |-> g[T]]
<1>8. \A T \in SUBSET D : h[T] = Unfold(h, T)
  <2> TAKE T \in SUBSET D
  <2>1. Spread(T, next) \in SUBSET D
    BY DEF Spread
  <2>2. QED  BY <1>7, <2>1
<1>9. h = [T \in SUBSET D |-> Unfold(h, T)]
  <2> HIDE DEF Unfold
  <2> QED  BY <1>8
<1>10. Growing(next, h)
  BY <1>0, <1>9 DEF Growing
<1>11. QED  BY <1>10

(* A closure is the least closed set around its blocks.                    *)
LEMMA ClosureFacts ==
    ASSUME NEW D, IsFiniteSet(D), NEW next \in [D -> SUBSET D], NEW S \in SUBSET D
    PROVE  /\ S \subseteq Closure(S, next) /\ Closure(S, next) \subseteq D
           /\ Closed(next, Closure(S, next))
           /\ \A W : S \subseteq W /\ Closed(next, W) => Closure(S, next) \subseteq W
<1>0. DOMAIN next = D
  OBVIOUS
<1>1. \E g : Growing(next, g)
  BY GrowExists
<1> DEFINE g == CHOOSE g : Growing(next, g)
<1>2. Growing(next, g)
  BY <1>1
<1>3. Closure(S, next) = g[S]
  BY DEF Closure, Growing
<1> HIDE DEF g
<1>4. \A T \in SUBSET D : g[T] = IF Spread(T, next) = T THEN T ELSE g[Spread(T, next)]
  BY <1>0, <1>2 DEF Growing
<1> DEFINE Fine(T) == /\ T \subseteq g[T] /\ g[T] \subseteq D /\ Closed(next, g[T])
                      /\ \A W : T \subseteq W /\ Closed(next, W) => g[T] \subseteq W
           Bad == {n \in Nat : \E T \in SUBSET D : Cardinality(D \ T) = n /\ ~Fine(T)}
<1>5. Bad = {}
  <2>1. SUFFICES ASSUME Bad # {} PROVE FALSE
    OBVIOUS
  <2>2. Bad \in SUBSET Nat
    OBVIOUS
  <2>3. PICK k \in Bad : \A j \in Bad : k <= j
    <3> HIDE DEF Bad
    <3> QED  BY <2>1, <2>2, LeastExists
  <2>4. PICK T \in SUBSET D : Cardinality(D \ T) = k /\ ~Fine(T)
    OBVIOUS
  <2>5. CASE Spread(T, next) = T
    <3>1. g[T] = T
      BY <1>4, <2>5
    <3>2. Closed(next, T)
      BY <2>5 DEF Closed, Spread
    <3>3. QED  BY <2>4, <3>1, <3>2
  <2>6. CASE Spread(T, next) # T
    <3>1. /\ Spread(T, next) \in SUBSET D
          /\ Cardinality(D \ Spread(T, next)) < Cardinality(D \ T)
          /\ Cardinality(D \ T) \in Nat /\ Cardinality(D \ Spread(T, next)) \in Nat
      BY <2>6, FewerLeft
    <3>2. Fine(Spread(T, next))
      <4>1. Cardinality(D \ Spread(T, next)) \notin Bad
        <5> HIDE DEF Bad
        <5> QED  BY <2>3, <2>4, <3>1
      <4>2. QED
        <5> HIDE DEF Fine
        <5> QED  BY <3>1, <4>1
    <3>3. g[T] = g[Spread(T, next)]
      BY <1>4, <2>6
    <3>4. T \subseteq Spread(T, next)
      BY DEF Spread
    <3>5. ASSUME NEW W, T \subseteq W, Closed(next, W)  PROVE Spread(T, next) \subseteq W
      BY <1>0, <3>5 DEF Spread, Closed
    <3>6. Fine(T)
      BY <3>2, <3>3, <3>4, <3>5
    <3>7. QED  BY <2>4, <3>6
  <2>7. QED  BY <2>5, <2>6
<1>6. Fine(S)
  <2>1. D \ S \in SUBSET D
    OBVIOUS
  <2>2. Cardinality(D \ S) \in Nat
    BY <2>1, FS_Subset, FS_CardinalityType
  <2>3. QED
    <3> HIDE DEF Fine
    <3> QED  BY <1>5, <2>2
<1>7. QED  BY <1>3, <1>6


-----------------------------------------------------------------------------
(* Dominators *)

(* N is what e leads to along next.                                        *)
ReachSet(e, next, N) ==
    /\ e \in N /\ N \subseteq DOMAIN next /\ Closed(next, N)
    /\ \A W : e \in W /\ Closed(next, W) => N \subseteq W

(* Every way from e into Y passes x.                                       *)
Guards(e, next, N, x, Y) ==
    \A b \in Y : b = x \/ (b # e /\ \A p \in N : b \in next[p] => p \in Y)

(* dom[b] is b and what every way from e to b passes.                      *)
DomTree(e, next, N, dom) ==
    /\ dom \in [N -> SUBSET N] /\ dom[e] = {e} /\ \A b \in N : b \in dom[b]
    /\ \A b \in N \ {e}, p \in N : \A x \in dom[b] : b \in next[p] /\ x # b => x \in dom[p]
    /\ \A x \in N, Y \in SUBSET N : Guards(e, next, N, x, Y) => \A b \in Y : x \in dom[b]

Settling(preds, g) ==
    g = [dom \in [DOMAIN preds -> SUBSET DOMAIN preds] |->
            IF Narrowed(preds, dom) = dom THEN dom ELSE g[Narrowed(preds, dom)]]

(* The pairs a sweep can still remove.                                     *)
Pairs(N, dom) == {q \in N \X N : q[2] \in dom[q[1]]}

LEMMA NarrowedFacts ==
    ASSUME NEW N, IsFiniteSet(N), NEW preds \in [N -> SUBSET N],
           NEW dom \in [N -> SUBSET N]
    PROVE  /\ Narrowed(preds, dom) \in [N -> SUBSET N]
           /\ Cardinality(Pairs(N, dom)) \in Nat
           /\ Cardinality(Pairs(N, Narrowed(preds, dom))) \in Nat
           /\ Narrowed(preds, dom) # dom =>
                Cardinality(Pairs(N, Narrowed(preds, dom))) < Cardinality(Pairs(N, dom))
<1> DEFINE less == Narrowed(preds, dom)
<1>1. less \in [N -> SUBSET N] /\ \A b \in N : less[b] \subseteq dom[b]
  BY DEF Narrowed
<1>2. IsFiniteSet(N \X N)
  BY FS_Product
<1> HIDE DEF less
<1>3. Pairs(N, less) \in SUBSET (N \X N) /\ Pairs(N, dom) \in SUBSET (N \X N)
  BY DEF Pairs
<1>4. IsFiniteSet(Pairs(N, less)) /\ IsFiniteSet(Pairs(N, dom))
  BY <1>2, <1>3, FS_Subset
<1>5. Cardinality(Pairs(N, less)) \in Nat /\ Cardinality(Pairs(N, dom)) \in Nat
  BY <1>4, FS_CardinalityType
<1>6. Pairs(N, less) \in SUBSET Pairs(N, dom)
  BY <1>1 DEF Pairs
<1>7. ASSUME less # dom  PROVE Pairs(N, less) # Pairs(N, dom)
  <2>1. PICK b \in N : less[b] # dom[b]
    BY <1>1, <1>7
  <2>2. PICK x \in dom[b] : x \notin less[b]
    BY <1>1, <2>1
  <2>3. <<b, x>> \in Pairs(N, dom) /\ <<b, x>> \notin Pairs(N, less)
    BY <2>1, <2>2 DEF Pairs
  <2>4. QED  BY <2>3
<1>8. less # dom => Cardinality(Pairs(N, less)) < Cardinality(Pairs(N, dom))
  <2>1. /\ Cardinality(Pairs(N, less)) <= Cardinality(Pairs(N, dom))
        /\ Cardinality(Pairs(N, less)) = Cardinality(Pairs(N, dom)) => Pairs(N, less) = Pairs(N, dom)
    BY <1>4, <1>6, FS_Subset
  <2>2. QED  BY <1>5, <1>7, <2>1
<1>9. QED  BY <1>1, <1>5, <1>8 DEF less

LEMMA SettleExists ==
    ASSUME NEW N, IsFiniteSet(N), NEW preds \in [N -> SUBSET N]
    PROVE  \E g : Settling(preds, g)
<1> DEFINE Q == [N -> SUBSET N]
           Left(dom) == Cardinality(Pairs(N, dom))
           Unfold(g, dom) == IF Narrowed(preds, dom) = dom THEN dom ELSE g[Narrowed(preds, dom)]
           Upto(n, g) == \A dom \in Q : Left(dom) <= n => g[dom] = Unfold(g, dom)
           Missing == {n \in Nat : \A g : ~Upto(n, g)}
<1>0. DOMAIN preds = N
  OBVIOUS
<1>1. \A dom \in Q : /\ Left(dom) \in Nat /\ Narrowed(preds, dom) \in Q
                     /\ Left(Narrowed(preds, dom)) \in Nat
                     /\ Narrowed(preds, dom) # dom => Left(Narrowed(preds, dom)) < Left(dom)
  BY NarrowedFacts
<1>b. /\ IsFiniteSet(N \X N) /\ Cardinality(N \X N) \in Nat
      /\ \A dom \in Q : Left(dom) <= Cardinality(N \X N)
  <2>1. IsFiniteSet(N \X N)
    BY FS_Product
  <2>2. \A dom \in Q : Pairs(N, dom) \in SUBSET (N \X N)
    BY DEF Pairs
  <2>3. QED  BY <2>1, <2>2, FS_Subset, FS_CardinalityType
<1> HIDE DEF Left, Q
<1>2. ASSUME NEW n \in Nat, NEW g, \A dom \in Q : Left(dom) < n => g[dom] = Unfold(g, dom)
      PROVE  n \notin Missing
  <2> DEFINE h == [dom \in Q |-> Unfold(g, dom)]
  <2>1. ASSUME NEW dom \in Q, Left(dom) <= n  PROVE h[dom] = Unfold(h, dom)
    <3>1. CASE Narrowed(preds, dom) = dom
      BY <3>1
    <3>2. CASE Narrowed(preds, dom) # dom
      <4>1. /\ Narrowed(preds, dom) \in Q
            /\ Left(Narrowed(preds, dom)) < n
        BY <1>1, <2>1, <3>2
      <4>2. g[Narrowed(preds, dom)] = Unfold(g, Narrowed(preds, dom))
        BY <1>2, <4>1
      <4>3. h[Narrowed(preds, dom)] = g[Narrowed(preds, dom)]
        BY <4>1, <4>2
      <4>4. QED  BY <3>2, <4>3
    <3>3. QED  BY <3>1, <3>2
  <2>2. Upto(n, h)
    <3> HIDE DEF h, Unfold
    <3> QED  BY <2>1
  <2>3. QED
    <3> HIDE DEF h, Upto
    <3> QED  BY <2>2
<1>3. Missing = {}
  <2>1. SUFFICES ASSUME Missing # {} PROVE FALSE
    OBVIOUS
  <2>2. Missing \in SUBSET Nat
    OBVIOUS
  <2>3. PICK k \in Missing : \A j \in Missing : k <= j
    <3> HIDE DEF Missing
    <3> QED  BY <2>1, <2>2, LeastExists
  <2>4. k \in Nat
    OBVIOUS
  <2>5. CASE k = 0
    <3> DEFINE g == [dom \in Q |-> dom]
    <3>1. \A dom \in Q : Left(dom) < k => g[dom] = Unfold(g, dom)
      <4> HIDE DEF Unfold, g
      <4> QED  BY <1>1, <2>5
    <3>2. QED
      <4> HIDE DEF Unfold, g, Missing
      <4> QED  BY <1>2, <2>3, <2>4, <3>1
  <2>6. CASE k # 0
    <3>1. k - 1 \in Nat /\ ~(k <= k - 1)
      BY <2>4, <2>6
    <3>2. k - 1 \notin Missing
      <4> HIDE DEF Missing
      <4> QED  BY <2>3, <3>1
    <3>3. PICK g : Upto(k - 1, g)
      BY <3>1, <3>2
    <3>4. \A dom \in Q : Left(dom) < k => g[dom] = Unfold(g, dom)
      <4> TAKE dom \in Q
      <4>1. Left(dom) \in Nat
        BY <1>1
      <4>2. Left(dom) < k => Left(dom) <= k - 1
        BY <2>4, <4>1
      <4> HIDE DEF Unfold
      <4> QED  BY <3>3, <4>2
    <3>5. QED
      <4> HIDE DEF Unfold, Missing
      <4> QED  BY <1>2, <2>3, <2>4, <3>4
  <2>7. QED  BY <2>5, <2>6
<1>5. PICK g : Upto(Cardinality(N \X N), g)
  <2> HIDE DEF Upto
  <2> QED  BY <1>3, <1>b
<1>7. \A dom \in Q : g[dom] = Unfold(g, dom)
  <2> HIDE DEF Unfold
  <2> QED  BY <1>5, <1>b
<1> DEFINE h == [dom \in Q |-> g[dom]]
<1>8. \A dom \in Q : h[dom] = Unfold(h, dom)
  <2> TAKE dom \in Q
  <2>1. Narrowed(preds, dom) \in Q
    BY <1>1
  <2>2. QED  BY <1>7, <2>1
<1>9. h = [dom \in Q |-> Unfold(h, dom)]
  <2> HIDE DEF Unfold
  <2> QED  BY <1>8
<1>10. Settling(preds, h)
  BY <1>0, <1>9 DEF Settling, Q
<1>11. QED  BY <1>10

(* What the sweeps keep: they only drop what some way avoids.              *)
Sound(e, next, N, dom) ==
    /\ dom[e] = {e} /\ \A b \in N : b \in dom[b]
    /\ \A x \in N, Y \in SUBSET N : Guards(e, next, N, x, Y) => \A b \in Y : x \in dom[b]

LEMMA ReachedHavePredecessors ==
    ASSUME NEW next, NEW N, NEW e, ReachSet(e, next, N), NEW b \in N, b # e
    PROVE  \E p \in N : b \in next[p]
<1>1. SUFFICES ASSUME \A p \in N : b \notin next[p] PROVE FALSE
  OBVIOUS
<1>2. e \in N \ {b} /\ Closed(next, N \ {b})
  BY <1>1 DEF ReachSet, Closed
<1>3. \A W : e \in W /\ Closed(next, W) => N \subseteq W
  BY DEF ReachSet
<1>4. N \subseteq N \ {b}
  BY <1>2, <1>3
<1>5. QED  BY <1>4

LEMMA SweepSound ==
    ASSUME NEW next, NEW N, NEW e, ReachSet(e, next, N), NEW dom \in [N -> SUBSET N],
           Sound(e, next, N, dom)
    PROVE  Sound(e, next, N, Narrowed([b \in N |-> {s \in N : b \in next[s]}], dom))
<1> DEFINE preds == [b \in N |-> {s \in N : b \in next[s]}]
           less == Narrowed(preds, dom)
<1>1. \A b \in N : \A x \in dom[b] :
         x \in less[b] <=> (x = b \/ (preds[b] # {} /\ \A p \in preds[b] : x \in dom[p]))
  BY DEF Narrowed
<1>2. \A b \in N : less[b] \subseteq dom[b]
  BY DEF Narrowed
<1>3. \A b \in N : preds[b] = {s \in N : b \in next[s]}
  OBVIOUS
<1>4. e \in N
  BY DEF ReachSet
<1>5. \A b \in N : b \in less[b]
  BY <1>1 DEF Sound
<1>6. less[e] = {e}
  BY <1>2, <1>4, <1>5 DEF Sound
<1>7. ASSUME NEW x \in N, NEW Y \in SUBSET N, Guards(e, next, N, x, Y), NEW b \in Y
      PROVE  x \in less[b]
  <2>1. x \in dom[b]
    BY <1>7 DEF Sound
  <2>2. CASE b = x
    BY <1>5, <2>2
  <2>3. CASE b # x
    <3>1. b # e /\ \A p \in N : b \in next[p] => p \in Y
      BY <1>7, <2>3 DEF Guards
    <3>2. PICK p \in N : b \in next[p]
      BY <3>1, ReachedHavePredecessors
    <3>3. preds[b] # {}
      BY <1>3, <3>2
    <3>4. \A q \in preds[b] : q \in Y
      BY <1>3, <3>1
    <3>5. \A q \in preds[b] : x \in dom[q]
      BY <1>7, <3>4 DEF Sound
    <3>6. QED
      <4> HIDE DEF less, preds
      <4> QED  BY <1>1, <2>1, <3>3, <3>5
  <2>4. QED  BY <2>2, <2>3
<1>8. Sound(e, next, N, less)
  <2> HIDE DEF less
  <2> QED  BY <1>5, <1>6, <1>7 DEF Sound
<1>9. QED  BY <1>8

(* For every finite graph the sweeps of the dominator analysis end, and    *)
(* they end with the dominators: a block dominates b exactly if every way  *)
(* from the entry to b passes it.                                          *)
THEOREM DominatorsFacts ==
    ASSUME NEW D, IsFiniteSet(D), NEW next \in [D -> SUBSET D], NEW f, f.entry \in D
    PROVE  LET preds == Predecessors(f, next)
               N == Reachable(f, next)
           IN  /\ N \subseteq D /\ IsFiniteSet(N)
               /\ ReachSet(f.entry, next, N)
               /\ preds = [b \in N |-> {s \in N : b \in next[s]}]
               /\ DomTree(f.entry, next, N, Dominators(f, preds))
<1> DEFINE N == Reachable(f, next)
           preds == Predecessors(f, next)
           e == f.entry
           Q == [N -> SUBSET N]
<1>1. {e} \in SUBSET D
  OBVIOUS
<1>2. /\ {e} \subseteq N /\ N \subseteq D /\ Closed(next, N)
      /\ \A W : {e} \subseteq W /\ Closed(next, W) => N \subseteq W
  BY <1>1, ClosureFacts DEF Reachable
<1> HIDE DEF N, e
<1>3. ReachSet(e, next, N)
  BY <1>2 DEF ReachSet
<1>4. IsFiniteSet(N)
  BY <1>2, FS_Subset
<1>5. preds = [b \in N |-> {s \in N : b \in next[s]}]
  BY DEF Predecessors, N
<1> HIDE DEF preds
<1>6. DOMAIN preds = N /\ preds \in [N -> SUBSET N] /\ e \in N
  BY <1>5, <1>3 DEF ReachSet
<1>7. \E g : Settling(preds, g)
  BY <1>4, <1>6, SettleExists
<1> DEFINE g == CHOOSE g : Settling(preds, g)
           start == [b \in DOMAIN preds |-> IF b = f.entry THEN {b} ELSE DOMAIN preds]
<1>8. Settling(preds, g)
  BY <1>7
<1>9. Dominators(f, preds) = g[start]
  BY DEF Dominators, Settling
<1> HIDE DEF g
<1>10. \A dom \in Q : g[dom] = IF Narrowed(preds, dom) = dom THEN dom ELSE g[Narrowed(preds, dom)]
  BY <1>6, <1>8 DEF Settling
<1>11. start \in Q /\ Sound(e, next, N, start)
  <2>1. \A b \in N : start[b] = IF b = e THEN {b} ELSE N
    BY <1>6 DEF e
  <2>2. start \in Q
    BY <1>6 DEF e
  <2>3. ASSUME NEW x \in N, NEW Y \in SUBSET N, Guards(e, next, N, x, Y), NEW b \in Y
        PROVE  x \in start[b]
    <3> HIDE DEF start
    <3> QED  BY <2>1, <2>3 DEF Guards
  <2>4. QED
    <3> HIDE DEF start
    <3> QED  BY <1>6, <2>1, <2>2, <2>3 DEF Sound
<1> HIDE DEF start
<1> DEFINE Left(dom) == Cardinality(Pairs(N, dom))
           Fine(dom) == /\ g[dom] \in Q /\ Sound(e, next, N, g[dom])
                        /\ Narrowed(preds, g[dom]) = g[dom]
           Bad == {n \in Nat : \E dom \in Q : Left(dom) = n /\ Sound(e, next, N, dom) /\ ~Fine(dom)}
<1>12. \A dom \in Q : /\ Left(dom) \in Nat /\ Narrowed(preds, dom) \in Q
                      /\ Left(Narrowed(preds, dom)) \in Nat
                      /\ Narrowed(preds, dom) # dom => Left(Narrowed(preds, dom)) < Left(dom)
  BY <1>4, <1>6, NarrowedFacts
<1> HIDE DEF Left
<1>13. Bad = {}
  <2>1. SUFFICES ASSUME Bad # {} PROVE FALSE
    OBVIOUS
  <2>2. Bad \in SUBSET Nat
    OBVIOUS
  <2>3. PICK k \in Bad : \A j \in Bad : k <= j
    <3> HIDE DEF Bad
    <3> QED  BY <2>1, <2>2, LeastExists
  <2>4. PICK dom \in Q : Left(dom) = k /\ Sound(e, next, N, dom) /\ ~Fine(dom)
    OBVIOUS
  <2>5. CASE Narrowed(preds, dom) = dom
    <3>1. g[dom] = dom
      BY <1>10, <2>5
    <3>2. QED  BY <2>4, <2>5, <3>1
  <2>6. CASE Narrowed(preds, dom) # dom
    <3>1. Narrowed(preds, dom) \in Q /\ Left(Narrowed(preds, dom)) < k
          /\ Left(Narrowed(preds, dom)) \in Nat /\ k \in Nat
      BY <1>12, <2>4, <2>6
    <3>2. Sound(e, next, N, Narrowed(preds, dom))
      BY <1>3, <1>5, <2>4, SweepSound
    <3>3. Left(Narrowed(preds, dom)) \notin Bad
      <4> HIDE DEF Bad, Q
      <4> QED  BY <2>3, <3>1
    <3>4. Fine(Narrowed(preds, dom))
      <4> HIDE DEF Fine, Q
      <4> QED  BY <3>1, <3>2, <3>3
    <3>5. g[dom] = g[Narrowed(preds, dom)]
      BY <1>10, <2>6
    <3>6. QED
      <4> HIDE DEF Q
      <4> QED  BY <2>4, <3>4, <3>5
  <2>7. QED  BY <2>5, <2>6
<1>14. Fine(start)
  <2>1. Left(start) \in Nat
    BY <1>11, <1>12
  <2>2. QED
    <3> HIDE DEF Fine, Q
    <3> QED  BY <1>11, <1>13, <2>1
<1> DEFINE dom == g[start]
<1>15. dom \in Q /\ Sound(e, next, N, dom) /\ Narrowed(preds, dom) = dom
  BY <1>14
<1> HIDE DEF dom, Bad, Fine, Left
<1>16. ASSUME NEW b \in N \ {e}, NEW p \in N, NEW x \in dom[b], b \in next[p], x # b
       PROVE  x \in dom[p]
  <2>1. x \in Narrowed(preds, dom)[b]
    BY <1>15
  <2>2. \A q \in preds[b] : x \in dom[q]
    BY <1>6, <1>16, <2>1 DEF Narrowed
  <2>3. p \in preds[b]
    BY <1>5, <1>16
  <2>4. QED  BY <2>2, <2>3
<1>17. DomTree(e, next, N, dom)
  BY <1>15, <1>16 DEF DomTree, Sound
<1>18. QED  BY <1>2, <1>3, <1>4, <1>5, <1>9, <1>17 DEF N, e, preds, dom

LEMMA EntryDominates ==
    ASSUME NEW e, NEW next, NEW N, ReachSet(e, next, N), NEW dom, DomTree(e, next, N, dom),
           NEW b \in N
    PROVE  e \in dom[b]
<1>1. e \in N
  BY DEF ReachSet
<1>2. Guards(e, next, N, e, N)
  BY DEF Guards
<1>3. \A x \in N, Y \in SUBSET N : Guards(e, next, N, x, Y) => \A c \in Y : x \in dom[c]
  BY DEF DomTree
<1>4. QED  BY <1>1, <1>2, <1>3

(* Dominance is transitive and antisymmetric, and what dominates a block   *)
(* is a chain.                                                             *)
LEMMA DominatesTransitive ==
    ASSUME NEW e, NEW next, NEW N, ReachSet(e, next, N), NEW dom, DomTree(e, next, N, dom),
           NEW b \in N, NEW y \in dom[b], NEW x \in dom[y]
    PROVE  x \in dom[b]
<1> DEFINE Y == {c \in N : x \in dom[c] \/ y \in dom[c]}
<1>1. dom \in [N -> SUBSET N] /\ dom[e] = {e} /\ \A c \in N : c \in dom[c]
  BY DEF DomTree
<1>2. y \in N /\ x \in N /\ e \in N
  BY <1>1 DEF ReachSet
<1>3. \A c \in N \ {e}, p \in N : \A z \in dom[c] : c \in next[p] /\ z # c => z \in dom[p]
  BY DEF DomTree
<1>4. ASSUME NEW c \in Y, c # x  PROVE c # e /\ \A p \in N : c \in next[p] => p \in Y
  <2>1. c # e
    <3>1. SUFFICES ASSUME c = e PROVE FALSE
      OBVIOUS
    <3>2. x = e \/ y = e
      BY <1>1, <3>1
    <3>3. QED  BY <1>1, <1>4, <3>1, <3>2
  <2>2. ASSUME NEW p \in N, c \in next[p]  PROVE p \in Y
    <3>1. CASE x \in dom[c]
      BY <1>3, <1>4, <2>1, <2>2, <3>1
    <3>2. CASE y \in dom[c] /\ c # y
      BY <1>3, <2>1, <2>2, <3>2
    <3>3. CASE c = y
      BY <1>3, <1>4, <2>1, <2>2, <3>3
    <3>4. QED  BY <3>1, <3>2, <3>3
  <2>3. QED  BY <2>1, <2>2
<1>5. Y \in SUBSET N /\ b \in Y
  OBVIOUS
<1> HIDE DEF Y
<1>6. Guards(e, next, N, x, Y)
  BY <1>4 DEF Guards
<1>7. \A z \in N, Z \in SUBSET N : Guards(e, next, N, z, Z) => \A c \in Z : z \in dom[c]
  BY DEF DomTree
<1>8. QED  BY <1>2, <1>5, <1>6, <1>7

LEMMA DominatesAntisymmetric ==
    ASSUME NEW e, NEW next, NEW N, ReachSet(e, next, N), NEW dom, DomTree(e, next, N, dom),
           NEW x \in N, NEW y \in dom[x], x \in dom[y]
    PROVE  x = y
<1> DEFINE W == {c \in N : x \notin dom[c] /\ y \notin dom[c]}
<1>0. SUFFICES ASSUME x # y PROVE FALSE
  OBVIOUS
<1>1. dom \in [N -> SUBSET N] /\ dom[e] = {e} /\ \A c \in N : c \in dom[c]
  BY DEF DomTree
<1>2. y \in N /\ e \in N /\ N \subseteq DOMAIN next /\ Closed(next, N)
  BY <1>1 DEF ReachSet
<1>3. \A c \in N \ {e}, p \in N : \A z \in dom[c] : c \in next[p] /\ z # c => z \in dom[p]
  BY DEF DomTree
<1>4. e \in W
  BY <1>0, <1>1, <1>2
<1>5. ASSUME NEW p \in W, NEW c \in next[p]  PROVE c \in W
  <2>1. c \in N
    BY <1>2 DEF Closed
  <2>2. CASE c = e
    BY <1>4, <2>2
  <2>3. ASSUME c # e, x \in dom[c]  PROVE FALSE
    <3>1. CASE c # x
      BY <1>3, <2>1, <2>3, <3>1
    <3>2. CASE c = x
      BY <1>0, <1>3, <2>1, <2>3, <3>2
    <3>3. QED  BY <3>1, <3>2
  <2>4. ASSUME c # e, y \in dom[c]  PROVE FALSE
    <3>1. CASE c # y
      BY <1>3, <2>1, <2>4, <3>1
    <3>2. CASE c = y
      BY <1>0, <1>3, <2>1, <2>4, <3>2
    <3>3. QED  BY <3>1, <3>2
  <2>5. QED  BY <2>1, <2>2, <2>3, <2>4
<1>6. x \notin W
  BY <1>1
<1> HIDE DEF W
<1>7. Closed(next, W)
  BY <1>5 DEF Closed
<1>8. \A Z : e \in Z /\ Closed(next, Z) => N \subseteq Z
  BY DEF ReachSet
<1>9. QED  BY <1>4, <1>6, <1>7, <1>8

LEMMA DominatorsChain ==
    ASSUME NEW e, NEW next, NEW N, ReachSet(e, next, N), NEW dom, DomTree(e, next, N, dom),
           NEW b \in N, NEW x \in dom[b], NEW y \in dom[b]
    PROVE  x \in dom[y] \/ y \in dom[x]
<1> DEFINE W == {c \in N : x \notin dom[c] \/ y \notin dom[c]}
<1>0. SUFFICES ASSUME x \notin dom[y], y \notin dom[x] PROVE FALSE
  OBVIOUS
<1>1. dom \in [N -> SUBSET N] /\ dom[e] = {e} /\ \A c \in N : c \in dom[c]
  BY DEF DomTree
<1>2. y \in N /\ x \in N /\ e \in N /\ N \subseteq DOMAIN next /\ Closed(next, N)
  BY <1>1 DEF ReachSet
<1>3. \A c \in N \ {e}, p \in N : \A z \in dom[c] : c \in next[p] /\ z # c => z \in dom[p]
  BY DEF DomTree
<1>4. e \in W
  BY <1>0, <1>1, <1>2
<1>5. ASSUME NEW p \in W, NEW c \in next[p]  PROVE c \in W
  <2>1. c \in N
    BY <1>2 DEF Closed
  <2>2. CASE c = e
    BY <1>4, <2>2
  <2>3. ASSUME c # e, x \in dom[c], y \in dom[c]  PROVE FALSE
    <3>1. c # x /\ c # y
      BY <1>0, <2>3
    <3>2. x \in dom[p] /\ y \in dom[p]
      BY <1>3, <2>1, <2>3, <3>1
    <3>3. QED  BY <3>2
  <2>5. QED  BY <2>1, <2>2, <2>3
<1>6. b \notin W
  OBVIOUS
<1> HIDE DEF W
<1>7. Closed(next, W)
  BY <1>5 DEF Closed
<1>8. \A Z : e \in Z /\ Closed(next, Z) => N \subseteq Z
  BY DEF ReachSet
<1>9. QED  BY <1>4, <1>6, <1>7, <1>8

(* More edges, fewer dominators.                                           *)
LEMMA MoreEdges ==
    ASSUME NEW e, NEW N, NEW next, NEW more, \A p \in N : next[p] \subseteq more[p],
           NEW dom, NEW less, DomTree(e, next, N, dom), DomTree(e, more, N, less),
           NEW b \in N
    PROVE  less[b] \subseteq dom[b]
<1>1. less \in [N -> SUBSET N] /\ less[e] = {e}
  BY DEF DomTree
<1>2. \A c \in N \ {e}, p \in N : \A z \in less[c] : c \in more[p] /\ z # c => z \in less[p]
  BY DEF DomTree
<1>3. SUFFICES ASSUME NEW x \in less[b] PROVE x \in dom[b]
  OBVIOUS
<1> DEFINE Y == {c \in N : x \in less[c]}
<1>4. Guards(e, next, N, x, Y)
  <2>1. ASSUME NEW c \in Y, c # x  PROVE c # e /\ \A p \in N : c \in next[p] => p \in Y
    BY <1>1, <1>2, <2>1
  <2>2. QED
    <3> HIDE DEF Y
    <3> QED  BY <2>1 DEF Guards
<1>5. Y \in SUBSET N /\ b \in Y /\ x \in N
  BY <1>1
<1>6. \A z \in N, Z \in SUBSET N : Guards(e, next, N, z, Z) => \A c \in Z : z \in dom[c]
  BY DEF DomTree
<1> HIDE DEF Y
<1>7. QED  BY <1>4, <1>5, <1>6

(* What dominates the only predecessor of a block dominates the block.     *)
LEMMA OnlyPredecessor ==
    ASSUME NEW e, NEW next, NEW N, NEW dom, DomTree(e, next, N, dom),
           NEW b \in N, b # e, NEW q \in N, \A p \in N : b \in next[p] => p = q
    PROVE  dom[q] \subseteq dom[b]
<1>1. dom \in [N -> SUBSET N] /\ dom[e] = {e}
  BY DEF DomTree
<1>2. \A c \in N \ {e}, p \in N : \A z \in dom[c] : c \in next[p] /\ z # c => z \in dom[p]
  BY DEF DomTree
<1>3. SUFFICES ASSUME NEW x \in dom[q] PROVE x \in dom[b]
  OBVIOUS
<1> DEFINE Y == {c \in N : x \in dom[c]} \cup {b}
<1>4. ASSUME NEW c \in Y, c # x  PROVE c # e /\ \A p \in N : c \in next[p] => p \in Y
  <2>1. CASE c = b
    BY <1>3, <2>1
  <2>2. CASE c # b
    <3>1. c \in N /\ x \in dom[c] /\ c # e
      BY <1>1, <1>4, <2>2
    <3>2. QED  BY <1>2, <1>4, <3>1
  <2>3. QED  BY <2>1, <2>2
<1>5. Y \in SUBSET N /\ b \in Y /\ x \in N
  BY <1>1
<1> HIDE DEF Y
<1>6. Guards(e, next, N, x, Y)
  BY <1>4 DEF Guards
<1>7. \A z \in N, Z \in SUBSET N : Guards(e, next, N, z, Z) => \A c \in Z : z \in dom[c]
  BY DEF DomTree
<1>8. QED  BY <1>5, <1>6, <1>7

-----------------------------------------------------------------------------
(* Regions *)

Typed(f) ==
    /\ f.entry \in Blocks /\ f.succ \in [Blocks -> SUBSET Blocks] /\ f.throws \subseteq Blocks
    /\ TryBlocks(f) \subseteq Blocks
    /\ \A t \in TryBlocks(f) :
          /\ f.tries[t].entry \in Blocks /\ f.tries[t].handler \in Blocks
          /\ f.tries[t].exit \in Blocks \cup {NoBlock}
          /\ f.tries[t].catches \subseteq Tags

(* What the verifier has found of f: N can be reached, and dom dominates.  *)
Verified(f, N, dom) ==
    /\ Typed(f) /\ Lowered(f) /\ RegionsVerified(f, dom)
    /\ N \subseteq Blocks /\ IsFiniteSet(N)
    /\ ReachSet(f.entry, SeedEdges(f), N) /\ DomTree(f.entry, SeedEdges(f), N, dom)
    /\ f.raw = RawRegions(f, dom)

LEMMA SeedFacts ==
    ASSUME NEW f, Typed(f)
    PROVE  /\ SeedEdges(f) \in [Blocks -> SUBSET Blocks]
           /\ \A b \in Blocks : f.succ[b] \subseteq SeedEdges(f)[b]
           /\ \A t \in TryBlocks(f) : f.tries[t].handler \in SeedEdges(f)[t]
           /\ NoBlock \notin Blocks
<1>1. NoBlock \notin Blocks
  BY BlocksAssumption DEF NoBlock
<1>2. \A b \in Blocks : f.succ[b] \subseteq Blocks
  BY DEF Typed
<1>3. \A t \in TryBlocks(f) :
         /\ {f.tries[t].handler, f.tries[t].exit} \ {NoBlock} \subseteq Blocks
         /\ f.tries[t].handler # NoBlock /\ t \in Blocks
  BY <1>1 DEF Typed
<1>4. SeedEdges(f) \in [Blocks -> SUBSET Blocks]
  BY <1>2, <1>3 DEF SeedEdges
<1>5. \A b \in Blocks : f.succ[b] \subseteq SeedEdges(f)[b]
  BY DEF SeedEdges
<1>6. \A t \in TryBlocks(f) : f.tries[t].handler \in SeedEdges(f)[t]
  BY <1>3 DEF SeedEdges
<1>7. QED  BY <1>1, <1>4, <1>5, <1>6

(* The shape of a try block: nothing else leads to what it protects or to  *)
(* its handler, and no target is a handler.                                *)
LEMMA TryShape ==
    ASSUME NEW f, NEW N, NEW dom, Verified(f, N, dom), NEW t \in TryBlocks(f)
    PROVE  /\ t \in Blocks /\ f.succ[t] = {f.tries[t].entry}
           /\ f.tries[t].entry \in Blocks /\ f.tries[t].handler \in Blocks
           /\ f.tries[t].entry # f.entry /\ f.tries[t].handler # f.entry
           /\ f.tries[t].handler \notin TryBlocks(f)
           /\ \A b \in Blocks : f.tries[t].entry \in SeedEdges(f)[b] => b = t
           /\ \A b \in Blocks : f.tries[t].handler \in SeedEdges(f)[b] => b = t
           /\ \A b \in Blocks : f.tries[t].handler \notin f.succ[b]
           /\ \A u \in TryBlocks(f) : f.tries[u].entry # f.tries[t].handler
           /\ \A u \in TryBlocks(f) \ {t} : /\ f.tries[u].entry # f.tries[t].entry
                                            /\ f.tries[u].handler # f.tries[t].handler
<1>1. /\ t \in Blocks /\ f.tries[t].entry \in Blocks /\ f.tries[t].handler \in Blocks
      /\ TryBlocks(f) \subseteq Blocks /\ f.succ \in [Blocks -> SUBSET Blocks]
  BY DEF Verified, Typed
<1>2. \A u \in TryBlocks(f) :
         /\ f.succ[u] = {f.tries[u].entry}
         /\ f.tries[u].entry # f.entry /\ f.tries[u].handler \notin TryBlocks(f)
         /\ \A b \in Blocks \ {u} : SeedEdges(f)[b] \cap {f.tries[u].entry, f.tries[u].handler} = {}
  BY DEF Verified, Lowered
<1>3. /\ f.tries[t].handler # f.entry
      /\ \A u \in TryBlocks(f) \ {t} : f.tries[u].handler # f.tries[t].handler
      /\ \A b \in Blocks : f.tries[t].handler \notin f.succ[b]
      /\ \A b \in DOMAIN dom : t \in f.succ[b] => t \notin dom[b]
  BY DEF Verified, RegionsVerified
<1>4. \A b \in Blocks : f.succ[b] \subseteq SeedEdges(f)[b]
  BY SeedFacts DEF Verified
<1>5. \A b \in Blocks : /\ f.tries[t].entry \in SeedEdges(f)[b] => b = t
                        /\ f.tries[t].handler \in SeedEdges(f)[b] => b = t
  BY <1>2
<1>6. \A u \in TryBlocks(f) : f.tries[u].entry # f.tries[t].handler
  BY <1>1, <1>2, <1>3
<1>7. \A u \in TryBlocks(f) \ {t} : f.tries[u].entry # f.tries[t].entry
  BY <1>1, <1>2, <1>4, <1>5
<1>8. QED  BY <1>1, <1>2, <1>3, <1>5, <1>6, <1>7

(* A region is what its entry dominates.                                   *)
LEMMA RawFacts ==
    ASSUME NEW f, NEW N, NEW dom, Verified(f, N, dom), NEW t \in TryBlocks(f)
    PROVE  f.raw[t] = {b \in N : f.tries[t].entry \in dom[b]}
<1>1. N = DOMAIN dom /\ f.raw = RawRegions(f, dom)
  BY DEF Verified, DomTree
<1>2. QED  BY <1>1 DEF RawRegions

(* A try block, what it protects and its handler are reached together.     *)
LEMMA ReachedTogether ==
    ASSUME NEW f, NEW N, NEW dom, Verified(f, N, dom), NEW t \in TryBlocks(f)
    PROVE  /\ t \in N => f.tries[t].entry \in N /\ f.tries[t].handler \in N
           /\ f.tries[t].entry \in N => t \in N
           /\ f.tries[t].handler \in N => t \in N
<1> DEFINE seed == SeedEdges(f)
<1>1. /\ Typed(f) /\ N \subseteq Blocks /\ ReachSet(f.entry, seed, N)
  BY DEF Verified
<1>2. /\ seed \in [Blocks -> SUBSET Blocks] /\ f.succ[t] \subseteq seed[t]
      /\ f.tries[t].handler \in seed[t] /\ t \in Blocks /\ f.tries[t].entry \in f.succ[t]
  BY <1>1, SeedFacts, TryShape
<1>3. /\ f.tries[t].entry # f.entry /\ f.tries[t].handler # f.entry
      /\ \A b \in Blocks : f.tries[t].entry \in seed[b] => b = t
      /\ \A b \in Blocks : f.tries[t].handler \in seed[b] => b = t
  BY TryShape
<1> HIDE DEF seed
<1>4. Closed(seed, N)
  BY <1>1 DEF ReachSet
<1>5. t \in N => f.tries[t].entry \in N /\ f.tries[t].handler \in N
  BY <1>2, <1>4 DEF Closed
<1>6. \A b \in N : b # f.entry => \E p \in N : b \in seed[p]
  BY <1>1, ReachedHavePredecessors
<1>7. f.tries[t].entry \in N => t \in N
  BY <1>1, <1>3, <1>6
<1>8. f.tries[t].handler \in N => t \in N
  BY <1>1, <1>3, <1>6
<1>9. QED  BY <1>5, <1>7, <1>8

(* A region is entered through its entry only.                             *)
LEMMA RawEntered ==
    ASSUME NEW f, NEW N, NEW dom, Verified(f, N, dom), NEW t \in TryBlocks(f),
           NEW b \in f.raw[t], b # f.tries[t].entry, NEW s \in N, b \in SeedEdges(f)[s]
    PROVE  s \in f.raw[t]
<1>1. f.raw[t] = {c \in N : f.tries[t].entry \in dom[c]}
  BY RawFacts
<1>2. DomTree(f.entry, SeedEdges(f), N, dom) /\ f.tries[t].entry # f.entry
  BY TryShape DEF Verified
<1>3. b # f.entry
  BY <1>1, <1>2 DEF DomTree
<1>4. b \in N /\ f.tries[t].entry \in dom[b]
  BY <1>1
<1>5. \A c \in N \ {f.entry}, p \in N : \A x \in dom[c] : c \in SeedEdges(f)[p] /\ x # c => x \in dom[p]
  BY <1>2 DEF DomTree
<1>6. f.tries[t].entry \in dom[s]
  BY <1>3, <1>4, <1>5
<1>7. QED  BY <1>1, <1>6

(* A try block strictly dominates its region.                              *)
LEMMA TryDominates ==
    ASSUME NEW f, NEW N, NEW dom, Verified(f, N, dom), NEW t \in TryBlocks(f)
    PROVE  /\ t \notin f.raw[t]
           /\ \A b \in f.raw[t] : b \in N /\ t \in N /\ t \in dom[b]
<1> DEFINE e == f.tries[t].entry
<1>1. f.raw[t] = {c \in N : e \in dom[c]}
  BY RawFacts
<1>2. /\ ReachSet(f.entry, SeedEdges(f), N) /\ DomTree(f.entry, SeedEdges(f), N, dom)
      /\ N \subseteq Blocks /\ dom \in [N -> SUBSET N] /\ \A b \in N : b \in dom[b]
  BY DEF Verified, DomTree
<1>3. /\ e # f.entry /\ f.succ[t] = {e} /\ t \in Blocks
      /\ \A b \in Blocks : e \in SeedEdges(f)[b] => b = t
  BY TryShape
<1>4. e \in N => t \in N
  BY ReachedTogether
<1>5. ASSUME e \in N  PROVE t \in dom[e]
  <2>1. t \in N /\ \A p \in N : e \in SeedEdges(f)[p] => p = t
    BY <1>2, <1>3, <1>4, <1>5
  <2> HIDE DEF e
  <2>2. dom[t] \subseteq dom[e]
    BY <1>2, <1>3, <1>5, <2>1, OnlyPredecessor
  <2>3. QED  BY <1>2, <2>1, <2>2
<1> HIDE DEF e
<1>6. ASSUME NEW b \in f.raw[t]  PROVE b \in N /\ t \in N /\ t \in dom[b]
  <2>1. b \in N /\ e \in dom[b] /\ e \in N
    BY <1>1, <1>2
  <2>2. t \in dom[e]
    BY <1>5, <2>1
  <2>3. t \in dom[b]
    BY <1>2, <2>1, <2>2, DominatesTransitive
  <2>4. QED  BY <1>4, <2>1, <2>3
<1>7. t \notin f.raw[t]
  <2>1. SUFFICES ASSUME t \in f.raw[t] PROVE FALSE
    OBVIOUS
  <2>2. t \in N /\ e \in dom[t] /\ e \in N
    BY <1>1, <1>2, <2>1
  <2>3. t \in dom[e]
    BY <1>5, <2>2
  <2>4. t = e
    BY <1>2, <2>2, <2>3, DominatesAntisymmetric
  <2>5. t \in f.succ[t] /\ t \in dom[t] /\ t \in DOMAIN dom
    BY <1>2, <1>3, <2>2, <2>4
  <2>6. \A b \in DOMAIN dom : t \in f.succ[b] => t \notin dom[b]
    BY DEF Verified, RegionsVerified
  <2>7. QED  BY <2>5, <2>6
<1>8. QED  BY <1>6, <1>7

(* A region within a region.                                               *)
LEMMA RawWithin ==
    ASSUME NEW f, NEW N, NEW dom, Verified(f, N, dom), NEW t \in TryBlocks(f),
           NEW u \in TryBlocks(f), u \in f.raw[t]
    PROVE  u # t /\ f.raw[u] \subseteq f.raw[t]
<1>1. /\ f.raw[t] = {c \in N : f.tries[t].entry \in dom[c]}
      /\ f.raw[u] = {c \in N : f.tries[u].entry \in dom[c]}
  BY RawFacts
<1>2. u # t
  BY TryDominates
<1>3. ASSUME NEW b \in f.raw[u]  PROVE b \in f.raw[t]
  <2>1. ReachSet(f.entry, SeedEdges(f), N) /\ DomTree(f.entry, SeedEdges(f), N, dom)
    BY DEF Verified
  <2>2. b \in N /\ u \in dom[b]
    BY <1>3, TryDominates
  <2>3. f.tries[t].entry \in dom[u]
    BY <1>1
  <2>4. f.tries[t].entry \in dom[b]
    BY <2>1, <2>2, <2>3, DominatesTransitive
  <2>5. QED  BY <1>1, <2>2, <2>4
<1>4. QED  BY <1>2, <1>3

(* A handler is outside its region, and otherwise where its try block is.  *)
LEMMA HandlerPlace ==
    ASSUME NEW f, NEW N, NEW dom, Verified(f, N, dom), NEW t \in TryBlocks(f),
           NEW u \in TryBlocks(f)
    PROVE  f.tries[t].handler \in f.raw[u] <=> u # t /\ t \in f.raw[u]
<1> DEFINE h == f.tries[t].handler
           e == f.tries[u].entry
<1>1. f.raw[u] = {c \in N : e \in dom[c]}
  BY RawFacts
<1>2. /\ DomTree(f.entry, SeedEdges(f), N, dom)
      /\ N \subseteq Blocks /\ dom \in [N -> SUBSET N] /\ Typed(f)
  BY DEF Verified, DomTree
<1>3. /\ h # f.entry /\ h # e /\ h \in SeedEdges(f)[t] /\ t \in Blocks
      /\ \A b \in Blocks : h \in SeedEdges(f)[b] => b = t
  BY <1>2, TryShape, SeedFacts
<1>4. (h \in N => t \in N) /\ (t \in N => h \in N)
  BY ReachedTogether
<1> HIDE DEF h, e
<1>5. ASSUME h \in f.raw[u]  PROVE u # t /\ t \in f.raw[u]
  <2>1. h \in N /\ e \in dom[h] /\ t \in N
    BY <1>1, <1>4, <1>5
  <2>2. \A c \in N \ {f.entry}, p \in N : \A x \in dom[c] : c \in SeedEdges(f)[p] /\ x # c => x \in dom[p]
    BY <1>2 DEF DomTree
  <2>3. e \in dom[t]
    BY <1>3, <2>1, <2>2
  <2>4. t \in f.raw[u]
    BY <1>1, <2>1, <2>3
  <2>5. QED  BY <2>4, TryDominates
<1>6. ASSUME t \in f.raw[u]  PROVE h \in f.raw[u]
  <2>1. t \in N /\ e \in dom[t] /\ h \in N
    BY <1>1, <1>4, <1>6
  <2>2. \A p \in N : h \in SeedEdges(f)[p] => p = t
    BY <1>2, <1>3
  <2>3. dom[t] \subseteq dom[h]
    BY <1>2, <1>3, <2>1, <2>2, OnlyPredecessor
  <2>4. QED  BY <1>1, <2>1, <2>3
<1>7. QED  BY <1>5, <1>6 DEF h

(* Regions that share a block are nested.                                  *)
LEMMA RawNested ==
    ASSUME NEW f, NEW N, NEW dom, Verified(f, N, dom), NEW t \in TryBlocks(f),
           NEW u \in TryBlocks(f), NEW b \in f.raw[t], b \in f.raw[u]
    PROVE  t = u \/ t \in f.raw[u] \/ u \in f.raw[t]
<1>1. /\ f.raw[t] = {c \in N : f.tries[t].entry \in dom[c]}
      /\ f.raw[u] = {c \in N : f.tries[u].entry \in dom[c]}
  BY RawFacts
<1>2. /\ ReachSet(f.entry, SeedEdges(f), N) /\ DomTree(f.entry, SeedEdges(f), N, dom)
      /\ N \subseteq Blocks /\ dom \in [N -> SUBSET N] /\ Typed(f)
  BY DEF Verified, DomTree
<1>3. b \in N /\ f.tries[t].entry \in dom[b] /\ f.tries[u].entry \in dom[b]
  BY <1>1
<1>4. f.tries[t].entry \in dom[f.tries[u].entry] \/ f.tries[u].entry \in dom[f.tries[t].entry]
  BY <1>2, <1>3, DominatorsChain
<1>5. f.tries[t].entry \in N /\ f.tries[u].entry \in N
  BY <1>2, <1>3
<1>6. t \in N /\ u \in N
  BY <1>5, ReachedTogether
<1>7. \A c \in N \ {f.entry}, p \in N : \A x \in dom[c] : c \in SeedEdges(f)[p] /\ x # c => x \in dom[p]
  BY <1>2 DEF DomTree
<1>8. /\ f.tries[t].entry # f.entry /\ f.tries[t].entry \in SeedEdges(f)[t]
      /\ f.tries[u].entry # f.entry /\ f.tries[u].entry \in SeedEdges(f)[u]
  <2>1. /\ f.succ[t] = {f.tries[t].entry} /\ f.succ[u] = {f.tries[u].entry}
        /\ t \in Blocks /\ u \in Blocks
    BY TryShape
  <2>2. f.succ[t] \subseteq SeedEdges(f)[t] /\ f.succ[u] \subseteq SeedEdges(f)[u]
    BY <1>2, <2>1, SeedFacts
  <2>3. QED  BY <2>1, <2>2, TryShape
<1>9. SUFFICES ASSUME t # u PROVE t \in f.raw[u] \/ u \in f.raw[t]
  OBVIOUS
<1>10. f.tries[t].entry # f.tries[u].entry
  BY <1>9, TryShape
<1>11. CASE f.tries[t].entry \in dom[f.tries[u].entry]
  <2>1. f.tries[t].entry \in dom[u]
    BY <1>5, <1>6, <1>7, <1>8, <1>10, <1>11
  <2>2. QED  BY <1>1, <1>6, <2>1
<1>12. CASE f.tries[u].entry \in dom[f.tries[t].entry]
  <2>1. f.tries[u].entry \in dom[t]
    BY <1>5, <1>6, <1>7, <1>8, <1>10, <1>12
  <2>2. QED  BY <1>1, <1>6, <2>1
<1>13. QED  BY <1>4, <1>11, <1>12

(* What a try emits: itself, its region and its handler.                   *)
LEMMA ClaimFacts ==
    ASSUME NEW f, NEW N, NEW dom, Verified(f, N, dom), NEW t \in TryBlocks(f)
    PROVE  Claim(f, t) = f.raw[t] \cup {t, f.tries[t].handler}
<1> DEFINE T == TryBlocks(f)
           C == Closure({t}, Within(f))
           W == {t} \cup (T \cap f.raw[t])
<1>1. T \subseteq Blocks /\ IsFiniteSet(Blocks)
  BY BlocksAssumption DEF Verified, Typed
<1>2. IsFiniteSet(T)
  BY <1>1, FS_Subset
<1>3. Within(f) \in [T -> SUBSET T] /\ \A u \in T : Within(f)[u] = T \cap f.raw[u]
  BY DEF Within
<1>4. {t} \in SUBSET T
  OBVIOUS
<1> HIDE DEF T
<1>5. /\ {t} \subseteq C /\ C \subseteq T /\ Closed(Within(f), C)
      /\ \A Z : {t} \subseteq Z /\ Closed(Within(f), Z) => C \subseteq Z
  BY <1>2, <1>3, <1>4, ClosureFacts
<1> HIDE DEF C
<1>6. ASSUME NEW u \in T \cap f.raw[t]  PROVE u # t /\ f.raw[u] \subseteq f.raw[t]
  BY <1>6, RawWithin DEF T
<1>7. Closed(Within(f), W)
  BY <1>3, <1>6 DEF Closed
<1>8. C = W
  <2>1. C \subseteq W
    BY <1>5, <1>7
  <2>2. W \subseteq C
    BY <1>3, <1>5 DEF Closed
  <2>3. QED  BY <2>1, <2>2
<1>9. ASSUME NEW u \in T \cap f.raw[t]
      PROVE  Extent(f, u) \cup {f.tries[u].handler} \subseteq f.raw[t]
  <2>1. f.tries[u].handler \in f.raw[t]
    BY <1>6, <1>9, HandlerPlace DEF T
  <2>2. QED  BY <1>6, <2>1 DEF Extent
<1>10. Claim(f, t) = UNION {Extent(f, u) \cup {f.tries[u].handler} : u \in W}
  BY <1>8 DEF Claim, C
<1>11. Extent(f, t) \cup {f.tries[t].handler} = f.raw[t] \cup {t, f.tries[t].handler}
  BY DEF Extent
<1>12. ASSUME NEW b \in Claim(f, t)  PROVE b \in f.raw[t] \cup {t, f.tries[t].handler}
  <2>1. PICK u \in W : b \in Extent(f, u) \cup {f.tries[u].handler}
    BY <1>10
  <2>2. CASE u = t
    BY <1>11, <2>1, <2>2
  <2>3. CASE u # t
    BY <1>9, <2>1, <2>3
  <2>4. QED  BY <2>2, <2>3
<1>13. ASSUME NEW b \in f.raw[t] \cup {t, f.tries[t].handler}  PROVE b \in Claim(f, t)
  <2>1. b \in Extent(f, t) \cup {f.tries[t].handler} /\ t \in W
    BY <1>11
  <2>2. QED  BY <1>10, <2>1
<1>14. QED  BY <1>12, <1>13

(* The regions around b that catch tag.                                    *)
Catching(f, b, tag) ==
    {t \in TryBlocks(f) : /\ b \in f.raw[t] /\ b # f.tries[t].handler
                          /\ tag \in f.tries[t].catches}

LEMMA LandingFacts ==
    ASSUME NEW f, NEW N, NEW dom, Verified(f, N, dom), NEW b, NEW tag
    PROVE  \/ Catching(f, b, tag) = {} /\ Landing(f, b, tag) = Nowhere
           \/ \E t \in Catching(f, b, tag) :
                 /\ \A u \in Catching(f, b, tag) : f.raw[t] \subseteq f.raw[u]
                 /\ Landing(f, b, tag) = f.tries[t].handler
<1> DEFINE C == Catching(f, b, tag)
           Inner(t) == \A u \in C : f.raw[t] \subseteq f.raw[u]
<1>1. Landing(f, b, tag) = IF C = {} THEN Nowhere ELSE f.tries[CHOOSE t \in C : Inner(t)].handler
  BY DEF Landing, Catching
<1>2. C \subseteq TryBlocks(f) /\ \A t \in C : b \in f.raw[t]
  BY DEF Catching
<1> HIDE DEF C
<1>3. ASSUME C # {}  PROVE \E t \in C : Inner(t)
  <2> DEFINE sizes == {Cardinality(f.raw[t]) : t \in C}
  <2>1. \A t \in C : f.raw[t] \in SUBSET N /\ IsFiniteSet(N)
    BY <1>2, RawFacts DEF Verified
  <2>2. \A t \in C : IsFiniteSet(f.raw[t]) /\ Cardinality(f.raw[t]) \in Nat
    BY <2>1, FS_Subset, FS_CardinalityType
  <2>3. sizes \in SUBSET Nat /\ sizes # {}
    BY <1>3, <2>2
  <2>4. PICK k \in sizes : \A j \in sizes : k <= j
    <3> HIDE DEF sizes
    <3> QED  BY <2>3, LeastExists
  <2>5. PICK t \in C : k = Cardinality(f.raw[t])
    OBVIOUS
  <2>6. ASSUME NEW u \in C  PROVE f.raw[t] \subseteq f.raw[u]
    <3>1. t = u \/ t \in f.raw[u] \/ u \in f.raw[t]
      BY <1>2, RawNested
    <3>2. CASE t = u
      BY <3>2
    <3>3. CASE t \in f.raw[u]
      BY <1>2, <3>3, RawWithin
    <3>4. CASE u \in f.raw[t]
      <4>1. f.raw[u] \in SUBSET f.raw[t]
        BY <1>2, <3>4, RawWithin
      <4>2. k <= Cardinality(f.raw[u])
        BY <2>4
      <4>3. /\ Cardinality(f.raw[u]) <= Cardinality(f.raw[t])
            /\ Cardinality(f.raw[u]) = Cardinality(f.raw[t]) => f.raw[u] = f.raw[t]
        BY <2>2, <4>1, FS_Subset
      <4> HIDE DEF sizes
      <4>4. Cardinality(f.raw[u]) = Cardinality(f.raw[t])
        BY <2>2, <2>5, <4>2, <4>3
      <4>5. QED  BY <4>3, <4>4
    <3>5. QED  BY <3>1, <3>2, <3>3, <3>4
  <2>7. QED  BY <2>6
<1>4. CASE C = {}
  BY <1>1, <1>4 DEF C
<1>5. CASE C # {}
  <2> DEFINE t == CHOOSE t \in C : Inner(t)
  <2>1. t \in C /\ Inner(t)
    BY <1>3, <1>5
  <2>2. Landing(f, b, tag) = f.tries[t].handler
    BY <1>1, <1>5
  <2> HIDE DEF t
  <2>3. QED  BY <2>1, <2>2 DEF C
<1>6. QED  BY <1>4, <1>5

(* Unwinding leads nowhere new.                                            *)
LEMMA UnwindFacts ==
    ASSUME NEW f, NEW N, NEW dom, Verified(f, N, dom), f.edges = UnwindEdges(f)
    PROVE  /\ f.edges \in [Blocks -> SUBSET Blocks]
           /\ \A b \in Blocks : f.succ[b] \subseteq f.edges[b]
           /\ \A b \in Blocks : SeedEdges(f)[b] \subseteq f.edges[b]
           /\ ReachSet(f.entry, f.edges, N)
<1>1. Typed(f) /\ ReachSet(f.entry, SeedEdges(f), N) /\ N \subseteq Blocks
  BY DEF Verified
<1>2. /\ SeedEdges(f) \in [Blocks -> SUBSET Blocks]
      /\ \A b \in Blocks : f.succ[b] \subseteq SeedEdges(f)[b]
  BY <1>1, SeedFacts
<1>3. ASSUME NEW b, NEW tag, Landing(f, b, tag) # Nowhere
      PROVE  Landing(f, b, tag) \in N
  <2>1. PICK t \in Catching(f, b, tag) : Landing(f, b, tag) = f.tries[t].handler
    BY <1>3, LandingFacts
  <2>2. t \in TryBlocks(f) /\ b \in f.raw[t]
    BY DEF Catching
  <2>3. t \in N
    BY <2>2, TryDominates
  <2>4. QED  BY <2>1, <2>2, <2>3, ReachedTogether
<1>4. ASSUME NEW b \in Blocks
      PROVE  f.edges[b] = SeedEdges(f)[b] \cup
                (IF b \in f.throws THEN {Landing(f, b, x) : x \in Tags} \ {Nowhere} ELSE {})
  BY DEF UnwindEdges
<1>5. \A b \in Blocks : /\ SeedEdges(f)[b] \subseteq f.edges[b]
                        /\ f.edges[b] \subseteq SeedEdges(f)[b] \cup N
  BY <1>3, <1>4
<1>6. f.edges \in [Blocks -> SUBSET Blocks]
  <2>1. f.edges = [b \in Blocks |-> f.edges[b]]
    BY DEF UnwindEdges
  <2>2. \A b \in Blocks : f.edges[b] \in SUBSET Blocks
    BY <1>1, <1>2, <1>5
  <2>3. QED  BY <2>1, <2>2
<1>7. DOMAIN f.edges = Blocks /\ DOMAIN SeedEdges(f) = Blocks
  BY <1>2, <1>6
<1>8. Closed(f.edges, N)
  <2>1. Closed(SeedEdges(f), N)
    BY <1>1 DEF ReachSet
  <2>2. QED  BY <1>1, <1>5, <1>7, <2>1 DEF Closed
<1>9. ASSUME NEW W, f.entry \in W, Closed(f.edges, W)  PROVE N \subseteq W
  <2>1. Closed(SeedEdges(f), W)
    BY <1>5, <1>7, <1>9 DEF Closed
  <2>2. \A Z : f.entry \in Z /\ Closed(SeedEdges(f), Z) => N \subseteq Z
    BY <1>1 DEF ReachSet
  <2>3. QED  BY <1>9, <2>1, <2>2
<1>10. ReachSet(f.entry, f.edges, N)
  BY <1>1, <1>7, <1>8, <1>9 DEF ReachSet
<1>11. \A b \in Blocks : f.succ[b] \subseteq f.edges[b]
  BY <1>2, <1>5
<1>12. QED  BY <1>5, <1>6, <1>10, <1>11

-----------------------------------------------------------------------------
(* Loops *)

(* What is known of the loops of f once its plan has been checked.         *)
Looped(f, N, dom, loops) ==
    /\ Verified(f, N, dom) /\ f.edges = UnwindEdges(f) /\ Reachable(f, f.edges) = N
    /\ IsFiniteSet(loops)
    /\ \A l \in loops :
          /\ l.header \in N /\ l.blocks \subseteq N /\ l.header \in l.blocks
          /\ \A b \in l.blocks : l.header \in dom[b]
          /\ l.header \notin TryBlocks(f)
          /\ \A t \in TryBlocks(f) : l.header # f.tries[t].handler
          /\ \A b \in l.blocks \ {l.header}, s \in N : b \in f.edges[s] => s \in l.blocks
    /\ \A l, k \in loops : l.header = k.header => l = k
    /\ \A s \in N : f.entry \in f.succ[s] => \E l \in loops : l.header = f.entry /\ s \in l.blocks
    /\ TriesNest(f, loops)

LEMMA LoopsFound ==
    ASSUME NEW f, NEW N, NEW dom, Verified(f, N, dom), f.edges = UnwindEdges(f),
           HeadersDominate(NaturalLoops(f, Predecessors(f, f.edges),
                                        Dominators(f, Predecessors(f, f.edges))),
                           Dominators(f, Predecessors(f, f.edges))),
           TriesNest(f, NaturalLoops(f, Predecessors(f, f.edges),
                                     Dominators(f, Predecessors(f, f.edges))))
    PROVE  Looped(f, N, dom, NaturalLoops(f, Predecessors(f, f.edges),
                                          Dominators(f, Predecessors(f, f.edges))))
<1> DEFINE preds == Predecessors(f, f.edges)
           flow == Dominators(f, preds)
           loops == NaturalLoops(f, preds, flow)
           M == Reachable(f, f.edges)
<1>1. /\ f.edges \in [Blocks -> SUBSET Blocks] /\ \A b \in Blocks : f.succ[b] \subseteq f.edges[b]
      /\ \A b \in Blocks : SeedEdges(f)[b] \subseteq f.edges[b]
      /\ ReachSet(f.entry, f.edges, N)
  BY UnwindFacts
<1>2. /\ f.entry \in Blocks /\ IsFiniteSet(Blocks) /\ N \subseteq Blocks /\ IsFiniteSet(N)
      /\ DomTree(f.entry, SeedEdges(f), N, dom) /\ TryBlocks(f) \subseteq Blocks
  BY BlocksAssumption DEF Verified, Typed
<1>3. /\ ReachSet(f.entry, f.edges, M)
      /\ preds = [b \in M |-> {s \in M : b \in f.edges[s]}]
      /\ DomTree(f.entry, f.edges, M, flow)
  BY <1>1, <1>2, DominatorsFacts
<1> HIDE DEF preds, flow, M
<1>4. M = N
  <2>1. \A W : f.entry \in W /\ Closed(f.edges, W) => N \subseteq W
    BY <1>1 DEF ReachSet
  <2>2. \A W : f.entry \in W /\ Closed(f.edges, W) => M \subseteq W
    BY <1>3 DEF ReachSet
  <2>3. f.entry \in M /\ Closed(f.edges, M) /\ f.entry \in N /\ Closed(f.edges, N)
    BY <1>1, <1>3 DEF ReachSet
  <2>4. QED  BY <2>1, <2>2, <2>3
<1>5. preds = [b \in N |-> {s \in N : b \in f.edges[s]}] /\ DomTree(f.entry, f.edges, N, flow)
  BY <1>3, <1>4
<1>6. preds \in [N -> SUBSET N] /\ DOMAIN preds = N /\ \A b \in N : preds[b] = {s \in N : b \in f.edges[s]}
  BY <1>5
<1>7. \A p \in N : SeedEdges(f)[p] \subseteq f.edges[p]
  BY <1>1, <1>2
<1>8. \A b \in N : flow[b] \subseteq dom[b]
  <2> DEFINE seed == SeedEdges(f)
             e == f.entry
             edges == f.edges
  <2>1. DomTree(e, seed, N, dom) /\ DomTree(e, edges, N, flow) /\ \A p \in N : seed[p] \subseteq edges[p]
    BY <1>2, <1>5, <1>7
  <2> HIDE DEF seed, e, edges
  <2>2. QED  BY <2>1, MoreEdges
<1> DEFINE latches(h) == Latches(f, preds, flow, h)
           inner(h) == [preds EXCEPT ![h] = {}]
           body(h) == Closure({h} \cup latches(h), inner(h))
           H == {h \in N : latches(h) # {}}
           found == [h \in H |-> [header |-> h, blocks |-> body(h)]]
<1>9. \A h : latches(h) = {s \in N : h \in f.succ[s] /\ h \in flow[s]}
  BY <1>6 DEF Latches
<1>10. loops = {[header |-> h, blocks |-> body(h)] : h \in H}
  BY <1>6 DEF NaturalLoops
<1> HIDE DEF latches, loops
<1>11. ASSUME NEW h \in N
       PROVE  /\ h \in body(h) /\ latches(h) \subseteq body(h) /\ body(h) \subseteq N
              /\ \A b \in body(h) \ {h}, s \in N : b \in f.edges[s] => s \in body(h)
  <2>1. inner(h) \in [N -> SUBSET N] /\ \A b \in N \ {h} : inner(h)[b] = preds[b]
    BY <1>6
  <2>2. {h} \cup latches(h) \in SUBSET N
    BY <1>9
  <2> HIDE DEF inner
  <2>3. /\ {h} \cup latches(h) \subseteq body(h) /\ body(h) \subseteq N /\ Closed(inner(h), body(h))
    BY <1>2, <2>1, <2>2, ClosureFacts
  <2> HIDE DEF body
  <2>4. ASSUME NEW b \in body(h) \ {h}, NEW s \in N, b \in f.edges[s]  PROVE s \in body(h)
    <3>1. b \in N \ {h} /\ DOMAIN inner(h) = N
      BY <2>1, <2>3
    <3>2. inner(h)[b] \subseteq body(h)
      BY <2>3, <3>1 DEF Closed
    <3>3. s \in preds[b]
      BY <1>6, <2>4, <3>1
    <3>4. QED  BY <2>1, <3>1, <3>2, <3>3
  <2>5. QED  BY <2>3, <2>4
<1> HIDE DEF body
<1>12. ASSUME NEW h \in H  PROVE h \notin TryBlocks(f) /\ \A t \in TryBlocks(f) : h # f.tries[t].handler
  <2>1. PICK s \in N : h \in f.succ[s] /\ h \in flow[s]
    BY <1>9
  <2>2. h \in dom[s] /\ s \in Blocks /\ s \in DOMAIN dom
    BY <1>2, <1>8, <2>1 DEF DomTree
  <2>3. RegionsVerified(f, dom)
    BY DEF Verified
  <2>4. h \notin TryBlocks(f)
    BY <2>1, <2>2, <2>3 DEF RegionsVerified
  <2>5. QED  BY <2>1, <2>2, <2>4, TryShape
<1>13. IsFiniteSet(loops)
  <2>1. IsFiniteSet(H)
    <3>1. H \in SUBSET N
      OBVIOUS
    <3>2. QED  BY <1>2, <3>1, FS_Subset
  <2> HIDE DEF H
  <2>2. found \in Surjection(H, loops)
    <3>1. \A h \in H : found[h] \in loops
      BY <1>10
    <3>2. \A l \in loops : \E h \in H : found[h] = l
      BY <1>10
    <3>3. found \in [H -> loops]
      BY <3>1
    <3>4. QED  BY <3>2, <3>3 DEF Surjection
  <2>3. QED
    <3> HIDE DEF found
    <3> QED  BY <2>1, <2>2, FS_Surjection
<1>14. \A b \in N : f.entry \in flow[b]
  BY <1>1, <1>5, EntryDominates
<1>15. ASSUME NEW l \in loops
       PROVE  /\ l.header \in H /\ l.blocks = body(l.header)
              /\ \A b \in l.blocks : l.header \in flow[b]
  <2>1. PICK h \in H : l = [header |-> h, blocks |-> body(h)]
    BY <1>10
  <2>2. HeadersDominate(loops, flow)
    BY DEF loops, flow, preds
  <2>3. QED  BY <2>1, <2>2 DEF HeadersDominate
<1>16. ASSUME NEW l \in loops
       PROVE  /\ l.header \in N /\ l.blocks \subseteq N /\ l.header \in l.blocks
              /\ \A b \in l.blocks : l.header \in dom[b]
              /\ l.header \notin TryBlocks(f)
              /\ \A t \in TryBlocks(f) : l.header # f.tries[t].handler
              /\ \A b \in l.blocks \ {l.header}, s \in N : b \in f.edges[s] => s \in l.blocks
  <2>1. l.header \in N
    BY <1>15
  <2> HIDE DEF H
  <2>2. /\ l.header \in l.blocks /\ l.blocks \subseteq N
        /\ \A b \in l.blocks \ {l.header}, s \in N : b \in f.edges[s] => s \in l.blocks
    BY <1>11, <1>15, <2>1
  <2>3. \A b \in l.blocks : l.header \in dom[b]
    BY <1>8, <1>15, <2>2
  <2>4. QED  BY <1>12, <1>15, <2>1, <2>2, <2>3
<1>17. ASSUME NEW l \in loops, NEW k \in loops, l.header = k.header  PROVE l = k
  <2>1. PICK h \in H : l = [header |-> h, blocks |-> body(h)]
    BY <1>10
  <2>2. PICK g \in H : k = [header |-> g, blocks |-> body(g)]
    BY <1>10
  <2>3. QED  BY <1>17, <2>1, <2>2
<1>18. ASSUME NEW s \in N, f.entry \in f.succ[s]
       PROVE  \E l \in loops : l.header = f.entry /\ s \in l.blocks
  <2>1. s \in latches(f.entry) /\ f.entry \in N
    BY <1>1, <1>9, <1>14, <1>18 DEF ReachSet
  <2>2. [header |-> f.entry, blocks |-> body(f.entry)] \in loops
    BY <1>10, <2>1
  <2>3. s \in body(f.entry)
    BY <1>11, <2>1
  <2>4. QED  BY <2>2, <2>3
<1>19. TriesNest(f, loops)
  BY DEF loops, flow, preds
<1>20. Reachable(f, f.edges) = N
  BY <1>4 DEF M
<1> HIDE DEF H
<1>21. Looped(f, N, dom, loops)
  BY <1>13, <1>16, <1>17, <1>18, <1>19, <1>20 DEF Looped
<1>22. QED  BY <1>21 DEF loops, flow, preds

(* Dominated blocks have more dominators.                                  *)
Depth(dom, b) == Cardinality(dom[b])

LEMMA DepthFacts ==
    ASSUME NEW f, NEW N, NEW dom, Verified(f, N, dom), NEW b \in N
    PROVE  /\ Depth(dom, b) \in Nat /\ Depth(dom, b) <= Cardinality(N) /\ Cardinality(N) \in Nat
           /\ \A x \in dom[b] \ {b} : x \in N /\ Depth(dom, x) \in Nat /\ Depth(dom, x) < Depth(dom, b)
<1>1. /\ ReachSet(f.entry, SeedEdges(f), N) /\ DomTree(f.entry, SeedEdges(f), N, dom)
      /\ dom \in [N -> SUBSET N] /\ \A c \in N : c \in dom[c] /\ IsFiniteSet(N)
  BY DEF Verified, DomTree
<1>2. \A c \in N : /\ dom[c] \in SUBSET N /\ IsFiniteSet(dom[c])
                   /\ Cardinality(dom[c]) \in Nat /\ Cardinality(dom[c]) <= Cardinality(N)
  BY <1>1, FS_Subset, FS_CardinalityType
<1>3. ASSUME NEW x \in dom[b] \ {b}
      PROVE  x \in N /\ Depth(dom, x) \in Nat /\ Depth(dom, x) < Depth(dom, b)
  <2>1. x \in N
    BY <1>1
  <2>2. dom[x] \in SUBSET dom[b]
    BY <1>1, DominatesTransitive
  <2>3. b \notin dom[x]
    BY <1>1, <2>1, DominatesAntisymmetric
  <2>4. b \in dom[b]
    BY <1>1
  <2>5. /\ Cardinality(dom[x]) <= Cardinality(dom[b])
        /\ Cardinality(dom[x]) = Cardinality(dom[b]) => dom[x] = dom[b]
    BY <1>2, <2>2, FS_Subset
  <2>6. QED  BY <1>2, <2>1, <2>3, <2>4, <2>5 DEF Depth
<1>4. QED  BY <1>1, <1>2, <1>3, FS_CardinalityType DEF Depth

-----------------------------------------------------------------------------
(* The units of a region *)

(* A loop or a try that may be a unit of a region.                         *)
Child(f, N, loops, c) ==
    (\E l \in loops : c = LoopUnit(f, l)) \/ (\E t \in TryBlocks(f) \cap N : c = TryUnit(f, t))

LEMMA LoopUnitFacts ==
    ASSUME NEW f, NEW l
    PROVE  LET c == LoopUnit(f, l)
           IN  /\ c.kind = "loop" /\ c.header = l.header /\ c.within = l.blocks
               /\ c.blocks = l.blocks \cup UNION {Claim(f, t) : t \in TryBlocks(f) \cap l.blocks}
               /\ Members(f, c) = l.blocks /\ Header(c) = l.header /\ First(f, c) = l.header
BY DEF LoopUnit, Members, Header, First

LEMMA TryUnitFacts ==
    ASSUME NEW f, NEW t
    PROVE  LET c == TryUnit(f, t)
           IN  /\ c.kind = "try" /\ c.header = t /\ c.within = Extent(f, t) /\ c.blocks = Claim(f, t)
               /\ Members(f, c) = f.raw[t] /\ Header(c) = NoBlock /\ First(f, c) = f.tries[t].entry
BY DEF TryUnit, Members, Header, First

LEMMA RootUnitFacts ==
    ASSUME NEW f
    PROVE  LET c == RootUnit(f)
           IN  /\ c.kind = "root" /\ c.header = f.entry
               /\ Members(f, c) = Reachable(f, f.edges) /\ Header(c) = NoBlock /\ First(f, c) = f.entry
BY DEF RootUnit, Members, Header, First

LEMMA BlockUnitFacts ==
    ASSUME NEW b
    PROVE  LET c == BlockUnit(b)
           IN  c.kind = "block" /\ c.header = b /\ c.blocks = {b}
BY DEF BlockUnit

LEMMA ContainedFacts ==
    ASSUME NEW f, NEW N, NEW dom, NEW loops, Looped(f, N, dom, loops),
           NEW c, Child(f, N, loops, c), NEW o, Child(f, N, loops, o), c # o, Contained(f, c, o)
    PROVE  c.blocks \subseteq o.blocks /\ c.header \in N /\ o.header \in dom[c.header] \ {c.header}
<1>1. /\ Verified(f, N, dom) /\ dom \in [N -> SUBSET N]
      /\ \A l \in loops :
            /\ l.header \in N /\ l.blocks \subseteq N /\ l.header \in l.blocks
            /\ \A b \in l.blocks : l.header \in dom[b]
            /\ l.header \notin TryBlocks(f)
      /\ \A l, k \in loops : l.header = k.header => l = k
  BY DEF Looped, Verified, DomTree
<1>2. \A t \in TryBlocks(f) : \A b \in f.raw[t] : b \in N /\ t \in dom[b] /\ b # t
  BY <1>1, TryDominates
<1>3. \A t, u \in TryBlocks(f) : u \in f.raw[t] => Claim(f, u) \subseteq f.raw[t] /\ u # t
  <2> TAKE t, u \in TryBlocks(f)
  <2> HAVE u \in f.raw[t]
  <2>1. u # t /\ f.raw[u] \subseteq f.raw[t]
    BY <1>1, RawWithin
  <2>2. f.tries[u].handler \in f.raw[t]
    BY <1>1, <2>1, HandlerPlace
  <2>3. Claim(f, u) = f.raw[u] \cup {u, f.tries[u].handler}
    BY <1>1, ClaimFacts
  <2>4. QED  BY <2>1, <2>2, <2>3
<1>4. \A t \in TryBlocks(f) : f.raw[t] \subseteq Claim(f, t) /\ Extent(f, t) = f.raw[t] \cup {t}
  BY <1>1, ClaimFacts DEF Extent
<1>5. CASE (\E t \in TryBlocks(f) \cap N : c = TryUnit(f, t)) /\ (\E l \in loops : o = LoopUnit(f, l))
  <2>1. PICK t \in TryBlocks(f) \cap N : c = TryUnit(f, t)
    BY <1>5
  <2>2. PICK l \in loops : o = LoopUnit(f, l)
    BY <1>5
  <2>3. /\ c.kind = "try" /\ c.header = t /\ c.blocks = Claim(f, t)
        /\ o.kind = "loop" /\ o.header = l.header /\ o.within = l.blocks
        /\ o.blocks = l.blocks \cup UNION {Claim(f, w) : w \in TryBlocks(f) \cap l.blocks}
    BY <2>1, <2>2, TryUnitFacts, LoopUnitFacts
  <2>4. t \in l.blocks
    BY <2>3 DEF Contained
  <2>5. c.blocks \subseteq o.blocks
    BY <2>3, <2>4
  <2>6. QED  BY <1>1, <2>3, <2>4, <2>5
<1>6. CASE (\E l \in loops : c = LoopUnit(f, l)) /\ (\E t \in TryBlocks(f) \cap N : o = TryUnit(f, t))
  <2>1. PICK l \in loops : c = LoopUnit(f, l)
    BY <1>6
  <2>2. PICK t \in TryBlocks(f) \cap N : o = TryUnit(f, t)
    BY <1>6
  <2>3. /\ o.kind = "try" /\ o.header = t /\ o.blocks = Claim(f, t)
        /\ c.kind = "loop" /\ c.header = l.header /\ c.within = l.blocks
        /\ c.blocks = l.blocks \cup UNION {Claim(f, w) : w \in TryBlocks(f) \cap l.blocks}
    BY <2>1, <2>2, TryUnitFacts, LoopUnitFacts
  <2>4. l.blocks \subseteq f.raw[t]
    BY <2>2, <2>3, TryUnitFacts DEF Contained
  <2>5. c.blocks \subseteq f.raw[t]
    BY <1>3, <2>3, <2>4
  <2>6. QED  BY <1>1, <1>2, <1>4, <2>3, <2>4, <2>5
<1>7. CASE (\E t \in TryBlocks(f) \cap N : c = TryUnit(f, t)) /\ (\E t \in TryBlocks(f) \cap N : o = TryUnit(f, t))
  <2>1. PICK t \in TryBlocks(f) \cap N : c = TryUnit(f, t)
    BY <1>7
  <2>2. PICK u \in TryBlocks(f) \cap N : o = TryUnit(f, u)
    BY <1>7
  <2>3. /\ c.kind = "try" /\ c.header = t /\ c.blocks = Claim(f, t) /\ c.within = Extent(f, t)
        /\ o.kind = "try" /\ o.header = u /\ o.blocks = Claim(f, u) /\ o.within = Extent(f, u)
    BY <2>1, <2>2, TryUnitFacts
  <2>4. Extent(f, t) \subseteq Extent(f, u) /\ t # u
    BY <2>3 DEF Contained
  <2>5. t \in f.raw[u]
    BY <1>4, <2>4
  <2>6. QED  BY <1>2, <1>3, <1>4, <2>3, <2>5
<1>8. CASE (\E l \in loops : c = LoopUnit(f, l)) /\ (\E l \in loops : o = LoopUnit(f, l))
  <2>1. PICK l \in loops : c = LoopUnit(f, l)
    BY <1>8
  <2>2. PICK k \in loops : o = LoopUnit(f, k)
    BY <1>8
  <2>3. /\ c.kind = "loop" /\ c.header = l.header /\ c.within = l.blocks
        /\ c.blocks = l.blocks \cup UNION {Claim(f, w) : w \in TryBlocks(f) \cap l.blocks}
        /\ o.kind = "loop" /\ o.header = k.header /\ o.within = k.blocks
        /\ o.blocks = k.blocks \cup UNION {Claim(f, w) : w \in TryBlocks(f) \cap k.blocks}
    BY <2>1, <2>2, LoopUnitFacts
  <2>4. l.blocks \subseteq k.blocks /\ l.header # k.header
    BY <1>1, <2>1, <2>2, <2>3 DEF Contained
  <2>5. QED  BY <1>1, <2>3, <2>4
<1>9. QED  BY <1>5, <1>6, <1>7, <1>8 DEF Child

LEMMA CandidateFacts ==
    ASSUME NEW f, NEW N, NEW loops, NEW u, Members(f, u) \subseteq N,
           NEW c \in Candidates(f, loops, u)
    PROVE  /\ Child(f, N, loops, c) 
           /\ \/ \E l \in loops : /\ c = LoopUnit(f, l) /\ l.blocks \subseteq Members(f, u)
                                  /\ l.header # Header(u)
              \/ \E t \in TryBlocks(f) \cap Members(f, u) : c = TryUnit(f, t)
BY DEF Candidates, Child

(* Every loop or try of a region is part of one of its units.              *)
LEMMA Covered ==
    ASSUME NEW f, NEW N, NEW dom, NEW loops, Looped(f, N, dom, loops),
           NEW u, Members(f, u) \subseteq N, NEW c \in Candidates(f, loops, u)
    PROVE  \E d \in DirectChildren(f, loops, u) : c.blocks \subseteq d.blocks
<1> DEFINE C == Candidates(f, loops, u)
           above == {d \in C : c.blocks \subseteq d.blocks}
           depths == {Depth(dom, d.header) : d \in above}
<1>1. \A d \in C : Child(f, N, loops, d)
  BY CandidateFacts
<1>2. Verified(f, N, dom) /\ \A l \in loops : l.header \in N
  BY DEF Looped
<1>3. \A d \in C : d.header \in N
  BY <1>1, <1>2, LoopUnitFacts, TryUnitFacts DEF Child
<1>4. \A d \in C : Depth(dom, d.header) \in Nat
  BY <1>2, <1>3, DepthFacts
<1>5. depths \in SUBSET Nat /\ depths # {}
  BY <1>4
<1>6. PICK k \in depths : \A j \in depths : k <= j
  <2> HIDE DEF depths
  <2> QED  BY <1>5, LeastExists
<1>7. PICK d \in above : k = Depth(dom, d.header)
  OBVIOUS
<1>8. ASSUME NEW o \in C, d # o, Contained(f, d, o)  PROVE FALSE
  <2>1. Child(f, N, loops, d) /\ Child(f, N, loops, o)
    BY <1>1
  <2>2. d.blocks \subseteq o.blocks /\ d.header \in N /\ o.header \in dom[d.header] \ {d.header}
    BY <1>8, <2>1, ContainedFacts
  <2>3. Depth(dom, o.header) < Depth(dom, d.header) /\ Depth(dom, o.header) \in Nat /\ k \in Nat
    BY <1>2, <1>4, <1>7, <2>2, DepthFacts
  <2>4. Depth(dom, o.header) \in depths
    BY <2>2
  <2>5. k <= Depth(dom, o.header)
    BY <1>6, <2>4
  <2> HIDE DEF depths
  <2>6. QED  BY <1>7, <2>3, <2>5
<1>9. d \in DirectChildren(f, loops, u)
  BY <1>8 DEF DirectChildren
<1>10. QED  BY <1>9

(* The order of the units, one step at a time.                             *)
OrderedBy(f, u, g, left) ==
    LET next == NextUnit(f, u, Ready(f, u, left))
        rest == g[left \ {next}]
    IN  IF Ready(f, u, left) = {} THEN NoCode
        ELSE IF left = {next} THEN <<next>>
        ELSE IF rest = NoCode THEN NoCode ELSE <<next>> \o rest

Ordering(f, u, units, g) == g = [left \in SUBSET units |-> OrderedBy(f, u, g, left)]

LEMMA NextUnitFacts ==
    ASSUME NEW f, NEW u, NEW units, IsFiniteSet(units), \A v \in units : v.header \in Nat,
           NEW left \in SUBSET units, Ready(f, u, left) # {}
    PROVE  LET next == NextUnit(f, u, Ready(f, u, left))
           IN  /\ next \in left /\ next \in units /\ left \ {next} \in SUBSET units
               /\ IsFiniteSet(left) /\ IsFiniteSet(left \ {next})
               /\ Cardinality(left \ {next}) \in Nat /\ Cardinality(left) \in Nat
               /\ Cardinality(left \ {next}) < Cardinality(left)
<1> DEFINE ready == Ready(f, u, left)
           starts == {v \in ready : First(f, u) \in v.blocks}
           next == NextUnit(f, u, ready)
           lowest(v) == \A w \in ready : v.header <= w.header
<1>1. ready \subseteq left
  BY DEF Ready
<1> HIDE DEF ready
<1>2. next = IF starts # {} THEN CHOOSE v \in starts : TRUE ELSE CHOOSE v \in ready : lowest(v)
  BY DEF NextUnit
<1>3. \E v \in ready : lowest(v)
  <2> DEFINE headers == {v.header : v \in ready}
  <2>1. headers \in SUBSET Nat /\ headers # {}
    BY <1>1 DEF ready
  <2>2. PICK k \in headers : \A j \in headers : k <= j
    <3> HIDE DEF headers
    <3> QED  BY <2>1, LeastExists
  <2>3. PICK v \in ready : k = v.header
    OBVIOUS
  <2>4. QED  BY <2>2, <2>3
<1>4. next \in ready
  <2>1. CASE starts # {}
    <3>1. (CHOOSE v \in starts : TRUE) \in starts
      BY <2>1
    <3>2. QED  BY <1>2, <2>1, <3>1
  <2>2. CASE starts = {}
    <3> HIDE DEF lowest
    <3> QED  BY <1>2, <1>3, <2>2
  <2>3. QED  BY <2>1, <2>2
<1> HIDE DEF next
<1>5. next \in left /\ left \ {next} \in SUBSET units /\ IsFiniteSet(left)
  BY <1>1, <1>4, FS_Subset
<1>6. /\ IsFiniteSet(left \ {next})
      /\ Cardinality(left \ {next}) = Cardinality(left) - 1
  BY <1>5, FS_RemoveElement
<1>7. Cardinality(left \ {next}) \in Nat /\ Cardinality(left) \in Nat
  BY <1>5, <1>6, FS_CardinalityType
<1>8. QED  BY <1>5, <1>6, <1>7 DEF next, ready

LEMMA OrderExists ==
    ASSUME NEW f, NEW u, NEW units, IsFiniteSet(units), \A v \in units : v.header \in Nat
    PROVE  \E g : Ordering(f, u, units, g)
<1> DEFINE Unfold(g, left) == OrderedBy(f, u, g, left)
           Upto(n, g) == \A left \in SUBSET units : Cardinality(left) <= n => g[left] = Unfold(g, left)
           Missing == {n \in Nat : \A g : ~Upto(n, g)}
           rest(left) == left \ {NextUnit(f, u, Ready(f, u, left))}
<1>1. /\ Cardinality(units) \in Nat
      /\ \A left \in SUBSET units : Cardinality(left) \in Nat /\ Cardinality(left) <= Cardinality(units)
  BY FS_Subset, FS_CardinalityType
<1>r. ASSUME NEW left \in SUBSET units, Ready(f, u, left) # {}
      PROVE  rest(left) \in SUBSET units /\ Cardinality(rest(left)) \in Nat
             /\ Cardinality(rest(left)) < Cardinality(left)
  BY <1>r, NextUnitFacts
<1>s. ASSUME NEW left \in SUBSET units, NEW g, NEW h, 
             Ready(f, u, left) # {} => g[rest(left)] = h[rest(left)]
      PROVE  Unfold(g, left) = Unfold(h, left)
  BY <1>s DEF OrderedBy
<1> HIDE DEF rest, Unfold
<1>2. ASSUME NEW n \in Nat, NEW g,
             \A left \in SUBSET units : Cardinality(left) < n => g[left] = Unfold(g, left)
      PROVE  n \notin Missing
  <2> DEFINE h == [left \in SUBSET units |-> Unfold(g, left)]
  <2>1. ASSUME NEW left \in SUBSET units, Cardinality(left) <= n  PROVE h[left] = Unfold(h, left)
    <3>1. ASSUME Ready(f, u, left) # {}  PROVE g[rest(left)] = h[rest(left)]
      <4>1. rest(left) \in SUBSET units /\ Cardinality(rest(left)) < n
        BY <1>1, <1>r, <2>1, <3>1
      <4>2. g[rest(left)] = Unfold(g, rest(left))
        BY <1>2, <4>1
      <4>3. QED  BY <4>1, <4>2
    <3> HIDE DEF h
    <3>2. Unfold(g, left) = Unfold(h, left)
      BY <1>s, <3>1
    <3>3. h[left] = Unfold(g, left)
      BY DEF h
    <3>4. QED  BY <3>2, <3>3
  <2>2. Upto(n, h)
    <3> HIDE DEF h
    <3> QED  BY <2>1
  <2>3. QED
    <3> HIDE DEF h, Upto
    <3> QED  BY <2>2
<1>3. Missing = {}
  <2>1. SUFFICES ASSUME Missing # {} PROVE FALSE
    OBVIOUS
  <2>2. Missing \in SUBSET Nat
    OBVIOUS
  <2>3. PICK k \in Missing : \A j \in Missing : k <= j
    <3> HIDE DEF Missing
    <3> QED  BY <2>1, <2>2, LeastExists
  <2>4. k \in Nat
    OBVIOUS
  <2>5. CASE k = 0
    <3> DEFINE g == [left \in SUBSET units |-> left]
    <3>1. \A left \in SUBSET units : Cardinality(left) < k => g[left] = Unfold(g, left)
      <4> HIDE DEF g
      <4> QED  BY <1>1, <2>5
    <3>2. QED
      <4> HIDE DEF g, Missing
      <4> QED  BY <1>2, <2>3, <2>4, <3>1
  <2>6. CASE k # 0
    <3>1. k - 1 \in Nat /\ ~(k <= k - 1)
      BY <2>4, <2>6
    <3>2. k - 1 \notin Missing
      <4> HIDE DEF Missing
      <4> QED  BY <2>3, <3>1
    <3>3. PICK g : Upto(k - 1, g)
      BY <3>1, <3>2
    <3>4. \A left \in SUBSET units : Cardinality(left) < k => g[left] = Unfold(g, left)
      <4> TAKE left \in SUBSET units
      <4>1. Cardinality(left) \in Nat
        BY <1>1
      <4>2. Cardinality(left) < k => Cardinality(left) <= k - 1
        BY <2>4, <4>1
      <4> QED  BY <3>3, <4>2
    <3>5. QED
      <4> HIDE DEF Missing
      <4> QED  BY <1>2, <2>3, <2>4, <3>4
  <2>7. QED  BY <2>5, <2>6
<1>5. PICK g : Upto(Cardinality(units), g)
  <2> HIDE DEF Upto
  <2> QED  BY <1>1, <1>3
<1>7. \A left \in SUBSET units : g[left] = Unfold(g, left)
  BY <1>1, <1>5
<1> DEFINE h == [left \in SUBSET units |-> g[left]]
<1>8. \A left \in SUBSET units : g[left] = Unfold(h, left)
  <2> TAKE left \in SUBSET units
  <2>1. Ready(f, u, left) # {} => g[rest(left)] = h[rest(left)]
    BY <1>r
  <2> HIDE DEF h
  <2>2. Unfold(g, left) = Unfold(h, left)
    BY <1>s, <2>1
  <2>3. QED  BY <1>7, <2>2
<1>9. h = [left \in SUBSET units |-> Unfold(h, left)]
  BY <1>8
<1>10. Ordering(f, u, units, h)
  BY <1>9 DEF Ordering, Unfold
<1>11. QED  BY <1>10

LEMMA OrderedFacts ==
    ASSUME NEW f, NEW u, NEW units, IsFiniteSet(units), \A v \in units : v.header \in Nat
    PROVE  /\ Ordered(f, u, units) \in Seq(units)
           /\ Ordered(f, u, units) # NoCode =>
                /\ Len(Ordered(f, u, units)) >= 1 /\ Ready(f, u, units) # {}
                /\ Ordered(f, u, units)[1] = NextUnit(f, u, Ready(f, u, units))
<1>1. \E g : Ordering(f, u, units, g)
  BY OrderExists
<1> DEFINE g == CHOOSE g : Ordering(f, u, units, g)
           next(left) == NextUnit(f, u, Ready(f, u, left))
<1>2. Ordering(f, u, units, g)
  BY <1>1
<1>3. Ordered(f, u, units) = g[units]
  BY DEF Ordered, Ordering, OrderedBy
<1> HIDE DEF g
<1>4. \A left \in SUBSET units :
         g[left] = IF Ready(f, u, left) = {} THEN NoCode
                   ELSE IF left = {next(left)} THEN <<next(left)>>
                   ELSE IF g[left \ {next(left)}] = NoCode THEN NoCode
                   ELSE <<next(left)>> \o g[left \ {next(left)}]
  BY <1>2 DEF Ordering, OrderedBy
<1> HIDE DEF next
<1>5. ASSUME NEW left \in SUBSET units, Ready(f, u, left) # {}
      PROVE  /\ next(left) \in units /\ left \ {next(left)} \in SUBSET units
             /\ Cardinality(left \ {next(left)}) \in Nat /\ Cardinality(left) \in Nat
             /\ Cardinality(left \ {next(left)}) < Cardinality(left)
  BY <1>5, NextUnitFacts DEF next
<1> DEFINE Bad == {n \in Nat : \E left \in SUBSET units : Cardinality(left) = n /\ g[left] \notin Seq(units)}
<1>6. Bad = {}
  <2>1. SUFFICES ASSUME Bad # {} PROVE FALSE
    OBVIOUS
  <2>2. Bad \in SUBSET Nat
    OBVIOUS
  <2>3. PICK k \in Bad : \A j \in Bad : k <= j
    <3> HIDE DEF Bad
    <3> QED  BY <2>1, <2>2, LeastExists
  <2>4. PICK left \in SUBSET units : Cardinality(left) = k /\ g[left] \notin Seq(units)
    OBVIOUS
  <2>5. CASE Ready(f, u, left) = {}
    <3>1. g[left] = <<>>
      BY <1>4, <2>5 DEF NoCode
    <3>2. QED  BY <2>4, <3>1, EmptySeq
  <2>6. CASE Ready(f, u, left) # {}
    <3> DEFINE v == next(left)
               rest == left \ {v}
    <3>1. v \in units /\ rest \in SUBSET units /\ Cardinality(rest) \in Nat /\ Cardinality(rest) < k
          /\ k \in Nat
      BY <1>5, <2>4, <2>6
    <3>2. Cardinality(rest) \notin Bad
      <4> HIDE DEF Bad, rest
      <4> QED  BY <2>3, <3>1
    <3>3. g[rest] \in Seq(units)
      <4> HIDE DEF rest
      <4> QED  BY <3>1, <3>2
    <3>4. <<v>> \in Seq(units)
      BY <3>1
    <3>5. <<v>> \o g[rest] \in Seq(units)
      <4> HIDE DEF rest, v
      <4> QED  BY <3>3, <3>4, ConcatProperties
    <3>6. NoCode \in Seq(units)
      BY EmptySeq DEF NoCode
    <3>7. g[left] = NoCode \/ g[left] = <<v>> \/ g[left] = <<v>> \o g[rest]
      BY <1>4
    <3>8. QED
      <4> HIDE DEF rest, v
      <4> QED  BY <2>4, <3>4, <3>5, <3>6, <3>7
  <2>7. QED  BY <2>5, <2>6
<1>7. \A left \in SUBSET units : Cardinality(left) \in Nat
  BY FS_Subset, FS_CardinalityType
<1>8. \A left \in SUBSET units : g[left] \in Seq(units)
  BY <1>6, <1>7
<1>9. ASSUME g[units] # NoCode
      PROVE  Len(g[units]) >= 1 /\ Ready(f, u, units) # {} /\ g[units][1] = next(units)
  <2> DEFINE v == next(units)
             rest == g[units \ {v}]
  <2>1. units \in SUBSET units
    OBVIOUS
  <2>2. Ready(f, u, units) # {}
    BY <1>4, <1>9, <2>1
  <2>3. v \in units /\ rest \in Seq(units) /\ <<v>> \in Seq(units)
    BY <1>5, <1>8, <2>1, <2>2
  <2>4. g[units] = <<v>> \/ g[units] = <<v>> \o rest
    BY <1>4, <1>9, <2>1
  <2> HIDE DEF rest, v
  <2>5. Len(<<v>>) = 1 /\ <<v>>[1] = v
    OBVIOUS
  <2>6. Len(<<v>> \o rest) >= 1 /\ (<<v>> \o rest)[1] = v
    <3>1. /\ Len(<<v>> \o rest) = Len(<<v>>) + Len(rest) /\ Len(rest) \in Nat
          /\ \A i \in 1 .. Len(<<v>>) + Len(rest) :
                (<<v>> \o rest)[i] = IF i <= Len(<<v>>) THEN <<v>>[i] ELSE rest[i - Len(<<v>>)]
      BY <2>3, ConcatProperties
    <3>2. QED  BY <2>5, <3>1
  <2>7. QED  BY <2>2, <2>4, <2>5, <2>6 DEF v
<1>10. QED  BY <1>3, <1>8, <1>9 DEF next

(* A unit is entered at its header only.                                   *)
LEMMA EntryOnly ==
    ASSUME NEW f, NEW N, NEW dom, NEW loops, Looped(f, N, dom, loops),
           NEW c, Child(f, N, loops, c) \/ c = BlockUnit(c.header),
           NEW s \in N, s \notin c.blocks, NEW b \in c.blocks, b \in f.succ[s]
    PROVE  b = c.header
<1>1. /\ Verified(f, N, dom) /\ f.edges = UnwindEdges(f) /\ N \subseteq Blocks
      /\ \A l \in loops :
            /\ l.header \in N /\ l.blocks \subseteq N /\ l.header \in l.blocks
            /\ \A x \in l.blocks \ {l.header}, p \in N : x \in f.edges[p] => p \in l.blocks
  BY DEF Looped, Verified
<1>2. s \in Blocks /\ b \in f.edges[s] /\ b \in SeedEdges(f)[s]
  BY <1>1, UnwindFacts, SeedFacts DEF Verified
<1>3. ASSUME NEW t \in TryBlocks(f), s \notin Claim(f, t), b \in Claim(f, t)  PROVE b = t
  <2>1. Claim(f, t) = f.raw[t] \cup {t, f.tries[t].handler}
    BY <1>1, ClaimFacts
  <2>2. b # f.tries[t].handler
    BY <1>1, <1>2, TryShape
  <2>3. b # f.tries[t].entry
    BY <1>1, <1>2, <1>3, <2>1, TryShape
  <2>4. b \notin f.raw[t]
    BY <1>1, <1>2, <1>3, <2>1, <2>3, RawEntered
  <2>5. QED  BY <1>3, <2>1, <2>2, <2>4
<1>4. CASE \E l \in loops : c = LoopUnit(f, l)
  <2>1. PICK l \in loops : c = LoopUnit(f, l)
    BY <1>4
  <2>2. /\ c.header = l.header
        /\ c.blocks = l.blocks \cup UNION {Claim(f, t) : t \in TryBlocks(f) \cap l.blocks}
    BY <2>1, LoopUnitFacts
  <2>3. CASE b \in l.blocks
    BY <1>1, <1>2, <2>2, <2>3
  <2>4. CASE b \notin l.blocks
    <3>1. PICK t \in TryBlocks(f) \cap l.blocks : b \in Claim(f, t)
      BY <2>2, <2>4
    <3>2. s \notin Claim(f, t)
      BY <2>2
    <3>3. b = t
      BY <1>3, <3>1, <3>2
    <3>4. QED  BY <2>4, <3>3
  <2>5. QED  BY <2>3, <2>4
<1>5. CASE \E t \in TryBlocks(f) \cap N : c = TryUnit(f, t)
  <2>1. PICK t \in TryBlocks(f) \cap N : c = TryUnit(f, t)
    BY <1>5
  <2>2. c.header = t /\ c.blocks = Claim(f, t)
    BY <2>1, TryUnitFacts
  <2>3. QED  BY <1>3, <2>2
<1>6. CASE c = BlockUnit(c.header)
  BY <1>6, BlockUnitFacts
<1>7. QED  BY <1>4, <1>5, <1>6 DEF Child

(* What may be cut into units: the function, a loop or a reached try.      *)
Region(f, N, loops, u) == u = RootUnit(f) \/ Child(f, N, loops, u)

LEMMA RegionFacts ==
    ASSUME NEW f, NEW N, NEW dom, NEW loops, Looped(f, N, dom, loops),
           NEW u, Region(f, N, loops, u)
    PROVE  Members(f, u) \subseteq N /\ First(f, u) \in Members(f, u) /\ u.header \in N
<1>1. /\ Verified(f, N, dom) /\ Reachable(f, f.edges) = N
      /\ \A l \in loops : l.header \in N /\ l.blocks \subseteq N /\ l.header \in l.blocks
  BY DEF Looped
<1>2. /\ f.entry \in N /\ \A b \in N : b \in dom[b]
  BY <1>1 DEF Verified, ReachSet, DomTree
<1>3. CASE u = RootUnit(f)
  BY <1>1, <1>2, <1>3, RootUnitFacts
<1>4. CASE \E l \in loops : u = LoopUnit(f, l)
  BY <1>1, <1>4, LoopUnitFacts
<1>5. CASE \E t \in TryBlocks(f) \cap N : u = TryUnit(f, t)
  <2>1. PICK t \in TryBlocks(f) \cap N : u = TryUnit(f, t)
    BY <1>5
  <2>2. f.tries[t].entry \in N /\ f.raw[t] = {c \in N : f.tries[t].entry \in dom[c]}
    BY <1>1, ReachedTogether, RawFacts
  <2>3. QED  BY <1>2, <2>1, <2>2, TryUnitFacts
<1>6. QED  BY <1>3, <1>4, <1>5 DEF Region, Child

(* A try of a region starts where the region starts only if it does so     *)
(* with its try block.                                                     *)
LEMMA TryAtStart ==
    ASSUME NEW f, NEW N, NEW dom, NEW loops, Looped(f, N, dom, loops),
           NEW u, Region(f, N, loops, u),
           NEW t \in TryBlocks(f) \cap Members(f, u), First(f, u) \in Claim(f, t)
    PROVE  First(f, u) = t
<1> DEFINE s == First(f, u)
<1>1. /\ Verified(f, N, dom) /\ dom \in [N -> SUBSET N]
      /\ ReachSet(f.entry, SeedEdges(f), N) /\ DomTree(f.entry, SeedEdges(f), N, dom)
      /\ dom[f.entry] = {f.entry} /\ \A b \in N : b \in dom[b]
  BY DEF Looped, Verified, DomTree
<1>2. s \in f.raw[t] \cup {t, f.tries[t].handler}
  BY <1>1, ClaimFacts
<1>3. Members(f, u) \subseteq N /\ s \in N
  BY RegionFacts
<1>4. f.raw[t] = {b \in N : f.tries[t].entry \in dom[b]} /\ t \in N
  BY <1>1, <1>3, RawFacts
<1>5. t \notin f.raw[t] /\ \A b \in f.raw[t] : t \in dom[b]
  BY <1>1, TryDominates
<1>6. CASE u = RootUnit(f)
  <2>1. s = f.entry
    BY <1>6, RootUnitFacts
  <2>2. s \notin f.raw[t]
    BY <1>1, <1>4, <2>1, TryShape
  <2>3. s # f.tries[t].handler
    BY <1>1, <2>1, TryShape
  <2>4. QED  BY <1>2, <2>2, <2>3
<1>7. CASE \E l \in loops : u = LoopUnit(f, l)
  <2>1. PICK l \in loops : u = LoopUnit(f, l)
    BY <1>7
  <2>2. s = l.header /\ Members(f, u) = l.blocks
    BY <2>1, LoopUnitFacts
  <2>3. /\ s \in dom[t] /\ s \notin TryBlocks(f) /\ s # f.tries[t].handler
    BY <2>2 DEF Looped
  <2>4. s \notin f.raw[t]
    BY <1>1, <1>3, <1>4, <1>5, <2>3, DominatesAntisymmetric
  <2>5. QED  BY <1>2, <2>3, <2>4
<1>8. CASE \E w \in TryBlocks(f) \cap N : u = TryUnit(f, w)
  <2>1. PICK w \in TryBlocks(f) \cap N : u = TryUnit(f, w)
    BY <1>8
  <2>2. s = f.tries[w].entry /\ Members(f, u) = f.raw[w]
    BY <2>1, TryUnitFacts
  <2>3. s \in dom[t]
    <3>1. f.raw[w] = {b \in N : f.tries[w].entry \in dom[b]}
      BY <1>1, RawFacts
    <3>2. QED  BY <2>2, <3>1
  <2>4. s \notin f.raw[t]
    <3>1. SUFFICES ASSUME s \in f.raw[t] PROVE FALSE
      OBVIOUS
    <3>2. s = t
      BY <1>1, <1>3, <1>4, <1>5, <2>3, <3>1, DominatesAntisymmetric
    <3>3. QED  BY <1>5, <3>1, <3>2
  <2>5. s # f.tries[t].handler
    BY <1>1, <2>2, TryShape
  <2>6. QED  BY <1>2, <2>4, <2>5
<1>9. QED  BY <1>6, <1>7, <1>8 DEF Region, Child

(* The unit of a region that holds its first block starts with it.         *)
LEMMA UnitAtStart ==
    ASSUME NEW f, NEW N, NEW dom, NEW loops, Looped(f, N, dom, loops),
           NEW u, Region(f, N, loops, u),
           NEW c \in Candidates(f, loops, u), First(f, u) \in c.blocks
    PROVE  c.header = First(f, u)
<1> DEFINE s == First(f, u)
<1>1. /\ Verified(f, N, dom) /\ dom \in [N -> SUBSET N]
      /\ ReachSet(f.entry, SeedEdges(f), N) /\ DomTree(f.entry, SeedEdges(f), N, dom)
      /\ dom[f.entry] = {f.entry} /\ \A b \in N : b \in dom[b]
      /\ \A l \in loops : /\ l.header \in N /\ l.blocks \subseteq N /\ l.header \in l.blocks
                          /\ \A b \in l.blocks : l.header \in dom[b]
  BY DEF Looped, Verified, DomTree
<1>2. Members(f, u) \subseteq N /\ s \in N
  BY RegionFacts
<1>3. \/ \E l \in loops : /\ c = LoopUnit(f, l) /\ l.blocks \subseteq Members(f, u)
                          /\ l.header # Header(u)
      \/ \E t \in TryBlocks(f) \cap Members(f, u) : c = TryUnit(f, t)
  BY <1>2, CandidateFacts
<1>4. \A t \in TryBlocks(f) \cap Members(f, u) : s \in Claim(f, t) => s = t
  BY TryAtStart
<1>5. CASE \E t \in TryBlocks(f) \cap Members(f, u) : c = TryUnit(f, t)
  BY <1>4, <1>5, TryUnitFacts
<1>6. CASE \E l \in loops : /\ c = LoopUnit(f, l) /\ l.blocks \subseteq Members(f, u)
                            /\ l.header # Header(u)
  <2>1. PICK l \in loops : /\ c = LoopUnit(f, l) /\ l.blocks \subseteq Members(f, u)
                           /\ l.header # Header(u)
    BY <1>6
  <2>2. /\ c.header = l.header
        /\ c.blocks = l.blocks \cup UNION {Claim(f, t) : t \in TryBlocks(f) \cap l.blocks}
    BY <2>1, LoopUnitFacts
  <2>3. s \in l.blocks
    <3>1. SUFFICES ASSUME s \notin l.blocks PROVE FALSE
      OBVIOUS
    <3>2. PICK t \in TryBlocks(f) \cap l.blocks : s \in Claim(f, t)
      BY <2>2, <3>1
    <3>3. t \in TryBlocks(f) \cap Members(f, u)
      BY <2>1
    <3>4. QED  BY <1>4, <3>1, <3>2, <3>3
  <2>4. l.header \in dom[s] /\ l.header \in N /\ l.header \in Members(f, u)
    BY <1>1, <2>1, <2>3
  <2>5. CASE u = RootUnit(f)
    BY <1>1, <2>2, <2>4, <2>5, RootUnitFacts
  <2>6. CASE \E k \in loops : u = LoopUnit(f, k)
    <3>1. PICK k \in loops : u = LoopUnit(f, k)
      BY <2>6
    <3>2. s = k.header /\ Members(f, u) = k.blocks /\ Header(u) = k.header
      BY <3>1, LoopUnitFacts
    <3>3. s \in dom[l.header]
      BY <1>1, <2>4, <3>2
    <3>4. l.header = s
      BY <1>1, <1>2, <2>4, <3>3, DominatesAntisymmetric
    <3>5. QED  BY <2>1, <3>2, <3>4
  <2>7. CASE \E w \in TryBlocks(f) \cap N : u = TryUnit(f, w)
    <3>1. PICK w \in TryBlocks(f) \cap N : u = TryUnit(f, w)
      BY <2>7
    <3>2. s = f.tries[w].entry /\ Members(f, u) = f.raw[w]
      BY <3>1, TryUnitFacts
    <3>3. f.raw[w] = {b \in N : f.tries[w].entry \in dom[b]}
      BY <1>1, RawFacts
    <3>4. s \in dom[l.header]
      BY <2>4, <3>2, <3>3
    <3>5. l.header = s
      BY <1>1, <1>2, <2>4, <3>4, DominatesAntisymmetric
    <3>6. QED  BY <2>2, <3>5
  <2>8. QED  BY <2>5, <2>6, <2>7 DEF Region, Child
<1>7. QED  BY <1>3, <1>5, <1>6

LEMMA ClaimWithin ==
    ASSUME NEW f, NEW N, NEW dom, Verified(f, N, dom), NEW t \in TryBlocks(f),
           NEW w \in TryBlocks(f), t \in f.raw[w]
    PROVE  Claim(f, t) \subseteq f.raw[w] /\ w \notin Claim(f, t)
<1>1. t # w /\ f.raw[t] \subseteq f.raw[w]
  BY RawWithin
<1>2. f.tries[t].handler \in f.raw[w]
  BY <1>1, HandlerPlace
<1>3. Claim(f, t) = f.raw[t] \cup {t, f.tries[t].handler}
  BY ClaimFacts
<1>4. w \notin f.raw[w]
  BY TryDominates
<1>5. QED  BY <1>1, <1>2, <1>3, <1>4

Alone(f, loops, u) == Members(f, u) \ UNION {c.blocks : c \in DirectChildren(f, loops, u)}
AllUnits(f, loops, u) ==
    DirectChildren(f, loops, u) \cup {BlockUnit(b) : b \in Alone(f, loops, u)}
Disjoint(f, loops, u) ==
    \A c, d \in DirectChildren(f, loops, u) : c = d \/ c.blocks \cap d.blocks = {}

LEMMA UnitsAre ==
    ASSUME NEW f, NEW loops, NEW u
    PROVE  Units(f, loops, u) =
             IF Disjoint(f, loops, u) THEN Ordered(f, u, AllUnits(f, loops, u)) ELSE NoCode
BY DEF Units, Disjoint, AllUnits, Alone

LEMMA ImageFinite ==
    ASSUME NEW S, IsFiniteSet(S), NEW g
    PROVE  IsFiniteSet({g[x] : x \in S})
<1> DEFINE T == {g[x] : x \in S}
           h == [x \in S |-> g[x]]
<1>1. h \in Surjection(S, T)
  BY DEF Surjection
<1> HIDE DEF h, T
<1>2. IsFiniteSet(T)
  BY <1>1, FS_Surjection
<1>3. QED  BY <1>2 DEF T

LEMMA AllUnitsFinite ==
    ASSUME NEW f, NEW N, NEW dom, NEW loops, Looped(f, N, dom, loops),
           NEW u, Region(f, N, loops, u)
    PROVE  IsFiniteSet(AllUnits(f, loops, u))
<1> DEFINE L == [l \in loops |-> LoopUnit(f, l)]
           T == [t \in N |-> TryUnit(f, t)]
           B == [b \in N |-> BlockUnit(b)]
           A == {L[l] : l \in loops} \cup ({T[t] : t \in N} \cup {B[b] : b \in N})
<1>1. IsFiniteSet(N) /\ IsFiniteSet(loops) /\ Members(f, u) \subseteq N
  BY RegionFacts DEF Looped, Verified
<1>2. /\ IsFiniteSet({L[l] : l \in loops}) /\ IsFiniteSet({T[t] : t \in N})
      /\ IsFiniteSet({B[b] : b \in N})
  BY <1>1, ImageFinite
<1>3. IsFiniteSet({T[t] : t \in N} \cup {B[b] : b \in N})
  BY <1>2, FS_Union
<1>4. IsFiniteSet(A)
  BY <1>2, <1>3, FS_Union
<1>5. Candidates(f, loops, u) \subseteq A
  BY <1>1 DEF Candidates
<1>6. AllUnits(f, loops, u) \in SUBSET A
  BY <1>1, <1>5 DEF AllUnits, Alone, DirectChildren
<1>7. QED
  <2> HIDE DEF A
  <2> QED  BY <1>4, <1>6, FS_Subset

LEMMA AllUnitsFacts ==
    ASSUME NEW f, NEW N, NEW dom, NEW loops, Looped(f, N, dom, loops),
           NEW u, Region(f, N, loops, u), NEW v \in AllUnits(f, loops, u)
    PROVE  /\ v.header \in N /\ v.header \in Nat /\ v.blocks \subseteq N
           /\ \/ /\ v \in DirectChildren(f, loops, u) /\ v \in Candidates(f, loops, u)
                 /\ Child(f, N, loops, v)
              \/ /\ v.header \in Members(f, u) /\ v = BlockUnit(v.header) /\ v.blocks = {v.header}
                 /\ \A c \in DirectChildren(f, loops, u) : v.header \notin c.blocks
<1>1. Members(f, u) \subseteq N /\ N \subseteq Nat
  <2>1. Members(f, u) \subseteq N
    BY RegionFacts
  <2>2. N \subseteq Blocks /\ Blocks \subseteq Nat
    BY BlocksAssumption DEF Looped, Verified
  <2>3. QED  BY <2>1, <2>2
<1>2. CASE v \in DirectChildren(f, loops, u)
  <2>1. v \in Candidates(f, loops, u)
    BY <1>2 DEF DirectChildren
  <2>2. Child(f, N, loops, v)
    BY <1>1, <2>1, CandidateFacts
  <2>3. \A t \in TryBlocks(f) \cap N : Claim(f, t) \subseteq N
    <3> TAKE t \in TryBlocks(f) \cap N
    <3>1. Verified(f, N, dom)
      BY DEF Looped
    <3>2. /\ Claim(f, t) = f.raw[t] \cup {t, f.tries[t].handler}
          /\ f.raw[t] \subseteq N /\ f.tries[t].handler \in N
      BY <3>1, ClaimFacts, RawFacts, ReachedTogether
    <3>3. QED  BY <3>2
  <2>4. CASE \E l \in loops : v = LoopUnit(f, l)
    <3>1. PICK l \in loops : v = LoopUnit(f, l)
      BY <2>4
    <3>2. l.header \in N /\ l.blocks \subseteq N
      BY DEF Looped
    <3>3. /\ v.header = l.header
          /\ v.blocks = l.blocks \cup UNION {Claim(f, t) : t \in TryBlocks(f) \cap l.blocks}
      BY <3>1, LoopUnitFacts
    <3>4. v.blocks \subseteq N
      BY <2>3, <3>2, <3>3
    <3>5. QED  BY <1>1, <1>2, <2>1, <2>2, <3>2, <3>3, <3>4
  <2>5. CASE \E t \in TryBlocks(f) \cap N : v = TryUnit(f, t)
    <3>1. PICK t \in TryBlocks(f) \cap N : v = TryUnit(f, t)
      BY <2>5
    <3>2. v.header = t /\ v.blocks = Claim(f, t)
      BY <3>1, TryUnitFacts
    <3>3. QED  BY <1>1, <1>2, <2>1, <2>2, <2>3, <3>2
  <2>6. QED  BY <2>2, <2>4, <2>5 DEF Child
<1>3. CASE v \notin DirectChildren(f, loops, u)
  <2>1. PICK b \in Alone(f, loops, u) : v = BlockUnit(b)
    BY <1>3 DEF AllUnits
  <2>2. v.header = b /\ v.blocks = {b}
    BY <2>1, BlockUnitFacts
  <2>3. b \in Members(f, u) /\ \A c \in DirectChildren(f, loops, u) : b \notin c.blocks
    BY DEF Alone
  <2>4. QED  BY <1>1, <2>1, <2>2, <2>3
<1>4. QED  BY <1>2, <1>3

(* Units share no block.                                                   *)
LEMMA UnitsApart ==
    ASSUME NEW f, NEW N, NEW dom, NEW loops, Looped(f, N, dom, loops),
           NEW u, Region(f, N, loops, u), Disjoint(f, loops, u),
           NEW v \in AllUnits(f, loops, u), NEW w \in AllUnits(f, loops, u),
           NEW b \in v.blocks, b \in w.blocks
    PROVE  v = w
<1>1. \/ v \in DirectChildren(f, loops, u)
      \/ v = BlockUnit(v.header) /\ v.blocks = {v.header}
         /\ \A c \in DirectChildren(f, loops, u) : v.header \notin c.blocks
  BY AllUnitsFacts
<1>2. \/ w \in DirectChildren(f, loops, u)
      \/ w = BlockUnit(w.header) /\ w.blocks = {w.header}
         /\ \A c \in DirectChildren(f, loops, u) : w.header \notin c.blocks
  BY AllUnitsFacts
<1>3. CASE v \in DirectChildren(f, loops, u) /\ w \in DirectChildren(f, loops, u)
  BY <1>3 DEF Disjoint
<1>4. CASE v \notin DirectChildren(f, loops, u) \/ w \notin DirectChildren(f, loops, u)
  BY <1>1, <1>2, <1>4
<1>5. QED  BY <1>3, <1>4

(* The first unit starts with the first block.                             *)
LEMMA StartUnit ==
    ASSUME NEW f, NEW N, NEW dom, NEW loops, Looped(f, N, dom, loops),
           NEW u, Region(f, N, loops, u), Disjoint(f, loops, u)
    PROVE  NextUnit(f, u, Ready(f, u, AllUnits(f, loops, u))).header = First(f, u)
<1> DEFINE s == First(f, u)
           all == AllUnits(f, loops, u)
<1>1. Members(f, u) \subseteq N /\ s \in Members(f, u)
  BY RegionFacts
<1>2. PICK v \in all : s \in v.blocks
  <2>1. CASE s \in Alone(f, loops, u)
    <3>1. BlockUnit(s) \in all
      BY <2>1 DEF AllUnits
    <3>2. s \in BlockUnit(s).blocks
      BY BlockUnitFacts
    <3>3. QED  BY <3>1, <3>2
  <2>2. CASE s \notin Alone(f, loops, u)
    BY <1>1, <2>2 DEF Alone, AllUnits
  <2>3. QED  BY <2>1, <2>2
<1>3. \A w \in all : s \in w.blocks => w = v
  BY <1>2, UnitsApart
<1>4. v.header = s
  <2>1. CASE v \in Candidates(f, loops, u)
    BY <1>2, <2>1, UnitAtStart
  <2>2. CASE v.blocks = {v.header}
    BY <1>2, <2>2
  <2>3. QED  BY <2>1, <2>2, AllUnitsFacts
<1>5. ASSUME NEW w \in all, Leads(f, u, w, v)  PROVE FALSE
  <2>1. w # v
    BY <1>5 DEF Leads
  <2>2. PICK p \in w.blocks, b \in v.blocks \cap Members(f, u) : b # Header(u) /\ b \in f.succ[p]
    BY <1>5 DEF Leads
  <2>3. p \notin v.blocks /\ p \in N
    BY <2>1, UnitsApart, AllUnitsFacts
  <2>4. Child(f, N, loops, v) \/ v = BlockUnit(v.header)
    BY AllUnitsFacts
  <2>5. b = s
    BY <1>4, <2>2, <2>3, <2>4, EntryOnly
  <2>6. CASE \E l \in loops : u = LoopUnit(f, l)
    BY <2>2, <2>5, <2>6, LoopUnitFacts
  <2>7. CASE u = RootUnit(f)
    <3>1. s = f.entry /\ Header(u) = NoBlock /\ Members(f, u) = N
      BY <2>7, RootUnitFacts DEF Looped
    <3>2. PICK l \in loops : l.header = f.entry /\ p \in l.blocks
      BY <2>2, <2>3, <2>5, <3>1 DEF Looped
    <3>3. l.header # NoBlock /\ l.blocks \subseteq Members(f, u) /\ l.header \in l.blocks
      BY <3>1, BlocksAssumption DEF Looped, Verified, NoBlock
    <3>4. LoopUnit(f, l) \in Candidates(f, loops, u)
      BY <3>1, <3>3 DEF Candidates
    <3>5. PICK d \in DirectChildren(f, loops, u) : LoopUnit(f, l).blocks \subseteq d.blocks
      BY <1>1, <3>4, Covered
    <3>6. p \in d.blocks /\ s \in d.blocks /\ d \in all
      BY <3>1, <3>2, <3>3, <3>5, LoopUnitFacts DEF AllUnits
    <3>7. QED  BY <1>3, <2>3, <3>6
  <2>8. CASE \E t \in TryBlocks(f) \cap N : u = TryUnit(f, t)
    <3>1. PICK t \in TryBlocks(f) \cap N : u = TryUnit(f, t)
      BY <2>8
    <3>2. s = f.tries[t].entry /\ Members(f, u) = f.raw[t]
      BY <3>1, TryUnitFacts
    <3>3. Verified(f, N, dom) /\ N \subseteq Blocks /\ Typed(f)
      BY DEF Looped, Verified
    <3>4. p = t
      BY <2>2, <2>3, <2>5, <3>2, <3>3, TryShape, SeedFacts
    <3>5. t \notin f.raw[t] /\ \A w2 \in TryBlocks(f) \cap f.raw[t] : t \notin Claim(f, w2)
      BY <3>3, TryDominates, ClaimWithin
    <3>6. CASE w = BlockUnit(w.header) /\ w.header \in Members(f, u) /\ w.blocks = {w.header}
      BY <2>2, <3>2, <3>4, <3>5, <3>6
    <3>7. CASE w \in Candidates(f, loops, u)
      <4>1. \/ \E l \in loops : w = LoopUnit(f, l) /\ l.blocks \subseteq Members(f, u)
            \/ \E w2 \in TryBlocks(f) \cap Members(f, u) : w = TryUnit(f, w2)
        <5>1. \/ \E l \in loops : /\ w = LoopUnit(f, l) /\ l.blocks \subseteq Members(f, u)
                                 /\ l.header # Header(u)
              \/ \E w2 \in TryBlocks(f) \cap Members(f, u) : w = TryUnit(f, w2)
          <6>1. Members(f, u) \subseteq N
            BY <1>1
          <6> HIDE DEF s, all
          <6>2. QED  BY <3>7, <6>1, CandidateFacts
        <5>2. QED  BY <5>1
      <4>2. CASE \E l \in loops : w = LoopUnit(f, l) /\ l.blocks \subseteq Members(f, u)
        <5>1. PICK l \in loops : w = LoopUnit(f, l) /\ l.blocks \subseteq Members(f, u)
          BY <4>2
        <5>2. w.blocks = l.blocks \cup UNION {Claim(f, x) : x \in TryBlocks(f) \cap l.blocks}
          BY <5>1, LoopUnitFacts
        <5>3. t \notin w.blocks
          BY <3>2, <3>5, <5>1, <5>2
        <5>4. QED  BY <2>2, <3>4, <5>3
      <4>3. CASE \E w2 \in TryBlocks(f) \cap Members(f, u) : w = TryUnit(f, w2)
        <5>1. PICK w2 \in TryBlocks(f) \cap Members(f, u) : w = TryUnit(f, w2)
          BY <4>3
        <5>2. QED  BY <2>2, <3>2, <3>4, <3>5, <5>1, TryUnitFacts
      <4>4. QED  BY <4>1, <4>2, <4>3
    <3>8. QED  BY <3>6, <3>7, AllUnitsFacts
  <2>9. QED  BY <2>6, <2>7, <2>8 DEF Region, Child
<1> DEFINE ready == Ready(f, u, all)
           starts == {w \in ready : First(f, u) \in w.blocks}
<1>6. v \in ready
  BY <1>5 DEF Ready
<1>7. ready \subseteq all
  BY DEF Ready
<1>8. starts = {v}
  BY <1>2, <1>3, <1>6, <1>7
<1>9. NextUnit(f, u, ready) = IF starts # {} THEN CHOOSE w \in starts : TRUE
                              ELSE CHOOSE w \in ready : \A x \in ready : w.header <= x.header
  BY DEF NextUnit
<1> HIDE DEF starts, ready
<1>10. NextUnit(f, u, ready) = v
  <2>1. (CHOOSE w \in starts : TRUE) = v
    BY <1>8
  <2>2. QED  BY <1>8, <1>9, <2>1
<1>11. QED  BY <1>4, <1>10 DEF ready

(* The units of a region, in the order of the code.                        *)
LEMMA UnitsFacts ==
    ASSUME NEW f, NEW N, NEW dom, NEW loops, Looped(f, N, dom, loops),
           NEW u, Region(f, N, loops, u)
    PROVE  /\ Units(f, loops, u) \in Seq(AllUnits(f, loops, u))
           /\ Units(f, loops, u) # NoCode =>
                /\ Len(Units(f, loops, u)) >= 1
                /\ Units(f, loops, u)[1].header = First(f, u)
<1> DEFINE all == AllUnits(f, loops, u)
<1>1. IsFiniteSet(all) /\ \A v \in all : v.header \in Nat
  BY AllUnitsFinite, AllUnitsFacts
<1>2. Units(f, loops, u) = IF Disjoint(f, loops, u) THEN Ordered(f, u, all) ELSE NoCode
  BY UnitsAre
<1> HIDE DEF all
<1>3. /\ Ordered(f, u, all) \in Seq(all)
      /\ Ordered(f, u, all) # NoCode =>
            /\ Len(Ordered(f, u, all)) >= 1 /\ Ready(f, u, all) # {}
            /\ Ordered(f, u, all)[1] = NextUnit(f, u, Ready(f, u, all))
  BY <1>1, OrderedFacts
<1>4. NoCode \in Seq(all)
  BY EmptySeq DEF NoCode
<1>5. Disjoint(f, loops, u) => NextUnit(f, u, Ready(f, u, all)).header = First(f, u)
  BY StartUnit DEF all
<1>6. QED  BY <1>2, <1>3, <1>4, <1>5 DEF all

-----------------------------------------------------------------------------
(* Where code may stand: T is the tries whose tables are around it *)

(* What b raises is caught where it should land.                           *)
BlockFits(f, b, T) ==
    \A w \in TryBlocks(f) : (b \in f.raw[w] /\ b # f.tries[w].handler) <=> w \in T

RegionFits(f, u, T) ==
    /\ T \subseteq TryBlocks(f) /\ \A w \in T : Members(f, u) \subseteq f.raw[w]
    /\ \A w \in TryBlocks(f), b \in Members(f, u) : b \in f.raw[w] => w \in Members(f, u) \/ w \in T

TryFits(f, t, T) ==
    /\ BlockFits(f, t, T) /\ BlockFits(f, f.tries[t].handler, T)
    /\ RegionFits(f, TryUnit(f, t), T \cup {t}) /\ \A w \in T : t \in f.raw[w]

UnitFits(f, N, loops, v, T) ==
    \/ v = BlockUnit(v.header) /\ v.header \in N \ TryBlocks(f) /\ BlockFits(f, v.header, T)
    \/ \E l \in loops : v = LoopUnit(f, l) /\ RegionFits(f, v, T)
    \/ \E t \in TryBlocks(f) \cap N : v = TryUnit(f, t) /\ TryFits(f, t, T)

LEMMA BlockUnitFits ==
    ASSUME NEW f, NEW N, NEW dom, NEW loops, Looped(f, N, dom, loops),
           NEW u, Region(f, N, loops, u), NEW T, RegionFits(f, u, T),
           NEW b \in Members(f, u), \A c \in DirectChildren(f, loops, u) : b \notin c.blocks
    PROVE  BlockFits(f, b, T) /\ b \notin TryBlocks(f)
<1>1. Verified(f, N, dom) /\ Members(f, u) \subseteq N
  BY RegionFacts DEF Looped
<1>2. ASSUME NEW w \in TryBlocks(f), w \in T  PROVE b \in f.raw[w] /\ b # f.tries[w].handler
  <2>1. b \in f.raw[w]
    BY <1>2 DEF RegionFits
  <2>2. f.tries[w].handler \notin f.raw[w]
    BY <1>1, HandlerPlace
  <2>3. QED  BY <2>1, <2>2
<1>3. ASSUME NEW w \in TryBlocks(f), b \in f.raw[w]  PROVE w \in T
  <2>1. SUFFICES ASSUME w \notin T PROVE FALSE
    OBVIOUS
  <2>2. w \in TryBlocks(f) \cap Members(f, u)
    BY <1>3, <2>1 DEF RegionFits
  <2>3. TryUnit(f, w) \in Candidates(f, loops, u)
    BY <2>2 DEF Candidates
  <2>4. PICK d \in DirectChildren(f, loops, u) : TryUnit(f, w).blocks \subseteq d.blocks
    BY <1>1, <2>3, Covered
  <2>5. TryUnit(f, w).blocks = f.raw[w] \cup {w, f.tries[w].handler}
    BY <1>1, ClaimFacts, TryUnitFacts
  <2>6. QED  BY <1>3, <2>4, <2>5
<1>4. ASSUME b \in TryBlocks(f)  PROVE FALSE
  <2>1. TryUnit(f, b) \in Candidates(f, loops, u)
    BY <1>4 DEF Candidates
  <2>2. PICK d \in DirectChildren(f, loops, u) : TryUnit(f, b).blocks \subseteq d.blocks
    BY <1>1, <2>1, Covered
  <2>3. TryUnit(f, b).blocks = f.raw[b] \cup {b, f.tries[b].handler}
    BY <1>1, <1>4, ClaimFacts, TryUnitFacts
  <2>4. QED  BY <2>2, <2>3
<1>5. QED  BY <1>2, <1>3, <1>4 DEF BlockFits

LEMMA LoopUnitFits ==
    ASSUME NEW f, NEW N, NEW dom, NEW loops, Looped(f, N, dom, loops),
           NEW u, Region(f, N, loops, u), NEW T, RegionFits(f, u, T),
           NEW l \in loops, l.blocks \subseteq Members(f, u),
           LoopUnit(f, l) \in DirectChildren(f, loops, u)
    PROVE  RegionFits(f, LoopUnit(f, l), T)
<1> DEFINE c == LoopUnit(f, l)
<1>1. /\ Members(f, c) = l.blocks /\ c.kind = "loop" /\ c.within = l.blocks
  BY LoopUnitFacts
<1>2. TriesNest(f, loops)
  BY DEF Looped
<1>3. ASSUME NEW w \in TryBlocks(f), NEW b \in l.blocks, b \in f.raw[w]
      PROVE  w \in l.blocks \/ w \in T
  <2>1. SUFFICES ASSUME w \notin T, w \notin l.blocks PROVE FALSE
    OBVIOUS
  <2>2. w \in TryBlocks(f) \cap Members(f, u)
    BY <1>3, <2>1 DEF RegionFits
  <2> DEFINE o == TryUnit(f, w)
  <2>3. o \in Candidates(f, loops, u)
    BY <2>2 DEF Candidates
  <2>4. o.kind = "try" /\ o.header = w
    BY TryUnitFacts
  <2>5. l.blocks \subseteq f.raw[w]
    BY <1>2, <1>3, <2>1 DEF TriesNest, Extent
  <2>6. Contained(f, c, o)
    BY <1>1, <2>4, <2>5 DEF Contained
  <2>7. c # o
    BY <1>1, <2>4
  <2>8. \A x \in Candidates(f, loops, u) : c = x \/ ~Contained(f, c, x)
    BY DEF DirectChildren
  <2>9. QED  BY <2>3, <2>6, <2>7, <2>8
<1>4. QED  BY <1>1, <1>3 DEF RegionFits

LEMMA TryUnitFits ==
    ASSUME NEW f, NEW N, NEW dom, NEW loops, Looped(f, N, dom, loops),
           NEW u, Region(f, N, loops, u), NEW T, RegionFits(f, u, T),
           NEW t \in TryBlocks(f) \cap Members(f, u),
           TryUnit(f, t) \in DirectChildren(f, loops, u)
    PROVE  TryFits(f, t, T)
<1> DEFINE c == TryUnit(f, t)
<1>1. c.kind = "try" /\ c.header = t /\ c.within = Extent(f, t) /\ Members(f, c) = f.raw[t]
  BY TryUnitFacts
<1>2. Verified(f, N, dom)
  BY DEF Looped
<1>3. \A w \in T : w \in TryBlocks(f) /\ t \in f.raw[w]
  BY DEF RegionFits
<1>4. ASSUME NEW w \in TryBlocks(f), t \in f.raw[w]  PROVE w \in T
  <2>1. SUFFICES ASSUME w \notin T PROVE FALSE
    OBVIOUS
  <2>2. w \in TryBlocks(f) \cap Members(f, u)
    BY <1>4, <2>1 DEF RegionFits
  <2> DEFINE o == TryUnit(f, w)
  <2>3. o \in Candidates(f, loops, u)
    BY <2>2 DEF Candidates
  <2>4. o.kind = "try" /\ o.header = w /\ o.within = Extent(f, w)
    BY TryUnitFacts
  <2>5. /\ f.raw[t] \subseteq f.raw[w] /\ t # w /\ w \notin f.raw[w]
    BY <1>2, <1>4, RawWithin, TryDominates
  <2>6. c.within \subseteq o.within /\ c.within # o.within
    BY <1>1, <1>4, <2>4, <2>5 DEF Extent
  <2>7. Contained(f, c, o)
    BY <1>1, <2>4, <2>6 DEF Contained
  <2>8. c # o
    BY <1>1, <2>4, <2>5
  <2>9. \A x \in Candidates(f, loops, u) : c = x \/ ~Contained(f, c, x)
    BY DEF DirectChildren
  <2>10. QED  BY <2>3, <2>7, <2>8, <2>9
<1>5. \A w \in TryBlocks(f) : t \in f.raw[w] <=> w \in T
  BY <1>3, <1>4
<1>6. \A w \in TryBlocks(f) : f.tries[w].handler # t
  BY <1>2, TryShape
<1>7. BlockFits(f, t, T)
  BY <1>5, <1>6 DEF BlockFits
<1>8. t \notin f.raw[t]
  BY <1>2, TryDominates
<1>9. BlockFits(f, f.tries[t].handler, T)
  <2>1. ASSUME NEW w \in TryBlocks(f)
        PROVE  (f.tries[t].handler \in f.raw[w] /\ f.tries[t].handler # f.tries[w].handler) <=> w \in T
    <3>1. f.tries[t].handler \in f.raw[w] <=> w # t /\ t \in f.raw[w]
      BY <1>2, HandlerPlace
    <3>2. w # t => f.tries[t].handler # f.tries[w].handler
      BY <1>2, TryShape
    <3>3. QED  BY <1>5, <1>8, <3>1, <3>2
  <2>2. QED  BY <2>1 DEF BlockFits
<1>10. RegionFits(f, c, T \cup {t})
  <2>1. \A w \in T \cup {t} : w \in TryBlocks(f) /\ f.raw[t] \subseteq f.raw[w]
    BY <1>2, <1>3, RawWithin
  <2>2. ASSUME NEW w \in TryBlocks(f), NEW b \in f.raw[t], b \in f.raw[w]
        PROVE  w \in f.raw[t] \/ w \in T \cup {t}
    <3>1. t = w \/ t \in f.raw[w] \/ w \in f.raw[t]
      BY <1>2, <2>2, RawNested
    <3>2. QED  BY <1>4, <3>1
  <2>3. QED  BY <1>1, <2>1, <2>2 DEF RegionFits
<1>11. QED  BY <1>3, <1>7, <1>9, <1>10 DEF TryFits

(* The units of a region fit where the region does.                        *)
LEMMA UnitsFit ==
    ASSUME NEW f, NEW N, NEW dom, NEW loops, Looped(f, N, dom, loops),
           NEW u, Region(f, N, loops, u), NEW T, RegionFits(f, u, T),
           NEW v \in AllUnits(f, loops, u)
    PROVE  UnitFits(f, N, loops, v, T)
<1>1. Members(f, u) \subseteq N
  BY RegionFacts
<1>2. CASE v \in DirectChildren(f, loops, u)
  <2>1. v \in Candidates(f, loops, u)
    BY <1>2 DEF DirectChildren
  <2>2. \/ \E l \in loops : /\ v = LoopUnit(f, l) /\ l.blocks \subseteq Members(f, u)
                            /\ l.header # Header(u)
        \/ \E t \in TryBlocks(f) \cap Members(f, u) : v = TryUnit(f, t)
    BY <1>1, <2>1, CandidateFacts
  <2>3. CASE \E l \in loops : /\ v = LoopUnit(f, l) /\ l.blocks \subseteq Members(f, u)
                              /\ l.header # Header(u)
    BY <1>2, <2>3, LoopUnitFits DEF UnitFits
  <2>4. CASE \E t \in TryBlocks(f) \cap Members(f, u) : v = TryUnit(f, t)
    BY <1>1, <1>2, <2>4, TryUnitFits DEF UnitFits
  <2>5. QED  BY <2>2, <2>3, <2>4
<1>3. CASE v \notin DirectChildren(f, loops, u)
  <2>1. /\ v.header \in Members(f, u) /\ v = BlockUnit(v.header)
        /\ \A c \in DirectChildren(f, loops, u) : v.header \notin c.blocks
    BY <1>3, AllUnitsFacts
  <2>2. BlockFits(f, v.header, T) /\ v.header \notin TryBlocks(f)
    BY <2>1, BlockUnitFits
  <2>3. QED  BY <1>1, <2>1, <2>2 DEF UnitFits
<1>4. QED  BY <1>2, <1>3

LEMMA RootFits ==
    ASSUME NEW f, NEW N, NEW dom, NEW loops, Looped(f, N, dom, loops)
    PROVE  RegionFits(f, RootUnit(f), {})
<1>1. Members(f, RootUnit(f)) = N /\ Verified(f, N, dom)
  BY RootUnitFacts DEF Looped
<1>2. \A w \in TryBlocks(f) : \A b \in f.raw[w] : w \in N
  BY <1>1, TryDominates
<1>3. QED  BY <1>1, <1>2 DEF RegionFits

-----------------------------------------------------------------------------
(* Labels *)

(* The tries whose tables are open.                                        *)
OpenTries(L) == {L[i][2] : i \in {i \in 1 .. Len(L) : L[i][1] = "try"}}

(* A table stands in the block its clauses leave, and around what it       *)
(* protects; tables are nested like their regions.                         *)
LabelsNest(f, L) ==
    \A i \in 1 .. Len(L) : L[i][1] = "try" =>
        /\ L[i][2] \in TryBlocks(f) /\ i > 1 /\ L[i - 1] = <<"unwind", L[i][2]>>
        /\ \A j \in 1 .. i - 1 : L[j][1] = "try" => L[i][2] \in f.raw[L[j][2]]

LEMMA LabelParts ==
    ASSUME NEW k \in Label
    PROVE  k = <<k[1], k[2]>> /\ k[2] \in Blocks /\ k[1] \in {"block", "loop", "unwind", "try"}
BY DEF Label

LEMMA MakeLabel ==
    ASSUME NEW b \in Blocks
    PROVE  /\ <<"block", b>> \in Label /\ <<"loop", b>> \in Label
           /\ <<"unwind", b>> \in Label /\ <<"try", b>> \in Label
BY DEF Label

LEMMA ConcatOpen ==
    ASSUME NEW s \in Seq(Label), NEW t \in Seq(Label), \A i \in 1 .. Len(t) : t[i][1] # "try"
    PROVE  OpenTries(s \o t) = OpenTries(s)
<1>1. /\ Len(s \o t) = Len(s) + Len(t) /\ Len(s) \in Nat /\ Len(t) \in Nat
      /\ \A i \in 1 .. Len(s) + Len(t) : (s \o t)[i] = IF i <= Len(s) THEN s[i] ELSE t[i - Len(s)]
  BY ConcatProperties
<1> DEFINE r == s \o t
<1> HIDE DEF r
<1>2. /\ Len(r) = Len(s) + Len(t)
      /\ \A i \in 1 .. Len(r) : r[i] = IF i <= Len(s) THEN s[i] ELSE t[i - Len(s)]
  BY <1>1 DEF r
<1>3. \A i \in 1 .. Len(r) : r[i][1] = "try" => i \in 1 .. Len(s) /\ r[i] = s[i]
  <2> TAKE i \in 1 .. Len(r)
  <2>1. CASE i <= Len(s)
    BY <1>1, <1>2, <2>1
  <2>2. CASE ~(i <= Len(s))
    <3>1. i - Len(s) \in 1 .. Len(t)
      BY <1>1, <1>2, <2>2
    <3>2. QED  BY <1>2, <2>2, <3>1
  <2>3. QED  BY <2>1, <2>2
<1>4. \A i \in 1 .. Len(s) : i \in 1 .. Len(r) /\ r[i] = s[i]
  BY <1>1, <1>2
<1>5. {i \in 1 .. Len(r) : r[i][1] = "try"} = {i \in 1 .. Len(s) : s[i][1] = "try"}
  BY <1>3, <1>4
<1>6. OpenTries(r) = OpenTries(s)
  BY <1>3, <1>4, <1>5 DEF OpenTries
<1>7. QED  BY <1>6 DEF r

LEMMA AppendOpen ==
    ASSUME NEW L \in Seq(Label), NEW k \in Label
    PROVE  /\ Append(L, k) \in Seq(Label) /\ Len(Append(L, k)) = Len(L) + 1 /\ Len(L) \in Nat
           /\ Append(L, k)[Len(L) + 1] = k
           /\ \A i \in 1 .. Len(L) : Append(L, k)[i] = L[i]
           /\ SubSeq(Append(L, k), 1, Len(L)) = L
           /\ OpenTries(Append(L, k)) = OpenTries(L) \cup (IF k[1] = "try" THEN {k[2]} ELSE {})
<1> DEFINE M == Append(L, k)
<1>1. /\ M \in Seq(Label) /\ Len(M) = Len(L) + 1 /\ Len(L) \in Nat
      /\ \A i \in 1 .. Len(L) : M[i] = L[i]
      /\ M[Len(L) + 1] = k
  BY AppendProperties
<1> HIDE DEF M
<1>2. SubSeq(M, 1, Len(L)) = L
  <2>1. /\ SubSeq(M, 1, Len(L)) \in Seq(Label) /\ Len(SubSeq(M, 1, Len(L))) = Len(L)
        /\ \A i \in 1 .. Len(L) : SubSeq(M, 1, Len(L))[i] = M[i]
    BY <1>1, PrefixFacts
  <2>2. QED  BY <1>1, <2>1, SequencesEqual
<1>3. ASSUME NEW w \in OpenTries(M)
      PROVE  w \in OpenTries(L) \cup (IF k[1] = "try" THEN {k[2]} ELSE {})
  <2>1. PICK i \in 1 .. Len(M) : M[i][1] = "try" /\ w = M[i][2]
    BY DEF OpenTries
  <2>2. CASE i \in 1 .. Len(L)
    BY <1>1, <2>1, <2>2 DEF OpenTries
  <2>3. CASE i = Len(L) + 1
    BY <1>1, <2>1, <2>3
  <2>4. QED  BY <1>1, <2>2, <2>3
<1>4. ASSUME NEW w \in OpenTries(L)  PROVE w \in OpenTries(M)
  <2>1. PICK i \in 1 .. Len(L) : L[i][1] = "try" /\ w = L[i][2]
    BY DEF OpenTries
  <2>2. i \in 1 .. Len(M) /\ M[i] = L[i]
    BY <1>1
  <2>3. QED  BY <2>1, <2>2 DEF OpenTries
<1>5. ASSUME k[1] = "try"  PROVE k[2] \in OpenTries(M)
  <2>1. Len(M) \in 1 .. Len(M) /\ M[Len(M)] = k
    BY <1>1
  <2>2. QED  BY <1>5, <2>1 DEF OpenTries
<1>6. OpenTries(M) = OpenTries(L) \cup (IF k[1] = "try" THEN {k[2]} ELSE {})
  BY <1>3, <1>4, <1>5
<1>7. QED  BY <1>1, <1>2, <1>6 DEF M

LEMMA AppendNests ==
    ASSUME NEW f, NEW L \in Seq(Label), LabelsNest(f, L), NEW k \in Label, k[1] # "try"
    PROVE  LabelsNest(f, Append(L, k))
<1> DEFINE M == Append(L, k)
<1>1. /\ Len(M) = Len(L) + 1 /\ Len(L) \in Nat
      /\ \A i \in 1 .. Len(L) : M[i] = L[i]
      /\ M[Len(L) + 1] = k
  BY AppendOpen
<1> HIDE DEF M
<1>2. ASSUME NEW i \in 1 .. Len(M), M[i][1] = "try"
      PROVE  /\ M[i][2] \in TryBlocks(f) /\ i > 1 /\ M[i - 1] = <<"unwind", M[i][2]>>
             /\ \A j \in 1 .. i - 1 : M[j][1] = "try" => M[i][2] \in f.raw[M[j][2]]
  <2>1. i \in 1 .. Len(L) /\ M[i] = L[i]
    BY <1>1, <1>2
  <2>2. /\ L[i][2] \in TryBlocks(f) /\ i > 1 /\ L[i - 1] = <<"unwind", L[i][2]>>
        /\ \A j \in 1 .. i - 1 : L[j][1] = "try" => L[i][2] \in f.raw[L[j][2]]
    BY <1>2, <2>1 DEF LabelsNest
  <2>3. i - 1 \in 1 .. Len(L) /\ \A j \in 1 .. i - 1 : M[j] = L[j]
    BY <1>1, <2>1, <2>2
  <2>4. M[i - 1] = L[i - 1]
    BY <1>1, <2>3
  <2>5. QED  BY <2>1, <2>2, <2>3, <2>4
<1>3. QED  BY <1>2 DEF LabelsNest, M

LEMMA AppendTryNests ==
    ASSUME NEW f, NEW L \in Seq(Label), LabelsNest(f, L), NEW t \in TryBlocks(f) \cap Blocks,
           Len(L) >= 1, L[Len(L)] = <<"unwind", t>>,
           \A w \in OpenTries(L) : t \in f.raw[w]
    PROVE  LabelsNest(f, Append(L, <<"try", t>>))
<1> DEFINE k == <<"try", t>>
           M == Append(L, k)
<1>0. k \in Label /\ k[1] = "try" /\ k[2] = t
  BY MakeLabel
<1> HIDE DEF k
<1>1. /\ Len(M) = Len(L) + 1 /\ Len(L) \in Nat
      /\ \A i \in 1 .. Len(L) : M[i] = L[i]
      /\ M[Len(L) + 1] = k
  BY <1>0, AppendOpen
<1> HIDE DEF M
<1>2. ASSUME NEW i \in 1 .. Len(M), M[i][1] = "try"
      PROVE  /\ M[i][2] \in TryBlocks(f) /\ i > 1 /\ M[i - 1] = <<"unwind", M[i][2]>>
             /\ \A j \in 1 .. i - 1 : M[j][1] = "try" => M[i][2] \in f.raw[M[j][2]]
  <2>1. CASE i \in 1 .. Len(L)
    <3>1. M[i] = L[i]
      BY <1>1, <2>1
    <3>2. /\ L[i][2] \in TryBlocks(f) /\ i > 1 /\ L[i - 1] = <<"unwind", L[i][2]>>
          /\ \A j \in 1 .. i - 1 : L[j][1] = "try" => L[i][2] \in f.raw[L[j][2]]
      BY <1>2, <2>1, <3>1 DEF LabelsNest
    <3>3. i - 1 \in 1 .. Len(L) /\ \A j \in 1 .. i - 1 : M[j] = L[j]
      BY <1>1, <2>1, <3>2
    <3>4. M[i - 1] = L[i - 1]
      BY <1>1, <3>3
    <3>5. QED  BY <3>1, <3>2, <3>3, <3>4
  <2>2. CASE i = Len(L) + 1
    <3>1. M[i] = k /\ i - 1 = Len(L) /\ i > 1
      BY <1>1, <2>2
    <3>2. M[i - 1] = <<"unwind", t>>
      BY <1>1, <3>1
    <3>3. \A j \in 1 .. i - 1 : M[j] = L[j] /\ j \in 1 .. Len(L)
      BY <1>1, <3>1
    <3>4. \A j \in 1 .. i - 1 : M[j][1] = "try" => t \in f.raw[M[j][2]]
      BY <3>3 DEF OpenTries
    <3>5. QED  BY <1>0, <3>1, <3>2, <3>4
  <2>3. QED  BY <1>1, <2>1, <2>2
<1>3. QED  BY <1>2 DEF LabelsNest, M, k

LEMMA PrefixNests ==
    ASSUME NEW f, NEW L \in Seq(Label), LabelsNest(f, L), NEW n \in Nat, n <= Len(L)
    PROVE  SubSeq(L, 1, n) \in Seq(Label) /\ LabelsNest(f, SubSeq(L, 1, n))
<1> DEFINE M == SubSeq(L, 1, n)
<1>1. M \in Seq(Label) /\ Len(M) = n /\ \A i \in 1 .. n : M[i] = L[i]
  BY PrefixFacts
<1> HIDE DEF M
<1>2. ASSUME NEW i \in 1 .. Len(M), M[i][1] = "try"
      PROVE  /\ M[i][2] \in TryBlocks(f) /\ i > 1 /\ M[i - 1] = <<"unwind", M[i][2]>>
             /\ \A j \in 1 .. i - 1 : M[j][1] = "try" => M[i][2] \in f.raw[M[j][2]]
  <2>1. i \in 1 .. Len(L) /\ M[i] = L[i] /\ i \in 1 .. n
    BY <1>1, <1>2
  <2>2. /\ L[i][2] \in TryBlocks(f) /\ i > 1 /\ L[i - 1] = <<"unwind", L[i][2]>>
        /\ \A j \in 1 .. i - 1 : L[j][1] = "try" => L[i][2] \in f.raw[L[j][2]]
    BY <1>2, <2>1 DEF LabelsNest
  <2>3. i - 1 \in 1 .. n /\ \A j \in 1 .. i - 1 : M[j] = L[j]
    BY <1>1, <2>1, <2>2
  <2>4. M[i - 1] = L[i - 1]
    BY <1>1, <2>3
  <2>5. QED  BY <2>1, <2>2, <2>3, <2>4
<1>3. QED  BY <1>1, <1>2 DEF LabelsNest, M

\* The labels inside the block the i-th unit stands behind.
LabelsInside(u, units, i, L) ==
    i > 0 => Labels(u, units, i - 1, L)
               = Append(Labels(u, units, i, L), <<"block", units[i].header>>)
\* The labels around the last unit.
LabelsAround(u, units, L) ==
    Labels(u, units, Len(units), L) = IF u.kind = "loop" THEN Append(L, <<"loop", u.header>>) ELSE L

(* The labels around the units of a region.                                *)
LEMMA LabelsFacts ==
    ASSUME NEW u, u.kind = "loop" => u.header \in Blocks,
           NEW S, NEW units \in Seq(S), \A i \in 1 .. Len(units) : units[i].header \in Blocks,
           NEW L \in Seq(Label), NEW i \in 0 .. Len(units)
    PROVE  /\ Labels(u, units, i, L) \in Seq(Label)
           /\ OpenTries(Labels(u, units, i, L)) = OpenTries(L)
           /\ LabelsInside(u, units, i, L) /\ LabelsAround(u, units, L)
<1> DEFINE own == IF u.kind = "loop" THEN <<<<"loop", u.header>>>> ELSE <<>>
           base == L \o own
           tail(k) == [j \in 1 .. Len(units) - k |-> <<"block", units[Len(units) + 1 - j].header>>]
<1>0. Len(units) \in Nat
  OBVIOUS
<1>1. \A k : Labels(u, units, k, L) = base \o tail(k)
  BY DEF Labels
<1>2. own \in Seq(Label) /\ \A k \in 1 .. Len(own) : own[k][1] # "try"
  <2>1. CASE u.kind = "loop"
    <3>1. <<"loop", u.header>> \in Label
      BY <2>1, MakeLabel
    <3>2. own = <<<<"loop", u.header>>>>
      BY <2>1
    <3>3. QED  BY <3>1, <3>2
  <2>2. CASE u.kind # "loop"
    BY <2>2, EmptySeq
  <2>3. QED  BY <2>1, <2>2
<1>3. ASSUME NEW k \in 0 .. Len(units)
      PROVE  /\ tail(k) \in Seq(Label) /\ Len(tail(k)) = Len(units) - k
             /\ \A j \in 1 .. Len(tail(k)) : tail(k)[j] = <<"block", units[Len(units) + 1 - j].header>>
  <2>1. Len(units) - k \in Nat
    BY <1>0
  <2>2. \A j \in 1 .. Len(units) - k : Len(units) + 1 - j \in 1 .. Len(units)
    BY <1>0
  <2>3. \A j \in 1 .. Len(units) - k : <<"block", units[Len(units) + 1 - j].header>> \in Label
    BY <2>2, MakeLabel
  <2>4. tail(k) \in [1 .. Len(units) - k -> Label]
    BY <2>3
  <2>5. tail(k) \in Seq(Label)
    <3> DEFINE n == Len(units) - k
               s == tail(k)
    <3>1. n \in Nat /\ s \in [1 .. n -> Label]
      BY <2>1, <2>4
    <3> HIDE DEF n, s
    <3>2. s \in Seq(Label)
      BY <3>1
    <3>3. QED  BY <3>2 DEF s
  <2>6. DOMAIN tail(k) = 1 .. Len(units) - k
    OBVIOUS
  <2>7. DOMAIN tail(k) = 1 .. Len(tail(k)) /\ Len(tail(k)) \in Nat
    BY <2>5, LenProperties
  <2>8. Len(tail(k)) = Len(units) - k
    <3> DEFINE m == Len(tail(k))
               n == Len(units) - k
    <3>1. m \in Nat /\ n \in Nat /\ 1 .. m = 1 .. n
      BY <2>1, <2>6, <2>7
    <3> HIDE DEF m, n
    <3>2. m = n
      BY <3>1
    <3>3. QED  BY <3>2 DEF m, n
  <2>9. QED  BY <2>5, <2>8
<1> HIDE DEF own, tail
<1>4. base \in Seq(Label)
  BY <1>2, ConcatProperties
<1>5. OpenTries(base) = OpenTries(L)
  BY <1>2, ConcatOpen
<1> HIDE DEF base
<1>6. base \o tail(i) \in Seq(Label)
  BY <1>3, <1>4, ConcatProperties
<1>7. OpenTries(base \o tail(i)) = OpenTries(L)
  <2>1. \A j \in 1 .. Len(tail(i)) : tail(i)[j][1] # "try"
    BY <1>3
  <2>2. tail(i) \in Seq(Label)
    BY <1>3
  <2>3. QED  BY <1>4, <1>5, <2>1, <2>2, ConcatOpen
<1>8. ASSUME i > 0
      PROVE  base \o tail(i - 1) = Append(base \o tail(i), <<"block", units[i].header>>)
  <2> DEFINE k == <<"block", units[i].header>>
  <2>1. i \in 1 .. Len(units) /\ i - 1 \in 0 .. Len(units)
    BY <1>8
  <2>2. k \in Label
    BY <2>1, MakeLabel
  <2>3. /\ tail(i) \in Seq(Label) /\ Len(tail(i)) = Len(units) - i
        /\ \A j \in 1 .. Len(tail(i)) : tail(i)[j] = <<"block", units[Len(units) + 1 - j].header>>
    BY <1>3
  <2>4. /\ tail(i - 1) \in Seq(Label) /\ Len(tail(i - 1)) = Len(units) - (i - 1)
        /\ \A j \in 1 .. Len(tail(i - 1)) : tail(i - 1)[j] = <<"block", units[Len(units) + 1 - j].header>>
    BY <1>3, <2>1
  <2>5. Append(tail(i), k) = tail(i - 1)
    <3> DEFINE a == Append(tail(i), k)
    <3>1. /\ a \in Seq(Label) /\ Len(a) = Len(tail(i)) + 1
          /\ \A j \in 1 .. Len(tail(i)) : a[j] = tail(i)[j]
          /\ a[Len(tail(i)) + 1] = k
      <4> HIDE DEF k
      <4> QED  BY <2>2, <2>3, AppendProperties
    <3> HIDE DEF a
    <3>2. Len(a) = Len(tail(i - 1))
      BY <1>0, <2>3, <2>4, <3>1
    <3>3. a[Len(tail(i)) + 1] = tail(i - 1)[Len(tail(i)) + 1]
      <4>1. Len(tail(i)) + 1 \in 1 .. Len(tail(i - 1)) /\ Len(units) + 1 - (Len(tail(i)) + 1) = i
        BY <1>0, <2>1, <2>3, <2>4
      <4>2. tail(i - 1)[Len(tail(i)) + 1] = <<"block", units[Len(units) + 1 - (Len(tail(i)) + 1)].header>>
        BY <2>4, <4>1
      <4>3. QED  BY <3>1, <4>1, <4>2
    <3>4. \A j \in 1 .. Len(tail(i)) : a[j] = tail(i - 1)[j]
      <4>1. \A j \in 1 .. Len(tail(i)) : j \in 1 .. Len(tail(i - 1))
        BY <1>0, <2>1, <2>3, <2>4
      <4>2. QED  BY <2>3, <2>4, <3>1, <4>1
    <3>5. \A j \in 1 .. Len(a) : j \in 1 .. Len(tail(i)) \/ j = Len(tail(i)) + 1
      BY <1>0, <2>3, <3>1
    <3>6. \A j \in 1 .. Len(a) : a[j] = tail(i - 1)[j]
      BY <3>3, <3>4, <3>5
    <3>7. a = tail(i - 1)
      BY <2>4, <3>1, <3>2, <3>6, SequencesEqual
    <3>8. QED  BY <3>7 DEF a
  <2> HIDE DEF k
  <2>6. Append(tail(i), k) = tail(i) \o <<k>> /\ Append(base \o tail(i), k) = (base \o tail(i)) \o <<k>>
    BY <1>6, <2>2, <2>3, AppendIsConcat
  <2>7. <<k>> \in Seq(Label)
    BY <2>2
  <2>8. (base \o tail(i)) \o <<k>> = base \o (tail(i) \o <<k>>)
    <3> DEFINE l == tail(i)
               r == <<k>>
    <3>1. base \in Seq(Label) /\ l \in Seq(Label) /\ r \in Seq(Label)
      BY <1>4, <2>3, <2>7
    <3> HIDE DEF base, l, r
    <3>2. (base \o l) \o r = base \o (l \o r)
      BY <3>1, ConcatAssociative, SMTT(30)
    <3>3. QED  BY <3>2 DEF l, r
  <2>9. QED  BY <2>5, <2>6, <2>8 DEF k
<1>9. base \o tail(Len(units)) = IF u.kind = "loop" THEN Append(L, <<"loop", u.header>>) ELSE L
  <2>1. tail(Len(units)) = <<>>
    <3>1. Len(units) \in 0 .. Len(units)
      BY <1>0
    <3>2. Len(tail(Len(units))) = 0 /\ tail(Len(units)) \in Seq(Label)
      BY <1>0, <1>3, <3>1
    <3>3. QED  BY <3>2, EmptySeq
  <2>2. base \o <<>> = base
    BY <1>4, ConcatEmptySeq
  <2>3. CASE u.kind = "loop"
    <3>1. <<"loop", u.header>> \in Label
      BY <2>3, MakeLabel
    <3>2. Append(L, <<"loop", u.header>>) = L \o <<<<"loop", u.header>>>>
      BY <3>1, AppendIsConcat
    <3>3. QED  BY <2>1, <2>2, <2>3, <3>2 DEF base, own
  <2>4. CASE u.kind # "loop"
    <3>1. base = L
      BY <2>4, ConcatEmptySeq DEF base, own
    <3>2. QED  BY <2>1, <2>2, <2>4, <3>1
  <2>5. QED  BY <2>3, <2>4
<1>10. QED  BY <1>1, <1>6, <1>7, <1>8, <1>9 DEF LabelsInside, LabelsAround

-----------------------------------------------------------------------------
(* The code of a region *)

(* How deep regions may be nested within u.                                *)
Height(N, dom, u) ==
    IF u.kind = "root" \/ u.header \notin N THEN Cardinality(N) + 1
    ELSE Cardinality(N) - Depth(dom, u.header)

LEMMA HeightFacts ==
    ASSUME NEW f, NEW N, NEW dom, Verified(f, N, dom), NEW u
    PROVE  Height(N, dom, u) \in Nat /\ Height(N, dom, u) <= Cardinality(N) + 1 /\ Cardinality(N) \in Nat
<1>1. Cardinality(N) \in Nat
  BY FS_CardinalityType DEF Verified
<1>2. CASE u.kind = "root" \/ u.header \notin N
  BY <1>1, <1>2 DEF Height
<1>3. CASE ~(u.kind = "root" \/ u.header \notin N)
  <2>1. Depth(dom, u.header) \in Nat /\ Depth(dom, u.header) <= Cardinality(N)
    BY <1>3, DepthFacts
  <2>2. QED  BY <1>1, <1>3, <2>1 DEF Height
<1>4. QED  BY <1>2, <1>3

LEMMA RegionsAre ==
    ASSUME NEW f, NEW N, NEW dom, NEW loops, Looped(f, N, dom, loops)
    PROVE  /\ \A u : Region(f, N, loops, u) => u \in Regions(f, loops)
           /\ \A u \in Regions(f, loops) :
                /\ u.kind = "loop" => u.header \in Blocks
                /\ \/ Region(f, N, loops, u)
                   \/ u.kind = "try" /\ u.header \notin N /\ Members(f, u) = {}
<1>1. Verified(f, N, dom) /\ N \subseteq Blocks /\ \A l \in loops : l.header \in N
  BY DEF Looped, Verified
<1>2. \A u : Region(f, N, loops, u) => u \in Regions(f, loops)
  BY DEF Region, Child, Regions
<1>3. ASSUME NEW u \in Regions(f, loops)
      PROVE  /\ u.kind = "loop" => u.header \in Blocks
             /\ \/ Region(f, N, loops, u)
                \/ u.kind = "try" /\ u.header \notin N /\ Members(f, u) = {}
  <2>1. CASE u = RootUnit(f)
    BY <2>1, RootUnitFacts DEF Region
  <2>2. CASE \E l \in loops : u = LoopUnit(f, l)
    BY <1>1, <2>2, LoopUnitFacts DEF Region, Child
  <2>3. CASE \E t \in TryBlocks(f) : u = TryUnit(f, t)
    <3>1. PICK t \in TryBlocks(f) : u = TryUnit(f, t)
      BY <2>3
    <3>2. u.kind = "try" /\ u.header = t /\ Members(f, u) = f.raw[t]
      BY <3>1, TryUnitFacts
    <3>3. t \notin N => f.raw[t] = {}
      BY <1>1, TryDominates
    <3>4. t \in N => Region(f, N, loops, u)
      BY <3>1 DEF Region, Child
    <3>5. QED  BY <3>2, <3>3, <3>4
  <2>4. QED  BY <2>1, <2>2, <2>3 DEF Regions
<1>4. QED  BY <1>2, <1>3

LEMMA UnreachedUnits ==
    ASSUME NEW f, NEW N, NEW dom, NEW loops, Looped(f, N, dom, loops),
           NEW u, Members(f, u) = {}
    PROVE  Units(f, loops, u) = <<>>
<1>1. \A l \in loops : ~(l.blocks \subseteq Members(f, u))
  BY DEF Looped
<1>2. Candidates(f, loops, u) = {}
  BY <1>1 DEF Candidates
<1>3. AllUnits(f, loops, u) = {}
  BY <1>2 DEF AllUnits, Alone, DirectChildren
<1>4. IsFiniteSet({}) /\ \A v \in {} : v.header \in Nat
  BY FS_EmptySet
<1>5. Ordered(f, u, {}) \in Seq({})
  BY <1>4, OrderedFacts
<1>6. \A s \in Seq({}) : s = <<>>
  <2> TAKE s \in Seq({})
  <2>1. SUFFICES ASSUME s # <<>> PROVE FALSE
    OBVIOUS
  <2>2. Len(s) \in Nat \ {0}
    BY <2>1, EmptySeq
  <2>3. 1 \in 1 .. Len(s)
    BY <2>2
  <2>4. s[1] \in {}
    BY <2>3, ElementOfSeq
  <2>5. QED  BY <2>4
<1>7. Ordered(f, u, {}) = <<>>
  BY <1>5, <1>6
<1>8. QED  BY <1>3, <1>7, UnitsAre DEF NoCode

(* A unit of a region is nested less deep.                                 *)
LEMMA UnitHeight ==
    ASSUME NEW f, NEW N, NEW dom, NEW loops, Looped(f, N, dom, loops),
           NEW u, Region(f, N, loops, u), NEW v \in AllUnits(f, loops, u)
    PROVE  /\ v.kind \in {"block", "loop", "try"} /\ v.header \in Blocks
           /\ v.kind # "block" => /\ v \in Regions(f, loops)
                                  /\ Height(N, dom, v) < Height(N, dom, u)
<1>1. /\ Verified(f, N, dom) /\ N \subseteq Blocks /\ Members(f, u) \subseteq N /\ u.header \in N
      /\ \A l \in loops : /\ l.header \in N /\ l.header \in l.blocks /\ l.header \notin TryBlocks(f)
                          /\ \A b \in l.blocks : l.header \in dom[b]
  BY RegionFacts DEF Looped, Verified
<1>2. v.header \in N
  BY AllUnitsFacts
<1>3. CASE v = BlockUnit(v.header)
  <2>1. v.kind = "block"
    BY <1>3, BlockUnitFacts
  <2>2. QED  BY <1>1, <1>2, <2>1
<1>4. CASE v \in Candidates(f, loops, u) /\ Child(f, N, loops, v)
  <2>1. v.kind \in {"loop", "try"} /\ v \in Regions(f, loops)
    BY <1>4, LoopUnitFacts, TryUnitFacts DEF Child, Regions
  <2>2. v.header \in Members(f, u) /\ (v.kind = "loop" => v.header # Header(u))
    <3>1. \/ \E l \in loops : /\ v = LoopUnit(f, l) /\ l.blocks \subseteq Members(f, u)
                              /\ l.header # Header(u)
          \/ \E t \in TryBlocks(f) \cap Members(f, u) : v = TryUnit(f, t)
      BY <1>1, <1>4, CandidateFacts
    <3>2. CASE \E l \in loops : /\ v = LoopUnit(f, l) /\ l.blocks \subseteq Members(f, u)
                                /\ l.header # Header(u)
      <4>1. PICK l \in loops : /\ v = LoopUnit(f, l) /\ l.blocks \subseteq Members(f, u)
                               /\ l.header # Header(u)
        BY <3>2
      <4>2. v.header = l.header
        BY <4>1, LoopUnitFacts
      <4>3. QED  BY <1>1, <4>1, <4>2
    <3>3. CASE \E t \in TryBlocks(f) \cap Members(f, u) : v = TryUnit(f, t)
      BY <3>3, TryUnitFacts
    <3>4. QED  BY <3>1, <3>2, <3>3
  <2>3. v.kind = "try" => v.header \in TryBlocks(f)
    BY <1>4, LoopUnitFacts, TryUnitFacts DEF Child
  <2>4. Depth(dom, v.header) \in Nat /\ Depth(dom, v.header) <= Cardinality(N) /\ Cardinality(N) \in Nat
    BY <1>1, <1>2, DepthFacts
  <2>5. Height(N, dom, v) = Cardinality(N) - Depth(dom, v.header)
    BY <1>2, <2>1 DEF Height
  <2>6. ASSUME u.header \in dom[v.header] \ {v.header}, u.kind # "root"
        PROVE  Height(N, dom, v) < Height(N, dom, u)
    <3>1. Depth(dom, u.header) < Depth(dom, v.header) /\ Depth(dom, u.header) \in Nat
      BY <1>1, <1>2, <2>6, DepthFacts
    <3>2. Height(N, dom, u) = Cardinality(N) - Depth(dom, u.header)
      BY <1>1, <2>6 DEF Height
    <3>3. QED  BY <2>4, <2>5, <3>1, <3>2
  <2>7. CASE u = RootUnit(f)
    <3>1. Height(N, dom, u) = Cardinality(N) + 1
      BY <2>7, RootUnitFacts DEF Height
    <3>2. Height(N, dom, v) < Height(N, dom, u)
      BY <2>4, <2>5, <3>1
    <3>3. QED  BY <1>1, <1>2, <2>1, <3>2
  <2>8. CASE \E k \in loops : u = LoopUnit(f, k)
    <3>1. PICK k \in loops : u = LoopUnit(f, k)
      BY <2>8
    <3>2. u.header = k.header /\ u.kind = "loop" /\ Members(f, u) = k.blocks /\ Header(u) = k.header
      BY <3>1, LoopUnitFacts
    <3>3. u.header \in dom[v.header] \ {v.header}
      BY <1>1, <2>1, <2>2, <2>3, <3>2
    <3>4. QED  BY <1>1, <1>2, <2>1, <2>6, <3>2, <3>3
  <2>9. CASE \E w \in TryBlocks(f) \cap N : u = TryUnit(f, w)
    <3>1. PICK w \in TryBlocks(f) \cap N : u = TryUnit(f, w)
      BY <2>9
    <3>2. u.header = w /\ u.kind = "try" /\ Members(f, u) = f.raw[w]
      BY <3>1, TryUnitFacts
    <3>3. u.header \in dom[v.header] \ {v.header}
      BY <1>1, <2>2, <3>2, TryDominates
    <3>4. QED  BY <1>1, <1>2, <2>1, <2>6, <3>2, <3>3
  <2>10. QED  BY <2>7, <2>8, <2>9 DEF Region, Child
<1>5. QED  BY <1>3, <1>4, AllUnitsFacts

LEMMA ArmedFacts ==
    ASSUME NEW L \in Seq(Label), NEW t \in Blocks
    PROVE  /\ Armed(t, L) = Append(Append(L, <<"unwind", t>>), <<"try", t>>)
           /\ Armed(t, L) \in Seq(Label) /\ Append(L, <<"unwind", t>>) \in Seq(Label)
<1> DEFINE a == <<"unwind", t>>
           b == <<"try", t>>
<1>1. a \in Label /\ b \in Label
  BY MakeLabel
<1>2. Armed(t, L) = L \o <<a, b>>
  BY DEF Armed
<1> HIDE DEF a, b
<1>3. <<a>> \in Seq(Label) /\ <<b>> \in Seq(Label) /\ Append(L, a) \in Seq(Label)
  BY <1>1, AppendProperties
<1>4. <<a>> \o <<b>> = <<a, b>>
  <2>1. <<a, b>> \in Seq(Label) /\ Len(<<a, b>>) = 2 /\ <<a, b>>[1] = a /\ <<a, b>>[2] = b
    BY <1>1
  <2>2. Len(<<a>>) = 1 /\ <<a>>[1] = a /\ Len(<<b>>) = 1 /\ <<b>>[1] = b
    OBVIOUS
  <2>3. /\ <<a>> \o <<b>> \in Seq(Label) /\ Len(<<a>> \o <<b>>) = Len(<<a>>) + Len(<<b>>)
        /\ \A i \in 1 .. Len(<<a>>) + Len(<<b>>) :
              (<<a>> \o <<b>>)[i] = IF i <= Len(<<a>>) THEN <<a>>[i] ELSE <<b>>[i - Len(<<a>>)]
    BY <1>3, ConcatProperties
  <2>4. (<<a>> \o <<b>>)[1] = a /\ (<<a>> \o <<b>>)[2] = b /\ Len(<<a>> \o <<b>>) = 2
    BY <2>2, <2>3
  <2>5. \A i \in 1 .. 2 : (<<a>> \o <<b>>)[i] = <<a, b>>[i]
    BY <2>1, <2>4
  <2>6. QED  BY <2>1, <2>3, <2>4, <2>5, SequencesEqual
<1>5. Append(L, a) = L \o <<a>> /\ Append(Append(L, a), b) = Append(L, a) \o <<b>>
  BY <1>1, <1>3, AppendIsConcat
<1>6. (L \o <<a>>) \o <<b>> = L \o (<<a>> \o <<b>>)
  BY <1>3, ConcatAssociative
<1>7. Append(Append(L, a), b) \in Seq(Label)
  BY <1>1, <1>3, AppendProperties
<1>8. Armed(t, L) = Append(Append(L, a), b)
  BY <1>2, <1>4, <1>5, <1>6
<1>9. QED  BY <1>3, <1>7, <1>8 DEF a, b

Parts(f, loops, emitted, u, L) ==
    [i \in 1 .. Len(Units(f, loops, u)) |->
        EmitUnit(f, Units(f, loops, u)[i], emitted, Labels(u, Units(f, loops, u), i, L))]

LEMMA RegionCodeIs ==
    ASSUME NEW f, NEW loops, NEW emitted, NEW u, NEW L
    PROVE  RegionCode(f, loops, emitted, u, L) =
             IF \E i \in 1 .. Len(Units(f, loops, u)) : Parts(f, loops, emitted, u, L)[i] = NoCode
             THEN NoCode
             ELSE Nested(NoCode, Parts(f, loops, emitted, u, L))[Len(Units(f, loops, u))]
BY DEF RegionCode, Parts

(* The units of a region, reached or not.                                  *)
LEMMA UnitsOfRegions ==
    ASSUME NEW f, NEW N, NEW dom, NEW loops, Looped(f, N, dom, loops),
           NEW u \in Regions(f, loops)
    PROVE  /\ u.kind = "loop" => u.header \in Blocks
           /\ \E S : Units(f, loops, u) \in Seq(S)
           /\ Len(Units(f, loops, u)) \in Nat
           /\ \A i \in 1 .. Len(Units(f, loops, u)) :
                 LET v == Units(f, loops, u)[i]
                 IN  /\ v.kind \in {"block", "loop", "try"} /\ v.header \in Blocks
                     /\ v.kind # "block" => /\ v \in Regions(f, loops)
                                            /\ Height(N, dom, v) < Height(N, dom, u)
<1> DEFINE units == Units(f, loops, u)
<1>1. u.kind = "loop" => u.header \in Blocks
  BY RegionsAre
<1>2. CASE Region(f, N, loops, u)
  <2>1. units \in Seq(AllUnits(f, loops, u))
    BY <1>2, UnitsFacts
  <2> HIDE DEF units
  <2>2. \A i \in 1 .. Len(units) : units[i] \in AllUnits(f, loops, u)
    BY <2>1, ElementOfSeq
  <2>3. \A v \in AllUnits(f, loops, u) :
           /\ v.kind \in {"block", "loop", "try"} /\ v.header \in Blocks
           /\ v.kind # "block" => /\ v \in Regions(f, loops)
                                  /\ Height(N, dom, v) < Height(N, dom, u)
    BY <1>2, UnitHeight
  <2>4. Len(units) \in Nat
    BY <2>1, LenProperties
  <2>5. QED  BY <1>1, <2>1, <2>2, <2>3, <2>4 DEF units
<1>3. CASE ~Region(f, N, loops, u)
  <2>1. Members(f, u) = {}
    BY <1>3, RegionsAre
  <2>2. units = <<>>
    BY <2>1, UnreachedUnits
  <2>3. units \in Seq({}) /\ Len(units) = 0
    BY <2>2, EmptySeq
  <2> HIDE DEF units
  <2>4. 1 .. Len(units) = {} /\ Len(units) \in Nat
    BY <2>3
  <2>5. QED  BY <1>1, <2>3, <2>4 DEF units
<1>4. QED  BY <1>2, <1>3

LEMMA SameRegionCode ==
    ASSUME NEW f, NEW N, NEW dom, NEW loops, Looped(f, N, dom, loops),
           NEW u \in Regions(f, loops), NEW L \in Seq(Label), NEW g, NEW h,
           \A v \in Regions(f, loops), K \in Seq(Label) :
              Height(N, dom, v) < Height(N, dom, u) => g[<<v, K>>] = h[<<v, K>>]
    PROVE  RegionCode(f, loops, g, u, L) = RegionCode(f, loops, h, u, L)
<1> DEFINE units == Units(f, loops, u)
           Fine(v) == /\ v.kind \in {"block", "loop", "try"} /\ v.header \in Blocks
                      /\ v.kind # "block" => /\ v \in Regions(f, loops)
                                             /\ Height(N, dom, v) < Height(N, dom, u)
<1>1. /\ u.kind = "loop" => u.header \in Blocks
      /\ \E S : units \in Seq(S)
      /\ Len(units) \in Nat
      /\ \A i \in 1 .. Len(units) : Fine(units[i])
  BY UnitsOfRegions
<1>2. PICK S : units \in Seq(S)
  BY <1>1
<1>3. ASSUME NEW i \in 1 .. Len(units)
      PROVE  EmitUnit(f, units[i], g, Labels(u, units, i, L)) = EmitUnit(f, units[i], h, Labels(u, units, i, L))
  <2> DEFINE v == units[i]
             K == Labels(u, units, i, L)
  <2>1. Fine(v)
    BY <1>1
  <2> HIDE DEF units
  <2>2. K \in Seq(Label)
    <3>1. i \in 0 .. Len(units) /\ \A j \in 1 .. Len(units) : units[j].header \in Blocks
      BY <1>1
    <3>2. QED  BY <1>1, <1>2, <3>1, LabelsFacts
  <2>3. Armed(v.header, K) \in Seq(Label)
    BY <2>1, <2>2, ArmedFacts
  <2> HIDE DEF v, K
  <2>4. CASE v.kind = "block"
    BY <2>4 DEF EmitUnit
  <2>5. CASE v.kind = "loop"
    <3>1. g[<<v, K>>] = h[<<v, K>>]
      BY <2>1, <2>2, <2>5
    <3>2. EmitUnit(f, v, g, K) = IF g[<<v, K>>] = NoCode THEN NoCode ELSE <<Loop(g[<<v, K>>])>>
      BY <2>5 DEF EmitUnit
    <3>3. EmitUnit(f, v, h, K) = IF h[<<v, K>>] = NoCode THEN NoCode ELSE <<Loop(h[<<v, K>>])>>
      BY <2>5 DEF EmitUnit
    <3>4. QED  BY <3>1, <3>2, <3>3 DEF v, K
  <2>6. CASE v.kind = "try"
    <3>1. g[<<v, Armed(v.header, K)>>] = h[<<v, Armed(v.header, K)>>]
      BY <2>1, <2>3, <2>6
    <3>2. EmitUnit(f, v, g, K) = EmitTry(f, v.header, g[<<v, Armed(v.header, K)>>], K)
      BY <2>6 DEF EmitUnit
    <3>3. EmitUnit(f, v, h, K) = EmitTry(f, v.header, h[<<v, Armed(v.header, K)>>], K)
      BY <2>6 DEF EmitUnit
    <3>4. QED  BY <3>1, <3>2, <3>3 DEF v, K
  <2>7. QED  BY <2>1, <2>4, <2>5, <2>6 DEF v, K
<1>4. Parts(f, loops, g, u, L) = Parts(f, loops, h, u, L)
  BY <1>3 DEF Parts
<1>5. QED  BY <1>4, RegionCodeIs

Emitting(f, loops, g) ==
    g = [c \in Regions(f, loops) \X Seq(Label) |-> RegionCode(f, loops, g, c[1], c[2])]

LEMMA EmissionExists ==
    ASSUME NEW f, NEW N, NEW dom, NEW loops, Looped(f, N, dom, loops)
    PROVE  \E g : Emitting(f, loops, g)
<1> DEFINE D == Regions(f, loops) \X Seq(Label)
           Unfold(g, c) == RegionCode(f, loops, g, c[1], c[2])
           Upto(n, g) == \A c \in D : Height(N, dom, c[1]) <= n => g[c] = Unfold(g, c)
           Missing == {n \in Nat : \A g : ~Upto(n, g)}
<1>0. Verified(f, N, dom)
  BY DEF Looped
<1>1. /\ Cardinality(N) + 1 \in Nat
      /\ \A c \in D : Height(N, dom, c[1]) \in Nat /\ Height(N, dom, c[1]) <= Cardinality(N) + 1
  BY <1>0, HeightFacts
<1>s. ASSUME NEW c \in D, NEW g, NEW h,
             \A d \in D : Height(N, dom, d[1]) < Height(N, dom, c[1]) => g[d] = h[d]
      PROVE  Unfold(g, c) = Unfold(h, c)
  <2>1. c[1] \in Regions(f, loops) /\ c[2] \in Seq(Label)
    OBVIOUS
  <2>2. ASSUME NEW v \in Regions(f, loops), NEW K \in Seq(Label),
               Height(N, dom, v) < Height(N, dom, c[1])
        PROVE  g[<<v, K>>] = h[<<v, K>>]
    <3>1. <<v, K>> \in D /\ <<v, K>>[1] = v
      OBVIOUS
    <3> HIDE DEF D
    <3>2. QED  BY <1>s, <2>2, <3>1
  <2>3. QED  BY <2>1, <2>2, SameRegionCode
<1> HIDE DEF D, Unfold
<1>2. ASSUME NEW n \in Nat, NEW g, \A c \in D : Height(N, dom, c[1]) < n => g[c] = Unfold(g, c)
      PROVE  n \notin Missing
  <2> DEFINE h == [c \in D |-> Unfold(g, c)]
  <2>1. ASSUME NEW c \in D, Height(N, dom, c[1]) <= n  PROVE h[c] = Unfold(h, c)
    <3>1. ASSUME NEW d \in D, Height(N, dom, d[1]) < Height(N, dom, c[1])  PROVE g[d] = h[d]
      <4>1. Height(N, dom, d[1]) < n
        BY <1>1, <2>1, <3>1
      <4>2. QED  BY <1>2, <4>1
    <3>2. h[c] = Unfold(g, c)
      OBVIOUS
    <3> HIDE DEF h
    <3>3. Unfold(g, c) = Unfold(h, c)
      BY <1>s, <3>1
    <3>4. QED  BY <3>2, <3>3
  <2>2. Upto(n, h)
    <3> HIDE DEF h
    <3> QED  BY <2>1
  <2>3. QED
    <3> HIDE DEF h, Upto
    <3> QED  BY <2>2
<1>3. Missing = {}
  <2>1. SUFFICES ASSUME Missing # {} PROVE FALSE
    OBVIOUS
  <2>2. Missing \in SUBSET Nat
    OBVIOUS
  <2>3. PICK k \in Missing : \A j \in Missing : k <= j
    <3> HIDE DEF Missing
    <3> QED  BY <2>1, <2>2, LeastExists
  <2>4. k \in Nat
    OBVIOUS
  <2>5. CASE k = 0
    <3> DEFINE g == [c \in D |-> c]
    <3>1. \A c \in D : Height(N, dom, c[1]) < k => g[c] = Unfold(g, c)
      <4> HIDE DEF g
      <4> QED  BY <1>1, <2>5
    <3>2. QED
      <4> HIDE DEF g, Missing
      <4> QED  BY <1>2, <2>3, <2>4, <3>1
  <2>6. CASE k # 0
    <3>1. k - 1 \in Nat /\ ~(k <= k - 1)
      BY <2>4, <2>6
    <3>2. k - 1 \notin Missing
      <4> HIDE DEF Missing
      <4> QED  BY <2>3, <3>1
    <3>3. PICK g : Upto(k - 1, g)
      BY <3>1, <3>2
    <3>4. \A c \in D : Height(N, dom, c[1]) < k => g[c] = Unfold(g, c)
      <4> TAKE c \in D
      <4>1. Height(N, dom, c[1]) \in Nat
        BY <1>1
      <4>2. Height(N, dom, c[1]) < k => Height(N, dom, c[1]) <= k - 1
        BY <2>4, <4>1
      <4> QED  BY <3>3, <4>2
    <3>5. QED
      <4> HIDE DEF Missing
      <4> QED  BY <1>2, <2>3, <2>4, <3>4
  <2>7. QED  BY <2>5, <2>6
<1>5. PICK g : Upto(Cardinality(N) + 1, g)
  <2> HIDE DEF Upto
  <2> QED  BY <1>1, <1>3
<1>7. \A c \in D : g[c] = Unfold(g, c)
  BY <1>1, <1>5
<1> DEFINE h == [c \in D |-> g[c]]
<1>8. \A c \in D : g[c] = Unfold(h, c)
  <2> TAKE c \in D
  <2>1. \A d \in D : Height(N, dom, d[1]) < Height(N, dom, c[1]) => g[d] = h[d]
    OBVIOUS
  <2> HIDE DEF h
  <2>2. Unfold(g, c) = Unfold(h, c)
    BY <1>s, <2>1
  <2>3. QED  BY <1>7, <2>2
<1>9. h = [c \in D |-> Unfold(h, c)]
  BY <1>8
<1>10. Emitting(f, loops, h)
  BY <1>9 DEF Emitting, Unfold, D
<1>11. QED  BY <1>10

LEMMA EmissionFacts ==
    ASSUME NEW f, NEW N, NEW dom, NEW loops, Looped(f, N, dom, loops),
           NEW u \in Regions(f, loops), NEW L \in Seq(Label)
    PROVE  EmitRegion(f, loops)[<<u, L>>] = RegionCode(f, loops, EmitRegion(f, loops), u, L)
<1>1. \E g : Emitting(f, loops, g)
  BY EmissionExists
<1> DEFINE g == CHOOSE g : Emitting(f, loops, g)
<1>2. Emitting(f, loops, g)
  BY <1>1
<1>3. EmitRegion(f, loops) = g
  BY DEF EmitRegion, Emitting
<1> HIDE DEF g
<1>4. <<u, L>> \in Regions(f, loops) \X Seq(Label)
  OBVIOUS
<1>5. g[<<u, L>>] = RegionCode(f, loops, g, <<u, L>>[1], <<u, L>>[2])
  BY <1>2, <1>4 DEF Emitting
<1>6. QED  BY <1>3, <1>5

-----------------------------------------------------------------------------
(* Code *)

IsSeq(s) == \E S : s \in Seq(S)

LEMMA FunctionIsSeq ==
    ASSUME NEW n \in Nat, NEW S, NEW s \in [1 .. n -> S]
    PROVE  s \in Seq(S) /\ Len(s) = n
<1>1. s \in Seq(S)
  OBVIOUS
<1>2. DOMAIN s = 1 .. n /\ DOMAIN s = 1 .. Len(s) /\ Len(s) \in Nat
  BY <1>1, LenProperties
<1> DEFINE m == Len(s)
<1>3. m \in Nat /\ 1 .. m = 1 .. n
  BY <1>2
<1> HIDE DEF m
<1>4. m = n
  BY <1>3
<1>5. QED  BY <1>1, <1>4 DEF m

LEMMA TailOf ==
    ASSUME NEW x, NEW p, IsSeq(p)
    PROVE  /\ IsSeq(<<x>> \o p) /\ <<x>> \o p # <<>>
           /\ Head(<<x>> \o p) = x /\ Tail(<<x>> \o p) = p
<1>1. PICK S : p \in Seq(S)
  BY DEF IsSeq
<1> DEFINE T == S \cup {x}
           s == <<x>> \o p
<1>2. p \in Seq(T)
  BY <1>1, SeqMonotonic
<1>3. <<x>> \in Seq(T) /\ Len(<<x>>) = 1 /\ <<x>>[1] = x
  OBVIOUS
<1> HIDE DEF T
<1>4. /\ s \in Seq(T) /\ Len(s) = 1 + Len(p) /\ Len(p) \in Nat
      /\ \A i \in 1 .. 1 + Len(p) : s[i] = IF i <= 1 THEN x ELSE p[i - 1]
  <2>1. /\ s \in Seq(T) /\ Len(s) = Len(<<x>>) + Len(p)
        /\ \A i \in 1 .. Len(<<x>>) + Len(p) : s[i] = IF i <= Len(<<x>>) THEN <<x>>[i] ELSE p[i - Len(<<x>>)]
    BY <1>2, <1>3, ConcatProperties
  <2>2. Len(p) \in Nat
    BY <1>2, LenProperties
  <2> HIDE DEF s
  <2>3. \A i \in 1 .. 1 + Len(p) : i <= 1 => i = 1
    BY <2>2
  <2>4. QED  BY <1>3, <2>1, <2>2, <2>3
<1> HIDE DEF s
<1>5. s # <<>>
  BY <1>4, EmptySeq
<1>6. /\ Tail(s) \in Seq(T) /\ Len(Tail(s)) = Len(s) - 1
      /\ \A i \in 1 .. Len(Tail(s)) : Tail(s)[i] = s[i + 1]
  BY <1>4, <1>5, HeadTailProperties
<1>7. Tail(s) = p
  <2>1. Len(Tail(s)) = Len(p)
    BY <1>4, <1>6
  <2>2. \A i \in 1 .. Len(p) : i + 1 \in 1 .. 1 + Len(p) /\ ~(i + 1 <= 1) /\ (i + 1) - 1 = i
    BY <1>4
  <2>3. \A i \in 1 .. Len(p) : s[i + 1] = p[(i + 1) - 1]
    BY <1>4, <2>2
  <2>4. \A i \in 1 .. Len(p) : Tail(s)[i] = p[i]
    BY <1>6, <2>1, <2>2, <2>3
  <2>5. QED  BY <1>2, <1>6, <2>1, <2>4, SequencesEqual
<1>8. Head(s) = x
  <2>1. 1 \in 1 .. 1 + Len(p)
    BY <1>4
  <2>2. s[1] = x
    BY <1>4, <2>1
  <2>3. QED  BY <1>4, <1>5, <2>2
<1>9. QED  BY <1>4, <1>5, <1>7, <1>8 DEF s, IsSeq

LEMMA TailOfTwo ==
    ASSUME NEW x, NEW y, NEW p, IsSeq(p)
    PROVE  /\ IsSeq(<<x, y>> \o p) /\ <<x, y>> \o p # <<>>
           /\ Head(<<x, y>> \o p) = x /\ Tail(<<x, y>> \o p) = <<y>> \o p
<1>1. PICK S : p \in Seq(S)
  BY DEF IsSeq
<1> DEFINE T == S \cup {x, y}
<1>2. p \in Seq(T)
  BY <1>1, SeqMonotonic
<1>3. <<x>> \in Seq(T) /\ <<y>> \in Seq(T)
  OBVIOUS
<1>4. <<x, y>> = <<x>> \o <<y>>
  <2>1. <<x, y>> \in Seq(T) /\ Len(<<x, y>>) = 2 /\ <<x, y>>[1] = x /\ <<x, y>>[2] = y
    OBVIOUS
  <2>2. Len(<<x>>) = 1 /\ <<x>>[1] = x /\ Len(<<y>>) = 1 /\ <<y>>[1] = y
    OBVIOUS
  <2> HIDE DEF T
  <2>3. /\ <<x>> \o <<y>> \in Seq(T) /\ Len(<<x>> \o <<y>>) = Len(<<x>>) + Len(<<y>>)
        /\ \A i \in 1 .. Len(<<x>>) + Len(<<y>>) :
              (<<x>> \o <<y>>)[i] = IF i <= Len(<<x>>) THEN <<x>>[i] ELSE <<y>>[i - Len(<<x>>)]
    BY <1>3, ConcatProperties
  <2>4. (<<x>> \o <<y>>)[1] = x /\ (<<x>> \o <<y>>)[2] = y /\ Len(<<x>> \o <<y>>) = 2
    BY <2>2, <2>3
  <2>5. \A i \in 1 .. 2 : (<<x>> \o <<y>>)[i] = <<x, y>>[i]
    BY <2>1, <2>4
  <2>6. QED  BY <2>1, <2>3, <2>4, <2>5, SequencesEqual
<1> HIDE DEF T
<1>5. (<<x>> \o <<y>>) \o p = <<x>> \o (<<y>> \o p)
  BY <1>2, <1>3, ConcatAssociative
<1>6. <<x, y>> \o p = <<x>> \o (<<y>> \o p)
  BY <1>4, <1>5
<1>7. IsSeq(<<y>> \o p)
  BY TailOf
<1>8. QED  BY <1>6, <1>7, TailOf

Nesting(innermost, parts, g) ==
    g = [i \in 0 .. Len(parts) |-> IF i = 0 THEN innermost ELSE <<Block(g[i - 1])>> \o parts[i]]

LEMMA NestingExists ==
    ASSUME NEW innermost, NEW parts, Len(parts) \in Nat
    PROVE  \E g : Nesting(innermost, parts, g)
<1> DEFINE n == Len(parts)
           Unfold(g, i) == IF i = 0 THEN innermost ELSE <<Block(g[i - 1])>> \o parts[i]
           Upto(k, g) == \A i \in 0 .. n : i <= k => g[i] = Unfold(g, i)
           Missing == {k \in Nat : \A g : ~Upto(k, g)}
<1>0. n \in Nat
  OBVIOUS
<1> HIDE DEF n
<1>s. ASSUME NEW i \in 0 .. n, NEW g, NEW h, i # 0 => g[i - 1] = h[i - 1]
      PROVE  Unfold(g, i) = Unfold(h, i)
  BY <1>s
<1> HIDE DEF Unfold
<1>2. ASSUME NEW k \in Nat, NEW g, \A i \in 0 .. n : i < k => g[i] = Unfold(g, i)
      PROVE  k \notin Missing
  <2> DEFINE h == [i \in 0 .. n |-> Unfold(g, i)]
  <2>1. ASSUME NEW i \in 0 .. n, i <= k  PROVE h[i] = Unfold(h, i)
    <3>1. ASSUME i # 0  PROVE g[i - 1] = h[i - 1]
      <4>1. i - 1 \in 0 .. n /\ i - 1 < k
        BY <1>0, <2>1, <3>1
      <4>2. QED  BY <1>2, <4>1
    <3>2. h[i] = Unfold(g, i)
      OBVIOUS
    <3> HIDE DEF h
    <3>3. Unfold(g, i) = Unfold(h, i)
      BY <1>s, <3>1
    <3>4. QED  BY <3>2, <3>3
  <2>2. Upto(k, h)
    <3> HIDE DEF h
    <3> QED  BY <2>1
  <2>3. QED
    <3> HIDE DEF h, Upto
    <3> QED  BY <2>2
<1>3. Missing = {}
  <2>1. SUFFICES ASSUME Missing # {} PROVE FALSE
    OBVIOUS
  <2>2. Missing \in SUBSET Nat
    OBVIOUS
  <2>3. PICK k \in Missing : \A j \in Missing : k <= j
    <3> HIDE DEF Missing
    <3> QED  BY <2>1, <2>2, LeastExists
  <2>4. k \in Nat
    OBVIOUS
  <2>5. CASE k = 0
    <3> DEFINE g == [i \in 0 .. n |-> i]
    <3>1. \A i \in 0 .. n : i < k => g[i] = Unfold(g, i)
      <4> HIDE DEF g
      <4> QED  BY <1>0, <2>5
    <3>2. QED
      <4> HIDE DEF g, Missing
      <4> QED  BY <1>2, <2>3, <2>4, <3>1
  <2>6. CASE k # 0
    <3>1. k - 1 \in Nat /\ ~(k <= k - 1)
      BY <2>4, <2>6
    <3>2. k - 1 \notin Missing
      <4> HIDE DEF Missing
      <4> QED  BY <2>3, <3>1
    <3>3. PICK g : Upto(k - 1, g)
      BY <3>1, <3>2
    <3>4. \A i \in 0 .. n : i < k => g[i] = Unfold(g, i)
      <4> TAKE i \in 0 .. n
      <4>1. i < k => i <= k - 1
        BY <1>0, <2>4
      <4> QED  BY <3>3, <4>1
    <3>5. QED
      <4> HIDE DEF Missing
      <4> QED  BY <1>2, <2>3, <2>4, <3>4
  <2>7. QED  BY <2>5, <2>6
<1>5. PICK g : Upto(n, g)
  <2> HIDE DEF Upto
  <2> QED  BY <1>0, <1>3
<1>7. \A i \in 0 .. n : g[i] = Unfold(g, i)
  BY <1>0, <1>5
<1> DEFINE h == [i \in 0 .. n |-> g[i]]
<1>8. \A i \in 0 .. n : g[i] = Unfold(h, i)
  <2> TAKE i \in 0 .. n
  <2>1. i # 0 => g[i - 1] = h[i - 1]
    <3>1. i # 0 => i - 1 \in 0 .. n
      BY <1>0
    <3>2. QED  BY <3>1
  <2> HIDE DEF h
  <2>2. Unfold(g, i) = Unfold(h, i)
    BY <1>s, <2>1
  <2>3. QED  BY <1>7, <2>2
<1>9. h = [i \in 0 .. n |-> Unfold(h, i)]
  BY <1>8
<1>10. Nesting(innermost, parts, h)
  BY <1>9 DEF Nesting, Unfold, n
<1>11. QED  BY <1>10

LEMMA NestedFacts ==
    ASSUME NEW innermost, NEW parts, Len(parts) \in Nat
    PROVE  /\ Nested(innermost, parts)[0] = innermost
           /\ \A i \in 1 .. Len(parts) :
                 Nested(innermost, parts)[i] = <<Block(Nested(innermost, parts)[i - 1])>> \o parts[i]
<1>1. \E g : Nesting(innermost, parts, g)
  BY NestingExists
<1> DEFINE g == CHOOSE g : Nesting(innermost, parts, g)
<1>2. Nesting(innermost, parts, g)
  BY <1>1
<1>3. Nested(innermost, parts) = g
  BY DEF Nested, Nesting
<1> HIDE DEF g
<1>4. \A i \in 0 .. Len(parts) : g[i] = IF i = 0 THEN innermost ELSE <<Block(g[i - 1])>> \o parts[i]
  BY <1>2 DEF Nesting
<1>5. 0 \in 0 .. Len(parts) /\ \A i \in 1 .. Len(parts) : i \in 0 .. Len(parts) /\ i # 0
  OBVIOUS
<1>6. QED  BY <1>3, <1>4, <1>5

LEMMA SingletonIsSeq ==
    ASSUME NEW x
    PROVE  IsSeq(<<x>>) /\ <<x>> # <<>> /\ Head(<<x>>) = x /\ Tail(<<x>>) = <<>> /\ IsSeq(<<>>)
<1>1. <<x>> \in Seq({x}) /\ <<>> \in Seq({x})
  OBVIOUS
<1>2. IsSeq(<<x>>) /\ IsSeq(<<>>)
  BY <1>1 DEF IsSeq
<1>3. Head(<<x>>) = x /\ Tail(<<x>>) = <<>> /\ <<x>> # <<>>
  OBVIOUS
<1>4. QED  BY <1>2, <1>3

LEMMA TerminatorFacts ==
    ASSUME NEW f, NEW b, NEW L
    PROVE  /\ IsSeq(Terminator(f, b, L))
           /\ \/ b \in f.throws /\ Terminator(f, b, L) = <<Throw>>
              \/ b \notin f.throws /\ f.succ[b] = {} /\ Terminator(f, b, L) = <<Leave>>
              \/ Terminator(f, b, L) = NoCode
              \/ /\ b \notin f.throws /\ f.succ[b] # {}
                 /\ \A t \in f.succ[b] : BranchLabel(t, L) # 0
                 /\ Terminator(f, b, L) =
                      <<[op |-> "br",
                         depth |-> [t \in f.succ[b] |-> Len(L) - BranchLabel(t, L)]]>>
<1> DEFINE br == [op |-> "br", depth |-> [t \in f.succ[b] |-> Len(L) - BranchLabel(t, L)]]
<1>1. Terminator(f, b, L) = IF b \in f.throws THEN <<Throw>>
                            ELSE IF f.succ[b] = {} THEN <<Leave>>
                            ELSE IF \E t \in f.succ[b] : BranchLabel(t, L) = 0 THEN NoCode
                            ELSE <<br>>
  BY DEF Terminator
<1> HIDE DEF br
<1>2. IsSeq(<<Throw>>) /\ IsSeq(<<Leave>>) /\ IsSeq(<<br>>) /\ IsSeq(NoCode)
  BY SingletonIsSeq DEF NoCode
<1>3. IsSeq(Terminator(f, b, L))
  BY <1>1, <1>2
<1>4. QED  BY <1>1, <1>3 DEF br

(* The code of a block once it is in it.                                   *)
LEMMA BlockCode ==
    ASSUME NEW f, NEW b, NEW L
    PROVE  /\ IsSeq(EmitBlock(f, b, L))
           /\ EmitBlock(f, b, L) # NoCode =>
                /\ Terminator(f, b, L) # NoCode /\ Head(EmitBlock(f, b, L)) = At(b)
                /\ Tail(EmitBlock(f, b, L)) = Terminator(f, b, L)
<1>1. EmitBlock(f, b, L) = IF Terminator(f, b, L) = NoCode THEN NoCode
                           ELSE <<At(b)>> \o Terminator(f, b, L)
  BY DEF EmitBlock
<1>2. IsSeq(Terminator(f, b, L)) /\ IsSeq(NoCode)
  BY TerminatorFacts, SingletonIsSeq DEF NoCode
<1>3. /\ IsSeq(<<At(b)>> \o Terminator(f, b, L))
      /\ Head(<<At(b)>> \o Terminator(f, b, L)) = At(b)
      /\ Tail(<<At(b)>> \o Terminator(f, b, L)) = Terminator(f, b, L)
  BY <1>2, TailOf
<1>4. QED  BY <1>1, <1>2, <1>3

(* What stands in a try unit's code behind its block.                      *)
Guarded(f, t, protected, L) ==
    <<Block(<<Try(f.tries[t].catches, protected), Unreachable>>)>>
    \o EmitBlock(f, f.tries[t].handler, L)

LEMMA GuardedCode ==
    ASSUME NEW f, NEW t, NEW p, NEW L
    PROVE  /\ IsSeq(Guarded(f, t, p, L)) /\ Guarded(f, t, p, L) # <<>>
           /\ Head(Guarded(f, t, p, L)) = Block(<<Try(f.tries[t].catches, p), Unreachable>>)
           /\ Tail(Guarded(f, t, p, L)) = EmitBlock(f, f.tries[t].handler, L)
BY BlockCode, TailOf DEF Guarded

LEMMA TryCode ==
    ASSUME NEW f, NEW t, NEW p, NEW L
    PROVE  /\ IsSeq(EmitTry(f, t, p, L))
           /\ EmitTry(f, t, p, L) # NoCode =>
                /\ p # NoCode /\ EmitBlock(f, f.tries[t].handler, L) # NoCode
                /\ Head(EmitTry(f, t, p, L)) = At(t)
                /\ Tail(EmitTry(f, t, p, L)) = Guarded(f, t, p, L)
<1> DEFINE handler == EmitBlock(f, f.tries[t].handler, L)
           guard == Block(<<Try(f.tries[t].catches, p), Unreachable>>)
<1>1. EmitTry(f, t, p, L) = IF p = NoCode \/ handler = NoCode THEN NoCode
                            ELSE <<At(t), guard>> \o handler
  BY DEF EmitTry
<1>2. IsSeq(handler) /\ IsSeq(NoCode)
  BY BlockCode, SingletonIsSeq DEF NoCode
<1>3. Guarded(f, t, p, L) = <<guard>> \o handler
  BY DEF Guarded
<1> HIDE DEF handler, guard
<1>4. /\ IsSeq(<<At(t), guard>> \o handler) /\ Head(<<At(t), guard>> \o handler) = At(t)
      /\ Tail(<<At(t), guard>> \o handler) = <<guard>> \o handler
  BY <1>2, TailOfTwo
<1>5. QED  BY <1>1, <1>2, <1>3, <1>4 DEF handler

(* The code of a unit.                                                     *)
LEMMA UnitCode ==
    ASSUME NEW f, NEW v, NEW g, NEW L
    PROVE  /\ v.kind = "block" => EmitUnit(f, v, g, L) = EmitBlock(f, v.header, L)
           /\ v.kind = "try" =>
                 EmitUnit(f, v, g, L) = EmitTry(f, v.header, g[<<v, Armed(v.header, L)>>], L)
           /\ v.kind = "loop" /\ EmitUnit(f, v, g, L) # NoCode =>
                 g[<<v, L>>] # NoCode /\ EmitUnit(f, v, g, L) = <<Loop(g[<<v, L>>])>>
BY DEF EmitUnit

LEMMA UnitCodeIsSeq ==
    ASSUME NEW f, NEW v, NEW g, NEW L, v.kind \in {"block", "loop", "try"}
    PROVE  IsSeq(EmitUnit(f, v, g, L))
<1>1. CASE v.kind = "block"
  <2>1. EmitUnit(f, v, g, L) = EmitBlock(f, v.header, L)
    BY <1>1 DEF EmitUnit
  <2>2. QED  BY <2>1, BlockCode
<1>2. CASE v.kind = "loop"
  <2> DEFINE body == g[<<v, L>>]
  <2>1. EmitUnit(f, v, g, L) = IF body = NoCode THEN NoCode ELSE <<Loop(body)>>
    BY <1>2 DEF EmitUnit
  <2>2. IsSeq(NoCode) /\ IsSeq(<<Loop(body)>>)
    BY SingletonIsSeq DEF NoCode
  <2>3. QED  BY <2>1, <2>2
<1>3. CASE v.kind = "try"
  <2> DEFINE p == g[<<v, Armed(v.header, L)>>]
  <2>1. EmitUnit(f, v, g, L) = EmitTry(f, v.header, p, L)
    BY <1>3 DEF EmitUnit
  <2> HIDE DEF p
  <2>2. QED  BY <2>1, TryCode
<1>4. QED  BY <1>1, <1>2, <1>3

(* The code of a region with code: each part and each body around it.      *)
LEMMA RegionShape ==
    ASSUME NEW f, NEW N, NEW dom, NEW loops, Looped(f, N, dom, loops),
           NEW u, Region(f, N, loops, u), NEW L \in Seq(Label),
           EmitRegion(f, loops)[<<u, L>>] # NoCode
    PROVE  LET units == Units(f, loops, u)
               parts == Parts(f, loops, EmitRegion(f, loops), u, L)
           IN  /\ Len(units) \in Nat /\ Len(units) >= 1 /\ units # NoCode
               /\ \A i \in 1 .. Len(units) : parts[i] # NoCode
               /\ EmitRegion(f, loops)[<<u, L>>] = Nested(NoCode, parts)[Len(units)]
<1> DEFINE units == Units(f, loops, u)
           g == EmitRegion(f, loops)
           parts == Parts(f, loops, g, u, L)
<1>1. /\ units \in Seq(AllUnits(f, loops, u))
      /\ units # NoCode => Len(units) >= 1
  BY UnitsFacts
<1>2. u \in Regions(f, loops)
  BY RegionsAre
<1>3. g[<<u, L>>] = RegionCode(f, loops, g, u, L)
  BY <1>2, EmissionFacts
<1>4. RegionCode(f, loops, g, u, L) =
        IF \E i \in 1 .. Len(units) : parts[i] = NoCode THEN NoCode
        ELSE Nested(NoCode, parts)[Len(units)]
  BY RegionCodeIs
<1>5. Len(units) \in Nat
  BY <1>1, LenProperties
<1>6. units # NoCode
  <2>1. SUFFICES ASSUME units = NoCode PROVE FALSE
    OBVIOUS
  <2>2. Len(units) = 0
    BY <2>1 DEF NoCode
  <2>3. parts = [i \in 1 .. Len(units) |->
                    EmitUnit(f, units[i], g, Labels(u, units, i, L))]
    BY DEF Parts
  <2> HIDE DEF units, parts, g
  <2>4. parts = <<>>
    BY <2>2, <2>3
  <2>5. Len(parts) = 0
    BY <2>4
  <2>6. Nested(NoCode, parts)[0] = NoCode
    BY <2>5, NestedFacts
  <2>7. g[<<u, L>>] = NoCode
    BY <1>3, <1>4, <2>2, <2>6
  <2>8. QED  BY <2>7 DEF g
<1>7. QED  BY <1>1, <1>3, <1>4, <1>5, <1>6

(* A body behind which a part stands.                                      *)
LEMMA NestedShape ==
    ASSUME NEW f, NEW N, NEW dom, NEW loops, Looped(f, N, dom, loops),
           NEW u, Region(f, N, loops, u), NEW L \in Seq(Label),
           NEW i \in 1 .. Len(Units(f, loops, u))
    PROVE  LET units == Units(f, loops, u)
               g == EmitRegion(f, loops)
               parts == Parts(f, loops, g, u, L)
               nest == Nested(NoCode, parts)
           IN  /\ units[i] \in AllUnits(f, loops, u)
               /\ parts[i] = EmitUnit(f, units[i], g, Labels(u, units, i, L))
               /\ nest[0] = NoCode
               /\ IsSeq(nest[i]) /\ nest[i] # <<>>
               /\ Head(nest[i]) = Block(nest[i - 1]) /\ Tail(nest[i]) = parts[i]
<1> DEFINE units == Units(f, loops, u)
           g == EmitRegion(f, loops)
           parts == Parts(f, loops, g, u, L)
           nest == Nested(NoCode, parts)
<1>1. units \in Seq(AllUnits(f, loops, u))
  BY UnitsFacts
<1>2. Len(units) \in Nat /\ units[i] \in AllUnits(f, loops, u)
  BY <1>1, ElementOfSeq, LenProperties
<1>3. units[i].kind \in {"block", "loop", "try"}
  BY <1>2, UnitHeight
<1>4. parts = [j \in 1 .. Len(units) |-> EmitUnit(f, units[j], g, Labels(u, units, j, L))]
  BY DEF Parts
<1>5. parts[i] = EmitUnit(f, units[i], g, Labels(u, units, i, L))
  BY <1>4
<1>6. IsSeq(parts[i])
  <2> DEFINE K == Labels(u, units, i, L)
             v == units[i]
  <2>1. parts[i] = EmitUnit(f, v, g, K) /\ v.kind \in {"block", "loop", "try"}
    BY <1>3, <1>5
  <2> HIDE DEF g, v, K, parts
  <2>2. IsSeq(EmitUnit(f, v, g, K))
    BY <2>1, UnitCodeIsSeq
  <2>3. QED  BY <2>1, <2>2
<1>7. Len(parts) = Len(units)
  <2> HIDE DEF g, units
  <2> DEFINE P == [j \in 1 .. Len(units) |-> EmitUnit(f, units[j], g, Labels(u, units, j, L))]
             S == {P[j] : j \in 1 .. Len(units)}
  <2>1. P \in [1 .. Len(units) -> S]
    OBVIOUS
  <2> HIDE DEF P, S
  <2>2. Len(P) = Len(units)
    BY <1>2, <2>1, FunctionIsSeq
  <2>3. QED  BY <1>4, <2>2 DEF P
<1> HIDE DEF units, parts, g
<1>8. nest[0] = NoCode /\ nest[i] = <<Block(nest[i - 1])>> \o parts[i]
  BY <1>2, <1>7, NestedFacts DEF units
<1> HIDE DEF nest
<1>9. /\ IsSeq(nest[i]) /\ nest[i] # <<>>
      /\ Head(nest[i]) = Block(nest[i - 1]) /\ Tail(nest[i]) = parts[i]
  BY <1>6, <1>8, TailOf
<1>10. QED  BY <1>2, <1>5, <1>8, <1>9 DEF units, parts, g, nest

-----------------------------------------------------------------------------
(* Where code under the labels L leads next *)

UnitAhead(f, N, loops, ops, L, b) ==
    \E v : /\ UnitFits(f, N, loops, v, OpenTries(L)) /\ v.header = b
           /\ ops = EmitUnit(f, v, EmitRegion(f, loops), L) /\ ops # NoCode

\* All parts of a region can be emitted.
Whole(f, loops, u, K) ==
    /\ Units(f, loops, u) # NoCode
    /\ \A j \in 1 .. Len(Units(f, loops, u)) : Parts(f, loops, EmitRegion(f, loops), u, K)[j] # NoCode

\* Inside the blocks of a region's units from the i-th on.
RegionAhead(f, N, loops, ops, L, b) ==
    \E u, K : \E i \in 1 .. Len(Units(f, loops, u)) :
        /\ Region(f, N, loops, u) /\ K \in Seq(Label) /\ RegionFits(f, u, OpenTries(K))
        /\ Whole(f, loops, u, K)
        /\ ops = Nested(NoCode, Parts(f, loops, EmitRegion(f, loops), u, K))[i]
        /\ L = Labels(u, Units(f, loops, u), i, K)
        /\ b = First(f, u)

Protected(f, loops, t, L) == EmitRegion(f, loops)[<<TryUnit(f, t), Armed(t, L)>>]

\* Behind the block of a try.
GuardFits(f, N, loops, ops, L, t) ==
    /\ t \in TryBlocks(f) \cap N /\ TryFits(f, t, OpenTries(L))
    /\ Protected(f, loops, t, L) # NoCode /\ EmitBlock(f, f.tries[t].handler, L) # NoCode
    /\ ops = Guarded(f, t, Protected(f, loops, t, L), L)
GuardAhead(f, N, loops, ops, L, b) ==
    \E t \in TryBlocks(f) : GuardFits(f, N, loops, ops, L, t) /\ b = f.tries[t].entry

\* Before the table of a try.
TableAhead(f, N, loops, ops, L, b) ==
    \E t \in TryBlocks(f) \cap N, K \in Seq(Label) :
        /\ TryFits(f, t, OpenTries(K)) /\ L = Append(K, <<"unwind", t>>)
        /\ Protected(f, loops, t, K) # NoCode
        /\ ops = <<Try(f.tries[t].catches, Protected(f, loops, t, K)), Unreachable>>
        /\ b = f.tries[t].entry

\* At the end of a block, behind which the code of b stands.
BlockOver(ops, L, b) == ops = <<>> /\ Len(L) >= 1 /\ L[Len(L)] = <<"block", b>>

GoesTo(f, N, loops, ops, L, b) ==
    \/ UnitAhead(f, N, loops, ops, L, b) \/ RegionAhead(f, N, loops, ops, L, b)
    \/ GuardAhead(f, N, loops, ops, L, b) \/ TableAhead(f, N, loops, ops, L, b)
    \/ BlockOver(ops, L, b)

\* In block b.
Resting(f, N, loops, ops, L, b) ==
    /\ b \in Blocks /\ BlockFits(f, b, OpenTries(L))
    /\ \/ b \notin TryBlocks(f) /\ ops = Terminator(f, b, L) /\ ops # NoCode
       \/ GuardFits(f, N, loops, ops, L, b)

\* A branch to the label k with the labels outer around it goes where k says:
\* to below, behind its body, or to again.
LabelHolds(f, N, loops, below, again, catches, outer, k) ==
    /\ catches = IF k[1] = "try" THEN f.tries[k[2]].catches ELSE {}
    /\ again # NoCode <=> k[1] = "loop"
    /\ k[1] = "block" => GoesTo(f, N, loops, below, outer, k[2])
    /\ k[1] = "loop" => GoesTo(f, N, loops, again, Append(outer, k), k[2])
    /\ k[1] = "unwind" => GoesTo(f, N, loops, below, outer, f.tries[k[2]].handler)

IsFrame(r) == r = [ops |-> r.ops, again |-> r.again, catches |-> r.catches]

Top(stack) == stack[Len(stack)].ops

\* The frames are those of the labels.
StackFits(f, N, loops, stack, L) ==
    /\ IsSeq(stack) /\ L \in Seq(Label) /\ Len(stack) = Len(L) + 1
    /\ \A i \in 1 .. Len(stack) : IsFrame(stack[i])
    /\ LabelsNest(f, L) /\ stack[1].catches = {}
    /\ \A i \in 1 .. Len(L) : LabelHolds(f, N, loops, stack[i].ops, stack[i + 1].again,
                                         stack[i + 1].catches, SubSeq(L, 1, i - 1), L[i])

Put(stack, ops) == [stack EXCEPT ![Len(stack)].ops = ops]

LEMMA PutFits ==
    ASSUME NEW f, NEW N, NEW loops, NEW stack, NEW L, StackFits(f, N, loops, stack, L), NEW ops
    PROVE  /\ StackFits(f, N, loops, Put(stack, ops), L) /\ Top(Put(stack, ops)) = ops
           /\ Len(Put(stack, ops)) = Len(stack)
<1> DEFINE n == Len(stack)
           top == stack[n]
           frame == [top EXCEPT !.ops = ops]
           s == [stack EXCEPT ![n] = frame]
<1>1. PICK S : stack \in Seq(S)
  BY DEF StackFits, IsSeq
<1>2. n \in Nat /\ n = Len(L) + 1 /\ Len(L) \in Nat
  BY <1>1, LenProperties DEF StackFits
<1>3. n \in 1 .. n
  BY <1>2
<1>4. IsFrame(top)
  BY <1>3 DEF StackFits
<1> HIDE DEF top
<1>5. frame = [ops |-> ops, again |-> top.again, catches |-> top.catches]
  BY <1>4 DEF IsFrame
<1> HIDE DEF frame
<1>6. frame.ops = ops /\ frame.again = top.again /\ frame.catches = top.catches /\ IsFrame(frame)
  BY <1>5 DEF IsFrame
<1> DEFINE T == S \cup {frame}
<1>7. stack \in Seq(T)
  BY <1>1, SeqMonotonic
<1>8. frame \in T
  OBVIOUS
<1> HIDE DEF T
<1>9. s \in Seq(T) /\ Len(s) = n /\ s[n] = frame /\ \A d \in 1 .. n : d # n => s[d] = stack[d]
  BY <1>2, <1>7, <1>8, SetTopFacts
<1>10. Put(stack, ops) = s
  BY DEF Put, frame, top
<1> HIDE DEF s, n
<1>11. \A i \in 1 .. n : /\ IsFrame(s[i]) /\ s[i].again = stack[i].again
                         /\ s[i].catches = stack[i].catches
                         /\ i # n => s[i].ops = stack[i].ops
  <2> TAKE i \in 1 .. n
  <2>1. IsFrame(stack[i])
    BY DEF StackFits, n
  <2>2. QED  BY <1>6, <1>9, <2>1 DEF top
<1>12. s[1].catches = {}
  BY <1>2, <1>11 DEF StackFits
<1>13. \A i \in 1 .. Len(L) : LabelHolds(f, N, loops, s[i].ops, s[i + 1].again,
                                         s[i + 1].catches, SubSeq(L, 1, i - 1), L[i])
  <2> TAKE i \in 1 .. Len(L)
  <2>1. LabelHolds(f, N, loops, stack[i].ops, stack[i + 1].again,
                   stack[i + 1].catches, SubSeq(L, 1, i - 1), L[i])
    BY DEF StackFits
  <2>2. i \in 1 .. n /\ i + 1 \in 1 .. n /\ i # n
    BY <1>2
  <2>3. s[i].ops = stack[i].ops /\ s[i + 1].again = stack[i + 1].again
        /\ s[i + 1].catches = stack[i + 1].catches
    BY <1>11, <2>2
  <2>4. QED  BY <2>1, <2>3
<1>14. IsSeq(s)
  BY <1>9 DEF IsSeq
<1>15. StackFits(f, N, loops, s, L)
  BY <1>2, <1>9, <1>11, <1>12, <1>13, <1>14 DEF StackFits
<1>16. Top(s) = ops
  BY <1>6, <1>9 DEF Top
<1>17. QED  BY <1>9, <1>10, <1>15, <1>16 DEF n

LEMMA PushFits ==
    ASSUME NEW f, NEW N, NEW loops, NEW stack, NEW L, StackFits(f, N, loops, stack, L),
           NEW ops, NEW again, NEW catches, NEW k \in Label, LabelsNest(f, Append(L, k)),
           LabelHolds(f, N, loops, Top(stack), again, catches, L, k)
    PROVE  LET s == Append(stack, [ops |-> ops, again |-> again, catches |-> catches])
           IN  /\ StackFits(f, N, loops, s, Append(L, k)) /\ Top(s) = ops
<1> DEFINE frame == [ops |-> ops, again |-> again, catches |-> catches]
           s == Append(stack, frame)
           n == Len(stack)
           M == Append(L, k)
<1>1. PICK S : stack \in Seq(S)
  BY DEF StackFits, IsSeq
<1>2. n \in Nat /\ n = Len(L) + 1 /\ Len(L) \in Nat /\ L \in Seq(Label)
  BY <1>1, LenProperties DEF StackFits
<1>3. frame.ops = ops /\ frame.again = again /\ frame.catches = catches /\ IsFrame(frame)
  BY DEF IsFrame
<1> HIDE DEF frame
<1> DEFINE T == S \cup {frame}
<1>4. stack \in Seq(T) /\ frame \in T
  BY <1>1, SeqMonotonic
<1> HIDE DEF T
<1>5. s \in Seq(T) /\ Len(s) = n + 1 /\ s[n + 1] = frame /\ \A i \in 1 .. n : s[i] = stack[i]
  BY <1>4, AppendProperties
<1> HIDE DEF s
<1>6. /\ M \in Seq(Label) /\ Len(M) = Len(L) + 1 /\ M[Len(L) + 1] = k
      /\ \A i \in 1 .. Len(L) : M[i] = L[i]
  BY <1>2, AppendProperties
<1> HIDE DEF M
<1>7. \A i \in 1 .. Len(s) : IsFrame(s[i])
  <2> TAKE i \in 1 .. Len(s)
  <2>1. i \in 1 .. n \/ i = n + 1
    BY <1>2, <1>5
  <2>2. i \in 1 .. n => IsFrame(stack[i])
    BY DEF StackFits, n
  <2>3. QED  BY <1>3, <1>5, <2>1, <2>2
<1>8. s[1].catches = {}
  <2>1. 1 \in 1 .. n
    BY <1>2
  <2>2. QED  BY <1>5, <2>1 DEF StackFits
<1>9. \A i \in 1 .. Len(M) : LabelHolds(f, N, loops, s[i].ops, s[i + 1].again,
                                         s[i + 1].catches, SubSeq(M, 1, i - 1), M[i])
  <2> TAKE i \in 1 .. Len(M)
  <2>0. i - 1 \in Nat /\ i - 1 <= Len(L) /\ i - 1 <= Len(M) /\ i \in 1 .. Len(L) + 1
    BY <1>2, <1>6
  <2>1. SubSeq(M, 1, i - 1) = SubSeq(L, 1, i - 1)
    <3>1. \A j \in 1 .. i - 1 : M[j] = L[j]
      BY <1>2, <1>6, <2>0
    <3>2. QED  BY <1>2, <1>6, <2>0, <3>1, SamePrefix
  <2>2. CASE i \in 1 .. Len(L)
    <3>1. LabelHolds(f, N, loops, stack[i].ops, stack[i + 1].again,
                     stack[i + 1].catches, SubSeq(L, 1, i - 1), L[i])
      BY <2>2 DEF StackFits
    <3>2. s[i] = stack[i] /\ s[i + 1] = stack[i + 1] /\ M[i] = L[i]
      BY <1>2, <1>5, <1>6, <2>2
    <3>3. QED  BY <2>1, <3>1, <3>2
  <2>3. CASE i = Len(L) + 1
    <3>1. SubSeq(L, 1, i - 1) = L
      <4>1. i - 1 = Len(L)
        BY <1>2, <2>3
      <4>2. /\ SubSeq(L, 1, Len(L)) \in Seq(Label) /\ Len(SubSeq(L, 1, Len(L))) = Len(L)
            /\ \A j \in 1 .. Len(L) : SubSeq(L, 1, Len(L))[j] = L[j]
        BY <1>2, PrefixFacts
      <4>3. QED  BY <1>2, <4>1, <4>2, SequencesEqual
    <3>2. s[i] = stack[n] /\ s[i + 1] = frame /\ M[i] = k
      BY <1>2, <1>5, <1>6, <2>3
    <3>3. s[i].ops = Top(stack)
      BY <3>2 DEF Top, n
    <3>4. QED  BY <1>3, <2>1, <3>1, <3>2, <3>3
  <2>4. QED  BY <1>2, <2>0, <2>2, <2>3
<1>10. IsSeq(s)
  BY <1>5 DEF IsSeq
<1>11. Len(s) = Len(M) + 1
  BY <1>2, <1>5, <1>6
<1>12. StackFits(f, N, loops, s, M)
  BY <1>6, <1>7, <1>8, <1>9, <1>10, <1>11 DEF StackFits, M
<1>13. Top(s) = ops
  BY <1>3, <1>5 DEF Top
<1>14. QED  BY <1>12, <1>13 DEF s, M, frame

LEMMA CutFits ==
    ASSUME NEW f, NEW N, NEW loops, NEW stack, NEW L, StackFits(f, N, loops, stack, L),
           NEW n \in 1 .. Len(stack)
    PROVE  /\ StackFits(f, N, loops, SubSeq(stack, 1, n), SubSeq(L, 1, n - 1))
           /\ Top(SubSeq(stack, 1, n)) = stack[n].ops
<1> DEFINE s == SubSeq(stack, 1, n)
           M == SubSeq(L, 1, n - 1)
<1>1. PICK S : stack \in Seq(S)
  BY DEF StackFits, IsSeq
<1>2. Len(stack) \in Nat /\ Len(stack) = Len(L) + 1 /\ Len(L) \in Nat /\ L \in Seq(Label)
  BY <1>1, LenProperties DEF StackFits
<1>3. n \in Nat /\ n <= Len(stack) /\ n - 1 \in Nat /\ n - 1 <= Len(L)
  BY <1>2
<1>4. s \in Seq(S) /\ Len(s) = n /\ \A i \in 1 .. n : s[i] = stack[i]
  BY <1>1, <1>3, PrefixFacts
<1>5. M \in Seq(Label) /\ Len(M) = n - 1 /\ \A i \in 1 .. n - 1 : M[i] = L[i]
  BY <1>2, <1>3, PrefixFacts
<1>6. LabelsNest(f, M)
  BY <1>2, <1>3, PrefixNests DEF StackFits
<1> HIDE DEF s, M
<1>7. \A i \in 1 .. Len(s) : IsFrame(s[i])
  BY <1>2, <1>3, <1>4 DEF StackFits
<1>8. s[1].catches = {}
  <2>1. 1 \in 1 .. n
    BY <1>3
  <2>2. QED  BY <1>4, <2>1 DEF StackFits
<1>9. \A i \in 1 .. Len(M) : LabelHolds(f, N, loops, s[i].ops, s[i + 1].again,
                                         s[i + 1].catches, SubSeq(M, 1, i - 1), M[i])
  <2> TAKE i \in 1 .. Len(M)
  <2>1. i \in 1 .. Len(L) /\ i \in 1 .. n /\ i + 1 \in 1 .. n /\ i \in 1 .. n - 1 /\ i \in Nat
    BY <1>2, <1>3, <1>5
  <2>2. LabelHolds(f, N, loops, stack[i].ops, stack[i + 1].again,
                     stack[i + 1].catches, SubSeq(L, 1, i - 1), L[i])
    BY <2>1 DEF StackFits
  <2>3. s[i] = stack[i] /\ s[i + 1] = stack[i + 1] /\ M[i] = L[i]
    BY <1>4, <1>5, <2>1
  <2>4. SubSeq(M, 1, i - 1) = SubSeq(L, 1, i - 1)
    <3>1. i - 1 \in Nat /\ i - 1 <= Len(L) /\ i - 1 <= Len(M) /\ \A j \in 1 .. i - 1 : M[j] = L[j]
      BY <1>2, <1>3, <1>5, <2>1
    <3>2. QED  BY <1>2, <1>5, <3>1, SamePrefix
  <2>5. QED  BY <2>2, <2>3, <2>4
<1>10. IsSeq(s)
  BY <1>4 DEF IsSeq
<1>11. StackFits(f, N, loops, s, M)
  BY <1>3, <1>4, <1>5, <1>6, <1>7, <1>8, <1>9, <1>10 DEF StackFits
<1>12. Top(s) = stack[n].ops
  BY <1>3, <1>4 DEF Top
<1>13. QED  BY <1>11, <1>12 DEF s, M

-----------------------------------------------------------------------------
(* Steps of the machine *)

LEMMA EntersBody ==
    ASSUME NEW stack, NEW state, stack # <<>>, Top(stack) # <<>>,
           NEW body, NEW again, NEW catches,
           \/ Head(Top(stack)) = Block(body) /\ again = NoCode /\ catches = {}
           \/ Head(Top(stack)) = Loop(body) /\ again = body /\ catches = {}
           \/ Head(Top(stack)) = Try(catches, body) /\ again = NoCode
    PROVE  Stepped(stack, state) =
             [frames |-> Append(Put(stack, Tail(Top(stack))),
                                [ops |-> body, again |-> again, catches |-> catches]),
              selector |-> state, at |-> NoBlock]
<1>1. Put(stack, Tail(Top(stack))) = [stack EXCEPT ![Len(stack)].ops = Tail(@)]
  BY DEF Put, Top
<1> DEFINE instr == Head(Top(stack))
<1>2. CASE instr = Block(body) /\ again = NoCode /\ catches = {}
  <2>1. instr.op = "block" /\ instr.body = body
    BY <1>2 DEF Block
  <2>2. QED  BY <1>1, <1>2, <2>1 DEF Stepped, Top
<1>3. CASE instr = Loop(body) /\ again = body /\ catches = {}
  <2>1. instr.op = "loop" /\ instr.body = body
    BY <1>3 DEF Loop
  <2>2. QED  BY <1>1, <1>3, <2>1 DEF Stepped, Top
<1>4. CASE instr = Try(catches, body) /\ again = NoCode
  <2>1. instr.op = "try" /\ instr.body = body /\ instr.catches = catches
    BY <1>4 DEF Try
  <2>2. QED  BY <1>1, <1>4, <2>1 DEF Stepped, Top
<1>5. QED  BY <1>2, <1>3, <1>4

LEMMA ReachesBlock ==
    ASSUME NEW stack, NEW state, stack # <<>>, Top(stack) # <<>>, NEW b, Head(Top(stack)) = At(b)
    PROVE  Stepped(stack, state) =
             [frames |-> Put(stack, Tail(Top(stack))), selector |-> state, at |-> b]
<1>1. Put(stack, Tail(Top(stack))) = [stack EXCEPT ![Len(stack)].ops = Tail(@)]
  BY DEF Put, Top
<1>2. Head(Top(stack)).op = "at" /\ Head(Top(stack)).block = b
  BY DEF At
<1>3. QED  BY <1>1, <1>2 DEF Stepped, Top

LEMMA LeavesBody ==
    ASSUME NEW stack, NEW state, stack # <<>>, Top(stack) = <<>>
    PROVE  Stepped(stack, state) =
             [frames |-> SubSeq(stack, 1, Len(stack) - 1), selector |-> state, at |-> NoBlock]
BY DEF Stepped, Top, Front

(* The stack of the machine on its way to b.                               *)
Heads(f, N, loops, stack, b) ==
    \E L : StackFits(f, N, loops, stack, L) /\ GoesTo(f, N, loops, Top(stack), L, b)
Rests(f, N, loops, stack, b) ==
    \E L : StackFits(f, N, loops, stack, L) /\ Resting(f, N, loops, Top(stack), L, b)

\* What a step on the way to b may do.
Arrives(f, N, loops, next, state, b) ==
    /\ next.selector = state
    /\ \/ next.at = NoBlock /\ Heads(f, N, loops, next.frames, b)
       \/ next.at = b /\ Rests(f, N, loops, next.frames, b)

LEMMA StackIsSome ==
    ASSUME NEW f, NEW N, NEW loops, NEW stack, NEW L, StackFits(f, N, loops, stack, L)
    PROVE  /\ stack # <<>> /\ Len(L) \in Nat /\ Len(stack) = Len(L) + 1 /\ L \in Seq(Label)
           /\ LabelsNest(f, L)
<1>1. PICK S : stack \in Seq(S)
  BY DEF StackFits, IsSeq
<1>2. /\ Len(stack) \in Nat /\ Len(stack) = Len(L) + 1 /\ Len(L) \in Nat /\ L \in Seq(Label)
      /\ LabelsNest(f, L)
  BY <1>1, LenProperties DEF StackFits
<1>3. stack # <<>>
  BY <1>2
<1>4. QED  BY <1>2, <1>3

(* The code of a region leads to its first block.                          *)
LEMMA RegionStart ==
    ASSUME NEW f, NEW N, NEW dom, NEW loops, Looped(f, N, dom, loops),
           NEW u, Region(f, N, loops, u), NEW K \in Seq(Label), RegionFits(f, u, OpenTries(K)),
           EmitRegion(f, loops)[<<u, K>>] # NoCode
    PROVE  RegionAhead(f, N, loops, EmitRegion(f, loops)[<<u, K>>],
                       IF u.kind = "loop" THEN Append(K, <<"loop", u.header>>) ELSE K, First(f, u))
<1> DEFINE units == Units(f, loops, u)
           parts == Parts(f, loops, EmitRegion(f, loops), u, K)
           ops == EmitRegion(f, loops)[<<u, K>>]
           M == IF u.kind = "loop" THEN Append(K, <<"loop", u.header>>) ELSE K
<1>1. /\ Len(units) \in Nat /\ Len(units) >= 1 /\ units # NoCode
      /\ \A i \in 1 .. Len(units) : parts[i] # NoCode
      /\ ops = Nested(NoCode, parts)[Len(units)]
  BY RegionShape
<1>2. u \in Regions(f, loops)
  BY RegionsAre
<1>3. /\ u.kind = "loop" => u.header \in Blocks
      /\ \E S : units \in Seq(S)
      /\ \A i \in 1 .. Len(units) : units[i].header \in Blocks
  BY <1>2, UnitsOfRegions
<1>4. PICK S : units \in Seq(S)
  BY <1>3
<1> HIDE DEF units
<1>5. Len(units) \in 0 .. Len(units) /\ Len(units) \in 1 .. Len(units)
  BY <1>1
<1>6. Labels(u, units, Len(units), K) = M
  <2>1. /\ u.kind = "loop" => u.header \in Blocks
        /\ units \in Seq(S) /\ \A i \in 1 .. Len(units) : units[i].header \in Blocks
        /\ K \in Seq(Label) /\ Len(units) \in 0 .. Len(units)
    BY <1>3, <1>4, <1>5
  <2> DEFINE i == Len(units)
             own == <<"loop", u.header>>
  <2> HIDE DEF M, i
  <2>2. i \in 0 .. Len(units)
    BY <2>1 DEF i
  <2>3. LabelsAround(u, units, K)
    BY <2>1, <2>2, LabelsFacts
  <2>4. QED  BY <2>3 DEF M, LabelsAround
<1>7. Whole(f, loops, u, K)
  BY <1>1 DEF Whole, units
<1> HIDE DEF M, ops
<1>8. RegionAhead(f, N, loops, ops, M, First(f, u))
  BY <1>1, <1>5, <1>6, <1>7 DEF RegionAhead, units
<1>9. QED  BY <1>8 DEF M, ops

LEMMA StepUnit ==
    ASSUME NEW f, NEW N, NEW dom, NEW loops, Looped(f, N, dom, loops),
           NEW stack, NEW L, StackFits(f, N, loops, stack, L), NEW state,
           NEW b, UnitAhead(f, N, loops, Top(stack), L, b)
    PROVE  Arrives(f, N, loops, Stepped(stack, state), state, b)
<1> DEFINE g == EmitRegion(f, loops)
           ops == Top(stack)
           rest == Tail(ops)
           next == Stepped(stack, state)
<1>1. /\ stack # <<>> /\ Len(L) \in Nat /\ L \in Seq(Label) /\ LabelsNest(f, L)
      /\ N \subseteq Blocks
  BY StackIsSome DEF Looped, Verified
<1>2. PICK v : /\ UnitFits(f, N, loops, v, OpenTries(L)) /\ v.header = b
               /\ ops = EmitUnit(f, v, g, L) /\ ops # NoCode
  BY DEF UnitAhead
<1> HIDE DEF g, ops
<1>3. CASE v = BlockUnit(v.header) /\ v.header \in N \ TryBlocks(f) /\ BlockFits(f, v.header, OpenTries(L))
  <2>1. v.kind = "block"
    BY <1>3, BlockUnitFacts
  <2>2. ops = EmitBlock(f, b, L)
    BY <1>2, <2>1 DEF EmitUnit
  <2>3. /\ Terminator(f, b, L) # NoCode /\ Head(ops) = At(b) /\ rest = Terminator(f, b, L)
        /\ ops # <<>>
    BY <1>2, <2>2, BlockCode DEF NoCode
  <2>4. next = [frames |-> Put(stack, rest), selector |-> state, at |-> b]
    BY <1>1, <2>3, ReachesBlock DEF ops
  <2>5. Resting(f, N, loops, rest, L, b)
    BY <1>1, <1>2, <1>3, <2>3 DEF Resting
  <2>6. StackFits(f, N, loops, Put(stack, rest), L) /\ Top(Put(stack, rest)) = rest
    <3> HIDE DEF rest
    <3> QED  BY PutFits
  <2>7. Rests(f, N, loops, Put(stack, rest), b)
    BY <2>5, <2>6 DEF Rests
  <2>8. QED  BY <2>4, <2>7 DEF Arrives
<1>4. CASE \E l \in loops : v = LoopUnit(f, l) /\ RegionFits(f, v, OpenTries(L))
  <2>1. PICK l \in loops : v = LoopUnit(f, l) /\ RegionFits(f, v, OpenTries(L))
    BY <1>4
  <2>2. v.kind = "loop" /\ First(f, v) = b /\ Region(f, N, loops, v)
    BY <1>2, <2>1, LoopUnitFacts DEF Region, Child
  <2> DEFINE body == g[<<v, L>>]
             k == <<"loop", b>>
             pushed == Append(Put(stack, rest), [ops |-> body, again |-> body, catches |-> {}])
  <2>3. body # NoCode /\ ops = <<Loop(body)>>
    BY <1>2, <2>2 DEF EmitUnit
  <2>4. RegionAhead(f, N, loops, body, Append(L, k), b)
    BY <1>1, <1>2, <2>1, <2>2, <2>3, RegionStart DEF g
  <2>5. b \in Blocks
    BY <1>1, <2>2, RegionFacts
  <2>6. k \in Label /\ k[1] = "loop" /\ k[2] = b
    BY <2>5, MakeLabel
  <2> HIDE DEF body, k
  <2>7. ops # <<>> /\ Head(ops) = Loop(body)
    BY <2>3, SingletonIsSeq
  <2>8. next = [frames |-> pushed, selector |-> state, at |-> NoBlock]
    BY <1>1, <2>7, EntersBody DEF ops
  <2>9. StackFits(f, N, loops, Put(stack, rest), L) /\ Top(Put(stack, rest)) = rest
    <3> HIDE DEF rest
    <3> QED  BY PutFits
  <2>10. GoesTo(f, N, loops, body, Append(L, k), b)
    BY <2>4 DEF GoesTo
  <2>11. LabelHolds(f, N, loops, rest, body, {}, L, k)
    BY <2>3, <2>6, <2>10 DEF LabelHolds
  <2>12. LabelsNest(f, Append(L, k))
    BY <1>1, <2>6, AppendNests
  <2>13. StackFits(f, N, loops, pushed, Append(L, k)) /\ Top(pushed) = body
    <3> DEFINE below == Put(stack, rest)
    <3>1. /\ StackFits(f, N, loops, below, L) /\ k \in Label /\ LabelsNest(f, Append(L, k))
          /\ LabelHolds(f, N, loops, Top(below), body, {}, L, k)
      BY <2>6, <2>9, <2>11, <2>12
    <3> HIDE DEF below
    <3>2. QED  BY <3>1, PushFits DEF below
  <2>14. Heads(f, N, loops, pushed, b)
    BY <2>10, <2>13 DEF Heads
  <2>15. QED  BY <2>8, <2>14 DEF Arrives
<1>5. CASE \E t \in TryBlocks(f) \cap N : v = TryUnit(f, t) /\ TryFits(f, t, OpenTries(L))
  <2>1. b \in TryBlocks(f) \cap N /\ v = TryUnit(f, b) /\ TryFits(f, b, OpenTries(L)) /\ v.kind = "try"
    BY <1>2, <1>5, TryUnitFacts
  <2> DEFINE p == Protected(f, loops, b, L)
  <2>2. ops = EmitTry(f, b, p, L)
    BY <1>2, <2>1 DEF EmitUnit, Protected, g
  <2>3. /\ p # NoCode /\ EmitBlock(f, f.tries[b].handler, L) # NoCode
        /\ Head(ops) = At(b) /\ rest = Guarded(f, b, p, L) /\ ops # <<>>
    BY <1>2, <2>2, TryCode DEF NoCode
  <2>4. next = [frames |-> Put(stack, rest), selector |-> state, at |-> b]
    BY <1>1, <2>3, ReachesBlock DEF ops
  <2>5. GuardFits(f, N, loops, rest, L, b)
    BY <2>1, <2>3 DEF GuardFits
  <2>6. Resting(f, N, loops, rest, L, b)
    BY <1>1, <2>1, <2>5 DEF Resting, TryFits
  <2>7. StackFits(f, N, loops, Put(stack, rest), L) /\ Top(Put(stack, rest)) = rest
    <3> HIDE DEF rest
    <3> QED  BY PutFits
  <2>8. Rests(f, N, loops, Put(stack, rest), b)
    BY <2>6, <2>7 DEF Rests
  <2>9. QED  BY <2>4, <2>8 DEF Arrives
<1>6. QED  BY <1>2, <1>3, <1>4, <1>5 DEF UnitFits

LEMMA StepRegion ==
    ASSUME NEW f, NEW N, NEW dom, NEW loops, Looped(f, N, dom, loops),
           NEW stack, NEW L, StackFits(f, N, loops, stack, L), NEW state,
           NEW b, RegionAhead(f, N, loops, Top(stack), L, b)
    PROVE  Arrives(f, N, loops, Stepped(stack, state), state, b)
<1> DEFINE g == EmitRegion(f, loops)
           ops == Top(stack)
           rest == Tail(ops)
           next == Stepped(stack, state)
<1>1. stack # <<>> /\ Len(L) \in Nat /\ L \in Seq(Label) /\ LabelsNest(f, L)
  BY StackIsSome
<1>2. PICK u, K : \E i \in 1 .. Len(Units(f, loops, u)) :
        /\ Region(f, N, loops, u) /\ K \in Seq(Label) /\ RegionFits(f, u, OpenTries(K))
        /\ Whole(f, loops, u, K)
        /\ ops = Nested(NoCode, Parts(f, loops, g, u, K))[i]
        /\ L = Labels(u, Units(f, loops, u), i, K)
        /\ b = First(f, u)
  BY DEF RegionAhead
<1> DEFINE units == Units(f, loops, u)
           parts == Parts(f, loops, g, u, K)
           nest == Nested(NoCode, parts)
<1>3. PICK i \in 1 .. Len(units) :
        /\ ops = nest[i] /\ L = Labels(u, units, i, K) /\ b = First(f, u)
  BY <1>2
<1>4. Region(f, N, loops, u) /\ K \in Seq(Label) /\ RegionFits(f, u, OpenTries(K)) /\ Whole(f, loops, u, K)
  BY <1>2
<1>5. /\ units[i] \in AllUnits(f, loops, u)
      /\ parts[i] = EmitUnit(f, units[i], g, Labels(u, units, i, K))
      /\ nest[0] = NoCode /\ ops # <<>>
      /\ Head(ops) = Block(nest[i - 1]) /\ rest = parts[i]
  BY <1>3, <1>4, NestedShape
<1>6. UnitFits(f, N, loops, units[i], OpenTries(K))
  BY <1>4, <1>5, UnitsFit
<1>7. u \in Regions(f, loops)
  BY <1>4, RegionsAre
<1>8. /\ u.kind = "loop" => u.header \in Blocks
      /\ \E S : units \in Seq(S)
      /\ Len(units) \in Nat
      /\ \A j \in 1 .. Len(units) : units[j].header \in Blocks
  BY <1>7, UnitsOfRegions
<1>9. units # NoCode /\ parts[i] # NoCode
  BY <1>3, <1>4 DEF Whole
<1>10. units[1].header = b
  BY <1>3, <1>4, <1>9, UnitsFacts
<1> DEFINE k == <<"block", units[i].header>>
<1> HIDE DEF units, parts, nest, g, ops, rest
<1>11. OpenTries(L) = OpenTries(K) /\ Labels(u, units, i - 1, K) = Append(L, k)
  <2>1. PICK S : units \in Seq(S)
    BY <1>8
  <2>2. i \in 0 .. Len(units) /\ i > 0
    BY <1>3, <1>8
  <2>3. OpenTries(Labels(u, units, i, K)) = OpenTries(K) /\ LabelsInside(u, units, i, K)
    BY <1>4, <1>8, <2>1, <2>2, LabelsFacts
  <2>4. QED  BY <1>3, <2>2, <2>3 DEF LabelsInside
<1>12. k \in Label /\ k[1] = "block" /\ k[2] = units[i].header
  BY <1>3, <1>8, MakeLabel
<1>13. GoesTo(f, N, loops, rest, L, units[i].header)
  <2>1. rest = EmitUnit(f, units[i], g, L) /\ rest # NoCode
    BY <1>3, <1>5, <1>9
  <2>2. UnitAhead(f, N, loops, rest, L, units[i].header)
    BY <1>6, <1>11, <2>1 DEF UnitAhead, g
  <2>3. QED  BY <2>2 DEF GoesTo
<1> HIDE DEF k
<1>14. GoesTo(f, N, loops, nest[i - 1], Append(L, k), b)
  <2>1. CASE i = 1
    <3>1. nest[i - 1] = <<>>
      BY <1>5, <2>1 DEF NoCode
    <3>2. k = <<"block", b>>
      BY <1>10, <2>1 DEF k
    <3>3. /\ Len(Append(L, k)) = Len(L) + 1 /\ Append(L, k)[Len(L) + 1] = k
      BY <1>1, <1>12, AppendOpen
    <3>4. BlockOver(nest[i - 1], Append(L, k), b)
      BY <1>1, <3>1, <3>2, <3>3 DEF BlockOver
    <3>5. QED  BY <3>4 DEF GoesTo
  <2>2. CASE i # 1
    <3> DEFINE j == i - 1
    <3>1. j \in 1 .. Len(units)
      BY <1>3, <1>8, <2>2
    <3>2. Append(L, k) = Labels(u, units, j, K)
      BY <1>11
    <3> HIDE DEF j
    <3>3. RegionAhead(f, N, loops, nest[j], Append(L, k), b)
      BY <1>3, <1>4, <3>1, <3>2 DEF RegionAhead, units, nest, parts, g
    <3>4. GoesTo(f, N, loops, nest[j], Append(L, k), b)
      BY <3>3 DEF GoesTo
    <3>5. QED  BY <3>4 DEF j
  <2>3. QED  BY <2>1, <2>2
<1> DEFINE body == nest[i - 1]
           below == Put(stack, rest)
           pushed == Append(below, [ops |-> body, again |-> NoCode, catches |-> {}])
<1>15. next = [frames |-> pushed, selector |-> state, at |-> NoBlock]
  BY <1>1, <1>5, EntersBody DEF ops, rest
<1>16. StackFits(f, N, loops, below, L) /\ Top(below) = rest
  BY PutFits
<1>17. LabelHolds(f, N, loops, Top(below), NoCode, {}, L, k)
  BY <1>12, <1>13, <1>16 DEF LabelHolds
<1>18. LabelsNest(f, Append(L, k))
  BY <1>1, <1>12, AppendNests
<1> HIDE DEF below, body
<1>19. StackFits(f, N, loops, pushed, Append(L, k)) /\ Top(pushed) = body
  <2>1. /\ StackFits(f, N, loops, below, L) /\ k \in Label /\ LabelsNest(f, Append(L, k))
        /\ LabelHolds(f, N, loops, Top(below), NoCode, {}, L, k)
    BY <1>12, <1>16, <1>17, <1>18
  <2>2. QED  BY <2>1, PushFits
<1>20. Heads(f, N, loops, pushed, b)
  BY <1>14, <1>19 DEF Heads, body
<1> HIDE DEF next, pushed
<1>21. QED  BY <1>15, <1>20 DEF Arrives, next

LEMMA HandlerAhead ==
    ASSUME NEW f, NEW N, NEW dom, NEW loops, Looped(f, N, dom, loops),
           NEW t \in TryBlocks(f) \cap N, NEW L, TryFits(f, t, OpenTries(L)),
           EmitBlock(f, f.tries[t].handler, L) # NoCode
    PROVE  GoesTo(f, N, loops, EmitBlock(f, f.tries[t].handler, L), L, f.tries[t].handler)
<1> DEFINE h == f.tries[t].handler
           v == BlockUnit(h)
<1>1. h \in N \ TryBlocks(f)
  <2>1. Verified(f, N, dom) /\ Typed(f) /\ ReachSet(f.entry, SeedEdges(f), N)
    BY DEF Looped, Verified
  <2>2. h \in SeedEdges(f)[t] /\ t \in Blocks
    BY <2>1, SeedFacts DEF Typed
  <2>3. h \in N
    BY <2>1, <2>2 DEF ReachSet, Closed, SeedEdges
  <2>4. h \notin TryBlocks(f)
    BY DEF Looped, Verified, Lowered
  <2>5. QED  BY <2>3, <2>4
<1>2. v.kind = "block" /\ v.header = h
  BY BlockUnitFacts
<1>3. BlockFits(f, h, OpenTries(L))
  BY DEF TryFits
<1> HIDE DEF h
<1>4. UnitFits(f, N, loops, v, OpenTries(L))
  <2> HIDE DEF v
  <2>1. v = BlockUnit(v.header)
    BY <1>2 DEF v
  <2>2. QED  BY <1>1, <1>2, <1>3, <2>1 DEF UnitFits
<1>5. EmitUnit(f, v, EmitRegion(f, loops), L) = EmitBlock(f, h, L)
  <2> HIDE DEF v
  <2> QED  BY <1>2 DEF EmitUnit
<1> HIDE DEF v
<1>6. UnitAhead(f, N, loops, EmitBlock(f, h, L), L, h)
  BY <1>2, <1>4, <1>5 DEF UnitAhead, h
<1>7. QED  BY <1>6 DEF GoesTo, h

LEMMA StepGuard ==
    ASSUME NEW f, NEW N, NEW dom, NEW loops, Looped(f, N, dom, loops),
           NEW stack, NEW L, StackFits(f, N, loops, stack, L), NEW state,
           NEW b, GuardAhead(f, N, loops, Top(stack), L, b)
    PROVE  Arrives(f, N, loops, Stepped(stack, state), state, b)
<1> DEFINE ops == Top(stack)
           rest == Tail(ops)
           next == Stepped(stack, state)
<1>1. stack # <<>> /\ Len(L) \in Nat /\ L \in Seq(Label) /\ LabelsNest(f, L)
  BY StackIsSome
<1>2. PICK t \in TryBlocks(f) : GuardFits(f, N, loops, ops, L, t) /\ b = f.tries[t].entry
  BY DEF GuardAhead
<1> DEFINE p == Protected(f, loops, t, L)
           h == f.tries[t].handler
           body == <<Try(f.tries[t].catches, p), Unreachable>>
           k == <<"unwind", t>>
<1>3. /\ t \in TryBlocks(f) \cap N /\ TryFits(f, t, OpenTries(L))
      /\ p # NoCode /\ EmitBlock(f, h, L) # NoCode
      /\ ops = Guarded(f, t, p, L)
  BY <1>2 DEF GuardFits
<1>4. ops # <<>> /\ Head(ops) = Block(body) /\ rest = EmitBlock(f, h, L)
  <2> HIDE DEF p, h
  <2>1. /\ Guarded(f, t, p, L) # <<>> /\ Head(Guarded(f, t, p, L)) = Block(body)
        /\ Tail(Guarded(f, t, p, L)) = EmitBlock(f, h, L)
    BY GuardedCode DEF h
  <2> HIDE DEF body, ops
  <2>2. QED  BY <1>3, <2>1
<1>5. GoesTo(f, N, loops, EmitBlock(f, h, L), L, h)
  BY <1>3, HandlerAhead
<1>6. k \in Label /\ k[1] = "unwind" /\ k[2] = t
  <2>1. t \in Blocks
    BY <1>3 DEF Looped, Verified
  <2>2. QED  BY <2>1, MakeLabel
<1>7. TableAhead(f, N, loops, body, Append(L, k), b)
  BY <1>1, <1>2, <1>3 DEF TableAhead
<1> HIDE DEF p, body, ops, rest
<1>8. GoesTo(f, N, loops, body, Append(L, k), b)
  BY <1>7 DEF GoesTo
<1> DEFINE below == Put(stack, rest)
           pushed == Append(below, [ops |-> body, again |-> NoCode, catches |-> {}])
<1>9. next = [frames |-> pushed, selector |-> state, at |-> NoBlock]
  BY <1>1, <1>4, EntersBody DEF ops, rest
<1>10. StackFits(f, N, loops, below, L) /\ Top(below) = rest
  BY PutFits
<1> HIDE DEF k, below
<1>11. LabelHolds(f, N, loops, Top(below), NoCode, {}, L, k)
  BY <1>4, <1>5, <1>6, <1>10 DEF LabelHolds
<1>12. LabelsNest(f, Append(L, k))
  BY <1>1, <1>6, AppendNests
<1>13. StackFits(f, N, loops, pushed, Append(L, k)) /\ Top(pushed) = body
  BY <1>6, <1>10, <1>11, <1>12, PushFits
<1>14. Heads(f, N, loops, pushed, b)
  BY <1>8, <1>13 DEF Heads
<1> HIDE DEF next, pushed
<1>15. QED  BY <1>9, <1>14 DEF Arrives, next

LEMMA StepTable ==
    ASSUME NEW f, NEW N, NEW dom, NEW loops, Looped(f, N, dom, loops),
           NEW stack, NEW L, StackFits(f, N, loops, stack, L), NEW state,
           NEW b, TableAhead(f, N, loops, Top(stack), L, b)
    PROVE  Arrives(f, N, loops, Stepped(stack, state), state, b)
<1> DEFINE ops == Top(stack)
           rest == Tail(ops)
           next == Stepped(stack, state)
<1>1. stack # <<>> /\ Len(L) \in Nat /\ L \in Seq(Label) /\ LabelsNest(f, L)
  BY StackIsSome
<1>2. PICK t \in TryBlocks(f) \cap N, K \in Seq(Label) :
        /\ TryFits(f, t, OpenTries(K)) /\ L = Append(K, <<"unwind", t>>)
        /\ Protected(f, loops, t, K) # NoCode
        /\ ops = <<Try(f.tries[t].catches, Protected(f, loops, t, K)), Unreachable>>
        /\ b = f.tries[t].entry
  BY DEF TableAhead
<1> DEFINE p == Protected(f, loops, t, K)
           u == TryUnit(f, t)
           catches == f.tries[t].catches
           k == <<"try", t>>
<1>3. t \in Blocks
  BY DEF Looped, Verified
<1>4. k \in Label /\ k[1] = "try" /\ k[2] = t /\ <<"unwind", t>> \in Label
  BY <1>3, MakeLabel
<1>5. Armed(t, K) = Append(L, k) /\ Append(L, k) \in Seq(Label)
  BY <1>2, <1>3, ArmedFacts
<1>6. OpenTries(L) = OpenTries(K) /\ L[Len(L)] = <<"unwind", t>> /\ Len(L) >= 1
  <2> DEFINE w == <<"unwind", t>>
  <2>1. w[1] # "try"
    OBVIOUS
  <2> HIDE DEF w
  <2>2. /\ Len(Append(K, w)) = Len(K) + 1 /\ Len(K) \in Nat
        /\ Append(K, w)[Len(K) + 1] = w
        /\ OpenTries(Append(K, w)) = OpenTries(K) \cup (IF w[1] = "try" THEN {w[2]} ELSE {})
    BY <1>4, AppendOpen DEF w
  <2>3. L = Append(K, w)
    BY <1>2 DEF w
  <2> DEFINE M == Append(K, w)
  <2>m. /\ Len(M) = Len(K) + 1 /\ Len(K) \in Nat /\ M[Len(K) + 1] = w
        /\ OpenTries(M) = OpenTries(K) \cup (IF w[1] = "try" THEN {w[2]} ELSE {})
    BY <2>2
  <2> HIDE DEF M
  <2>n. L = M
    BY <2>3 DEF M
  <2>o. OpenTries(M) = OpenTries(K)
    BY <2>1, <2>m
  <2>p. Len(M) >= 1 /\ M[Len(M)] = w
    BY <2>m
  <2>4. L[Len(L)] = w /\ Len(L) >= 1 /\ OpenTries(L) = OpenTries(K)
    BY <2>o, <2>p, <2>n
  <2>5. QED  BY <2>4 DEF w
<1>7. OpenTries(Append(L, k)) = OpenTries(K) \cup {t}
  BY <1>1, <1>4, <1>6, AppendOpen
<1>8. RegionFits(f, u, OpenTries(Append(L, k))) /\ \A w \in OpenTries(L) : t \in f.raw[w]
  BY <1>2, <1>6, <1>7 DEF TryFits
<1>9. u.kind = "try" /\ First(f, u) = b /\ Region(f, N, loops, u)
  BY <1>2, TryUnitFacts DEF Region, Child
<1>10. p = EmitRegion(f, loops)[<<u, Append(L, k)>>] /\ p # NoCode
  BY <1>2, <1>5 DEF Protected
<1>11. ops # <<>> /\ Head(ops) = Try(catches, p)
  BY <1>2
<1>12. LabelsNest(f, Append(L, k))
  BY <1>1, <1>3, <1>6, <1>8, AppendTryNests
<1> HIDE DEF p, ops, rest, k, u, catches
<1>13. GoesTo(f, N, loops, p, Append(L, k), b)
  <2> DEFINE M == Append(L, k)
  <2>1. M \in Seq(Label) /\ RegionFits(f, u, OpenTries(M)) /\ EmitRegion(f, loops)[<<u, M>>] # NoCode
    BY <1>5, <1>8, <1>10
  <2>2. p = EmitRegion(f, loops)[<<u, M>>]
    BY <1>10
  <2> HIDE DEF M
  <2>3. RegionAhead(f, N, loops, EmitRegion(f, loops)[<<u, M>>],
                    IF u.kind = "loop" THEN Append(M, <<"loop", u.header>>) ELSE M, First(f, u))
    BY <1>9, <2>1, RegionStart
  <2>4. RegionAhead(f, N, loops, p, M, b)
    BY <1>9, <2>2, <2>3
  <2>5. QED  BY <2>4 DEF GoesTo, M
<1> DEFINE below == Put(stack, rest)
           pushed == Append(below, [ops |-> p, again |-> NoCode, catches |-> catches])
<1>14. next = [frames |-> pushed, selector |-> state, at |-> NoBlock]
  BY <1>1, <1>11, EntersBody DEF ops, rest
<1>15. StackFits(f, N, loops, below, L) /\ Top(below) = rest
  BY PutFits
<1> HIDE DEF below
<1>16. LabelHolds(f, N, loops, Top(below), NoCode, catches, L, k)
  BY <1>4, <1>15 DEF LabelHolds, catches
<1>17. StackFits(f, N, loops, pushed, Append(L, k)) /\ Top(pushed) = p
  BY <1>4, <1>12, <1>15, <1>16, PushFits
<1>18. Heads(f, N, loops, pushed, b)
  BY <1>13, <1>17 DEF Heads
<1> HIDE DEF next, pushed
<1>19. QED  BY <1>14, <1>18 DEF Arrives, next

LEMMA StepOver ==
    ASSUME NEW f, NEW N, NEW dom, NEW loops, Looped(f, N, dom, loops),
           NEW stack, NEW L, StackFits(f, N, loops, stack, L), NEW state,
           NEW b, BlockOver(Top(stack), L, b)
    PROVE  Arrives(f, N, loops, Stepped(stack, state), state, b)
<1> DEFINE n == Len(stack) - 1
           next == Stepped(stack, state)
           cut == SubSeq(stack, 1, n)
           M == SubSeq(L, 1, n - 1)
<1>1. stack # <<>> /\ Len(L) \in Nat /\ Len(stack) = Len(L) + 1 /\ L \in Seq(Label)
  BY StackIsSome
<1>2. Top(stack) = <<>> /\ Len(L) >= 1 /\ L[Len(L)] = <<"block", b>>
  BY DEF BlockOver
<1>3. n \in 1 .. Len(stack) /\ n = Len(L) /\ n \in 1 .. Len(L)
  BY <1>1, <1>2
<1>4. next = [frames |-> cut, selector |-> state, at |-> NoBlock]
  BY <1>1, <1>2, LeavesBody
<1> HIDE DEF n
<1>5. StackFits(f, N, loops, cut, M) /\ Top(cut) = stack[n].ops
  BY <1>3, CutFits
<1>6. LabelHolds(f, N, loops, stack[n].ops, stack[n + 1].again, stack[n + 1].catches, M, L[n])
  BY <1>3 DEF StackFits
<1>7. L[n][1] = "block" /\ L[n][2] = b
  BY <1>2, <1>3
<1>8. GoesTo(f, N, loops, stack[n].ops, M, b)
  BY <1>6, <1>7 DEF LabelHolds
<1>9. Heads(f, N, loops, cut, b)
  BY <1>5, <1>8 DEF Heads
<1> HIDE DEF next, cut
<1>10. QED  BY <1>4, <1>9 DEF Arrives, next

(* A step on the way to b stays on it or reaches b.                        *)
LEMMA StepArrives ==
    ASSUME NEW f, NEW N, NEW dom, NEW loops, Looped(f, N, dom, loops),
           NEW stack, NEW state, NEW b, Heads(f, N, loops, stack, b)
    PROVE  Arrives(f, N, loops, Stepped(stack, state), state, b)
<1>1. PICK L : StackFits(f, N, loops, stack, L) /\ GoesTo(f, N, loops, Top(stack), L, b)
  BY DEF Heads
<1>2. CASE UnitAhead(f, N, loops, Top(stack), L, b)
  BY <1>1, <1>2, StepUnit
<1>3. CASE RegionAhead(f, N, loops, Top(stack), L, b)
  BY <1>1, <1>3, StepRegion
<1>4. CASE GuardAhead(f, N, loops, Top(stack), L, b)
  BY <1>1, <1>4, StepGuard
<1>5. CASE TableAhead(f, N, loops, Top(stack), L, b)
  BY <1>1, <1>5, StepTable
<1>6. CASE BlockOver(Top(stack), L, b)
  BY <1>1, <1>6, StepOver
<1>7. QED  BY <1>1, <1>2, <1>3, <1>4, <1>5, <1>6 DEF GoesTo

-----------------------------------------------------------------------------
(* Branches and exceptions *)

(* The greatest of some places.                                            *)
LEMMA LastPlace ==
    ASSUME NEW n \in Nat, NEW I \in SUBSET (1 .. n), I # {}
    PROVE  /\ (CHOOSE x \in I : \A y \in I : x >= y) \in I
           /\ \A y \in I : y <= (CHOOSE x \in I : \A y2 \in I : x >= y2)
<1>1. \E x \in I : \A y \in I : x >= y
  <2>1. PICK x \in I : \A y \in I : y <= x
    BY GreatestExists
  <2>2. \A y \in I : x >= y
    BY <2>1
  <2>3. QED  BY <2>2
<1> DEFINE m == CHOOSE x \in I : \A y \in I : x >= y
<1>2. m \in I /\ \A y \in I : m >= y
  BY <1>1
<1> HIDE DEF m
<1>3. \A y \in I : y <= m
  BY <1>2
<1>4. QED  BY <1>2, <1>3 DEF m

LEMMA LastIs ==
    ASSUME NEW n \in Nat, NEW I \in SUBSET (1 .. n), NEW i,
           i = IF I # {} THEN Max(I) ELSE 0
    PROVE  (i = 0 /\ I = {}) \/ (i \in I /\ i # 0 /\ \A y \in I : y <= i)
<1> DEFINE m == CHOOSE x \in I : \A y \in I : x >= y
<1>1. Max(I) = m
  BY DEF Max
<1>2. I # {} => m \in I /\ \A y \in I : y <= m
  BY LastPlace
<1> HIDE DEF m
<1>3. QED  BY <1>1, <1>2

LEMMA BranchLabelFacts ==
    ASSUME NEW L \in Seq(Label), NEW t, NEW i, i = BranchLabel(t, L)
    PROVE  \/ i = 0
           \/ i \in 1 .. Len(L) /\ (L[i] = <<"loop", t>> \/ L[i] = <<"block", t>>)
<1> DEFINE loop == SelectLastInSeq(L, LAMBDA l : l = <<"loop", t>>)
           block == SelectLastInSeq(L, LAMBDA l : l = <<"block", t>>)
<1>1. Len(L) \in Nat
  OBVIOUS
<1> DEFINE I == {j \in 1 .. Len(L) : L[j] = <<"loop", t>>}
           J == {j \in 1 .. Len(L) : L[j] = <<"block", t>>}
<1>2. loop = IF I # {} THEN Max(I) ELSE 0
  BY DEF SelectLastInSeq
<1>3. block = IF J # {} THEN Max(J) ELSE 0
  BY DEF SelectLastInSeq
<1>4. i = IF loop # 0 THEN loop ELSE block
  BY DEF BranchLabel
<1> HIDE DEF loop, block
<1>5. loop = 0 \/ (loop \in 1 .. Len(L) /\ L[loop] = <<"loop", t>>)
  <2>1. I \in SUBSET (1 .. Len(L))
    OBVIOUS
  <2> HIDE DEF I
  <2>2. loop = 0 \/ loop \in I
    BY <1>1, <1>2, <2>1, LastIs
  <2>3. QED  BY <2>2 DEF I
<1>6. block = 0 \/ (block \in 1 .. Len(L) /\ L[block] = <<"block", t>>)
  <2>1. J \in SUBSET (1 .. Len(L))
    OBVIOUS
  <2> HIDE DEF J
  <2>2. block = 0 \/ block \in J
    BY <1>1, <1>3, <2>1, LastIs
  <2>3. QED  BY <2>2 DEF J
<1>7. QED  BY <1>4, <1>5, <1>6

(* A branch goes to the code of the block its label names.                 *)
LEMMA BranchHeads ==
    ASSUME NEW f, NEW N, NEW loops, NEW stack, NEW L, StackFits(f, N, loops, stack, L),
           NEW i \in 1 .. Len(L), NEW t, L[i] = <<"loop", t>> \/ L[i] = <<"block", t>>
    PROVE  Heads(f, N, loops, Branched(stack, Len(L) - i), t)
<1>1. Len(L) \in Nat /\ Len(stack) = Len(L) + 1 /\ L \in Seq(Label)
  BY StackIsSome
<1>2. LabelHolds(f, N, loops, stack[i].ops, stack[i + 1].again, stack[i + 1].catches,
                 SubSeq(L, 1, i - 1), L[i])
  BY DEF StackFits
<1>3. Len(stack) - (Len(L) - i) = i + 1 /\ ~(i + 1 < 1) /\ (i + 1) - 1 = i
      /\ i \in 1 .. Len(stack) /\ i + 1 \in 1 .. Len(stack)
  BY <1>1
<1> DEFINE again == stack[i + 1].again
           depth == Len(L) - i
<1>4. Branched(stack, depth) = IF again = NoCode THEN SubSeq(stack, 1, i)
                               ELSE [SubSeq(stack, 1, i + 1) EXCEPT ![i + 1].ops = again]
  BY <1>3 DEF Branched
<1> HIDE DEF depth, again
<1>5. CASE L[i] = <<"block", t>>
  <2>1. L[i][1] = "block" /\ L[i][2] = t
    BY <1>5
  <2>2. again = NoCode /\ GoesTo(f, N, loops, stack[i].ops, SubSeq(L, 1, i - 1), t)
    BY <1>2, <2>1 DEF LabelHolds, again
  <2> DEFINE cut == SubSeq(stack, 1, i)
             M == SubSeq(L, 1, i - 1)
  <2>3. StackFits(f, N, loops, cut, M) /\ Top(cut) = stack[i].ops
    BY <1>3, CutFits
  <2> HIDE DEF cut, M
  <2>4. Heads(f, N, loops, cut, t)
    BY <2>2, <2>3 DEF Heads, M
  <2>5. QED  BY <1>4, <2>2, <2>4 DEF cut, depth
<1>6. CASE L[i] = <<"loop", t>>
  <2>1. L[i][1] = "loop" /\ L[i][2] = t
    BY <1>6
  <2>2. /\ again # NoCode
        /\ GoesTo(f, N, loops, again, Append(SubSeq(L, 1, i - 1), L[i]), t)
    BY <1>2, <2>1 DEF LabelHolds, again
  <2> DEFINE cut == SubSeq(stack, 1, i + 1)
             M == SubSeq(L, 1, i)
  <2>3. StackFits(f, N, loops, cut, M)
    <3> DEFINE n == i + 1
    <3>1. n \in 1 .. Len(stack) /\ n - 1 = i
      BY <1>3
    <3> HIDE DEF n
    <3>2. StackFits(f, N, loops, SubSeq(stack, 1, n), SubSeq(L, 1, n - 1))
      BY <3>1, CutFits
    <3>3. QED  BY <3>1, <3>2 DEF n
  <2>4. Append(SubSeq(L, 1, i - 1), L[i]) = M
    <3> DEFINE p == SubSeq(L, 1, i - 1)
               k == L[i]
    <3>1. i - 1 \in Nat /\ i - 1 <= Len(L) /\ i \in Nat /\ i <= Len(L) /\ k \in Label
      BY <1>1
    <3>2. p \in Seq(Label) /\ Len(p) = i - 1 /\ \A j \in 1 .. i - 1 : p[j] = L[j]
      BY <1>1, <3>1, PrefixFacts
    <3>3. M \in Seq(Label) /\ Len(M) = i /\ \A j \in 1 .. i : M[j] = L[j]
      BY <1>1, <3>1, PrefixFacts
    <3> HIDE DEF p, k, M
    <3>4. /\ Append(p, k) \in Seq(Label) /\ Len(Append(p, k)) = i /\ Append(p, k)[i] = k
          /\ \A j \in 1 .. i - 1 : Append(p, k)[j] = p[j]
      BY <3>1, <3>2, AppendProperties
    <3>5. \A j \in 1 .. i : Append(p, k)[j] = M[j]
      <4> TAKE j \in 1 .. i
      <4>1. j = i \/ j \in 1 .. i - 1
        BY <3>1
      <4>2. QED  BY <3>2, <3>3, <3>4, <4>1 DEF k
    <3>6. Append(p, k) = M
      BY <3>3, <3>4, <3>5, SequencesEqual
    <3>7. QED  BY <3>6 DEF p, k
  <2>5. Len(cut) = i + 1
    <3>1. PICK S : stack \in Seq(S)
      BY DEF StackFits, IsSeq
    <3>2. i + 1 \in Nat /\ i + 1 <= Len(stack)
      BY <1>3
    <3>3. QED  BY <3>1, <3>2, PrefixFacts
  <2> HIDE DEF cut, M
  <2>6. [cut EXCEPT ![i + 1].ops = again] = Put(cut, again)
    BY <2>5 DEF Put
  <2>7. StackFits(f, N, loops, Put(cut, again), M) /\ Top(Put(cut, again)) = again
    BY <2>3, PutFits
  <2>8. GoesTo(f, N, loops, again, M, t)
    BY <2>2, <2>4
  <2> DEFINE top == Put(cut, again)
  <2> HIDE DEF top
  <2>9. Heads(f, N, loops, top, t)
    BY <2>7, <2>8 DEF Heads, top
  <2>10. Branched(stack, depth) = top
    BY <1>4, <2>2, <2>6 DEF cut, top
  <2>11. QED  BY <2>9, <2>10 DEF depth
<1>7. QED  BY <1>5, <1>6

LEMMA TakeHeads ==
    ASSUME NEW f, NEW N, NEW dom, NEW loops, Looped(f, N, dom, loops),
           NEW stack, NEW b, Rests(f, N, loops, stack, b), Head(Top(stack)).op = "br",
           NEW t \in f.succ[b]
    PROVE  Heads(f, N, loops, Branched(stack, Head(Top(stack)).depth[t]), t)
<1>1. PICK L : StackFits(f, N, loops, stack, L) /\ Resting(f, N, loops, Top(stack), L, b)
  BY DEF Rests
<1> DEFINE ops == Top(stack)
<1>2. ASSUME GuardFits(f, N, loops, ops, L, b) PROVE FALSE
  <2>1. ops = Guarded(f, b, Protected(f, loops, b, L), L)
    BY <1>2 DEF GuardFits
  <2>2. Head(ops) = Block(<<Try(f.tries[b].catches, Protected(f, loops, b, L)), Unreachable>>)
    BY <2>1, GuardedCode
  <2>3. Head(ops).op = "block"
    BY <2>2 DEF Block
  <2>4. QED  BY <2>3
<1>3. ops = Terminator(f, b, L) /\ ops # NoCode
  BY <1>1, <1>2 DEF Resting
<1>4. Head(<<Throw>>).op = "throw" /\ Head(<<Leave>>).op = "leave"
  BY SingletonIsSeq DEF Throw, Leave
<1> DEFINE br == [op |-> "br", depth |-> [s \in f.succ[b] |-> Len(L) - BranchLabel(s, L)]]
<1>5. /\ \A s \in f.succ[b] : BranchLabel(s, L) # 0
      /\ ops = <<br>>
  BY <1>3, <1>4, TerminatorFacts
<1> DEFINE i == BranchLabel(t, L)
<1>6. Head(ops) = br
  <2> HIDE DEF br
  <2>1. Head(<<br>>) = br
    OBVIOUS
  <2>2. QED  BY <1>5, <2>1
<1>7. Head(ops).depth[t] = Len(L) - i
  BY <1>6
<1>8. L \in Seq(Label)
  BY <1>1, StackIsSome
<1>9. i \in 1 .. Len(L) /\ (L[i] = <<"loop", t>> \/ L[i] = <<"block", t>>)
  <2>1. i # 0
    BY <1>5
  <2> HIDE DEF i
  <2>2. i = BranchLabel(t, L)
    BY DEF i
  <2>3. QED  BY <1>8, <2>1, <2>2, BranchLabelFacts
<1> HIDE DEF i, ops
<1>10. Heads(f, N, loops, Branched(stack, Len(L) - i), t)
  BY <1>1, <1>9, BranchHeads
<1>11. QED  BY <1>7, <1>10 DEF ops

LEMMA ArmHeads ==
    ASSUME NEW f, NEW N, NEW loops,
           NEW stack, NEW b, Rests(f, N, loops, stack, b), Head(Top(stack)).op = "block"
    PROVE  Heads(f, N, loops, stack, f.tries[b].entry)
<1>1. PICK L : StackFits(f, N, loops, stack, L) /\ Resting(f, N, loops, Top(stack), L, b)
  BY DEF Rests
<1> DEFINE ops == Top(stack)
<1>2. ASSUME ops = Terminator(f, b, L), ops # NoCode PROVE FALSE
  <2>1. Head(<<Throw>>).op = "throw" /\ Head(<<Leave>>).op = "leave"
    BY SingletonIsSeq DEF Throw, Leave
  <2> DEFINE br == [op |-> "br", depth |-> [s \in f.succ[b] |-> Len(L) - BranchLabel(s, L)]]
  <2>2. Head(<<br>>).op = "br"
    BY SingletonIsSeq
  <2>3. QED  BY <1>2, <2>1, <2>2, TerminatorFacts
<1>3. GuardFits(f, N, loops, ops, L, b)
  BY <1>1, <1>2 DEF Resting
<1>4. GuardAhead(f, N, loops, ops, L, f.tries[b].entry)
  BY <1>3 DEF GuardAhead, GuardFits
<1>5. GoesTo(f, N, loops, ops, L, f.tries[b].entry)
  BY <1>4 DEF GoesTo
<1>6. QED  BY <1>1, <1>5 DEF Heads

(* A block in the code of a region goes on as it should.                   *)
LEMMA RestsGoOn ==
    ASSUME NEW f, NEW N, NEW loops, NEW stack, NEW b, Rests(f, N, loops, stack, b)
    PROVE  GoesOnAs(f, b, Head(Top(stack)))
<1>1. PICK L : StackFits(f, N, loops, stack, L) /\ Resting(f, N, loops, Top(stack), L, b)
  BY DEF Rests
<1> DEFINE ops == Top(stack)
<1>2. CASE b \notin TryBlocks(f) /\ ops = Terminator(f, b, L) /\ ops # NoCode
  <2>1. /\ Head(<<Throw>>) = Throw /\ Throw.op = "throw"
        /\ Head(<<Leave>>) = Leave /\ Leave.op = "leave"
    BY SingletonIsSeq DEF Throw, Leave
  <2> DEFINE br == [op |-> "br", depth |-> [s \in f.succ[b] |-> Len(L) - BranchLabel(s, L)]]
  <2>2. Head(<<br>>) = br /\ br.op = "br" /\ DOMAIN br.depth = f.succ[b]
    BY SingletonIsSeq
  <2>3. \/ b \in f.throws /\ ops = <<Throw>>
        \/ b \notin f.throws /\ f.succ[b] = {} /\ ops = <<Leave>>
        \/ b \notin f.throws /\ f.succ[b] # {} /\ ops = <<br>>
    BY <1>2, TerminatorFacts
  <2> HIDE DEF ops, br
  <2>4. GoesOnAs(f, b, Head(ops))
    BY <1>2, <2>1, <2>2, <2>3 DEF GoesOnAs
  <2>5. QED  BY <2>4 DEF ops
<1>3. CASE GuardFits(f, N, loops, ops, L, b)
  <2>1. b \in TryBlocks(f) /\ ops = Guarded(f, b, Protected(f, loops, b, L), L)
    BY <1>3 DEF GuardFits
  <2>2. Head(ops) = Block(<<Try(f.tries[b].catches, Protected(f, loops, b, L)), Unreachable>>)
    BY <2>1, GuardedCode
  <2>3. Head(ops).op = "block"
    BY <2>2 DEF Block
  <2>4. QED  BY <2>1, <2>3 DEF GoesOnAs
<1>4. QED  BY <1>1, <1>2, <1>3 DEF Resting

(* In the code of a region nothing is selected.                            *)
LEMMA NoSelect ==
    ASSUME NEW f, NEW N, NEW loops, NEW stack, NEW b, Rests(f, N, loops, stack, b)
    PROVE  Head(Top(stack)).op # "select"
<1>1. PICK L : StackFits(f, N, loops, stack, L) /\ Resting(f, N, loops, Top(stack), L, b)
  BY DEF Rests
<1> DEFINE ops == Top(stack)
<1>2. CASE ops = Terminator(f, b, L) /\ ops # NoCode
  <2>1. Head(<<Throw>>).op = "throw" /\ Head(<<Leave>>).op = "leave"
    BY SingletonIsSeq DEF Throw, Leave
  <2> DEFINE br == [op |-> "br", depth |-> [s \in f.succ[b] |-> Len(L) - BranchLabel(s, L)]]
  <2>2. Head(<<br>>).op = "br"
    BY SingletonIsSeq
  <2>3. QED  BY <1>2, <2>1, <2>2, TerminatorFacts
<1>3. CASE GuardFits(f, N, loops, ops, L, b)
  <2>1. ops = Guarded(f, b, Protected(f, loops, b, L), L)
    BY <1>3 DEF GuardFits
  <2>2. Head(ops) = Block(<<Try(f.tries[b].catches, Protected(f, loops, b, L)), Unreachable>>)
    BY <2>1, GuardedCode
  <2>3. Head(ops).op = "block"
    BY <2>2 DEF Block
  <2>4. QED  BY <2>3
<1>4. QED  BY <1>1, <1>2, <1>3 DEF Resting

(* What a frame catches, by the label it belongs to.                       *)
LEMMA FrameCatches ==
    ASSUME NEW f, NEW N, NEW loops, NEW stack, NEW L, StackFits(f, N, loops, stack, L),
           NEW tag, NEW i \in 1 .. Len(stack)
    PROVE  tag \in stack[i].catches <=>
             i > 1 /\ L[i - 1][1] = "try" /\ tag \in f.tries[L[i - 1][2]].catches
<1>1. Len(L) \in Nat /\ Len(stack) = Len(L) + 1
  BY StackIsSome
<1>2. CASE i = 1
  BY <1>2 DEF StackFits
<1>3. CASE i # 1
  <2> DEFINE k == i - 1
  <2>1. k \in 1 .. Len(L) /\ i > 1 /\ k + 1 = i
    BY <1>1, <1>3
  <2> HIDE DEF k
  <2>2. LabelHolds(f, N, loops, stack[k].ops, stack[k + 1].again, stack[k + 1].catches,
                   SubSeq(L, 1, k - 1), L[k])
    BY <2>1 DEF StackFits
  <2>3. stack[i].catches = IF L[k][1] = "try" THEN f.tries[L[k][2]].catches ELSE {}
    BY <2>1, <2>2 DEF LabelHolds
  <2>4. QED  BY <2>1, <2>3 DEF k
<1>4. QED  BY <1>2, <1>3

(* An exception lands where it should.                                     *)
LEMMA CaughtLands ==
    ASSUME NEW f, NEW N, NEW dom, NEW loops, Looped(f, N, dom, loops),
           NEW stack, NEW b, Rests(f, N, loops, stack, b), NEW tag
    PROVE  \/ Caught(stack, tag) = <<>> /\ Landing(f, b, tag) = Nowhere
           \/ Heads(f, N, loops, Caught(stack, tag), Landing(f, b, tag))
<1>1. PICK L : StackFits(f, N, loops, stack, L) /\ Resting(f, N, loops, Top(stack), L, b)
  BY DEF Rests
<1>2. BlockFits(f, b, OpenTries(L))
  BY <1>1 DEF Resting
<1>3. Verified(f, N, dom)
  BY DEF Looped
<1>4. Len(L) \in Nat /\ Len(stack) = Len(L) + 1 /\ L \in Seq(Label) /\ LabelsNest(f, L)
  BY <1>1, StackIsSome
<1> DEFINE i == SelectLastInSeq(stack, LAMBDA r : tag \in r.catches)
           C == Catching(f, b, tag)
<1>5. Caught(stack, tag) = IF i = 0 THEN <<>> ELSE Branched(SubSeq(stack, 1, i - 1), 0)
  BY DEF Caught
<1> DEFINE I == {j \in 1 .. Len(stack) : tag \in stack[j].catches}
<1>6. /\ i = 0 => \A j \in 1 .. Len(stack) : tag \notin stack[j].catches
      /\ i # 0 => /\ i \in 1 .. Len(stack) /\ tag \in stack[i].catches
                  /\ \A j \in 1 .. Len(stack) : tag \in stack[j].catches => j <= i
  <2>1. i = IF I # {} THEN Max(I) ELSE 0
    BY DEF SelectLastInSeq
  <2>2. I \in SUBSET (1 .. Len(stack)) /\ Len(stack) \in Nat
    BY <1>4
  <2> HIDE DEF I, i
  <2>3. (i = 0 /\ I = {}) \/ (i \in I /\ i # 0 /\ \A y \in I : y <= i)
    BY <2>1, <2>2, LastIs
  <2>4. QED  BY <2>3 DEF I
<1> HIDE DEF i, I
<1>7. ASSUME NEW t \in C
      PROVE  /\ t \in TryBlocks(f)
             /\ \E k \in 1 .. Len(L) : /\ L[k][1] = "try" /\ L[k][2] = t
                                       /\ tag \in stack[k + 1].catches
  <2>1. t \in TryBlocks(f) /\ b \in f.raw[t] /\ b # f.tries[t].handler /\ tag \in f.tries[t].catches
    BY <1>7 DEF Catching
  <2>2. t \in OpenTries(L)
    BY <1>2, <2>1 DEF BlockFits
  <2>3. PICK k \in 1 .. Len(L) : L[k][1] = "try" /\ L[k][2] = t
    BY <2>2 DEF OpenTries
  <2> DEFINE j == k + 1
  <2>4. j \in 1 .. Len(stack) /\ j > 1 /\ j - 1 = k
    BY <1>4
  <2> HIDE DEF j
  <2>5. tag \in stack[j].catches
    BY <1>1, <2>1, <2>3, <2>4, FrameCatches
  <2>6. QED  BY <2>1, <2>3, <2>5 DEF j
<1>8. CASE i = 0
  <2>1. \A j \in 1 .. Len(stack) : tag \notin stack[j].catches
    BY <1>6, <1>8
  <2>2. C = {}
    <3>1. SUFFICES ASSUME NEW t \in C PROVE FALSE
      OBVIOUS
    <3>2. PICK k \in 1 .. Len(L) : tag \in stack[k + 1].catches
      BY <1>7, <3>1
    <3>3. k + 1 \in 1 .. Len(stack)
      BY <1>4
    <3>4. QED  BY <2>1, <3>2, <3>3
  <2>3. Landing(f, b, tag) = Nowhere
    BY <1>3, <2>2, LandingFacts
  <2>4. QED  BY <1>5, <1>8, <2>3
<1>9. CASE i # 0
  <2>1. /\ i \in 1 .. Len(stack) /\ tag \in stack[i].catches
        /\ \A j \in 1 .. Len(stack) : tag \in stack[j].catches => j <= i
    BY <1>6, <1>9
  <2> DEFINE k == i - 1
             t == L[k][2]
  <2>2. i > 1 /\ L[k][1] = "try" /\ tag \in f.tries[t].catches
    BY <1>1, <2>1, FrameCatches
  <2>3. k \in 1 .. Len(L) /\ k + 1 = i
    BY <1>4, <2>1, <2>2
  <2> HIDE DEF k
  <2>4. /\ t \in TryBlocks(f) /\ k > 1 /\ L[k - 1] = <<"unwind", t>>
        /\ \A j \in 1 .. k - 1 : L[j][1] = "try" => t \in f.raw[L[j][2]]
    BY <1>4, <2>2, <2>3 DEF LabelsNest
  <2>5. t \in OpenTries(L)
    BY <2>2, <2>3 DEF OpenTries
  <2> HIDE DEF t
  <2>6. t \in C
    BY <1>2, <2>2, <2>4, <2>5 DEF Catching, BlockFits
  <2>7. PICK t0 \in C : /\ \A u \in C : f.raw[t0] \subseteq f.raw[u]
                        /\ Landing(f, b, tag) = f.tries[t0].handler
    BY <1>3, <2>6, LandingFacts
  <2>8. t0 = t
    <3>1. PICK k0 \in 1 .. Len(L) : L[k0][1] = "try" /\ L[k0][2] = t0 /\ tag \in stack[k0 + 1].catches
      BY <1>7
    <3>2. k0 <= k
      <4>1. k0 + 1 \in 1 .. Len(stack)
        BY <1>4
      <4>2. k0 + 1 <= i
        BY <2>1, <3>1, <4>1
      <4>3. QED  BY <1>4, <2>3, <4>2
    <3>3. CASE k0 = k
      BY <3>1, <3>3 DEF t
    <3>4. CASE k0 # k
      <4>1. k0 \in 1 .. k - 1
        BY <1>4, <2>3, <3>2, <3>4
      <4>2. t \in f.raw[t0]
        BY <2>4, <3>1, <4>1
      <4>3. t \in f.raw[t]
        BY <2>6, <2>7, <4>2
      <4>4. t \notin f.raw[t]
        BY <1>3, <2>4, TryDominates
      <4>5. QED  BY <4>3, <4>4
    <3>5. QED  BY <3>3, <3>4
  <2> DEFINE m == k - 1
             s == SubSeq(stack, 1, i - 1)
             cut == SubSeq(stack, 1, m)
             M == SubSeq(L, 1, m - 1)
  <2>9. /\ m \in 1 .. Len(L) /\ m \in 1 .. Len(stack) /\ i - 1 = k /\ k \in Nat /\ k <= Len(stack)
        /\ m \in Nat /\ m <= k /\ m + 1 = k /\ m <= Len(stack) /\ ~(k < 1) /\ k \in 1 .. k
    BY <1>4, <2>3, <2>4
  <2>10. PICK S : stack \in Seq(S)
    BY <1>1 DEF StackFits, IsSeq
  <2>11. s \in Seq(S) /\ Len(s) = k /\ \A j \in 1 .. k : s[j] = stack[j]
    BY <2>9, <2>10, PrefixFacts
  <2>12. L[m] = <<"unwind", t>>
    BY <2>4
  <2> HIDE DEF m, s
  <2>13. LabelHolds(f, N, loops, stack[m].ops, stack[m + 1].again, stack[m + 1].catches,
                    SubSeq(L, 1, m - 1), L[m])
    BY <1>1, <2>9 DEF StackFits
  <2>14. L[m][1] = "unwind" /\ L[m][2] = t
    BY <2>12
  <2>15. /\ stack[m + 1].again = NoCode
         /\ GoesTo(f, N, loops, stack[m].ops, M, f.tries[t].handler)
    BY <2>13, <2>14 DEF LabelHolds
  <2>16. s[k].again = NoCode
    BY <2>9, <2>11, <2>15
  <2>17. Branched(s, 0) = SubSeq(s, 1, m)
    <3>1. Len(s) - 0 = k /\ k - 1 = m
      BY <2>9, <2>11
    <3>2. QED  BY <2>9, <2>16, <3>1 DEF Branched
  <2>18. SubSeq(s, 1, m) = cut
    <3>1. \A j \in 1 .. m : s[j] = stack[j]
      BY <2>9, <2>11
    <3>2. QED  BY <2>9, <2>10, <2>11, <3>1, SamePrefix
  <2>19. StackFits(f, N, loops, cut, M) /\ Top(cut) = stack[m].ops
    BY <1>1, <2>9, CutFits
  <2> HIDE DEF cut, M
  <2>20. Heads(f, N, loops, cut, f.tries[t].handler)
    BY <2>15, <2>19 DEF Heads
  <2>21. Caught(stack, tag) = cut
    BY <1>5, <1>9, <2>17, <2>18 DEF s
  <2>22. QED  BY <2>7, <2>8, <2>20, <2>21
<1>10. QED  BY <1>8, <1>9

(* The code of a function goes to its entry.                               *)
LEMMA CodeHeads ==
    ASSUME NEW f, NEW N, NEW dom, NEW loops, Looped(f, N, dom, loops),
           NEW code, code = EmitRegion(f, loops)[<<RootUnit(f), <<>>>>], code # NoCode
    PROVE  Heads(f, N, loops, <<Frame(code)>>, f.entry)
<1> DEFINE u == RootUnit(f)
           K == <<>>
           s == <<Frame(code)>>
<1>1. K \in Seq(Label) /\ Len(K) = 0 /\ OpenTries(K) = {}
  BY DEF OpenTries
<1>2. u.kind = "root" /\ First(f, u) = f.entry /\ Region(f, N, loops, u)
  BY RootUnitFacts DEF Region
<1>3. RegionFits(f, u, OpenTries(K))
  BY <1>1, RootFits
<1> HIDE DEF u, K
<1>4. RegionAhead(f, N, loops, EmitRegion(f, loops)[<<u, K>>],
                  IF u.kind = "loop" THEN Append(K, <<"loop", u.header>>) ELSE K, First(f, u))
  BY <1>1, <1>2, <1>3, RegionStart DEF u, K
<1>5. RegionAhead(f, N, loops, code, K, f.entry)
  BY <1>2, <1>4 DEF u, K
<1>6. s[1].ops = code /\ s[1].catches = {} /\ Len(s) = 1 /\ IsSeq(s) /\ IsFrame(s[1])
  BY SingletonIsSeq DEF Frame, IsFrame
<1> HIDE DEF s
<1>7. LabelsNest(f, K)
  BY <1>1 DEF LabelsNest
<1>8. StackFits(f, N, loops, s, K)
  BY <1>1, <1>6, <1>7 DEF StackFits
<1>9. Top(s) = code
  BY <1>6 DEF Top
<1>10. Heads(f, N, loops, s, f.entry)
  BY <1>5, <1>8, <1>9 DEF Heads, GoesTo
<1>11. QED  BY <1>10 DEF s

-----------------------------------------------------------------------------
(* The dispatcher *)

Dispatchable(f, N) ==
    /\ Reachable(f, f.edges) = N /\ IsFiniteSet(N) /\ N \subseteq Nat /\ N \subseteq Blocks
    /\ f.entry \in N /\ \A b \in N : f.succ[b] \subseteq N
    /\ TryBlocks(f) = {} /\ f.throws \cap N = {}

LEMMA Fewer ==
    ASSUME NEW S, IsFiniteSet(S), NEW T \in SUBSET S, T # S
    PROVE  /\ IsFiniteSet(T) /\ Cardinality(T) < Cardinality(S)
           /\ Cardinality(T) \in Nat /\ Cardinality(S) \in Nat
<1>1. IsFiniteSet(T) /\ Cardinality(T) <= Cardinality(S) /\ Cardinality(S) # Cardinality(T)
  BY FS_Subset
<1>2. Cardinality(T) \in Nat /\ Cardinality(S) \in Nat
  BY <1>1, FS_CardinalityType
<1>3. QED  BY <1>1, <1>2

LEMMA StateFacts ==
    ASSUME NEW f, NEW N, Dispatchable(f, N)
    PROVE  /\ Cardinality(N) \in Nat /\ DOMAIN State(f) = N
           /\ \A b \in N : State(f)[b] \in 0 .. Cardinality(N) - 1
           /\ \A b, c \in N : State(f)[b] = State(f)[c] => b = c
<1> DEFINE below(b) == {c \in N : c < b}
<1>1. State(f) = [b \in N |-> Cardinality(below(b))]
  BY DEF State, Dispatchable
<1>2. IsFiniteSet(N) /\ N \subseteq Nat
  BY DEF Dispatchable
<1>3. Cardinality(N) \in Nat
  BY <1>2, FS_CardinalityType
<1>4. ASSUME NEW b \in N
      PROVE  Cardinality(below(b)) \in 0 .. Cardinality(N) - 1
  <2>1. below(b) \in SUBSET N /\ below(b) # N
    <3>1. b \notin below(b)
      BY <1>2
    <3>2. QED  BY <3>1
  <2> HIDE DEF below
  <2>2. /\ IsFiniteSet(below(b)) /\ Cardinality(below(b)) < Cardinality(N)
    BY <1>2, <2>1, Fewer
  <2>3. Cardinality(below(b)) \in Nat
    BY <2>2, FS_CardinalityType
  <2>4. QED  BY <1>3, <2>2, <2>3
<1>5. ASSUME NEW b \in N, NEW c \in N, b < c
      PROVE  Cardinality(below(b)) # Cardinality(below(c))
  <2>1. below(b) \in SUBSET below(c) /\ below(b) # below(c) /\ below(c) \in SUBSET N
    <3>1. b \in below(c) /\ b \notin below(b)
      BY <1>2, <1>5
    <3>2. \A x \in below(b) : x \in below(c)
      BY <1>2, <1>5
    <3>3. QED  BY <3>1, <3>2
  <2> HIDE DEF below
  <2>2. IsFiniteSet(below(c))
    BY <1>2, <2>1, FS_Subset
  <2>3. IsFiniteSet(below(b)) /\ Cardinality(below(b)) < Cardinality(below(c))
    BY <2>1, <2>2, Fewer
  <2>4. Cardinality(below(b)) \in Nat /\ Cardinality(below(c)) \in Nat
    BY <2>2, <2>3, FS_CardinalityType
  <2>5. QED  BY <2>3, <2>4
<1> HIDE DEF below
<1>6. ASSUME NEW b \in N, NEW c \in N, State(f)[b] = State(f)[c] PROVE b = c
  <2>1. b \in Nat /\ c \in Nat
    BY <1>2
  <2>2. ~(b < c)
    BY <1>1, <1>5, <1>6
  <2>3. ~(c < b)
    BY <1>1, <1>5, <1>6
  <2>4. QED  BY <2>1, <2>2, <2>3
<1>7. QED  BY <1>1, <1>3, <1>4, <1>6

Selecting(f, b) == [op |-> "select", state |-> [t \in f.succ[b] |-> State(f)[t]]]
Jumping(f, b) == [op |-> "jump", depth |-> State(f)[b] + 1]

LEMMA DispatchedCode ==
    ASSUME NEW f, NEW b
    PROVE  LET code == DispatchedBlock(f, State(f), b)
           IN  /\ IsSeq(code) /\ code # <<>> /\ Head(code) = At(b)
               /\ \/ f.succ[b] = {} /\ Tail(code) = <<Leave>>
                  \/ f.succ[b] # {} /\ Tail(code) = <<Selecting(f, b), Jumping(f, b)>>
<1>1. CASE f.succ[b] = {}
  <2>1. DispatchedBlock(f, State(f), b) = <<At(b), Leave>>
    BY <1>1 DEF DispatchedBlock
  <2> DEFINE x == At(b)
             y == Leave
  <2>2. <<x, y>> \in Seq({x, y}) /\ <<x, y>> # <<>> /\ Head(<<x, y>>) = x /\ Tail(<<x, y>>) = <<y>>
    <3> HIDE DEF x, y
    <3> QED  OBVIOUS
  <2>3. QED  BY <1>1, <2>1, <2>2 DEF IsSeq
<1>2. CASE f.succ[b] # {}
  <2>1. DispatchedBlock(f, State(f), b) = <<At(b), Selecting(f, b), Jumping(f, b)>>
    BY <1>2 DEF DispatchedBlock, Selecting, Jumping
  <2> DEFINE x == At(b)
             y == Selecting(f, b)
             z == Jumping(f, b)
  <2>2. /\ <<x, y, z>> \in Seq({x, y, z}) /\ <<x, y, z>> # <<>> /\ Head(<<x, y, z>>) = x
        /\ Tail(<<x, y, z>>) = <<y, z>>
    <3> HIDE DEF x, y, z
    <3> QED  OBVIOUS
  <2>3. QED  BY <1>2, <2>1, <2>2 DEF IsSeq
<1>3. QED  BY <1>1, <1>2

Table(f, N) ==
    [op |-> "table", depth |-> [s \in 0 .. Cardinality(N) - 1 |-> Cardinality(N) - s - 1]]
Dispatches(f, N) ==
    [i \in 1 .. Cardinality(N) |->
        DispatchedBlock(f, State(f), CHOOSE b \in N : State(f)[b] = Cardinality(N) - i)]
Turn(f, N) ==
    <<Block(Nested(<<Table(f, N)>>, Dispatches(f, N))[Cardinality(N)]), Unreachable>>
Setting(f) == [op |-> "set", state |-> State(f)[f.entry]]

LEMMA DispatcherCode ==
    ASSUME NEW f, NEW N, Dispatchable(f, N)
    PROVE  /\ EmitDispatcher(f) = <<Setting(f), Loop(Turn(f, N))>>
           /\ Len(Dispatches(f, N)) = Cardinality(N)
           /\ \A i \in 1 .. Cardinality(N) : IsSeq(Dispatches(f, N)[i])
           /\ \A b \in N : Dispatches(f, N)[Cardinality(N) - State(f)[b]]
                             = DispatchedBlock(f, State(f), b)
<1> DEFINE n == Cardinality(N)
           choice(i) == CHOOSE b \in N : State(f)[b] = n - i
<1>1. /\ n \in Nat /\ DOMAIN State(f) = N
      /\ \A b \in N : State(f)[b] \in 0 .. n - 1
      /\ \A b, c \in N : State(f)[b] = State(f)[c] => b = c
  BY StateFacts
<1>2. EmitDispatcher(f) = <<Setting(f), Loop(Turn(f, N))>>
  BY <1>1 DEF EmitDispatcher, Setting, Turn, Table, Dispatches
<1>3. Dispatches(f, N) = [i \in 1 .. n |-> DispatchedBlock(f, State(f), choice(i))]
  BY DEF Dispatches
<1>4. \A i \in 1 .. n : Dispatches(f, N)[i] = DispatchedBlock(f, State(f), choice(i))
  <2> HIDE DEF choice, n
  <2> QED  BY <1>3
<1>5. \A i \in 1 .. n : IsSeq(Dispatches(f, N)[i])
  <2> TAKE i \in 1 .. n
  <2> DEFINE b == choice(i)
  <2>1. Dispatches(f, N)[i] = DispatchedBlock(f, State(f), b)
    BY <1>4
  <2> HIDE DEF b
  <2>2. QED  BY <2>1, DispatchedCode
<1>6. ASSUME NEW b \in N PROVE Dispatches(f, N)[n - State(f)[b]] = DispatchedBlock(f, State(f), b)
  <2> DEFINE i == n - State(f)[b]
  <2>1. State(f)[b] \in 0 .. n - 1
    BY <1>1
  <2>2. i \in 1 .. n /\ State(f)[b] = n - i
    <3> HIDE DEF n
    <3> QED  BY <1>1, <2>1
  <2> HIDE DEF i
  <2>3. choice(i) \in N /\ State(f)[choice(i)] = n - i
    BY <2>2
  <2>4. choice(i) = b
    <3> HIDE DEF choice, n
    <3> QED  BY <1>1, <2>2, <2>3
  <2>5. Dispatches(f, N)[i] = DispatchedBlock(f, State(f), b)
    BY <1>4, <2>2, <2>4
  <2>6. QED  BY <2>5 DEF i
<1>7. Len(Dispatches(f, N)) = n
  <2> DEFINE D == Dispatches(f, N)
             S == {D[i] : i \in 1 .. n}
  <2>1. D \in [1 .. n -> S]
    <3>1. D = [i \in 1 .. n |-> D[i]]
      BY <1>3
    <3>2. \A i \in 1 .. n : D[i] \in S
      OBVIOUS
    <3> HIDE DEF D, S, n
    <3>3. QED  BY <3>1, <3>2
  <2> HIDE DEF D, S, n
  <2>2. QED  BY <1>1, <2>1, FunctionIsSeq DEF D
<1>8. QED  BY <1>2, <1>5, <1>6, <1>7

\* Inside the dispatcher's loop: a branch to the second frame starts it again.
Turning(f, N, stack) ==
    /\ IsSeq(stack) /\ Len(stack) >= 2 /\ stack[2].again = Turn(f, N)
    /\ \A i \in 1 .. Len(stack) : IsFrame(stack[i]) /\ stack[i].catches = {}
    /\ \A i \in 3 .. Len(stack) : stack[i].again = NoCode

LEMMA TurningPut ==
    ASSUME NEW f, NEW N, NEW stack, Turning(f, N, stack), NEW ops
    PROVE  /\ Turning(f, N, Put(stack, ops)) /\ Top(Put(stack, ops)) = ops
           /\ Len(Put(stack, ops)) = Len(stack)
           /\ \A i \in 1 .. Len(stack) - 1 : Put(stack, ops)[i] = stack[i]
<1> DEFINE n == Len(stack)
           top == stack[n]
           frame == [top EXCEPT !.ops = ops]
           s == [stack EXCEPT ![n] = frame]
<1>1. PICK S : stack \in Seq(S)
  BY DEF Turning, IsSeq
<1>2. n \in Nat /\ n >= 2 /\ n \in 1 .. n
  BY <1>1, LenProperties DEF Turning
<1>3. IsFrame(top)
  BY <1>2 DEF Turning
<1> HIDE DEF top
<1>4. frame = [ops |-> ops, again |-> top.again, catches |-> top.catches]
  BY <1>3 DEF IsFrame
<1> HIDE DEF frame
<1>5. frame.ops = ops /\ frame.again = top.again /\ frame.catches = top.catches /\ IsFrame(frame)
  BY <1>4 DEF IsFrame
<1> DEFINE T == S \cup {frame}
<1>6. stack \in Seq(T) /\ frame \in T
  BY <1>1, SeqMonotonic
<1> HIDE DEF T
<1>7. s \in Seq(T) /\ Len(s) = n /\ s[n] = frame /\ \A d \in 1 .. n : d # n => s[d] = stack[d]
  BY <1>2, <1>6, SetTopFacts
<1>8. Put(stack, ops) = s
  BY DEF Put, frame, top
<1> HIDE DEF s, n
<1>9. \A i \in 1 .. n : /\ IsFrame(s[i]) /\ s[i].again = stack[i].again /\ s[i].catches = {}
  <2> TAKE i \in 1 .. n
  <2>1. IsFrame(stack[i]) /\ stack[i].catches = {}
    BY DEF Turning, n
  <2>2. QED  BY <1>5, <1>7, <2>1 DEF top
<1>10. IsSeq(s)
  BY <1>7 DEF IsSeq
<1>11. Turning(f, N, s)
  <2>1. 2 \in 1 .. n /\ \A i \in 3 .. n : i \in 1 .. n
    BY <1>2
  <2>2. s[2].again = Turn(f, N)
    BY <1>9, <2>1 DEF Turning
  <2>3. \A i \in 3 .. n : s[i].again = NoCode
    BY <1>9, <2>1 DEF Turning, n
  <2>4. QED  BY <1>2, <1>7, <1>9, <1>10, <2>2, <2>3 DEF Turning
<1>12. Top(s) = ops
  BY <1>5, <1>7 DEF Top
<1>13. \A i \in 1 .. n - 1 : s[i] = stack[i]
  BY <1>2, <1>7
<1>14. QED  BY <1>7, <1>8, <1>11, <1>12, <1>13 DEF n

LEMMA TurningPush ==
    ASSUME NEW f, NEW N, NEW stack, Turning(f, N, stack), NEW ops
    PROVE  LET s == Append(stack, [ops |-> ops, again |-> NoCode, catches |-> {}])
           IN  /\ Turning(f, N, s) /\ Top(s) = ops /\ Len(s) = Len(stack) + 1
               /\ \A i \in 1 .. Len(stack) : s[i] = stack[i]
<1> DEFINE frame == [ops |-> ops, again |-> NoCode, catches |-> {}]
           s == Append(stack, frame)
           n == Len(stack)
<1>1. PICK S : stack \in Seq(S)
  BY DEF Turning, IsSeq
<1>2. n \in Nat /\ n >= 2
  BY <1>1, LenProperties DEF Turning
<1>3. frame.ops = ops /\ frame.again = NoCode /\ frame.catches = {} /\ IsFrame(frame)
  BY DEF IsFrame
<1> HIDE DEF frame
<1> DEFINE T == S \cup {frame}
<1>4. stack \in Seq(T) /\ frame \in T
  BY <1>1, SeqMonotonic
<1> HIDE DEF T
<1>5. s \in Seq(T) /\ Len(s) = n + 1 /\ s[n + 1] = frame /\ \A i \in 1 .. n : s[i] = stack[i]
  BY <1>4, AppendProperties
<1> HIDE DEF s
<1>6. \A i \in 1 .. n + 1 : IsFrame(s[i]) /\ s[i].catches = {}
  <2> TAKE i \in 1 .. n + 1
  <2>1. i \in 1 .. n \/ i = n + 1
    BY <1>2
  <2>2. i \in 1 .. n => IsFrame(stack[i]) /\ stack[i].catches = {}
    BY DEF Turning, n
  <2>3. QED  BY <1>3, <1>5, <2>1, <2>2
<1>7. \A i \in 3 .. n + 1 : s[i].again = NoCode
  <2> TAKE i \in 3 .. n + 1
  <2>1. (i \in 1 .. n /\ i \in 3 .. n) \/ i = n + 1
    BY <1>2
  <2>2. i \in 3 .. n => stack[i].again = NoCode
    BY DEF Turning, n
  <2>3. QED  BY <1>3, <1>5, <2>1, <2>2
<1>8. s[2].again = Turn(f, N)
  <2>1. 2 \in 1 .. n
    BY <1>2
  <2>2. QED  BY <1>5, <2>1 DEF Turning
<1>9. IsSeq(s)
  BY <1>5 DEF IsSeq
<1>10. Turning(f, N, s)
  BY <1>2, <1>5, <1>6, <1>7, <1>8, <1>9 DEF Turning
<1>11. Top(s) = ops
  BY <1>3, <1>5 DEF Top
<1>12. QED  BY <1>5, <1>10, <1>11 DEF s, frame, n

LEMMA TurningCut ==
    ASSUME NEW f, NEW N, NEW stack, Turning(f, N, stack), NEW n \in 2 .. Len(stack)
    PROVE  /\ Turning(f, N, SubSeq(stack, 1, n)) /\ Len(SubSeq(stack, 1, n)) = n
           /\ Top(SubSeq(stack, 1, n)) = stack[n].ops
<1> DEFINE s == SubSeq(stack, 1, n)
<1>1. PICK S : stack \in Seq(S)
  BY DEF Turning, IsSeq
<1>2. Len(stack) \in Nat /\ n \in Nat /\ n <= Len(stack) /\ n >= 2
  BY <1>1, LenProperties
<1>3. s \in Seq(S) /\ Len(s) = n /\ \A i \in 1 .. n : s[i] = stack[i]
  BY <1>1, <1>2, PrefixFacts
<1> HIDE DEF s
<1>4. \A i \in 1 .. n : i \in 1 .. Len(stack)
  BY <1>2
<1>5. \A i \in 3 .. n : i \in 3 .. Len(stack) /\ i \in 1 .. n
  BY <1>2
<1>6. 2 \in 1 .. n /\ n \in 1 .. n
  BY <1>2
<1>7. \A i \in 1 .. n : IsFrame(s[i]) /\ s[i].catches = {}
  BY <1>3, <1>4 DEF Turning
<1>8. \A i \in 3 .. n : s[i].again = NoCode
  BY <1>3, <1>5 DEF Turning
<1>9. s[2].again = Turn(f, N)
  BY <1>3, <1>6 DEF Turning
<1>10. IsSeq(s)
  BY <1>3 DEF IsSeq
<1>11. Turning(f, N, s)
  BY <1>2, <1>3, <1>7, <1>8, <1>9, <1>10 DEF Turning
<1>12. Top(s) = stack[n].ops
  BY <1>3, <1>6 DEF Top
<1>13. QED  BY <1>3, <1>11, <1>12 DEF s

-----------------------------------------------------------------------------
(* The turns of the dispatcher *)

\* Before the loop.
Setup(f, N, stack, state, b) ==
    \/ stack = <<Frame(<<Setting(f), Loop(Turn(f, N))>>)>> /\ b = f.entry
    \/ /\ IsSeq(stack) /\ Len(stack) = 1 /\ IsFrame(stack[1]) /\ stack[1].catches = {}
       /\ Top(stack) = <<Loop(Turn(f, N))>> /\ state = State(f)[b]
\* At the start of a turn.
Starts(f, N, stack, state, b) ==
    /\ Turning(f, N, stack) /\ Len(stack) = 2 /\ Top(stack) = Turn(f, N) /\ state = State(f)[b]
\* Inside the blocks, the code of the last ones around that of the first.
Descends(f, N, stack, state, b) ==
    \E i \in 0 .. Cardinality(N) :
        /\ Turning(f, N, stack) /\ state = State(f)[b]
        /\ Len(stack) = 3 + (Cardinality(N) - i)
        /\ Top(stack) = Nested(<<Table(f, N)>>, Dispatches(f, N))[i]
        /\ \A j \in i + 1 .. Cardinality(N) :
              stack[3 + (Cardinality(N) - j)].ops = Dispatches(f, N)[j]
\* Before the code of b.
Enters(f, N, stack, b) ==
    /\ Turning(f, N, stack) /\ Len(stack) = State(f)[b] + 3
    /\ Top(stack) = DispatchedBlock(f, State(f), b)
\* In b.
Dwells(f, N, stack, b) ==
    /\ b \in N /\ Turning(f, N, stack) /\ Len(stack) = State(f)[b] + 3
    /\ Top(stack) = Tail(DispatchedBlock(f, State(f), b))
\* Before the jump back from another block.
Returns(f, N, stack, state, b) ==
    /\ Turning(f, N, stack) /\ state = State(f)[b]
    /\ \E c \in N : Len(stack) = State(f)[c] + 3 /\ Top(stack) = <<Jumping(f, c)>>

Turns(f, N, stack, state, b) ==
    /\ b \in N
    /\ \/ Setup(f, N, stack, state, b) \/ Starts(f, N, stack, state, b)
       \/ Descends(f, N, stack, state, b) \/ Enters(f, N, stack, b)
       \/ Returns(f, N, stack, state, b)

\* What a step of the dispatcher on the way to b may do.
Reaches(f, N, next, b) ==
    \/ next.at = NoBlock /\ Turns(f, N, next.frames, next.selector, b)
    \/ next.at = b /\ Dwells(f, N, next.frames, b)

LEMMA SetsUp ==
    ASSUME NEW f, NEW N, Dispatchable(f, N), NEW stack, NEW state, NEW b \in N,
           Setup(f, N, stack, state, b)
    PROVE  Reaches(f, N, Stepped(stack, state), b)
<1> DEFINE X == Turn(f, N)
           next == Stepped(stack, state)
<1>1. CASE stack = <<Frame(<<Setting(f), Loop(X)>>)>> /\ b = f.entry
  <2> DEFINE ops == <<Setting(f), Loop(X)>>
             s == <<Frame(<<Loop(X)>>)>>
  <2>1. /\ stack # <<>> /\ Len(stack) = 1 /\ stack[1] = Frame(ops) /\ IsSeq(stack)
        /\ Top(stack) = ops
    <3> DEFINE x == Frame(ops)
    <3>1. <<x>> # <<>> /\ Len(<<x>>) = 1 /\ <<x>>[1] = x /\ IsSeq(<<x>>)
      BY SingletonIsSeq
    <3>2. x.ops = ops
      BY DEF Frame
    <3> HIDE DEF x, ops
    <3>3. stack = <<x>>
      BY <1>1 DEF x, ops
    <3>4. QED  BY <3>1, <3>2, <3>3 DEF Top, x
  <2>2. ops # <<>> /\ Head(ops) = Setting(f) /\ Tail(ops) = <<Loop(X)>>
    <3> DEFINE x == Setting(f)
               y == Loop(X)
    <3> HIDE DEF x, y
    <3>1. <<x, y>> # <<>> /\ Head(<<x, y>>) = x /\ Tail(<<x, y>>) = <<y>>
      OBVIOUS
    <3>2. QED  BY <3>1 DEF x, y
  <2>3. Setting(f).op = "set" /\ Setting(f).state = State(f)[b]
    BY <1>1 DEF Setting
  <2> DEFINE rest == [stack EXCEPT ![1].ops = <<Loop(X)>>]
  <2> HIDE DEF ops
  <2>4. next = [frames |-> rest, selector |-> State(f)[b], at |-> NoBlock]
    BY <2>1, <2>2, <2>3 DEF Stepped, Top
  <2>5. rest = s
    <3> DEFINE fr == Frame(ops)
               gr == Frame(<<Loop(X)>>)
    <3>1. [fr EXCEPT !.ops = <<Loop(X)>>] = gr
      BY DEF Frame
    <3>2. rest = [stack EXCEPT ![1] = [stack[1] EXCEPT !.ops = <<Loop(X)>>]]
      OBVIOUS
    <3>3. rest = [stack EXCEPT ![1] = gr]
      BY <2>1, <3>1, <3>2
    <3>4. stack = <<fr>>
      BY <1>1 DEF ops
    <3> HIDE DEF fr, gr, rest
    <3>5. [<<fr>> EXCEPT ![1] = gr] = <<gr>>
      OBVIOUS
    <3>6. QED  BY <3>3, <3>4, <3>5 DEF gr
  <2> DEFINE x == Frame(<<Loop(X)>>)
  <2>6. x.ops = <<Loop(X)>> /\ x.catches = {} /\ IsFrame(x)
    BY DEF Frame, IsFrame
  <2>7. Len(<<x>>) = 1 /\ <<x>>[1] = x /\ IsSeq(<<x>>)
    BY SingletonIsSeq
  <2> HIDE DEF x, rest, next
  <2>8. rest = <<x>>
    BY <2>5 DEF x
  <2>9. Setup(f, N, rest, State(f)[b], b)
    BY <2>6, <2>7, <2>8 DEF Setup, Top
  <2>10. QED  BY <2>4, <2>9 DEF Reaches, Turns, next
<1>2. CASE /\ IsSeq(stack) /\ Len(stack) = 1 /\ IsFrame(stack[1]) /\ stack[1].catches = {}
           /\ Top(stack) = <<Loop(X)>> /\ state = State(f)[b]
  <2> DEFINE rest == Put(stack, <<>>)
             frame == [ops |-> X, again |-> X, catches |-> {}]
             s == Append(rest, frame)
  <2>1. Top(stack) # <<>> /\ Head(Top(stack)) = Loop(X) /\ Tail(Top(stack)) = <<>> /\ stack # <<>>
    BY <1>2, SingletonIsSeq
  <2>2. next = [frames |-> s, selector |-> state, at |-> NoBlock]
    <3> HIDE DEF X
    <3>1. next = [frames |-> Append(Put(stack, Tail(Top(stack))), frame),
                  selector |-> state, at |-> NoBlock]
      BY <2>1, EntersBody
    <3>2. QED  BY <2>1, <3>1
  <2>3. PICK S : stack \in Seq(S)
    BY <1>2 DEF IsSeq
  <2> DEFINE gr == [stack[1] EXCEPT !.ops = <<>>]
             T == S \cup {gr, frame}
  <2>4. IsFrame(gr) /\ gr.catches = {}
    BY <1>2 DEF IsFrame
  <2>5. frame.ops = X /\ frame.again = X /\ frame.catches = {} /\ IsFrame(frame)
    BY DEF IsFrame
  <2>6. rest = [stack EXCEPT ![Len(stack)] = gr]
    BY <1>2 DEF Put
  <2>7. stack \in Seq(T) /\ gr \in T /\ frame \in T
    BY <2>3, SeqMonotonic
  <2> HIDE DEF gr, frame, T, X, rest
  <2>8. rest \in Seq(T) /\ Len(rest) = 1 /\ rest[1] = gr
    BY <1>2, <2>6, <2>7, SetTopFacts
  <2>9. s \in Seq(T) /\ Len(s) = 2 /\ s[2] = frame /\ s[1] = gr
    <3>1. /\ s \in Seq(T) /\ Len(s) = Len(rest) + 1 /\ s[Len(rest) + 1] = frame
          /\ \A i \in 1 .. Len(rest) : s[i] = rest[i]
      <4>1. rest \in Seq(T) /\ frame \in T
        BY <2>7, <2>8
      <4>2. QED  BY <4>1, AppendProperties
    <3> HIDE DEF s
    <3>2. QED  BY <2>8, <3>1
  <2> HIDE DEF s
  <2>10. Turning(f, N, s)
    <3>1. IsSeq(s)
      BY <2>9 DEF IsSeq
    <3>2. \A i \in 1 .. Len(s) : IsFrame(s[i]) /\ s[i].catches = {}
      <4> TAKE i \in 1 .. Len(s)
      <4>1. i = 1 \/ i = 2
        BY <2>9
      <4>2. QED  BY <2>4, <2>5, <2>9, <4>1
    <3>3. \A i \in 3 .. Len(s) : s[i].again = NoCode
      BY <2>9
    <3>4. s[2].again = Turn(f, N)
      BY <2>5, <2>9 DEF X
    <3>5. QED  BY <2>9, <3>1, <3>2, <3>3, <3>4 DEF Turning
  <2>11. Starts(f, N, s, state, b)
    BY <1>2, <2>5, <2>9, <2>10 DEF Starts, Top, X
  <2> HIDE DEF next
  <2>12. QED  BY <2>2, <2>11 DEF Reaches, Turns, next
<1>3. QED  BY <1>1, <1>2 DEF Setup

LEMMA TurningIsSome ==
    ASSUME NEW f, NEW N, NEW stack, Turning(f, N, stack)
    PROVE  stack # <<>> /\ Len(stack) \in Nat /\ Len(stack) >= 2
<1>1. PICK S : stack \in Seq(S)
  BY DEF Turning, IsSeq
<1>2. Len(stack) \in Nat /\ Len(stack) >= 2
  BY <1>1, LenProperties DEF Turning
<1>3. stack # <<>>
  BY <1>2
<1>4. QED  BY <1>2, <1>3

\* A step into a block puts its body on the stack.
PutsIn(f, N, stack, body, rest, next) ==
    /\ Turning(f, N, next.frames) /\ next.at = NoBlock
    /\ Len(next.frames) = Len(stack) + 1 /\ Top(next.frames) = body
    /\ next.frames[Len(stack)].ops = rest
    /\ \A i \in 1 .. Len(stack) - 1 : next.frames[i] = stack[i]

LEMMA PutIn ==
    ASSUME NEW f, NEW N, NEW stack, NEW state, Turning(f, N, stack), Top(stack) # <<>>,
           NEW body, Head(Top(stack)) = Block(body)
    PROVE  /\ PutsIn(f, N, stack, body, Tail(Top(stack)), Stepped(stack, state))
           /\ Stepped(stack, state).selector = state
<1> DEFINE rest == Tail(Top(stack))
           below == Put(stack, rest)
           s == Append(below, [ops |-> body, again |-> NoCode, catches |-> {}])
<1>1. stack # <<>> /\ Len(stack) \in Nat /\ Len(stack) >= 2
  BY TurningIsSome
<1>2. Stepped(stack, state) = [frames |-> s, selector |-> state, at |-> NoBlock]
  BY <1>1, EntersBody
<1> HIDE DEF rest
<1>3. /\ Turning(f, N, below) /\ Top(below) = rest /\ Len(below) = Len(stack)
      /\ \A i \in 1 .. Len(stack) - 1 : below[i] = stack[i]
  BY TurningPut
<1> HIDE DEF below
<1>4. /\ Turning(f, N, s) /\ Top(s) = body /\ Len(s) = Len(below) + 1
      /\ \A i \in 1 .. Len(below) : s[i] = below[i]
  BY <1>3, TurningPush
<1> HIDE DEF s
<1>5. s[Len(stack)].ops = rest
  BY <1>1, <1>3, <1>4 DEF Top
<1>6. \A i \in 1 .. Len(stack) - 1 : s[i] = stack[i]
  BY <1>1, <1>3, <1>4
<1>7. Len(s) = Len(stack) + 1
  BY <1>3, <1>4
<1>8. QED  BY <1>2, <1>4, <1>5, <1>6, <1>7 DEF rest, PutsIn

LEMMA StartsTurn ==
    ASSUME NEW f, NEW N, Dispatchable(f, N), NEW stack, NEW state, NEW b \in N,
           Starts(f, N, stack, state, b)
    PROVE  Reaches(f, N, Stepped(stack, state), b)
<1> DEFINE nest == Nested(<<Table(f, N)>>, Dispatches(f, N))
           n == Cardinality(N)
           next == Stepped(stack, state)
           body == nest[n]
<1>1. Turning(f, N, stack) /\ Len(stack) = 2 /\ Top(stack) = Turn(f, N) /\ state = State(f)[b]
  BY DEF Starts
<1>2. n \in Nat
  BY StateFacts
<1>3. Turn(f, N) = <<Block(body), Unreachable>>
  BY DEF Turn
<1>4. Top(stack) # <<>> /\ Head(Top(stack)) = Block(body)
  <2> DEFINE x == Block(body)
  <2> HIDE DEF x
  <2>1. <<x, Unreachable>> # <<>> /\ Head(<<x, Unreachable>>) = x
    OBVIOUS
  <2>2. QED  BY <1>1, <1>3, <2>1 DEF x
<1> HIDE DEF body
<1>5. /\ Turning(f, N, next.frames) /\ next.selector = state /\ next.at = NoBlock
      /\ Len(next.frames) = Len(stack) + 1 /\ Top(next.frames) = body
  <2>1. PutsIn(f, N, stack, body, Tail(Top(stack)), next) /\ next.selector = state
    BY <1>1, <1>4, PutIn
  <2> HIDE DEF next
  <2>2. QED  BY <2>1 DEF PutsIn
<1> HIDE DEF next
<1>6. Len(next.frames) = 3 + (n - n) /\ n \in 0 .. n
  BY <1>1, <1>2, <1>5
<1>7. \A j \in n + 1 .. n : FALSE
  BY <1>2
<1>8. Descends(f, N, next.frames, next.selector, b)
  BY <1>1, <1>5, <1>6, <1>7 DEF Descends, body
<1>9. QED  BY <1>5, <1>8 DEF Reaches, Turns, next

LEMMA DescendsOn ==
    ASSUME NEW f, NEW N, Dispatchable(f, N), NEW stack, NEW state, NEW b \in N,
           Descends(f, N, stack, state, b)
    PROVE  Reaches(f, N, Stepped(stack, state), b)
<1> DEFINE nest == Nested(<<Table(f, N)>>, Dispatches(f, N))
           D == Dispatches(f, N)
           n == Cardinality(N)
           next == Stepped(stack, state)
<1>1. PICK i \in 0 .. n :
        /\ Turning(f, N, stack) /\ state = State(f)[b]
        /\ Len(stack) = 3 + (n - i) /\ Top(stack) = nest[i]
        /\ \A j \in i + 1 .. n : stack[3 + (n - j)].ops = D[j]
  BY DEF Descends
<1>2. n \in Nat /\ State(f)[b] \in 0 .. n - 1
  BY StateFacts
<1>3. /\ Len(D) = n /\ \A j \in 1 .. n : IsSeq(D[j])
      /\ D[n - State(f)[b]] = DispatchedBlock(f, State(f), b)
  BY DispatcherCode
<1> HIDE DEF D, n
<1>4. nest[0] = <<Table(f, N)>> /\ \A j \in 1 .. n : nest[j] = <<Block(nest[j - 1])>> \o D[j]
  <2>1. nest = Nested(<<Table(f, N)>>, D)
    BY DEF D
  <2>2. nest[0] = <<Table(f, N)>>
        /\ \A j \in 1 .. Len(D) : nest[j] = <<Block(nest[j - 1])>> \o D[j]
    <3>1. Len(D) \in Nat
      BY <1>2, <1>3
    <3>2. \A m : Nested(m, D)[0] = m
                 /\ \A j \in 1 .. Len(D) : Nested(m, D)[j] = <<Block(Nested(m, D)[j - 1])>> \o D[j]
      BY <3>1, NestedFacts
    <3>3. QED  BY <3>2 DEF D
  <2> HIDE DEF nest
  <2>3. QED  BY <1>3, <2>2
<1> HIDE DEF nest
<1>5. CASE i # 0
  <2> DEFINE body == nest[i - 1]
  <2>1. i \in 1 .. n
    BY <1>2, <1>5
  <2>2. Top(stack) # <<>> /\ Head(Top(stack)) = Block(body) /\ Tail(Top(stack)) = D[i]
    <3>1. IsSeq(D[i]) /\ Top(stack) = <<Block(body)>> \o D[i]
      BY <1>1, <1>3, <1>4, <2>1
    <3> HIDE DEF body
    <3>2. QED  BY <3>1, TailOf
  <2> HIDE DEF body
  <2>3. /\ Turning(f, N, next.frames) /\ next.selector = state /\ next.at = NoBlock
        /\ Len(next.frames) = Len(stack) + 1 /\ Top(next.frames) = body
        /\ next.frames[Len(stack)].ops = D[i]
        /\ \A j \in 1 .. Len(stack) - 1 : next.frames[j] = stack[j]
    <3>1. PutsIn(f, N, stack, body, Tail(Top(stack)), next) /\ next.selector = state
      BY <1>1, <2>2, PutIn
    <3> HIDE DEF next
    <3>2. QED  BY <2>2, <3>1 DEF PutsIn
  <2> HIDE DEF next
  <2> DEFINE k == i - 1
  <2>4. k \in 0 .. n /\ Len(next.frames) = 3 + (n - k)
    BY <1>1, <1>2, <2>1, <2>3
  <2>5. ASSUME NEW j \in k + 1 .. n PROVE next.frames[3 + (n - j)].ops = D[j]
    <3>1. CASE j = i
      <4>1. 3 + (n - j) = Len(stack)
        BY <1>1, <3>1
      <4>2. QED  BY <2>3, <3>1, <4>1
    <3>2. CASE j # i
      <4>1. j \in i + 1 .. n /\ 3 + (n - j) \in 1 .. Len(stack) - 1
        BY <1>1, <1>2, <2>1, <2>5, <3>2
      <4>2. QED  BY <1>1, <2>3, <4>1
    <3>3. QED  BY <3>1, <3>2
  <2>6. Top(next.frames) = nest[k]
    BY <2>3 DEF body
  <2> HIDE DEF k
  <2>7. Descends(f, N, next.frames, next.selector, b)
    BY <1>1, <2>3, <2>4, <2>5, <2>6 DEF Descends, nest, D, n
  <2>8. QED  BY <2>3, <2>7 DEF Reaches, Turns, next
<1>6. CASE i = 0
  <2> DEFINE instr == Table(f, N)
             depth == n - state - 1
             m == State(f)[b] + 3
  <2>1. Top(stack) = <<instr>> /\ Len(stack) = n + 3
    BY <1>1, <1>2, <1>4, <1>6
  <2>2. Top(stack) # <<>> /\ Head(Top(stack)) = instr /\ instr.op = "table" /\ instr.depth[state] = depth
    <3>1. instr.op = "table" /\ instr.depth[state] = depth
      BY <1>1, <1>2 DEF Table, n
    <3> HIDE DEF instr
    <3>2. QED  BY <2>1, <3>1, SingletonIsSeq
  <2>3. stack # <<>>
    BY <1>1, TurningIsSome
  <2> HIDE DEF instr
  <2>4. next = [frames |-> Branched(stack, depth), selector |-> state, at |-> NoBlock]
    BY <2>2, <2>3 DEF Stepped, Top
  <2>5. /\ Len(stack) - depth = m + 1 /\ ~(m + 1 < 1) /\ m \in 2 .. Len(stack)
        /\ m + 1 \in 3 .. Len(stack) /\ (m + 1) - 1 = m
    <3> DEFINE length == Len(stack)
    <3>1. /\ m = state + 3 /\ length = n + 3
          /\ state \in 0 .. n - 1 /\ depth = n - state - 1
      BY <1>1, <1>2, <2>1
    <3> HIDE DEF m, length, depth
    <3>2. /\ length - depth = m + 1 /\ ~(m + 1 < 1) /\ m \in 2 .. length
          /\ m + 1 \in 3 .. length /\ (m + 1) - 1 = m
      BY <1>2, <3>1
    <3>3. QED  BY <3>2 DEF length
  <2>6. stack[m + 1].again = NoCode
    BY <1>1, <2>5 DEF Turning
  <2> DEFINE cut == SubSeq(stack, 1, m)
  <2> HIDE DEF depth
  <2>7. Branched(stack, depth) = cut
    BY <2>5, <2>6 DEF Branched
  <2>8. stack[m].ops = DispatchedBlock(f, State(f), b)
    <3> DEFINE j == n - State(f)[b]
    <3>1. j \in i + 1 .. n /\ 3 + (n - j) = m
      BY <1>2, <1>6
    <3> HIDE DEF j
    <3>2. stack[3 + (n - j)].ops = D[j]
      BY <1>1, <3>1
    <3>3. QED  BY <1>3, <3>1, <3>2 DEF j
  <2> HIDE DEF m
  <2>9. Turning(f, N, cut) /\ Len(cut) = m /\ Top(cut) = stack[m].ops
    BY <1>1, <2>5, TurningCut
  <2>10. Enters(f, N, cut, b)
    BY <2>8, <2>9 DEF Enters, m
  <2> HIDE DEF cut, next
  <2>11. QED  BY <2>4, <2>7, <2>10 DEF Reaches, Turns, next
<1>7. QED  BY <1>5, <1>6

LEMMA EntersCase ==
    ASSUME NEW f, NEW N, Dispatchable(f, N), NEW stack, NEW state, NEW b \in N,
           Enters(f, N, stack, b)
    PROVE  Reaches(f, N, Stepped(stack, state), b)
<1> DEFINE rest == Tail(Top(stack))
           next == Stepped(stack, state)
           s == Put(stack, rest)
<1>1. /\ Turning(f, N, stack) /\ Len(stack) = State(f)[b] + 3
      /\ Top(stack) = DispatchedBlock(f, State(f), b)
  BY DEF Enters
<1>2. stack # <<>>
  BY <1>1, TurningIsSome
<1>3. Top(stack) # <<>> /\ Head(Top(stack)) = At(b)
  BY <1>1, DispatchedCode
<1>4. next = [frames |-> s, selector |-> state, at |-> b]
  BY <1>2, <1>3, ReachesBlock
<1> HIDE DEF rest
<1>5. Turning(f, N, s) /\ Top(s) = rest /\ Len(s) = Len(stack)
  BY <1>1, TurningPut
<1> HIDE DEF s
<1>6. Dwells(f, N, s, b)
  BY <1>1, <1>5 DEF Dwells, rest
<1> HIDE DEF next
<1>7. QED  BY <1>4, <1>6 DEF Reaches, next

LEMMA ReturnsOn ==
    ASSUME NEW f, NEW N, Dispatchable(f, N), NEW stack, NEW state, NEW b \in N,
           Returns(f, N, stack, state, b)
    PROVE  Reaches(f, N, Stepped(stack, state), b)
<1> DEFINE next == Stepped(stack, state)
<1>1. PICK c \in N : Len(stack) = State(f)[c] + 3 /\ Top(stack) = <<Jumping(f, c)>>
  BY DEF Returns
<1>2. Turning(f, N, stack) /\ state = State(f)[b]
  BY DEF Returns
<1> DEFINE instr == Jumping(f, c)
           depth == State(f)[c] + 1
           cut == SubSeq(stack, 1, 2)
           s == Put(cut, Turn(f, N))
<1>3. State(f)[c] \in Nat
  BY StateFacts
<1>4. instr.op = "jump" /\ instr.depth = depth
  BY DEF Jumping
<1> HIDE DEF instr
<1>5. Top(stack) # <<>> /\ Head(Top(stack)) = instr
  BY <1>1, SingletonIsSeq DEF instr
<1>6. stack # <<>> /\ Len(stack) \in Nat /\ Len(stack) >= 2
  BY <1>2, TurningIsSome
<1>7. next = [frames |-> Branched(stack, depth), selector |-> state, at |-> NoBlock]
  BY <1>4, <1>5, <1>6 DEF Stepped, Top
<1>8. Len(stack) - depth = 2 /\ 2 \in 2 .. Len(stack)
  BY <1>1, <1>3, <1>6
<1>9. stack[2].again = Turn(f, N) /\ Turn(f, N) # NoCode
  <2> DEFINE x == Block(Nested(<<Table(f, N)>>, Dispatches(f, N))[Cardinality(N)])
  <2>1. Turn(f, N) = <<x, Unreachable>>
    BY DEF Turn
  <2> HIDE DEF x
  <2>2. <<x, Unreachable>> # <<>>
    OBVIOUS
  <2>3. QED  BY <1>2, <2>1, <2>2 DEF Turning, NoCode
<1>10. Turning(f, N, cut) /\ Len(cut) = 2
  BY <1>2, <1>8, TurningCut
<1>11. Branched(stack, depth) = s
  <2> HIDE DEF depth
  <2>1. Branched(stack, depth) = [cut EXCEPT ![2].ops = stack[2].again]
    <3> DEFINE i == Len(stack) - depth
    <3>1. i = 2 /\ ~(i < 1)
      BY <1>8
    <3>2. Branched(stack, depth) =
            IF i < 1 THEN <<>>
            ELSE IF stack[i].again = NoCode THEN SubSeq(stack, 1, i - 1)
            ELSE [SubSeq(stack, 1, i) EXCEPT ![i].ops = stack[i].again]
      BY DEF Branched
    <3> HIDE DEF i
    <3>3. QED  BY <1>9, <3>1, <3>2
  <2> HIDE DEF cut
  <2>2. QED  BY <1>9, <1>10, <2>1 DEF Put
<1> HIDE DEF cut
<1>12. Turning(f, N, s) /\ Top(s) = Turn(f, N) /\ Len(s) = 2
  BY <1>10, TurningPut
<1> HIDE DEF s
<1>13. Starts(f, N, s, state, b)
  BY <1>2, <1>12 DEF Starts
<1> HIDE DEF next
<1>14. QED  BY <1>7, <1>11, <1>13 DEF Reaches, Turns, next

(* A step on the way to b stays on it or reaches b.                        *)
LEMMA TurnsReach ==
    ASSUME NEW f, NEW N, Dispatchable(f, N), NEW stack, NEW state, NEW b,
           Turns(f, N, stack, state, b)
    PROVE  Reaches(f, N, Stepped(stack, state), b)
<1>1. b \in N
  BY DEF Turns
<1>2. CASE Setup(f, N, stack, state, b)
  BY <1>1, <1>2, SetsUp
<1>3. CASE Starts(f, N, stack, state, b)
  BY <1>1, <1>3, StartsTurn
<1>4. CASE Descends(f, N, stack, state, b)
  BY <1>1, <1>4, DescendsOn
<1>5. CASE Enters(f, N, stack, b)
  BY <1>1, <1>5, EntersCase
<1>6. CASE Returns(f, N, stack, state, b)
  BY <1>1, <1>6, ReturnsOn
<1>7. QED  BY <1>2, <1>3, <1>4, <1>5, <1>6 DEF Turns

LEMMA DwellFacts ==
    ASSUME NEW f, NEW N, Dispatchable(f, N), NEW stack, NEW b, Dwells(f, N, stack, b)
    PROVE  /\ Head(Top(stack)).op \in {"leave", "select"} /\ Turning(f, N, stack)
           /\ Head(Top(stack)).op = "select" =>
                 Head(Top(stack)) = Selecting(f, b) /\ Tail(Top(stack)) = <<Jumping(f, b)>>
<1>1. \/ Top(stack) = <<Leave>>
      \/ Top(stack) = <<Selecting(f, b), Jumping(f, b)>>
  BY DispatchedCode DEF Dwells
<1>2. CASE Top(stack) = <<Leave>>
  <2>1. Head(Top(stack)) = Leave /\ Leave.op = "leave"
    BY <1>2, SingletonIsSeq DEF Leave
  <2>2. QED  BY <2>1 DEF Dwells
<1>3. CASE Top(stack) = <<Selecting(f, b), Jumping(f, b)>>
  <2> DEFINE x == Selecting(f, b)
             y == Jumping(f, b)
  <2>1. x.op = "select"
    BY DEF Selecting
  <2> HIDE DEF x, y
  <2>2. Head(<<x, y>>) = x /\ Tail(<<x, y>>) = <<y>>
    OBVIOUS
  <2>3. QED  BY <1>3, <2>1, <2>2 DEF x, y, Dwells
<1>4. QED  BY <1>1, <1>2, <1>3

LEMMA DwellsGoOn ==
    ASSUME NEW f, NEW N, Dispatchable(f, N), NEW stack, NEW b, Dwells(f, N, stack, b)
    PROVE  GoesOnAs(f, b, Head(Top(stack)))
<1>1. \/ f.succ[b] = {} /\ Top(stack) = <<Leave>>
      \/ f.succ[b] # {} /\ Top(stack) = <<Selecting(f, b), Jumping(f, b)>>
  BY DispatchedCode DEF Dwells
<1>2. b \notin TryBlocks(f) /\ b \notin f.throws
  BY DEF Dispatchable, Dwells
<1>3. CASE f.succ[b] = {} /\ Top(stack) = <<Leave>>
  <2>1. Head(Top(stack)) = Leave /\ Leave.op = "leave"
    BY <1>3, SingletonIsSeq DEF Leave
  <2>2. QED  BY <1>2, <1>3, <2>1 DEF GoesOnAs
<1>4. CASE f.succ[b] # {} /\ Top(stack) = <<Selecting(f, b), Jumping(f, b)>>
  <2> DEFINE x == Selecting(f, b)
             y == Jumping(f, b)
  <2>1. x.op = "select" /\ DOMAIN x.state = f.succ[b]
    BY DEF Selecting
  <2> HIDE DEF x, y
  <2>2. Head(<<x, y>>) = x
    OBVIOUS
  <2>3. Head(Top(stack)) = x
    BY <1>4, <2>2 DEF x, y
  <2>4. QED  BY <1>2, <1>4, <2>1, <2>3 DEF GoesOnAs
<1>5. QED  BY <1>1, <1>3, <1>4

LEMMA SelectTurns ==
    ASSUME NEW f, NEW N, Dispatchable(f, N), NEW stack, NEW b, Dwells(f, N, stack, b),
           Head(Top(stack)).op = "select", NEW t \in f.succ[b]
    PROVE  Turns(f, N, Put(stack, Tail(Top(stack))), Head(Top(stack)).state[t], t)
<1> DEFINE s == Put(stack, <<Jumping(f, b)>>)
<1>1. /\ Turning(f, N, stack) /\ Head(Top(stack)) = Selecting(f, b)
      /\ Tail(Top(stack)) = <<Jumping(f, b)>>
  BY DwellFacts
<1>2. b \in N /\ Len(stack) = State(f)[b] + 3
  BY DEF Dwells
<1>3. t \in N
  BY <1>2 DEF Dispatchable
<1>4. Head(Top(stack)).state[t] = State(f)[t]
  BY <1>1 DEF Selecting
<1>5. Turning(f, N, s) /\ Top(s) = <<Jumping(f, b)>> /\ Len(s) = Len(stack)
  BY <1>1, TurningPut
<1> HIDE DEF s
<1>6. Returns(f, N, s, State(f)[t], t)
  BY <1>2, <1>5 DEF Returns
<1>7. Turns(f, N, s, State(f)[t], t)
  BY <1>3, <1>6 DEF Turns
<1>8. QED  BY <1>1, <1>4, <1>7 DEF s

LEMMA NothingCaught ==
    ASSUME NEW f, NEW N, Dispatchable(f, N), NEW stack, NEW b, Dwells(f, N, stack, b), NEW tag
    PROVE  Caught(stack, tag) = <<>> /\ Landing(f, b, tag) = Nowhere
<1> DEFINE i == SelectLastInSeq(stack, LAMBDA r : tag \in r.catches)
           I == {j \in 1 .. Len(stack) : tag \in stack[j].catches}
<1>1. Turning(f, N, stack)
  BY DEF Dwells
<1>2. I = {}
  BY <1>1 DEF Turning
<1>3. i = IF I # {} THEN Max(I) ELSE 0
  BY DEF SelectLastInSeq
<1> HIDE DEF I
<1>4. Caught(stack, tag) = IF i = 0 THEN <<>> ELSE Branched(SubSeq(stack, 1, i - 1), 0)
  BY DEF Caught
<1>5. Caught(stack, tag) = <<>>
  BY <1>2, <1>3, <1>4
<1>6. Landing(f, b, tag) = Nowhere
  BY DEF Landing, Dispatchable
<1>7. QED  BY <1>5, <1>6

-----------------------------------------------------------------------------
(* The invariant *)

\* The stack leads to block b, or control is in b and its rest follows.
Placed(f, stack, state, place, b) ==
    \/ stack = <<>> /\ b = Nowhere /\ place \in {NoBlock, Nowhere}
    \/ \E N, dom, loops :
          /\ Looped(f, N, dom, loops)
          /\ \/ place = NoBlock /\ Heads(f, N, loops, stack, b)
             \/ place = b /\ b \in Blocks /\ Rests(f, N, loops, stack, b)
    \/ \E N :
          /\ Dispatchable(f, N)
          /\ \/ place = NoBlock /\ Turns(f, N, stack, state, b)
             \/ place = b /\ b \in Blocks /\ Dwells(f, N, stack, b)

Analysed(f) == \E N, dom : Verified(f, N, dom) /\ f.edges = UnwindEdges(f)

Follows ==
    /\ phase \in {"built", "graph", "code"} => at = NoBlock
    /\ phase = "built" => function \in Functions
    /\ phase \notin {"built", "invalid"} => Analysed(function)
    /\ phase = "code" => Placed(function, frames, selector, NoBlock, function.entry)
    /\ phase = "run" => Placed(function, frames, selector, at, chosen)

LEMMA NoBlocks == NoBlock \notin Blocks /\ Nowhere \notin Blocks /\ NoBlock # Nowhere
BY BlocksAssumption DEF NoBlock, Nowhere

LEMMA RestsInBlock ==
    ASSUME NEW f, NEW N, NEW loops, NEW stack, NEW b, Rests(f, N, loops, stack, b)
    PROVE  b \in Blocks
BY DEF Rests, Resting

LEMMA PlacedStep ==
    ASSUME NEW f, NEW stack, NEW state, NEW b, Placed(f, stack, state, NoBlock, b),
           NEW next, next = Stepped(stack, state)
    PROVE  Placed(f, next.frames, next.selector, next.at, b)
<1>1. CASE stack = <<>> /\ b = Nowhere
  <2>1. next = [frames |-> <<>>, selector |-> state, at |-> Nowhere]
    BY <1>1 DEF Stepped
  <2>2. QED  BY <1>1, <2>1 DEF Placed
<1>2. ASSUME NEW N, NEW dom, NEW loops, Looped(f, N, dom, loops),
             Heads(f, N, loops, stack, b)
      PROVE  Placed(f, next.frames, next.selector, next.at, b)
  <2>1. Arrives(f, N, loops, next, state, b)
    BY <1>2, StepArrives
  <2>2. CASE next.at = NoBlock /\ Heads(f, N, loops, next.frames, b)
    BY <1>2, <2>2 DEF Placed
  <2>3. CASE next.at = b /\ Rests(f, N, loops, next.frames, b)
    <3>1. b \in Blocks
      BY <2>3, RestsInBlock
    <3>2. QED  BY <1>2, <2>3, <3>1 DEF Placed
  <2>4. QED  BY <2>1, <2>2, <2>3 DEF Arrives
<1>3. ASSUME NEW N, Dispatchable(f, N), Turns(f, N, stack, state, b)
      PROVE  Placed(f, next.frames, next.selector, next.at, b)
  <2>1. Reaches(f, N, next, b)
    BY <1>3, TurnsReach
  <2>2. b \in Blocks
    BY <1>3 DEF Turns, Dispatchable
  <2>3. QED  BY <1>3, <2>1, <2>2 DEF Placed, Reaches
<1>4. ASSUME NEW N, NEW loops, Rests(f, N, loops, stack, b), NoBlock = b PROVE FALSE
  BY <1>4, RestsInBlock, NoBlocks
<1>5. QED  BY <1>1, <1>2, <1>3, <1>4, NoBlocks DEF Placed

LEMMA PlacedIn ==
    ASSUME NEW f, NEW stack, NEW state, NEW place \in Blocks, NEW b, Placed(f, stack, state, place, b)
    PROVE  /\ place = b
           /\ \/ \E N, dom, loops : Looped(f, N, dom, loops) /\ Rests(f, N, loops, stack, b)
              \/ \E N : Dispatchable(f, N) /\ Dwells(f, N, stack, b)
BY NoBlocks DEF Placed

LEMMA PlacedTake ==
    ASSUME NEW f, NEW stack, NEW state, NEW place \in Blocks, NEW b, Placed(f, stack, state, place, b),
           Head(Top(stack)).op = "br", NEW t \in f.succ[place]
    PROVE  Placed(f, Branched(stack, Head(Top(stack)).depth[t]), state, NoBlock, t)
<1>1. place = b
  BY PlacedIn
<1>2. ASSUME NEW N, NEW dom, NEW loops, Looped(f, N, dom, loops), Rests(f, N, loops, stack, b)
      PROVE  Placed(f, Branched(stack, Head(Top(stack)).depth[t]), state, NoBlock, t)
  <2>1. Heads(f, N, loops, Branched(stack, Head(Top(stack)).depth[t]), t)
    BY <1>1, <1>2, TakeHeads
  <2>2. QED  BY <1>2, <2>1 DEF Placed
<1>3. ASSUME NEW N, Dispatchable(f, N), Dwells(f, N, stack, b) PROVE FALSE
  BY <1>3, DwellFacts
<1>4. QED  BY <1>2, <1>3, PlacedIn

LEMMA PlacedSelect ==
    ASSUME NEW f, NEW stack, NEW state, NEW place \in Blocks, NEW b, Placed(f, stack, state, place, b),
           Head(Top(stack)).op = "select", NEW t \in f.succ[place]
    PROVE  Placed(f, Put(stack, Tail(Top(stack))), Head(Top(stack)).state[t], NoBlock, t)
<1>1. place = b
  BY PlacedIn
<1>2. ASSUME NEW N, NEW loops, Rests(f, N, loops, stack, b) PROVE FALSE
  BY <1>2, NoSelect
<1>3. ASSUME NEW N, Dispatchable(f, N), Dwells(f, N, stack, b)
      PROVE  Placed(f, Put(stack, Tail(Top(stack))), Head(Top(stack)).state[t], NoBlock, t)
  <2>1. Turns(f, N, Put(stack, Tail(Top(stack))), Head(Top(stack)).state[t], t)
    BY <1>1, <1>3, SelectTurns
  <2>2. QED  BY <1>3, <2>1 DEF Placed
<1>4. QED  BY <1>2, <1>3, PlacedIn

LEMMA PlacedArm ==
    ASSUME NEW f, NEW stack, NEW state, NEW place \in Blocks, NEW b, Placed(f, stack, state, place, b),
           Head(Top(stack)).op = "block"
    PROVE  Placed(f, stack, state, NoBlock, f.tries[place].entry)
<1>1. place = b
  BY PlacedIn
<1>2. ASSUME NEW N, NEW dom, NEW loops, Looped(f, N, dom, loops), Rests(f, N, loops, stack, b)
      PROVE  Placed(f, stack, state, NoBlock, f.tries[place].entry)
  <2>1. Heads(f, N, loops, stack, f.tries[place].entry)
    BY <1>1, <1>2, ArmHeads
  <2>2. QED  BY <1>2, <2>1 DEF Placed
<1>3. ASSUME NEW N, Dispatchable(f, N), Dwells(f, N, stack, b) PROVE FALSE
  BY <1>3, DwellFacts
<1>4. QED  BY <1>2, <1>3, PlacedIn

LEMMA PlacedRaise ==
    ASSUME NEW f, NEW stack, NEW state, NEW place \in Blocks, NEW b, Placed(f, stack, state, place, b),
           NEW tag
    PROVE  Placed(f, Caught(stack, tag), state, NoBlock, Landing(f, place, tag))
<1>1. place = b
  BY PlacedIn
<1>2. ASSUME NEW N, NEW dom, NEW loops, Looped(f, N, dom, loops), Rests(f, N, loops, stack, b)
      PROVE  Placed(f, Caught(stack, tag), state, NoBlock, Landing(f, b, tag))
  <2>1. \/ Caught(stack, tag) = <<>> /\ Landing(f, b, tag) = Nowhere
        \/ Heads(f, N, loops, Caught(stack, tag), Landing(f, b, tag))
    BY <1>2, CaughtLands
  <2>2. QED  BY <1>2, <2>1 DEF Placed
<1>3. ASSUME NEW N, Dispatchable(f, N), Dwells(f, N, stack, b)
      PROVE  Placed(f, Caught(stack, tag), state, NoBlock, Landing(f, b, tag))
  <2>1. Caught(stack, tag) = <<>> /\ Landing(f, b, tag) = Nowhere
    BY <1>3, NothingCaught
  <2>2. QED  BY <2>1 DEF Placed
<1>4. QED  BY <1>1, <1>2, <1>3, PlacedIn

LEMMA PlacedGoesOn ==
    ASSUME NEW f, NEW stack, NEW state, NEW place \in Blocks, NEW b, Placed(f, stack, state, place, b)
    PROVE  place = b /\ GoesOnAs(f, place, Head(Top(stack)))
<1>1. place = b
  BY PlacedIn
<1>2. \A N, loops : Rests(f, N, loops, stack, b) => GoesOnAs(f, b, Head(Top(stack)))
  BY RestsGoOn
<1>3. \A N : Dispatchable(f, N) /\ Dwells(f, N, stack, b) => GoesOnAs(f, b, Head(Top(stack)))
  BY DwellsGoOn
<1>4. QED  BY <1>1, <1>2, <1>3, PlacedIn


SameBut(f, planned, raw, g, edges) ==
    /\ g.entry = f.entry /\ g.succ = f.succ /\ g.throws = f.throws /\ g.tries = f.tries
    /\ g.raw = raw /\ g.edges = edges
    /\ planned.entry = g.entry /\ planned.succ = g.succ /\ planned.throws = g.throws
    /\ planned.tries = g.tries /\ planned.raw = g.raw

LEMMA RecordAnalysed ==
    ASSUME NEW f \in Functions, NEW raw, NEW planned, planned = [f EXCEPT !.raw = raw],
           NEW edges, NEW g, g = [planned EXCEPT !.edges = edges]
    PROVE  SameBut(f, planned, raw, g, edges)
<1>1. PICK e, s, t, y, r, x :
        f = [entry |-> e, succ |-> s, throws |-> t, tries |-> y, raw |-> r, edges |-> x]
  BY DEF Functions
<1>2. planned = [entry |-> e, succ |-> s, throws |-> t, tries |-> y, raw |-> raw, edges |-> x]
  BY <1>1
<1>3. g = [entry |-> e, succ |-> s, throws |-> t, tries |-> y, raw |-> raw, edges |-> edges]
  <2>1. \A p : p = [entry |-> e, succ |-> s, throws |-> t, tries |-> y, raw |-> raw, edges |-> x]
          => [p EXCEPT !.edges = edges]
               = [entry |-> e, succ |-> s, throws |-> t, tries |-> y, raw |-> raw, edges |-> edges]
    OBVIOUS
  <2>2. QED  BY <1>2, <2>1
<1>4. QED  BY <1>1, <1>2, <1>3 DEF SameBut

\* What an analysis takes from a function.
LEMMA SameSeeds ==
    ASSUME NEW f, NEW g, g.succ = f.succ, g.tries = f.tries
    PROVE  SeedEdges(g) = SeedEdges(f)
BY DEF SeedEdges, TryBlocks

LEMMA SameLanding ==
    ASSUME NEW f, NEW g, g.tries = f.tries, g.raw = f.raw, NEW b, NEW tag
    PROVE  Landing(g, b, tag) = Landing(f, b, tag)
BY DEF Landing, TryBlocks

LEMMA SameUnwinding ==
    ASSUME NEW f, NEW g, g.succ = f.succ, g.tries = f.tries, g.throws = f.throws, g.raw = f.raw
    PROVE  UnwindEdges(g) = UnwindEdges(f)
<1>1. SeedEdges(g) = SeedEdges(f)
  BY SameSeeds
<1>2. \A b : {Landing(g, b, x) : x \in Tags} = {Landing(f, b, x) : x \in Tags}
  BY SameLanding
<1>3. QED  BY <1>1, <1>2 DEF UnwindEdges

(* What the verifier keeps of a function it accepts.                       *)
LEMMA VerifyAnalyses ==
    ASSUME NEW f \in Functions, NEW dom, dom = Dominators(f, Predecessors(f, SeedEdges(f))),
           NEW planned, planned = [f EXCEPT !.raw = RawRegions(f, dom)],
           NEW g, g = [planned EXCEPT !.edges = UnwindEdges(planned)],
           RegionsVerified(f, dom)
    PROVE  Analysed(g)
<1> DEFINE N == Reachable(f, SeedEdges(f))
           raw == RawRegions(f, dom)
           edges == UnwindEdges(planned)
<1>1. /\ f = [entry |-> f.entry, succ |-> f.succ, throws |-> f.throws, tries |-> f.tries,
              raw |-> f.raw, edges |-> f.edges]
      /\ Typed(f) /\ Lowered(f)
  <2>1. PICK T \in SUBSET Blocks :
          f.tries \in [T -> [entry : Blocks, handler : Blocks, exit : Blocks \cup {NoBlock},
                             catches : SUBSET Tags]]
    BY DEF Functions
  <2>2. TryBlocks(f) = T
    BY <2>1 DEF TryBlocks
  <2>3. \A t \in T : /\ f.tries[t].entry \in Blocks /\ f.tries[t].handler \in Blocks
                     /\ f.tries[t].exit \in Blocks \cup {NoBlock}
                     /\ f.tries[t].catches \subseteq Tags
    BY <2>1
  <2>4. f.entry \in Blocks /\ f.succ \in [Blocks -> SUBSET Blocks] /\ f.throws \subseteq Blocks
    BY DEF Functions
  <2>5. Typed(f)
    BY <2>2, <2>3, <2>4 DEF Typed
  <2>6. QED  BY <2>5 DEF Functions
<1> HIDE DEF raw, edges
<1>2. planned = [f EXCEPT !.raw = raw] /\ g = [planned EXCEPT !.edges = edges]
  BY DEF raw, edges
<1>3. /\ g.entry = f.entry /\ g.succ = f.succ /\ g.throws = f.throws /\ g.tries = f.tries
      /\ g.raw = raw /\ g.edges = edges
      /\ planned.entry = g.entry /\ planned.succ = g.succ /\ planned.throws = g.throws
      /\ planned.tries = g.tries /\ planned.raw = g.raw
  <2>1. SameBut(f, planned, raw, g, edges)
    BY <1>2, RecordAnalysed
  <2>2. QED  BY <2>1 DEF SameBut
<1>4. g.raw = RawRegions(f, dom) /\ g.edges = UnwindEdges(planned)
  BY <1>3 DEF raw, edges
<1>5. TryBlocks(g) = TryBlocks(f) /\ TryBlocks(planned) = TryBlocks(g)
  BY <1>3 DEF TryBlocks
<1>6. SeedEdges(g) = SeedEdges(f)
  BY <1>3, SameSeeds
<1>7. UnwindEdges(planned) = UnwindEdges(g)
  BY <1>3, SameUnwinding
<1>8. g.edges = UnwindEdges(g)
  BY <1>4, <1>7
<1>9. Typed(g)
  BY <1>1, <1>3, <1>5 DEF Typed
<1>10. Lowered(g)
  BY <1>1, <1>3, <1>5, <1>6 DEF Lowered
<1>11. RegionsVerified(g, dom)
  BY <1>3, <1>5 DEF RegionsVerified
<1>12. g.raw = RawRegions(g, dom)
  BY <1>4, <1>5 DEF RawRegions
<1>13. SeedEdges(f) \in [Blocks -> SUBSET Blocks] /\ IsFiniteSet(Blocks) /\ f.entry \in Blocks
  BY <1>1, SeedFacts, BlocksAssumption DEF Typed
<1>14. /\ N \subseteq Blocks /\ IsFiniteSet(N) /\ ReachSet(f.entry, SeedEdges(f), N)
       /\ DomTree(f.entry, SeedEdges(f), N, dom)
  BY <1>13, DominatorsFacts
<1> HIDE DEF N
<1>15. Verified(g, N, dom)
  BY <1>3, <1>6, <1>9, <1>10, <1>11, <1>12, <1>14 DEF Verified
<1>16. QED  BY <1>8, <1>15 DEF Analysed

(* The dispatcher of a function without regions.                           *)
LEMMA DispatcherPlaced ==
    ASSUME NEW f, Analysed(f), TryBlocks(f) = {}, f.throws \cap Reachable(f, f.edges) = {}
    PROVE  \A state : Placed(f, <<Frame(EmitDispatcher(f))>>, state, NoBlock, f.entry)
<1>1. PICK N, dom : Verified(f, N, dom) /\ f.edges = UnwindEdges(f)
  BY DEF Analysed
<1>2. /\ f.edges \in [Blocks -> SUBSET Blocks]
      /\ \A b \in Blocks : f.succ[b] \subseteq f.edges[b]
      /\ ReachSet(f.entry, f.edges, N)
  BY <1>1, UnwindFacts
<1>3. /\ f.entry \in Blocks /\ IsFiniteSet(Blocks) /\ N \subseteq Blocks /\ IsFiniteSet(N)
      /\ Blocks \subseteq Nat
  BY <1>1, BlocksAssumption DEF Verified, Typed
<1> DEFINE M == Reachable(f, f.edges)
<1>4. ReachSet(f.entry, f.edges, M)
  BY <1>2, <1>3, DominatorsFacts
<1> HIDE DEF M
<1>5. M = N
  <2>1. \A W : f.entry \in W /\ Closed(f.edges, W) => N \subseteq W
    BY <1>2 DEF ReachSet
  <2>2. \A W : f.entry \in W /\ Closed(f.edges, W) => M \subseteq W
    BY <1>4 DEF ReachSet
  <2>3. f.entry \in M /\ Closed(f.edges, M) /\ f.entry \in N /\ Closed(f.edges, N)
    BY <1>2, <1>4 DEF ReachSet
  <2>4. QED  BY <2>1, <2>2, <2>3
<1>6. \A b \in N : f.succ[b] \subseteq N
  <2>1. Closed(f.edges, N)
    BY <1>2 DEF ReachSet
  <2>2. \A b \in N : f.edges[b] \subseteq N
    BY <1>2, <1>3, <2>1 DEF Closed
  <2>3. QED  BY <1>2, <1>3, <2>2
<1>7. Dispatchable(f, N)
  BY <1>2, <1>3, <1>5, <1>6 DEF Dispatchable, ReachSet, M
<1>8. EmitDispatcher(f) = <<Setting(f), Loop(Turn(f, N))>>
  BY <1>7, DispatcherCode
<1> DEFINE s == <<Frame(EmitDispatcher(f))>>
<1>9. \A state : Setup(f, N, s, state, f.entry)
  BY <1>8 DEF Setup
<1> HIDE DEF s
<1>10. f.entry \in N
  BY <1>7 DEF Dispatchable
<1>11. \A state : Turns(f, N, s, state, f.entry)
  BY <1>9, <1>10 DEF Turns
<1>12. \A state : Placed(f, s, state, NoBlock, f.entry)
  BY <1>7, <1>11 DEF Placed
<1>13. QED  BY <1>12 DEF s

LEMMA StructuredPlaced ==
    ASSUME NEW f, Analysed(f), NEW preds, preds = Predecessors(f, f.edges),
           NEW dom, dom = Dominators(f, preds), NEW loops, loops = NaturalLoops(f, preds, dom),
           NEW code, code = EmitRegion(f, loops)[<<RootUnit(f), <<>>>>],
           HeadersDominate(loops, dom), TriesNest(f, loops), code # NoCode, NEW state
    PROVE  Placed(f, <<Frame(code)>>, state, NoBlock, f.entry)
<1>1. PICK N, d : Verified(f, N, d) /\ f.edges = UnwindEdges(f)
  BY DEF Analysed
<1>2. Looped(f, N, d, loops)
  BY <1>1, LoopsFound
<1>3. Heads(f, N, loops, <<Frame(code)>>, f.entry)
  BY <1>2, CodeHeads
<1>4. QED  BY <1>2, <1>3 DEF Placed

(* The invariant is inductive. *)
LEMMA FollowsStep ==
    Follows /\ [Next]_vars => Follows'
<1>1. SUFFICES ASSUME Follows, [Next]_vars PROVE Follows'
  OBVIOUS
<1>2. CASE UNCHANGED vars
  BY <1>1, <1>2 DEF Follows, vars, Placed, Analysed
<1>a. phase \notin {"built", "invalid"} /\ function' = function => Analysed(function')
  <2>1. phase \notin {"built", "invalid"} => Analysed(function)
    BY <1>1 DEF Follows
  <2>2. QED  BY <2>1
<1>3. CASE Verify
  <2> DEFINE dom == Dominators(function, Predecessors(function, SeedEdges(function)))
             planned == [function EXCEPT !.raw = RawRegions(function, dom)]
  <2>1. /\ phase = "built" /\ at' = at
        /\ function' = [planned EXCEPT !.edges = UnwindEdges(planned)]
        /\ phase' = IF RegionsVerified(function, dom) THEN "graph" ELSE "invalid"
    BY <1>3 DEF Verify
  <2>2. function \in Functions /\ at' = NoBlock
    BY <1>1, <2>1 DEF Follows
  <2>3. RegionsVerified(function, dom) => Analysed(function')
    BY <2>1, <2>2, VerifyAnalyses
  <2> HIDE DEF dom, planned
  <2>4. phase' = "graph" => Analysed(function')
    BY <2>1, <2>3
  <2>5. phase' \in {"graph", "invalid"}
    BY <2>1
  <2>6. QED  BY <2>2, <2>4, <2>5 DEF Follows
<1>4. CASE Structure
  <2> DEFINE f == function
             preds == Predecessors(f, f.edges)
             dom == Dominators(f, preds)
             loops == NaturalLoops(f, preds, dom)
             code == EmitRegion(f, loops)[<<RootUnit(f), <<>>>>]
  <2>1. phase = "graph" /\ function' = f /\ selector' = selector /\ at' = at
    BY <1>4 DEF Structure
  <2>2. \/ Rejected
        \/ /\ TryBlocks(f) = {} /\ f.throws \cap DOMAIN preds = {}
           /\ Emitted(EmitDispatcher(f))
        \/ HeadersDominate(loops, dom) /\ TriesNest(f, loops) /\ code # NoCode /\ Emitted(code)
    BY <1>4 DEF Structure
  <2>3. Analysed(f) /\ at' = NoBlock
    BY <1>1, <2>1 DEF Follows
  <2>4. CASE Rejected
    BY <1>a, <2>1, <2>3, <2>4 DEF Rejected, Follows
  <2>5. CASE /\ TryBlocks(f) = {} /\ f.throws \cap DOMAIN preds = {}
             /\ Emitted(EmitDispatcher(f))
    <3>0. DOMAIN preds = Reachable(f, f.edges)
      BY DEF Predecessors
    <3>1. Placed(f, <<Frame(EmitDispatcher(f))>>, selector, NoBlock, f.entry)
      BY <2>3, <2>5, <3>0, DispatcherPlaced
    <3> HIDE DEF f
    <3>2. frames' = <<Frame(EmitDispatcher(f))>> /\ phase' = "code"
      BY <2>5 DEF Emitted
    <3>3. Placed(function', frames', selector', NoBlock, function'.entry)
      BY <2>1, <3>1, <3>2
    <3>4. QED  BY <1>a, <2>1, <2>3, <3>2, <3>3 DEF Follows
  <2>6. CASE HeadersDominate(loops, dom) /\ TriesNest(f, loops) /\ code # NoCode /\ Emitted(code)
    <3>1. Placed(f, <<Frame(code)>>, selector, NoBlock, f.entry)
      BY <2>3, <2>6, StructuredPlaced
    <3> HIDE DEF f, code
    <3>2. frames' = <<Frame(code)>> /\ phase' = "code"
      BY <2>6 DEF Emitted
    <3>3. Placed(function', frames', selector', NoBlock, function'.entry)
      BY <2>1, <3>1, <3>2
    <3>4. QED  BY <1>a, <2>1, <2>3, <3>2, <3>3 DEF Follows
  <2>7. QED  BY <2>2, <2>4, <2>5, <2>6
<1>5. CASE Call
  BY <1>1, <1>5 DEF Follows, Call
<1>6. CASE Step
  <2> DEFINE next == Stepped(frames, selector)
  <2>1. /\ phase = "run" /\ at = NoBlock /\ phase' = "run"
        /\ frames' = next.frames /\ selector' = next.selector /\ at' = next.at
        /\ function' = function /\ chosen' = chosen
    BY <1>6 DEF Step
  <2>2. Placed(function, frames, selector, NoBlock, chosen)
    BY <1>1, <2>1 DEF Follows
  <2>3. Placed(function, next.frames, next.selector, next.at, chosen)
    BY <2>2, PlacedStep
  <2> HIDE DEF next
  <2>4. Placed(function', frames', selector', at', chosen')
    BY <2>1, <2>3
  <2>5. QED  BY <1>a, <2>1, <2>4 DEF Follows
<1> DEFINE Here == /\ phase = "run" /\ phase' = "run" /\ function' = function /\ at \in Blocks
                   /\ Placed(function, frames, selector, at, chosen)
<1>7. Instruction = Head(Top(frames)) /\ Advanced = Put(frames, Tail(Top(frames)))
  BY DEF Instruction, Advanced, Last, Top, Put
<1>8. CASE Arm
  <2>1. /\ Here /\ Instruction.op = "block"
        /\ frames' = frames /\ selector' = selector /\ at' = NoBlock
        /\ chosen' = function.tries[at].entry
    BY <1>1, <1>8 DEF Arm, Ends, InBlock, GoesOn, Follows
  <2>2. Placed(function, frames, selector, NoBlock, function.tries[at].entry)
    BY <1>7, <2>1, PlacedArm
  <2>3. Placed(function', frames', selector', at', chosen')
    BY <2>1, <2>2
  <2>4. QED  BY <1>a, <2>1, <2>3 DEF Follows
<1>9. CASE Take
  <2>1. PICK t \in function.succ[at] :
          /\ Here /\ Instruction.op = "br"
          /\ frames' = Branched(frames, Instruction.depth[t]) /\ selector' = selector
          /\ at' = NoBlock /\ chosen' = t
    BY <1>1, <1>9 DEF Take, Ends, InBlock, GoesOn, Follows
  <2>2. Placed(function, Branched(frames, Instruction.depth[t]), selector, NoBlock, t)
    BY <1>7, <2>1, PlacedTake
  <2>3. Placed(function', frames', selector', at', chosen')
    BY <2>1, <2>2
  <2>4. QED  BY <1>a, <2>1, <2>3 DEF Follows
<1>10. CASE Select
  <2>1. PICK t \in function.succ[at] :
          /\ Here /\ Instruction.op = "select"
          /\ frames' = Advanced /\ selector' = Instruction.state[t]
          /\ at' = NoBlock /\ chosen' = t
    BY <1>1, <1>10 DEF Select, Ends, InBlock, GoesOn, Follows
  <2>2. Placed(function, Advanced, Instruction.state[t], NoBlock, t)
    BY <1>7, <2>1, PlacedSelect
  <2>3. Placed(function', frames', selector', at', chosen')
    BY <2>1, <2>2
  <2>4. QED  BY <1>a, <2>1, <2>3 DEF Follows
<1>11. CASE Raise
  <2>1. PICK tag \in Tags :
          /\ Here
          /\ frames' = Caught(frames, tag) /\ selector' = selector
          /\ at' = NoBlock /\ chosen' = Landing(function, at, tag)
    BY <1>1, <1>11 DEF Raise, InBlock, GoesOn, Follows
  <2>2. Placed(function, Caught(frames, tag), selector, NoBlock, Landing(function, at, tag))
    BY <2>1, PlacedRaise
  <2>3. Placed(function', frames', selector', at', chosen')
    BY <2>1, <2>2
  <2>4. QED  BY <1>a, <2>1, <2>3 DEF Follows
<1>12. CASE Exit
  BY <1>12, <1>a DEF Follows, Exit, Ends, InBlock
<1>13. QED
  BY <1>1, <1>2, <1>3, <1>4, <1>5, <1>6, <1>8, <1>9, <1>10, <1>11, <1>12 DEF Next

LEMMA FollowsInit == Init => Follows
BY DEF Init, Start, Follows

LEMMA FollowsGraph == Follows => CodeFollowsGraph
<1>1. SUFFICES ASSUME Follows, phase = "run"
               PROVE  /\ at \in {NoBlock, chosen}
                      /\ at \in Blocks => GoesOnAs(function, at, Instruction)
  BY DEF CodeFollowsGraph
<1>2. Placed(function, frames, selector, at, chosen)
  BY <1>1 DEF Follows
<1>3. at \in {NoBlock, chosen}
  BY <1>2 DEF Placed
<1>4. Instruction = Head(Top(frames))
  BY DEF Instruction, Last, Top
<1>5. at \in Blocks => GoesOnAs(function, at, Instruction)
  BY <1>2, <1>4, PlacedGoesOn
<1>6. QED  BY <1>3, <1>5

(* Whatever the emitted code is and whatever its branches, calls and throws  *)
(* decide, control is on its way to the block the graph's edges chose, in    *)
(* it, or has left as chosen, and the code of a block has a branch for every *)
(* edge of it: every branch, dispatch and unwinding of the Wasm code follows *)
(* the graph, for every function the verifier accepts.                       *)
THEOREM CodeFollowsGraphHolds == Spec => []CodeFollowsGraph
<1>1. Init => Follows
  BY FollowsInit
<1>2. Follows /\ [Next]_vars => Follows'
  BY FollowsStep
<1>3. Follows => CodeFollowsGraph
  BY FollowsGraph
<1>4. QED  BY <1>1, <1>2, <1>3, PTL DEF Spec

\* try_region::plan: no two regions overlap without one holding the other.
RegionsNest ==
    phase \notin {"built", "invalid"} =>
        \A t, u \in TryBlocks(function) :
            \/ function.raw[t] \cap function.raw[u] = {}
            \/ function.raw[t] \subseteq function.raw[u]
            \/ function.raw[u] \subseteq function.raw[t]

(* The regions of every function the verifier accepts are nested or disjoint *)
(* because dominance is a tree order, as the comment above try_region::plan  *)
(* says: its check that no two regions overlap, which the model leaves out,  *)
(* never fails.                                                              *)
THEOREM RegionsNestAlways == Spec => []RegionsNest
<1>1. Init => Follows
  BY FollowsInit
<1>2. Follows /\ [Next]_vars => Follows'
  BY FollowsStep
<1>3. Follows => RegionsNest
  <2>1. SUFFICES ASSUME Follows, phase \notin {"built", "invalid"},
                        NEW t \in TryBlocks(function), NEW u \in TryBlocks(function),
                        NEW b \in function.raw[t], b \in function.raw[u]
                 PROVE  \/ function.raw[t] \subseteq function.raw[u]
                        \/ function.raw[u] \subseteq function.raw[t]
    BY DEF RegionsNest
  <2>2. PICK N, dom : Verified(function, N, dom)
    BY <2>1 DEF Follows, Analysed
  <2>3. t = u \/ t \in function.raw[u] \/ u \in function.raw[t]
    BY <2>1, <2>2, RawNested
  <2>4. QED  BY <2>1, <2>2, <2>3, RawWithin
<1>4. QED  BY <1>1, <1>2, <1>3, PTL DEF Spec

-----------------------------------------------------------------------------
(* No check of the analysis fails *)

(* Unwinding changes no dominators: a block that is unwound to a handler is  *)
(* dominated by the try block, which leads to the handler anyway.            *)
LEMMA UnwindDominators ==
    ASSUME NEW f, NEW N, NEW dom, Verified(f, N, dom), f.edges = UnwindEdges(f)
    PROVE  DomTree(f.entry, f.edges, N, dom)
<1> DEFINE e == f.entry
           seed == SeedEdges(f)
<1>1. /\ Typed(f) /\ N \subseteq Blocks /\ ReachSet(e, seed, N) /\ DomTree(e, seed, N, dom)
  BY DEF Verified
<1>2. /\ dom \in [N -> SUBSET N] /\ dom[e] = {e} /\ \A b \in N : b \in dom[b]
      /\ \A b \in N \ {e}, p \in N : \A x \in dom[b] : b \in seed[p] /\ x # b => x \in dom[p]
      /\ \A x \in N, Y \in SUBSET N : Guards(e, seed, N, x, Y) => \A b \in Y : x \in dom[b]
  BY <1>1 DEF DomTree
<1>3. \A b \in Blocks : seed[b] \subseteq f.edges[b]
  BY UnwindFacts
<1>4. ASSUME NEW b \in N \ {e}, NEW p \in N, NEW x \in dom[b], b \in f.edges[p], x # b
      PROVE  x \in dom[p]
  <2>1. CASE b \in seed[p]
    BY <1>2, <1>4, <2>1
  <2>2. CASE b \notin seed[p]
    <3>1. PICK tag \in Tags : Landing(f, p, tag) = b /\ b # Nowhere
      <4>1. f.edges[p] = seed[p] \cup (IF p \in f.throws THEN {Landing(f, p, z) : z \in Tags} \ {Nowhere}
                                       ELSE {})
        BY <1>1 DEF UnwindEdges
      <4>2. QED  BY <1>4, <2>2, <4>1
    <3>2. PICK t \in Catching(f, p, tag) : b = f.tries[t].handler
      BY <3>1, LandingFacts
    <3>3. t \in TryBlocks(f) /\ p \in f.raw[t]
      BY DEF Catching
    <3>4. t \in N /\ t \in dom[p]
      BY <3>3, TryDominates
    <3>5. b \in seed[t]
      BY <1>1, <3>2, <3>3, SeedFacts
    <3>6. x \in dom[t]
      BY <1>2, <1>4, <3>4, <3>5
    <3> HIDE DEF seed, e
    <3>7. QED  BY <1>1, <3>4, <3>6, DominatesTransitive
  <2>3. QED  BY <2>1, <2>2
<1>5. ASSUME NEW x \in N, NEW Y \in SUBSET N, Guards(e, f.edges, N, x, Y), NEW b \in Y
      PROVE  x \in dom[b]
  <2>1. \A p \in N : seed[p] \subseteq f.edges[p]
    BY <1>1, <1>3
  <2> HIDE DEF seed, e
  <2>2. Guards(e, seed, N, x, Y)
    BY <1>5, <2>1 DEF Guards
  <2>3. QED  BY <1>2, <1>5, <2>2
<1> HIDE DEF seed, e
<1>6. DomTree(e, f.edges, N, dom)
  BY <1>2, <1>4, <1>5 DEF DomTree
<1>7. QED  BY <1>6 DEF e

(* There is one dominator tree.                                             *)
LEMMA SameDominators ==
    ASSUME NEW e, NEW next, NEW N, NEW dom, NEW flow,
           DomTree(e, next, N, dom), DomTree(e, next, N, flow)
    PROVE  flow = dom
<1>1. \A p \in N : next[p] \subseteq next[p]
  OBVIOUS
<1>2. \A b \in N : flow[b] \subseteq dom[b] /\ dom[b] \subseteq flow[b]
  BY <1>1, MoreEdges
<1>3. flow \in [N -> SUBSET N] /\ dom \in [N -> SUBSET N]
  BY DEF DomTree
<1>4. QED  BY <1>2, <1>3

(* What holds of the loops of f whatever the plan's checks say: a loop is    *)
(* what leads to its back edges without passing its header.                  *)
Natural(f, N, dom, loops) ==
    /\ Verified(f, N, dom) /\ f.edges = UnwindEdges(f)
    /\ DomTree(f.entry, f.edges, N, dom)
    /\ \A l \in loops :
          /\ l.header \in N /\ l.blocks \subseteq N /\ l.header \in l.blocks
          /\ \A b \in l.blocks \ {l.header}, s \in N : b \in f.edges[s] => s \in l.blocks
          /\ \A W : /\ l.header \in W
                    /\ \A s \in N : l.header \in f.succ[s] /\ l.header \in dom[s] => s \in W
                    /\ \A b \in W \ {l.header}, s \in N : b \in f.edges[s] => s \in W
                    => l.blocks \subseteq W
    /\ \A l, k \in loops : l.header = k.header => l = k
    /\ \A h, s \in N : h \in f.succ[s] /\ h \in dom[s]
                          => \E l \in loops : l.header = h /\ s \in l.blocks

LEMMA NaturalFound ==
    ASSUME NEW f, NEW N, NEW dom, Verified(f, N, dom), f.edges = UnwindEdges(f)
    PROVE  LET preds == Predecessors(f, f.edges)
               flow == Dominators(f, preds)
           IN  /\ Reachable(f, f.edges) = N /\ flow = dom
               /\ preds = [b \in N |-> {s \in N : b \in f.edges[s]}]
               /\ Natural(f, N, dom, NaturalLoops(f, preds, flow))
<1> DEFINE preds == Predecessors(f, f.edges)
           flow == Dominators(f, preds)
           loops == NaturalLoops(f, preds, flow)
           M == Reachable(f, f.edges)
<1>1. /\ f.edges \in [Blocks -> SUBSET Blocks] /\ \A b \in Blocks : f.succ[b] \subseteq f.edges[b]
      /\ ReachSet(f.entry, f.edges, N)
  BY UnwindFacts
<1>2. /\ f.entry \in Blocks /\ IsFiniteSet(Blocks) /\ N \subseteq Blocks /\ IsFiniteSet(N)
  BY BlocksAssumption DEF Verified, Typed
<1>3. /\ ReachSet(f.entry, f.edges, M)
      /\ preds = [b \in M |-> {s \in M : b \in f.edges[s]}]
      /\ DomTree(f.entry, f.edges, M, flow)
  BY <1>1, <1>2, DominatorsFacts
<1> HIDE DEF preds, flow, M
<1>4. M = N
  <2>1. \A W : f.entry \in W /\ Closed(f.edges, W) => N \subseteq W
    BY <1>1 DEF ReachSet
  <2>2. \A W : f.entry \in W /\ Closed(f.edges, W) => M \subseteq W
    BY <1>3 DEF ReachSet
  <2>3. f.entry \in M /\ Closed(f.edges, M) /\ f.entry \in N /\ Closed(f.edges, N)
    BY <1>1, <1>3 DEF ReachSet
  <2>4. QED  BY <2>1, <2>2, <2>3
<1>5. preds = [b \in N |-> {s \in N : b \in f.edges[s]}]
  BY <1>3, <1>4
<1>6. DomTree(f.entry, f.edges, N, flow) /\ DomTree(f.entry, f.edges, N, dom)
  BY <1>3, <1>4, UnwindDominators
<1>7. flow = dom
  <2> DEFINE e == f.entry
             edges == f.edges
  <2>1. DomTree(e, edges, N, flow) /\ DomTree(e, edges, N, dom)
    BY <1>6
  <2> HIDE DEF e, edges
  <2>2. QED  BY <2>1, SameDominators
<1>8. DOMAIN preds = N /\ preds \in [N -> SUBSET N] /\ \A b \in N : preds[b] = {s \in N : b \in f.edges[s]}
  BY <1>5
<1> DEFINE latches(h) == Latches(f, preds, flow, h)
           inner(h) == [preds EXCEPT ![h] = {}]
           body(h) == Closure({h} \cup latches(h), inner(h))
           H == {h \in N : latches(h) # {}}
<1>9. \A h : latches(h) = {s \in N : h \in f.succ[s] /\ h \in dom[s]}
  BY <1>7, <1>8 DEF Latches
<1>10. loops = {[header |-> h, blocks |-> body(h)] : h \in H}
  BY <1>8 DEF NaturalLoops
<1> HIDE DEF latches, loops
<1>11. ASSUME NEW h \in N
       PROVE  /\ h \in body(h) /\ latches(h) \subseteq body(h) /\ body(h) \subseteq N
              /\ \A b \in body(h) \ {h}, s \in N : b \in f.edges[s] => s \in body(h)
              /\ \A W : /\ h \in W
                        /\ \A s \in N : h \in f.succ[s] /\ h \in dom[s] => s \in W
                        /\ \A b \in W \ {h}, s \in N : b \in f.edges[s] => s \in W
                        => body(h) \subseteq W
  <2>1. /\ inner(h) \in [N -> SUBSET N] /\ \A b \in N \ {h} : inner(h)[b] = preds[b]
        /\ inner(h)[h] = {}
    BY <1>8
  <2>2. {h} \cup latches(h) \in SUBSET N
    BY <1>9
  <2> HIDE DEF inner
  <2>3. /\ {h} \cup latches(h) \subseteq body(h) /\ body(h) \subseteq N /\ Closed(inner(h), body(h))
        /\ \A W : {h} \cup latches(h) \subseteq W /\ Closed(inner(h), W) => body(h) \subseteq W
    BY <1>2, <2>1, <2>2, ClosureFacts
  <2> HIDE DEF body
  <2>4. ASSUME NEW b \in body(h) \ {h}, NEW s \in N, b \in f.edges[s]  PROVE s \in body(h)
    <3>1. b \in N \ {h} /\ DOMAIN inner(h) = N
      BY <2>1, <2>3
    <3>2. inner(h)[b] \subseteq body(h)
      BY <2>3, <3>1 DEF Closed
    <3>3. s \in preds[b]
      BY <1>8, <2>4, <3>1
    <3>4. QED  BY <2>1, <3>1, <3>2, <3>3
  <2>5. ASSUME NEW W, h \in W,
               \A s \in N : h \in f.succ[s] /\ h \in dom[s] => s \in W,
               \A b \in W \ {h}, s \in N : b \in f.edges[s] => s \in W
        PROVE  body(h) \subseteq W
    <3>1. {h} \cup latches(h) \subseteq W
      BY <1>9, <2>5
    <3>2. ASSUME NEW b \in W \cap N  PROVE inner(h)[b] \subseteq W
      <4>1. CASE b = h
        BY <2>1, <4>1
      <4>2. CASE b # h
        BY <1>8, <2>1, <2>5, <4>2
      <4>3. QED  BY <4>1, <4>2
    <3>3. Closed(inner(h), W)
      BY <2>1, <3>2 DEF Closed
    <3>4. QED  BY <2>3, <3>1, <3>3
  <2>6. QED  BY <2>3, <2>4, <2>5
<1> HIDE DEF body
<1>12. ASSUME NEW l \in loops
       PROVE  l.header \in N /\ l.blocks = body(l.header) /\ l = [header |-> l.header, blocks |-> l.blocks]
  BY <1>10
<1>13. ASSUME NEW h \in N, NEW s \in N, h \in f.succ[s], h \in dom[s]
       PROVE  \E l \in loops : l.header = h /\ s \in l.blocks
  <2>1. s \in latches(h) /\ h \in H
    BY <1>9, <1>13
  <2>2. [header |-> h, blocks |-> body(h)] \in loops
    BY <1>10, <2>1
  <2>3. s \in body(h)
    BY <1>11, <2>1
  <2>4. QED  BY <2>2, <2>3
<1>14. \A l, k \in loops : l.header = k.header => l = k
  BY <1>12
<1> HIDE DEF H
<1>15. Natural(f, N, dom, loops)
  <2>1. ASSUME NEW l \in loops
        PROVE /\ l.header \in N /\ l.blocks \subseteq N /\ l.header \in l.blocks
              /\ \A b \in l.blocks \ {l.header}, s \in N : b \in f.edges[s] => s \in l.blocks
              /\ \A W : /\ l.header \in W
                        /\ \A s \in N : l.header \in f.succ[s] /\ l.header \in dom[s] => s \in W
                        /\ \A b \in W \ {l.header}, s \in N : b \in f.edges[s] => s \in W
                        => l.blocks \subseteq W
    BY <1>11, <1>12
  <2>2. QED  BY <1>6, <1>13, <1>14, <2>1 DEF Natural
<1>16. QED  BY <1>4, <1>5, <1>7, <1>15 DEF loops, flow, preds, M

(* The header of a natural loop dominates it.                                *)
LEMMA LoopDominated ==
    ASSUME NEW f, NEW N, NEW dom, NEW loops, Natural(f, N, dom, loops),
           NEW l \in loops, NEW b \in l.blocks
    PROVE  l.header \in dom[b]
<1> DEFINE h == l.header
           W == {c \in N : h \in dom[c]}
           e == f.entry
           edges == f.edges
<1>1. /\ h \in N /\ l.blocks \subseteq N
      /\ \A Z : /\ h \in Z
                /\ \A s \in N : h \in f.succ[s] /\ h \in dom[s] => s \in Z
                /\ \A c \in Z \ {h}, s \in N : c \in edges[s] => s \in Z
                => l.blocks \subseteq Z
  BY DEF Natural
<1>2. /\ dom \in [N -> SUBSET N] /\ dom[e] = {e} /\ \A c \in N : c \in dom[c]
      /\ \A c \in N \ {e}, p \in N : \A x \in dom[c] : c \in edges[p] /\ x # c => x \in dom[p]
  BY DEF Natural, DomTree
<1> HIDE DEF h, e, edges
<1>3. ASSUME NEW c \in W \ {h}, NEW s \in N, c \in edges[s]  PROVE s \in W
  BY <1>2, <1>3
<1>4. h \in W /\ \A s \in N : h \in f.succ[s] /\ h \in dom[s] => s \in W
  BY <1>1, <1>2
<1> HIDE DEF W
<1>5. l.blocks \subseteq W
  BY <1>1, <1>3, <1>4
<1>6. QED  BY <1>5 DEF W, h

(* What is between the header and a block of a loop is in the loop: it       *)
(* dominates the block and the header dominates it.                          *)
LEMMA LoopBetween ==
    ASSUME NEW f, NEW N, NEW dom, NEW loops, Natural(f, N, dom, loops),
           NEW l \in loops, NEW b \in l.blocks, NEW x \in dom[b], x # l.header,
           l.header \in dom[x]
    PROVE  x \in l.blocks
<1> DEFINE h == l.header
           e == f.entry
           edges == f.edges
           Y == {c \in l.blocks : x \in dom[c]}
<1>1. /\ h \in N /\ l.blocks \subseteq N /\ h \in l.blocks
      /\ \A c \in l.blocks \ {h}, s \in N : c \in edges[s] => s \in l.blocks
  BY DEF Natural
<1>2. /\ DomTree(e, edges, N, dom) /\ dom \in [N -> SUBSET N] /\ dom[e] = {e}
      /\ \A c \in N \ {e}, p \in N : \A z \in dom[c] : c \in edges[p] /\ z # c => z \in dom[p]
      /\ \A z \in N, Z \in SUBSET N : Guards(e, edges, N, z, Z) => \A c \in Z : z \in dom[c]
  BY DEF Natural, DomTree
<1>3. x \in N /\ b \in N
  BY <1>1, <1>2
<1>4. ReachSet(e, edges, N)
  BY UnwindFacts DEF Natural
<1> HIDE DEF h, e, edges
<1>5. x \notin dom[h]
  <2>1. ASSUME x \in dom[h]  PROVE FALSE
    <3>1. h \in dom[x] /\ x # h
      BY DEF h
    <3>2. QED  BY <1>1, <1>2, <1>3, <1>4, <2>1, <3>1, DominatesAntisymmetric
  <2>2. QED  BY <2>1
<1>6. SUFFICES ASSUME x \notin l.blocks PROVE FALSE
  OBVIOUS
<1>7. ASSUME NEW c \in Y  PROVE c # h /\ c # e /\ c # x /\ \A p \in N : c \in edges[p] => p \in Y
  <2>1. c # h /\ c # x /\ c \in N
    BY <1>1, <1>5, <1>6
  <2>2. c # e
    <3>1. ASSUME c = e  PROVE FALSE
      <4>1. x = e
        BY <1>2, <3>1
      <4>2. QED  BY <2>1, <3>1, <4>1
    <3>2. QED  BY <3>1
  <2>3. ASSUME NEW p \in N, c \in edges[p]  PROVE p \in Y
    BY <1>1, <1>2, <2>1, <2>2, <2>3
  <2>4. QED  BY <2>1, <2>2, <2>3
<1>8. Y \in SUBSET N /\ b \in Y
  BY <1>1
<1> HIDE DEF Y
<1>9. \A z \in N : \A c \in Y : z \in dom[c]
  <2> TAKE z \in N
  <2>1. Guards(e, edges, N, z, Y)
    BY <1>7 DEF Guards
  <2>2. QED  BY <1>2, <1>8, <2>1
<1>10. b \in dom[e]
  <2> DEFINE Z == N \ Y
  <2>1. e \in Z /\ Closed(edges, Z \cap N)
    <3>1. e \in N /\ N \subseteq DOMAIN edges /\ Closed(edges, N)
      BY <1>4 DEF ReachSet
    <3>2. e \notin Y
      BY <1>7
    <3>3. QED  BY <1>7, <3>1, <3>2 DEF Closed
  <2>2. N \subseteq Z
    BY <1>4, <2>1 DEF ReachSet
  <2>3. QED  BY <1>8, <2>2
<1>11. b = e
  BY <1>2, <1>10
<1>12. QED  BY <1>7, <1>8, <1>11

(* validate_loop_nesting never fails.                                        *)
LEMMA NaturalLoopsNest ==
    ASSUME NEW f, NEW N, NEW dom, NEW loops, Natural(f, N, dom, loops)
    PROVE  LoopsNest(loops)
<1> DEFINE e == f.entry
           edges == f.edges
<1>1. DomTree(e, edges, N, dom) /\ ReachSet(e, edges, N)
  BY UnwindFacts DEF Natural
<1>2. dom \in [N -> SUBSET N]
      /\ \A c \in N \ {e}, p \in N : \A z \in dom[c] : c \in edges[p] /\ z # c => z \in dom[p]
      /\ dom[e] = {e}
  BY <1>1 DEF DomTree
<1> HIDE DEF e, edges
<1>3. ASSUME NEW l \in loops, NEW r \in loops, l # r, NEW b \in l.blocks, b \in r.blocks,
             l.header \in dom[r.header]
      PROVE  l.blocks # r.blocks /\ r.blocks \subseteq l.blocks
  <2>1. /\ l.header # r.header /\ l.header \in N /\ r.header \in N
        /\ l.blocks \subseteq N /\ r.blocks \subseteq N /\ l.header \in l.blocks
        /\ r.header \in r.blocks
        /\ \A c \in l.blocks \ {l.header}, s \in N : c \in edges[s] => s \in l.blocks
        /\ \A Z : /\ r.header \in Z
                  /\ \A s \in N : r.header \in f.succ[s] /\ r.header \in dom[s] => s \in Z
                  /\ \A c \in Z \ {r.header}, s \in N : c \in edges[s] => s \in Z
                  => r.blocks \subseteq Z
    BY <1>3 DEF Natural, edges
  <2>2. r.header \in dom[b]
    BY <1>3, LoopDominated
  <2>3. r.header \in l.blocks
    BY <1>3, <2>1, <2>2, LoopBetween
  <2>4. l.header \notin r.blocks
    <3>1. ASSUME l.header \in r.blocks  PROVE FALSE
      <4>1. r.header \in dom[l.header]
        BY <3>1, LoopDominated
      <4>2. QED  BY <1>1, <1>3, <2>1, <4>1, DominatesAntisymmetric
    <3>2. QED  BY <3>1
  <2>5. r.blocks \subseteq l.blocks
    <3>1. ASSUME NEW s \in N, r.header \in f.succ[s]  PROVE s \in l.blocks
      <4>1. r.header \in edges[s]
        BY <3>1, UnwindFacts DEF Natural, edges, Verified
      <4>2. QED  BY <2>1, <2>3, <3>1, <4>1
    <3> DEFINE U == {c \in r.blocks : c \in l.blocks}
    <3>2. \A c \in U \ {r.header}, s \in N : c \in edges[s] => s \in U
      <4> TAKE c \in U \ {r.header}, s \in N
      <4>1. c # l.header
        BY <2>4
      <4>2. \A d \in r.blocks \ {r.header}, p \in N : d \in edges[p] => p \in r.blocks
        BY <1>3 DEF Natural, edges
      <4>3. QED  BY <2>1, <4>1, <4>2
    <3>3. \A s \in N : r.header \in f.succ[s] /\ r.header \in dom[s] => s \in U
      <4> TAKE s \in N
      <4>1. ASSUME r.header \in f.succ[s], r.header \in dom[s]  PROVE s \in r.blocks
        <5>1. PICK k \in loops : k.header = r.header /\ s \in k.blocks
          BY <2>1, <4>1 DEF Natural
        <5>2. k = r
          BY <1>3, <5>1 DEF Natural
        <5>3. QED  BY <5>1, <5>2
      <4>2. QED  BY <3>1, <4>1
    <3>4. r.header \in U
      BY <2>1, <2>3
    <3> HIDE DEF U
    <3>5. r.blocks \subseteq U
      BY <2>1, <3>2, <3>3, <3>4
    <3>6. QED  BY <3>5 DEF U
  <2>6. QED  BY <2>1, <2>4, <2>5
<1>4. ASSUME NEW l \in loops, NEW r \in loops, l # r, NEW b \in l.blocks, b \in r.blocks
      PROVE  l.blocks # r.blocks /\ (l.blocks \subseteq r.blocks \/ r.blocks \subseteq l.blocks)
  <2>1. l.header \in dom[b] /\ r.header \in dom[b]
    BY <1>4, LoopDominated
  <2>a. b \in N
    BY <1>4 DEF Natural
  <2>2. l.header \in dom[r.header] \/ r.header \in dom[l.header]
    BY <1>1, <2>1, <2>a, DominatorsChain
  <2>3. QED  BY <1>3, <1>4, <2>2
<1>5. QED  BY <1>4 DEF LoopsNest

(* validate_try_loop_nesting never fails.                                    *)
LEMMA NaturalTriesNest ==
    ASSUME NEW f, NEW N, NEW dom, NEW loops, Natural(f, N, dom, loops)
    PROVE  TriesNest(f, loops)
<1> DEFINE e == f.entry
           edges == f.edges
<1>1. DomTree(e, edges, N, dom) /\ ReachSet(e, edges, N) /\ Verified(f, N, dom)
  BY UnwindFacts DEF Natural
<1>2. /\ dom \in [N -> SUBSET N] /\ \A c \in N : c \in dom[c]
      /\ \A c \in N \ {e}, p \in N : \A z \in dom[c] : c \in edges[p] /\ z # c => z \in dom[p]
  BY <1>1 DEF DomTree
<1>3. \A b \in Blocks : f.succ[b] \subseteq edges[b]
  BY UnwindFacts DEF Natural
<1> HIDE DEF e, edges
<1>4. ASSUME NEW t \in TryBlocks(f), NEW l \in loops, NEW b \in Extent(f, t), b \in l.blocks,
             t \notin l.blocks
      PROVE  l.blocks \subseteq f.raw[t]
  <2> DEFINE h == l.header
             p == f.tries[t].entry
  <2>1. h \in N /\ l.blocks \subseteq N /\ h \in l.blocks
    BY <1>4 DEF Natural
  <2>2. b \in f.raw[t]
    BY <1>4 DEF Extent
  <2>3. f.raw[t] = {c \in N : p \in dom[c]}
    BY <1>1, RawFacts
  <2>4. t \in N /\ t \in dom[b]
    BY <1>1, <2>2, TryDominates
  <2>5. /\ p # f.entry /\ t \in Blocks /\ f.succ[t] = {p}
    BY <1>1, TryShape
  <2>6. h \in dom[b]
    BY <1>4, LoopDominated
  <2>7. h \notin dom[t] /\ h # t
    <3>1. h # t
      BY <1>4, <2>1
    <3>2. QED  BY <1>4, <2>4, <3>1, LoopBetween
  <2> HIDE DEF h, p
  <2>8. p \in N /\ p \in dom[b] /\ b \in N
    BY <1>2, <2>2, <2>3
  <2>9. h \in dom[p] \/ p \in dom[h]
    BY <1>1, <2>6, <2>8, DominatorsChain
  <2>10. p \in dom[h]
    <3>1. CASE h \in dom[p]
      <4>1. h = p
        BY <1>2, <1>3, <2>4, <2>5, <2>7, <2>8, <3>1 DEF e
      <4>2. QED  BY <1>2, <2>1, <4>1
    <3>2. QED  BY <2>9, <3>1
  <2>11. ASSUME NEW c \in l.blocks  PROVE c \in f.raw[t]
    <3>1. h \in dom[c] /\ c \in N
      BY <1>4, <2>1, <2>11, LoopDominated DEF h
    <3>2. p \in dom[c]
      BY <1>1, <2>10, <3>1, DominatesTransitive
    <3>3. QED  BY <2>3, <3>1, <3>2
  <2>12. QED  BY <2>11
<1>5. QED  BY <1>4 DEF TriesNest

LEMMA NaturalDominated ==
    ASSUME NEW f, NEW N, NEW dom, NEW loops, Natural(f, N, dom, loops)
    PROVE  HeadersDominate(loops, dom)
BY LoopDominated DEF HeadersDominate

(* None of the analysis's checks fails, and what is known of checked loops   *)
(* holds.                                                                    *)
LEMMA AnalysisAccepts ==
    ASSUME NEW f, NEW N, NEW dom, Verified(f, N, dom), f.edges = UnwindEdges(f)
    PROVE  LET preds == Predecessors(f, f.edges)
               flow == Dominators(f, preds)
               loops == NaturalLoops(f, preds, flow)
           IN  /\ LoopsNest(loops) /\ HeadersDominate(loops, flow) /\ TriesNest(f, loops)
               /\ preds = [b \in N |-> {s \in N : b \in f.edges[s]}]
               /\ Natural(f, N, dom, loops) /\ Looped(f, N, dom, loops)
<1> DEFINE preds == Predecessors(f, f.edges)
           flow == Dominators(f, preds)
           loops == NaturalLoops(f, preds, flow)
<1>1. /\ flow = dom /\ preds = [b \in N |-> {s \in N : b \in f.edges[s]}]
      /\ Natural(f, N, dom, loops)
  <2>1. /\ Reachable(f, f.edges) = N /\ flow = dom
        /\ preds = [b \in N |-> {s \in N : b \in f.edges[s]}]
        /\ Natural(f, N, dom, loops)
    BY NaturalFound, Zenon
  <2> HIDE DEF preds, flow, loops
  <2>2. QED  BY <2>1
<1>2. HeadersDominate(loops, flow) /\ TriesNest(f, loops)
  <2> HIDE DEF loops, flow
  <2> QED  BY <1>1, NaturalDominated, NaturalTriesNest
<1>3. Looped(f, N, dom, loops)
  BY <1>2, LoopsFound
<1>4. LoopsNest(loops)
  <2> HIDE DEF loops, flow
  <2> QED  BY <1>1, NaturalLoopsNest
<1>5. QED  BY <1>1, <1>2, <1>3, <1>4

(* No block is claimed by two units of a region.                             *)
LEMMA UnitsDisjoint ==
    ASSUME NEW f, NEW N, NEW dom, NEW loops, Looped(f, N, dom, loops), LoopsNest(loops),
           NEW u, Region(f, N, loops, u)
    PROVE  Disjoint(f, loops, u)
<1> DEFINE children == DirectChildren(f, loops, u)
           candidates == Candidates(f, loops, u)
<1>1. /\ Members(f, u) \subseteq N /\ TriesNest(f, loops) /\ Verified(f, N, dom)
      /\ f.edges = UnwindEdges(f)
  BY RegionFacts DEF Looped
<1>2. /\ children \subseteq candidates
      /\ \A c \in children, o \in candidates : c = o \/ ~Contained(f, c, o)
  BY DEF DirectChildren
<1>3. \A c \in candidates :
         \/ \E l \in loops : /\ c = LoopUnit(f, l) /\ l.blocks \subseteq Members(f, u)
                             /\ l.header # Header(u)
         \/ \E t \in TryBlocks(f) \cap Members(f, u) : c = TryUnit(f, t)
  <2> TAKE c \in candidates
  <2>1. c \in Candidates(f, loops, u)
    OBVIOUS
  <2> HIDE DEF candidates
  <2>2. QED  BY <1>1, <2>1, CandidateFacts
<1>4. \A t \in TryBlocks(f) \cap Members(f, u) : TryUnit(f, t) \in candidates
  BY DEF Candidates
<1> HIDE DEF children, candidates
<1>5. ASSUME NEW t \in TryBlocks(f), NEW w \in TryBlocks(f) \cap Members(f, u),
             TryUnit(f, t) \in children
      PROVE  t \notin f.raw[w]
  <2>1. ASSUME t \in f.raw[w]  PROVE FALSE
    <3>1. TryUnit(f, w) \in candidates
      BY <1>4
    <3>2. w # t /\ f.raw[t] \subseteq f.raw[w] /\ w \notin f.raw[w]
      BY <1>1, <2>1, RawWithin, TryDominates
    <3>3. Extent(f, t) \subseteq Extent(f, w) /\ Extent(f, t) # Extent(f, w)
      BY <2>1, <3>2 DEF Extent
    <3>4. Contained(f, TryUnit(f, t), TryUnit(f, w)) /\ TryUnit(f, t) # TryUnit(f, w)
      BY <3>2, <3>3 DEF Contained, TryUnit
    <3>5. QED  BY <1>2, <1>5, <3>1, <3>4
  <2>2. QED  BY <2>1
<1>6. ASSUME NEW t \in TryBlocks(f), NEW w \in TryBlocks(f), t # w,
             t \notin f.raw[w], w \notin f.raw[t]
      PROVE  Claim(f, t) \cap Claim(f, w) = {}
  <2>1. /\ Claim(f, t) = f.raw[t] \cup {t, f.tries[t].handler}
        /\ Claim(f, w) = f.raw[w] \cup {w, f.tries[w].handler}
    BY <1>1, ClaimFacts
  <2>2. f.raw[t] \cap f.raw[w] = {}
    BY <1>1, <1>6, RawNested
  <2>3. f.tries[t].handler \notin f.raw[w] /\ f.tries[w].handler \notin f.raw[t]
    BY <1>1, <1>6, HandlerPlace
  <2>4. /\ f.tries[t].handler # w /\ f.tries[w].handler # t
        /\ f.tries[t].handler # f.tries[w].handler
    BY <1>1, <1>6, TryShape
  <2>5. QED  BY <1>6, <2>1, <2>2, <2>3, <2>4
<1>7. ASSUME NEW t \in TryBlocks(f) \cap Members(f, u), NEW w \in TryBlocks(f) \cap Members(f, u),
             TryUnit(f, t) \in children, TryUnit(f, w) \in children, t # w
      PROVE  Claim(f, t) \cap Claim(f, w) = {}
  BY <1>5, <1>6, <1>7
(* A block of a loop that is in a claim, and a try of the loop that shares some. *)
<1>8. ASSUME NEW t \in TryBlocks(f), NEW l \in loops, t \notin l.blocks,
             ~(l.blocks \subseteq f.raw[t])
      PROVE  /\ Claim(f, t) \cap l.blocks = {}
             /\ \A w \in TryBlocks(f) \cap l.blocks : w \notin f.raw[t] /\ w # t
  <2>1. Extent(f, t) \cap l.blocks = {}
    <3>1. t \in Extent(f, t)
      BY DEF Extent
    <3>2. QED  BY <1>1, <1>8, <3>1 DEF TriesNest
  <2>2. f.tries[t].handler \notin l.blocks
    <3>1. ASSUME f.tries[t].handler \in l.blocks  PROVE FALSE
      <4>1. /\ f.tries[t].handler # l.header /\ l.blocks \subseteq N
            /\ \A b \in l.blocks \ {l.header}, s \in N : b \in f.edges[s] => s \in l.blocks
        BY <1>8 DEF Looped
      <4>2. t \in N
        BY <1>1, <3>1, <4>1, ReachedTogether
      <4>3. Typed(f) /\ t \in Blocks
        BY <1>1, TryShape DEF Verified
      <4>4. f.tries[t].handler \in f.edges[t]
        BY <1>1, <4>3, SeedFacts, UnwindFacts
      <4>5. QED  BY <1>8, <3>1, <4>1, <4>2, <4>4
    <3>2. QED  BY <3>1
  <2>3. Claim(f, t) = f.raw[t] \cup {t, f.tries[t].handler}
    BY <1>1, ClaimFacts
  <2>4. QED  BY <1>8, <2>1, <2>2, <2>3 DEF Extent
<1>9. ASSUME NEW t \in TryBlocks(f) \cap Members(f, u), NEW l \in loops,
             TryUnit(f, t) \in children, LoopUnit(f, l) \in children,
             l.blocks \subseteq Members(f, u)
      PROVE  TryUnit(f, t).blocks \cap LoopUnit(f, l).blocks = {}
  <2>1. t \notin l.blocks
    <3>1. ASSUME t \in l.blocks  PROVE FALSE
      <4>1. /\ Contained(f, TryUnit(f, t), LoopUnit(f, l)) /\ TryUnit(f, t) # LoopUnit(f, l)
        BY <3>1 DEF Contained, TryUnit, LoopUnit
      <4>2. QED  BY <1>2, <1>9, <4>1
    <3>2. QED  BY <3>1
  <2>2. ~(l.blocks \subseteq f.raw[t])
    <3>1. ASSUME l.blocks \subseteq f.raw[t]  PROVE FALSE
      <4>1. /\ Contained(f, LoopUnit(f, l), TryUnit(f, t)) /\ TryUnit(f, t) # LoopUnit(f, l)
        BY <3>1 DEF Contained, TryUnit, LoopUnit
      <4>2. QED  BY <1>2, <1>9, <4>1
    <3>2. QED  BY <3>1
  <2>3. /\ Claim(f, t) \cap l.blocks = {}
        /\ \A w \in TryBlocks(f) \cap l.blocks : w \notin f.raw[t] /\ w # t
    BY <1>8, <2>1, <2>2
  <2>4. ASSUME NEW w \in TryBlocks(f) \cap l.blocks  PROVE Claim(f, t) \cap Claim(f, w) = {}
    <3>1. t \notin f.raw[w]
      BY <1>5, <1>9
    <3>2. QED  BY <1>6, <2>3, <3>1
  <2>5. QED  BY <2>3, <2>4 DEF TryUnit, LoopUnit
<1>10. ASSUME NEW l \in loops, NEW k \in loops, l # k,
              LoopUnit(f, l) \in children, LoopUnit(f, k) \in children,
              l.blocks \subseteq Members(f, u), k.blocks \subseteq Members(f, u)
       PROVE  LoopUnit(f, l).blocks \cap LoopUnit(f, k).blocks = {}
  <2>1. LoopUnit(f, l) # LoopUnit(f, k)
    BY <1>10 DEF LoopUnit, Looped
  <2>2. l.blocks \cap k.blocks = {}
    <3>1. ASSUME l.blocks # k.blocks, l.blocks \subseteq k.blocks  PROVE FALSE
      BY <1>2, <1>10, <2>1, <3>1 DEF Contained, LoopUnit
    <3>2. ASSUME l.blocks # k.blocks, k.blocks \subseteq l.blocks  PROVE FALSE
      BY <1>2, <1>10, <2>1, <3>2 DEF Contained, LoopUnit
    <3>3. QED  BY <1>10, <3>1, <3>2 DEF LoopsNest
  <2>3. ASSUME NEW j \in loops, NEW i \in loops, LoopUnit(f, i) \in children,
               LoopUnit(f, j) \in children,
               j.blocks \cap i.blocks = {}, j.blocks \subseteq Members(f, u),
               NEW t \in TryBlocks(f) \cap j.blocks
        PROVE  /\ Claim(f, t) \cap i.blocks = {}
               /\ \A w \in TryBlocks(f) \cap i.blocks : w \notin f.raw[t] /\ w # t
    <3>1. ~(i.blocks \subseteq f.raw[t])
      <4>1. ASSUME i.blocks \subseteq f.raw[t]  PROVE FALSE
        <5>1. Contained(f, LoopUnit(f, i), TryUnit(f, t)) /\ TryUnit(f, t) # LoopUnit(f, i)
          BY <4>1 DEF Contained, TryUnit, LoopUnit
        <5>2. TryUnit(f, t) \in candidates
          BY <1>4, <2>3
        <5>3. QED  BY <1>2, <2>3, <5>1, <5>2
      <4>2. QED  BY <4>1
    <3>2. t \notin i.blocks
      BY <2>3
    <3>3. QED  BY <1>8, <3>1, <3>2
  <2>4. /\ \A t \in TryBlocks(f) \cap l.blocks : Claim(f, t) \cap k.blocks = {}
        /\ \A t \in TryBlocks(f) \cap k.blocks : Claim(f, t) \cap l.blocks = {}
    BY <1>10, <2>2, <2>3
  <2>5. ASSUME NEW t \in TryBlocks(f) \cap l.blocks, NEW w \in TryBlocks(f) \cap k.blocks
        PROVE  Claim(f, t) \cap Claim(f, w) = {}
    <3>1. w \notin f.raw[t] /\ w # t
      BY <1>10, <2>2, <2>3, <2>5
    <3>2. t \notin f.raw[w]
      BY <1>10, <2>2, <2>3, <2>5
    <3>3. QED  BY <1>6, <3>1, <3>2
  <2>6. QED  BY <2>2, <2>4, <2>5 DEF LoopUnit
<1>11. ASSUME NEW t \in TryBlocks(f)  PROVE TryUnit(f, t).blocks = Claim(f, t)
  BY DEF TryUnit
<1>12. ASSUME NEW c \in children, NEW d \in children, c # d  PROVE c.blocks \cap d.blocks = {}
  <2>1. c \in candidates /\ d \in candidates
    BY <1>2
  <2>2. CASE \E l, k \in loops : /\ c = LoopUnit(f, l) /\ l.blocks \subseteq Members(f, u)
                                 /\ d = LoopUnit(f, k) /\ k.blocks \subseteq Members(f, u)
    BY <1>10, <1>12, <2>2
  <2>3. CASE \E l \in loops, t \in TryBlocks(f) \cap Members(f, u) :
                /\ c = LoopUnit(f, l) /\ l.blocks \subseteq Members(f, u) /\ d = TryUnit(f, t)
    BY <1>9, <1>12, <2>3
  <2>4. CASE \E l \in loops, t \in TryBlocks(f) \cap Members(f, u) :
                /\ d = LoopUnit(f, l) /\ l.blocks \subseteq Members(f, u) /\ c = TryUnit(f, t)
    BY <1>9, <1>12, <2>4
  <2>5. CASE \E t, w \in TryBlocks(f) \cap Members(f, u) : c = TryUnit(f, t) /\ d = TryUnit(f, w)
    BY <1>7, <1>11, <1>12, <2>5
  <2>6. QED  BY <1>3, <2>1, <2>2, <2>3, <2>4, <2>5
<1>13. QED  BY <1>12 DEF Disjoint, children

-----------------------------------------------------------------------------
(* Units are entered at their headers, also by exceptions *)

(* What is reached is not cut off.                                           *)
LEMMA BackClosedEmpty ==
    ASSUME NEW e, NEW next, NEW N, ReachSet(e, next, N), NEW Z \in SUBSET N, e \notin Z,
           \A b \in Z, p \in N : b \in next[p] => p \in Z
    PROVE  Z = {}
<1> DEFINE W == N \ Z
<1>1. e \in N /\ N \subseteq DOMAIN next /\ Closed(next, N)
      /\ \A V : e \in V /\ Closed(next, V) => N \subseteq V
  BY DEF ReachSet
<1>2. Closed(next, W)
  <2>1. ASSUME NEW p \in W, NEW b \in next[p]  PROVE b \in W
    BY <1>1, <2>1 DEF Closed
  <2>2. QED  BY <2>1 DEF Closed
<1>3. N \subseteq W
  BY <1>1, <1>2
<1>4. QED  BY <1>3

(* A handler is entered from its try block or out of its region.             *)
LEMMA HandlerSources ==
    ASSUME NEW f, NEW N, NEW dom, Verified(f, N, dom), f.edges = UnwindEdges(f),
           NEW t \in TryBlocks(f), NEW s \in Blocks, f.tries[t].handler \in f.edges[s]
    PROVE  s = t \/ s \in f.raw[t]
<1> DEFINE h == f.tries[t].handler
<1>1. Typed(f)
  BY DEF Verified
<1>2. CASE h \in SeedEdges(f)[s]
  BY <1>2, TryShape
<1>3. CASE h \notin SeedEdges(f)[s]
  <2>1. f.edges[s] = SeedEdges(f)[s] \cup (IF s \in f.throws THEN {Landing(f, s, z) : z \in Tags} \ {Nowhere}
                                           ELSE {})
    BY DEF UnwindEdges
  <2>2. PICK tag \in Tags : Landing(f, s, tag) = h /\ h # Nowhere
    BY <1>3, <2>1
  <2>3. PICK w \in Catching(f, s, tag) : h = f.tries[w].handler
    BY <2>2, LandingFacts
  <2>4. w \in TryBlocks(f) /\ s \in f.raw[w]
    BY DEF Catching
  <2>5. w = t
    BY <2>3, <2>4, TryShape
  <2>6. QED  BY <2>4, <2>5
<1>4. QED  BY <1>2, <1>3

LEMMA ClaimEntered ==
    ASSUME NEW f, NEW N, NEW dom, Verified(f, N, dom), f.edges = UnwindEdges(f),
           NEW t \in TryBlocks(f), NEW s \in N, s \notin Claim(f, t),
           NEW b \in Claim(f, t), b \in f.edges[s]
    PROVE  b = t
<1>1. Claim(f, t) = f.raw[t] \cup {t, f.tries[t].handler} /\ s \in Blocks
  BY ClaimFacts DEF Verified
<1>2. b # f.tries[t].handler
  BY <1>1, HandlerSources
<1>3. ASSUME b \in f.raw[t]  PROVE FALSE
  <2>1. CASE b \in SeedEdges(f)[s]
    <3>1. b = f.tries[t].entry
      BY <1>1, <1>3, <2>1, RawEntered
    <3>2. QED  BY <1>1, <2>1, <3>1, TryShape
  <2>2. CASE b \notin SeedEdges(f)[s]
    <3>1. f.edges[s] = SeedEdges(f)[s] \cup (IF s \in f.throws THEN {Landing(f, s, z) : z \in Tags} \ {Nowhere}
                                             ELSE {})
      BY <1>1 DEF UnwindEdges
    <3>2. PICK tag \in Tags : Landing(f, s, tag) = b /\ b # Nowhere
      BY <2>2, <3>1
    <3>3. PICK w \in Catching(f, s, tag) : b = f.tries[w].handler
      BY <3>2, LandingFacts
    <3>4. w \in TryBlocks(f) /\ s \in f.raw[w]
      BY DEF Catching
    <3>5. w \in f.raw[t]
      BY <1>3, <3>3, <3>4, HandlerPlace
    <3>6. f.raw[w] \subseteq f.raw[t]
      BY <3>4, <3>5, RawWithin
    <3>7. QED  BY <1>1, <3>4, <3>6
  <2>3. QED  BY <2>1, <2>2
<1>4. QED  BY <1>1, <1>2, <1>3

\* A loop, a try or a block.
Unit(f, N, loops, c) ==
    /\ c.header \in N /\ c.blocks \subseteq N
    /\ Child(f, N, loops, c) \/ c = BlockUnit(c.header)

LEMMA UnitEntered ==
    ASSUME NEW f, NEW N, NEW dom, NEW loops, Looped(f, N, dom, loops),
           NEW c, Unit(f, N, loops, c),
           NEW s \in N, s \notin c.blocks, NEW b \in c.blocks, b \in f.edges[s]
    PROVE  b = c.header
<1>1. /\ Verified(f, N, dom) /\ f.edges = UnwindEdges(f)
      /\ \A l \in loops :
            /\ l.header \in N /\ l.blocks \subseteq N /\ l.header \in l.blocks
            /\ \A x \in l.blocks \ {l.header}, p \in N : x \in f.edges[p] => p \in l.blocks
  BY DEF Looped
<1>2. CASE \E l \in loops : c = LoopUnit(f, l)
  <2>1. PICK l \in loops : c = LoopUnit(f, l)
    BY <1>2
  <2>2. /\ c.header = l.header
        /\ c.blocks = l.blocks \cup UNION {Claim(f, t) : t \in TryBlocks(f) \cap l.blocks}
    BY <2>1, LoopUnitFacts
  <2>3. CASE b \in l.blocks
    BY <1>1, <2>2, <2>3
  <2>4. CASE b \notin l.blocks
    <3>1. PICK t \in TryBlocks(f) \cap l.blocks : b \in Claim(f, t)
      BY <2>2, <2>4
    <3>2. s \notin Claim(f, t)
      BY <2>2
    <3>3. b = t
      BY <1>1, <3>1, <3>2, ClaimEntered
    <3>4. QED  BY <2>4, <3>3
  <2>5. QED  BY <2>3, <2>4
<1>3. CASE \E t \in TryBlocks(f) \cap N : c = TryUnit(f, t)
  <2>1. PICK t \in TryBlocks(f) \cap N : c = TryUnit(f, t)
    BY <1>3
  <2>2. c.header = t /\ c.blocks = Claim(f, t)
    BY <2>1, TryUnitFacts
  <2>3. QED  BY <1>1, <2>2, ClaimEntered
<1>4. CASE c = BlockUnit(c.header)
  BY <1>4, BlockUnitFacts
<1>5. QED  BY <1>2, <1>3, <1>4 DEF Unit, Child

(* The unit with the entry starts there.                                     *)
LEMMA EntryStarts ==
    ASSUME NEW f, NEW N, NEW dom, NEW loops, Looped(f, N, dom, loops),
           NEW c, Unit(f, N, loops, c), f.entry \in c.blocks
    PROVE  c.header = f.entry
<1> DEFINE e == f.entry
<1>1. /\ Verified(f, N, dom) /\ dom[e] = {e}
      /\ \A l \in loops : l.header \in l.blocks /\ \A b \in l.blocks : l.header \in dom[b]
  BY DEF Looped, Verified, DomTree
<1>2. ASSUME NEW t \in TryBlocks(f), e \in Claim(f, t)  PROVE e = t
  <2>1. Claim(f, t) = f.raw[t] \cup {t, f.tries[t].handler}
    BY <1>1, ClaimFacts
  <2>2. e # f.tries[t].handler /\ f.tries[t].entry # e
    BY <1>1, TryShape
  <2>3. f.raw[t] = {b \in N : f.tries[t].entry \in dom[b]}
    BY <1>1, RawFacts
  <2>4. QED  BY <1>1, <1>2, <2>1, <2>2, <2>3
<1>3. CASE \E l \in loops : c = LoopUnit(f, l)
  <2>1. PICK l \in loops : c = LoopUnit(f, l)
    BY <1>3
  <2>2. /\ c.header = l.header
        /\ c.blocks = l.blocks \cup UNION {Claim(f, t) : t \in TryBlocks(f) \cap l.blocks}
    BY <2>1, LoopUnitFacts
  <2>3. e \in l.blocks
    BY <1>2, <2>2
  <2>4. QED  BY <1>1, <2>2, <2>3
<1>4. CASE \E t \in TryBlocks(f) \cap N : c = TryUnit(f, t)
  <2>1. PICK t \in TryBlocks(f) \cap N : c = TryUnit(f, t)
    BY <1>4
  <2>2. c.header = t /\ c.blocks = Claim(f, t)
    BY <2>1, TryUnitFacts
  <2>3. QED  BY <1>2, <2>2
<1>5. CASE c = BlockUnit(c.header)
  BY <1>5, BlockUnitFacts
<1>6. QED  BY <1>3, <1>4, <1>5 DEF Unit, Child

LEMMA UnitHasHeader ==
    ASSUME NEW f, NEW N, NEW dom, NEW loops, Looped(f, N, dom, loops),
           NEW c, Unit(f, N, loops, c)
    PROVE  c.header \in c.blocks
<1>1. Verified(f, N, dom) /\ \A l \in loops : l.header \in l.blocks
  BY DEF Looped
<1>2. \A t \in TryBlocks(f) : t \in Claim(f, t)
  BY <1>1, ClaimFacts
<1>3. QED  BY <1>1, <1>2, LoopUnitFacts, TryUnitFacts, BlockUnitFacts DEF Unit, Child

(* The header of a unit dominates it.                                        *)
LEMMA UnitDominated ==
    ASSUME NEW f, NEW N, NEW dom, NEW loops, Looped(f, N, dom, loops),
           DomTree(f.entry, f.edges, N, dom),
           NEW c, Unit(f, N, loops, c), NEW b \in c.blocks
    PROVE  c.header \in dom[b]
<1>1. c.header \in N /\ c.blocks \in SUBSET N
  BY DEF Unit
<1>2. Guards(f.entry, f.edges, N, c.header, c.blocks)
  <2>1. ASSUME NEW x \in c.blocks, x # c.header
        PROVE  x # f.entry /\ \A p \in N : x \in f.edges[p] => p \in c.blocks
    BY <2>1, UnitEntered, EntryStarts
  <2>2. QED  BY <2>1 DEF Guards
<1>3. QED  BY <1>1, <1>2 DEF DomTree

(* A unit is reached from its header without being left.                     *)
LEMMA UnitConnected ==
    ASSUME NEW f, NEW N, NEW dom, NEW loops, Looped(f, N, dom, loops),
           NEW c, Unit(f, N, loops, c), NEW W, c.header \in W,
           \A s \in c.blocks \cap W, b \in c.blocks : b \in f.edges[s] => b \in W
    PROVE  c.blocks \subseteq W
<1> DEFINE Z == c.blocks \ W
<1>1. ReachSet(f.entry, f.edges, N) /\ c.blocks \subseteq N
  BY UnwindFacts DEF Looped, Unit
<1>2. f.entry \notin Z
  BY EntryStarts
<1>3. \A b \in Z, p \in N : b \in f.edges[p] => p \in Z
  BY UnitEntered
<1>4. Z \in SUBSET N
  BY <1>1
<1> HIDE DEF Z
<1>5. Z = {}
  BY <1>1, <1>2, <1>3, <1>4, BackClosedEmpty
<1>6. QED  BY <1>5 DEF Z

-----------------------------------------------------------------------------
(* Cycles *)

\* From every block of S every block of S is reached within S, by a step at least.
Tied(next, S) ==
    /\ S # {}
    /\ \A b \in S : \A W : /\ \A x \in S : x \in next[b] => x \in W
                           /\ \A y \in S \cap W, x \in S : x \in next[y] => x \in W
                           => S \subseteq W

LEMMA TiedWithMore ==
    ASSUME NEW S, NEW next, Tied(next, S), NEW more,
           \A b \in S, x \in S : x \in next[b] => x \in more[b]
    PROVE  Tied(more, S)
<1>1. ASSUME NEW b \in S, NEW W, \A x \in S : x \in more[b] => x \in W,
             \A y \in S \cap W, x \in S : x \in more[y] => x \in W
      PROVE  S \subseteq W
  <2>1. /\ \A x \in S : x \in next[b] => x \in W
        /\ \A y \in S \cap W, x \in S : x \in next[y] => x \in W
    BY <1>1
  <2>2. QED  BY <2>1 DEF Tied
<1>2. QED  BY <1>1 DEF Tied

(* Where every block has a predecessor there is a cycle that nothing else    *)
(* leads to.                                                                 *)
LEMMA TiedExists ==
    ASSUME NEW T, IsFiniteSet(T), T # {}, NEW next, \A b \in T : \E s \in T : b \in next[s]
    PROVE  \E Y \in SUBSET T : Tied(next, Y) /\ \A b \in Y, s \in T : b \in next[s] => s \in Y
<1> DEFINE Back(Y) == Y # {} /\ \A b \in Y, s \in T : b \in next[s] => s \in Y
           Sizes == {n \in Nat : \E Y \in SUBSET T : Back(Y) /\ Cardinality(Y) = n}
<1>1. Cardinality(T) \in Sizes /\ Sizes \in SUBSET Nat
  <2>1. Back(T)
    OBVIOUS
  <2>2. Cardinality(T) \in Nat
    BY FS_CardinalityType
  <2>3. QED  BY <2>1, <2>2
<1>2. PICK k \in Sizes : \A j \in Sizes : k <= j
  <2> HIDE DEF Sizes
  <2> QED  BY <1>1, LeastExists
<1>3. PICK Y \in SUBSET T : Back(Y) /\ Cardinality(Y) = k
  OBVIOUS
<1>4. IsFiniteSet(Y)
  BY FS_Subset
<1>5. ASSUME NEW Z \in SUBSET Y, Back(Z)  PROVE Z = Y
  <2>1. SUFFICES ASSUME Z # Y PROVE FALSE
    OBVIOUS
  <2>2. Cardinality(Z) < Cardinality(Y) /\ Cardinality(Z) \in Nat /\ Cardinality(Y) \in Nat
    BY <1>4, <2>1, Fewer
  <2>3. Cardinality(Z) \in Sizes
    BY <1>5, <2>2
  <2> HIDE DEF Sizes
  <2>4. QED  BY <1>2, <1>3, <2>2, <2>3
<1> HIDE DEF Sizes
<1>6. ASSUME NEW V, NEW y \in Y, y \in V, \A x \in Y, c \in Y : c \in V /\ x \in next[c] => x \in V
      PROVE  Y \subseteq V
  <2> DEFINE Z == Y \ V
  <2>1. SUFFICES ASSUME Z # {} PROVE FALSE
    OBVIOUS
  <2>2. ASSUME NEW b \in Z, NEW s \in T, b \in next[s]  PROVE s \in Z
    <3>1. s \in Y /\ b \in Y /\ b \notin V
      BY <1>3, <2>2
    <3>2. QED  BY <1>6, <2>2, <3>1
  <2>3. Back(Z)
    BY <2>1, <2>2
  <2>4. Z = Y
    BY <1>5, <2>3
  <2>5. QED  BY <1>6, <2>4
<1>7. ASSUME NEW b \in Y, NEW W, \A x \in Y : x \in next[b] => x \in W,
             \A y \in Y \cap W, x \in Y : x \in next[y] => x \in W
      PROVE  Y \subseteq W
  <2>1. Y \subseteq W \cup {b}
    BY <1>6, <1>7
  <2>2. CASE \E x \in Y : x \in W
    BY <1>6, <1>7, <2>2
  <2>3. CASE \A x \in Y : x \notin W
    <3>1. PICK s \in T : b \in next[s]
      OBVIOUS
    <3>2. s \in Y
      BY <1>3, <3>1
    <3>3. s = b
      BY <2>1, <2>3, <3>2
    <3>4. QED  BY <1>7, <2>3, <3>1, <3>3
  <2>4. QED  BY <2>2, <2>3
<1>8. Tied(next, Y)
  BY <1>3, <1>7 DEF Tied
<1>9. QED  BY <1>3, <1>8

\* f is typed, and dom dominates along all of its edges.
Charted(f, N, dom) ==
    /\ f.entry \in Blocks /\ f.edges \in [Blocks -> SUBSET Blocks] /\ N \subseteq Blocks
    /\ Reachable(f, f.edges) = N
    /\ ReachSet(f.entry, f.edges, N) /\ DomTree(f.entry, f.edges, N, dom)

LEMMA NaturalCharted ==
    ASSUME NEW f, NEW N, NEW dom, NEW loops, Natural(f, N, dom, loops), Looped(f, N, dom, loops)
    PROVE  Charted(f, N, dom)
<1>1. /\ Verified(f, N, dom) /\ f.edges = UnwindEdges(f) /\ DomTree(f.entry, f.edges, N, dom)
      /\ Reachable(f, f.edges) = N
  BY DEF Natural, Looped
<1>2. f.edges \in [Blocks -> SUBSET Blocks] /\ ReachSet(f.entry, f.edges, N)
  BY <1>1, UnwindFacts
<1>3. QED  BY <1>1, <1>2 DEF Charted, Verified, Typed

Avoiding(f, h) ==
    IF h = f.entry THEN {}
    ELSE Closure({f.entry}, [b \in Blocks |-> IF b = h THEN {} ELSE f.edges[b] \ {h}])

(* What the entry reaches without h is what h does not dominate.             *)
LEMMA AvoidingFacts ==
    ASSUME NEW f, NEW N, NEW dom, Charted(f, N, dom), NEW h \in N, NEW b \in N
    PROVE  h \in dom[b] <=> b = h \/ b \notin Avoiding(f, h)
<1> DEFINE e == f.entry
           edges == f.edges
           next == [c \in Blocks |-> IF c = h THEN {} ELSE edges[c] \ {h}]
           A == Closure({e}, next)
<1>1. /\ e \in N /\ N \subseteq Blocks /\ edges \in [Blocks -> SUBSET Blocks] /\ IsFiniteSet(Blocks)
      /\ ReachSet(e, edges, N) /\ DomTree(e, edges, N, dom)
      /\ \A p \in N : edges[p] \subseteq N
  <2>1. ReachSet(e, edges, N) /\ edges \in [Blocks -> SUBSET Blocks] /\ N \subseteq Blocks
    BY DEF Charted
  <2>2. Closed(edges, N) /\ e \in N
    BY <2>1 DEF ReachSet
  <2>3. \A p \in N : edges[p] \subseteq N
    BY <2>1, <2>2 DEF Closed
  <2>4. QED  BY <2>1, <2>2, <2>3, BlocksAssumption DEF Charted
<1>2. /\ dom \in [N -> SUBSET N] /\ dom[e] = {e} /\ \A c \in N : c \in dom[c]
      /\ \A c \in N \ {e}, p \in N : \A z \in dom[c] : c \in edges[p] /\ z # c => z \in dom[p]
      /\ \A z \in N, Z \in SUBSET N : Guards(e, edges, N, z, Z) => \A c \in Z : z \in dom[c]
  BY <1>1 DEF DomTree
<1>3. CASE h = e
  <2>1. h \in dom[b]
    BY <1>1, <1>3, EntryDominates
  <2>2. QED  BY <1>3, <2>1 DEF Avoiding
<1>4. CASE h # e
  <2>1. next \in [Blocks -> SUBSET Blocks] /\ {e} \in SUBSET Blocks
    BY <1>1
  <2>2. /\ \A c \in Blocks : c # h => next[c] = edges[c] \ {h}
        /\ next[h] = {} /\ DOMAIN next = Blocks
    BY <1>1
  <2>3. Avoiding(f, h) = A
    BY <1>4 DEF Avoiding
  <2> HIDE DEF next, e, edges
  <2>4. /\ e \in A /\ A \subseteq Blocks /\ Closed(next, A)
        /\ \A W : e \in W /\ Closed(next, W) => A \subseteq W
    BY <1>1, <2>1, ClosureFacts
  <2> HIDE DEF A
  <2>5. h \notin A
    <3> DEFINE W == Blocks \ {h}
    <3>1. \A c \in Blocks : next[c] \subseteq W
      BY <2>1, <2>2
    <3>2. Closed(next, W)
      BY <2>2, <3>1 DEF Closed
    <3>3. e \in W
      BY <1>1, <1>4
    <3> HIDE DEF W
    <3>4. A \subseteq W
      BY <2>4, <3>2, <3>3
    <3>5. QED  BY <3>4 DEF W
  <2>6. ASSUME h \in dom[b], b # h  PROVE b \notin A
    <3> DEFINE W == {c \in N : h \notin dom[c]}
    <3>1. ASSUME NEW c \in W, NEW d \in next[c]  PROVE d \in W
      <4>1. c # h /\ c \in N /\ d \in edges[c] /\ d # h /\ d \in N
        BY <1>1, <1>2, <2>2, <3>1
      <4>2. CASE d = e
        BY <1>2, <1>4, <4>1, <4>2
      <4>3. CASE d # e
        BY <1>2, <4>1, <4>3
      <4>4. QED  BY <4>2, <4>3
    <3>2. Closed(next, W)
      BY <3>1 DEF Closed
    <3>3. e \in W
      BY <1>1, <1>2, <1>4
    <3> HIDE DEF W
    <3>4. A \subseteq W
      BY <2>4, <3>2, <3>3
    <3>5. QED  BY <2>6, <3>4 DEF W
  <2>7. ASSUME b \notin A  PROVE h \in dom[b]
    <3> DEFINE Y == N \ A
    <3>1. ASSUME NEW c \in Y, c # h  PROVE c # e /\ \A p \in N : c \in edges[p] => p \in Y
      <4>1. ASSUME NEW p \in N, c \in edges[p], p \in A  PROVE FALSE
        <5>1. p # h /\ p \in Blocks
          BY <1>1, <2>5, <4>1
        <5>2. c \in next[p]
          BY <2>2, <3>1, <4>1, <5>1
        <5>3. next[p] \subseteq A
          BY <2>2, <2>4, <4>1, <5>1 DEF Closed
        <5>4. QED  BY <5>2, <5>3
      <4>2. QED  BY <2>4, <4>1
    <3>2. Guards(e, edges, N, h, Y)
      BY <3>1 DEF Guards
    <3>3. Y \in SUBSET N /\ b \in Y
      BY <2>7
    <3> HIDE DEF Y
    <3>4. QED  BY <1>2, <3>2, <3>3
  <2>8. h \in dom[h]
    BY <1>2
  <2>9. QED  BY <2>3, <2>6, <2>7, <2>8
<1>5. QED  BY <1>3, <1>4

\* Every cycle has a block that dominates all of it.
Headed(f, N, dom) ==
    \A S \in SUBSET N : Tied(f.edges, S) => \E h \in S : \A b \in S : h \in dom[b]

Inner(f, S) == [c \in Blocks |-> f.edges[c] \cap S]

LEMMA TiedMeans ==
    ASSUME NEW f, f.edges \in [Blocks -> SUBSET Blocks], NEW S \in SUBSET Blocks
    PROVE  Tied(f.edges, S) <=>
             S # {} /\ \A b \in S : S \subseteq Closure(f.edges[b] \cap S, Inner(f, S))
<1>1. /\ Inner(f, S) \in [Blocks -> SUBSET Blocks] /\ DOMAIN Inner(f, S) = Blocks
      /\ \A c \in Blocks : Inner(f, S)[c] = f.edges[c] \cap S
  BY DEF Inner
<1> DEFINE edges == f.edges
           start(b) == edges[b] \cap S
           reach(b) == Closure(start(b), Inner(f, S))
<1>2. ASSUME NEW b \in S
      PROVE  /\ start(b) \subseteq reach(b) /\ Closed(Inner(f, S), reach(b))
             /\ \A W : start(b) \subseteq W /\ Closed(Inner(f, S), W) => reach(b) \subseteq W
  <2> DEFINE from == start(b)
             inner == Inner(f, S)
  <2>1. from \in SUBSET Blocks
    OBVIOUS
  <2>2. inner \in [Blocks -> SUBSET Blocks] /\ IsFiniteSet(Blocks)
    BY <1>1, BlocksAssumption
  <2> HIDE DEF from, inner
  <2>3. /\ from \subseteq Closure(from, inner) /\ Closed(inner, Closure(from, inner))
        /\ \A W : from \subseteq W /\ Closed(inner, W) => Closure(from, inner) \subseteq W
    BY <2>1, <2>2, ClosureFacts
  <2>4. QED  BY <2>3 DEF from, inner
<1> HIDE DEF reach
<1>3. ASSUME NEW W
      PROVE  Closed(Inner(f, S), W) <=> \A y \in W \cap Blocks, x \in S : x \in edges[y] => x \in W
  BY <1>1 DEF Closed
<1>4. ASSUME Tied(edges, S), NEW b \in S  PROVE S \subseteq reach(b)
  <2>1. \A x \in S : x \in edges[b] => x \in reach(b)
    BY <1>2
  <2>2. \A y \in S \cap reach(b), x \in S : x \in edges[y] => x \in reach(b)
    BY <1>2, <1>3
  <2>3. QED  BY <1>4, <2>1, <2>2 DEF Tied
<1>5. ASSUME S # {}, \A b \in S : S \subseteq reach(b)  PROVE Tied(edges, S)
  <2>1. ASSUME NEW b \in S, NEW W, \A x \in S : x \in edges[b] => x \in W,
               \A y \in S \cap W, x \in S : x \in edges[y] => x \in W
        PROVE  S \subseteq W
    <3> DEFINE V == W \cap S
    <3>1. start(b) \subseteq V
      BY <2>1
    <3>2. \A y \in V \cap Blocks, x \in S : x \in edges[y] => x \in V
      BY <2>1
    <3>3. Closed(Inner(f, S), V)
      BY <1>3, <3>2
    <3>4. reach(b) \subseteq V
      BY <1>2, <3>1, <3>3
    <3>5. QED  BY <1>5, <3>4
  <2>2. QED  BY <1>5, <2>1 DEF Tied
<1>6. Tied(edges, S) => S # {}
  BY DEF Tied
<1>7. QED  BY <1>4, <1>5, <1>6 DEF reach

(* Reducible says that every cycle is headed.                                *)
LEMMA ReducibleMeans ==
    ASSUME NEW f, NEW N, NEW dom, Charted(f, N, dom)
    PROVE  Reducible(f) <=> Headed(f, N, dom)
<1>1. /\ f.edges \in [Blocks -> SUBSET Blocks] /\ N \subseteq Blocks /\ Reachable(f, f.edges) = N
  BY DEF Charted
<1>2. Reducible(f) <=>
        \A S \in SUBSET Reachable(f, f.edges) :
            S # {} /\ (\A b \in S : S \subseteq Closure(f.edges[b] \cap S, Inner(f, S)))
            => \E h \in S : S \cap Avoiding(f, h) \subseteq {h}
  BY Zenon DEF Reducible, Avoiding, Inner
<1>3. \A S \in SUBSET N :
         Tied(f.edges, S) <=>
           S # {} /\ \A b \in S : S \subseteq Closure(f.edges[b] \cap S, Inner(f, S))
  BY <1>1, TiedMeans
<1>4. ASSUME NEW S \in SUBSET N, NEW h \in S
      PROVE  S \cap Avoiding(f, h) \subseteq {h} <=> \A b \in S : h \in dom[b]
  <2>1. \A b \in S : h \in dom[b] <=> b = h \/ b \notin Avoiding(f, h)
    BY AvoidingFacts
  <2>2. QED  BY <2>1
<1>5. Reducible(f) <=>
        \A S \in SUBSET N : Tied(f.edges, S) => \E h \in S : S \cap Avoiding(f, h) \subseteq {h}
  BY <1>1, <1>2, <1>3
<1>6. \A S \in SUBSET N : (\E h \in S : S \cap Avoiding(f, h) \subseteq {h})
                          <=> (\E h \in S : \A b \in S : h \in dom[b])
  BY <1>4, Zenon
<1>7. QED  BY <1>5, <1>6, Zenon DEF Headed

-----------------------------------------------------------------------------
(* The units of a region can be put in order *)

\* All that is known of the loops of f.
Accepted(f, N, dom, loops) ==
    /\ Natural(f, N, dom, loops) /\ Looped(f, N, dom, loops) /\ LoopsNest(loops)
    /\ Charted(f, N, dom)

(* The blocks of a loop, but its own, that has its header in a region.       *)
LEMMA LoopCandidate ==
    ASSUME NEW f, NEW N, NEW dom, NEW loops, Accepted(f, N, dom, loops),
           NEW u, Region(f, N, loops, u),
           NEW l \in loops, l.header \in Members(f, u), l.header # Header(u)
    PROVE  LoopUnit(f, l) \in Candidates(f, loops, u)
<1> DEFINE h == l.header
           e == f.entry
           edges == f.edges
<1>1. /\ Verified(f, N, dom) /\ Natural(f, N, dom, loops) /\ LoopsNest(loops)
      /\ ReachSet(e, edges, N) /\ DomTree(e, edges, N, dom)
  BY DEF Accepted, Looped, Charted
<1>2. /\ h \in N /\ l.blocks \subseteq N /\ h \in l.blocks
      /\ \A b \in l.blocks : h \in dom[b]
  <2>1. h \in N /\ l.blocks \subseteq N /\ h \in l.blocks
    BY <1>1 DEF Natural
  <2>2. QED  BY <1>1, <2>1, LoopDominated
<1> HIDE DEF e, edges
<1>3. l.blocks \subseteq Members(f, u) /\ (Header(u) = NoBlock \/ l.blocks # Members(f, u))
  <2>1. CASE u = RootUnit(f)
    <3>1. Members(f, u) = N /\ Header(u) = NoBlock
      BY <2>1, RootUnitFacts DEF Accepted, Looped
    <3>2. QED  BY <1>2, <3>1
  <2>2. CASE \E k \in loops : u = LoopUnit(f, k)
    <3>1. PICK k \in loops : u = LoopUnit(f, k)
      BY <2>2
    <3>2. Members(f, u) = k.blocks /\ Header(u) = k.header
      BY <3>1, LoopUnitFacts
    <3>3. l # k /\ h \in k.blocks
      BY <3>2
    <3>4. k.header \in dom[h] /\ k.header \in N
      <4>1. k.header \in N
        BY <1>1 DEF Natural
      <4>2. QED  BY <1>1, <3>3, <4>1, LoopDominated
    <3>5. k.header \notin l.blocks
      <4>1. ASSUME k.header \in l.blocks  PROVE FALSE
        <5>1. h \in dom[k.header]
          BY <1>2, <4>1
        <5>2. h = k.header
          BY <1>1, <1>2, <3>4, <5>1, DominatesAntisymmetric
        <5>3. QED  BY <3>2, <5>2
      <4>2. QED  BY <4>1
    <3>6. k.header \in k.blocks
      BY <1>1 DEF Natural
    <3>7. l.blocks \subseteq k.blocks /\ l.blocks # k.blocks
      BY <1>1, <1>2, <3>3, <3>5, <3>6 DEF LoopsNest
    <3>8. QED  BY <3>2, <3>7
  <2>3. CASE \E t \in TryBlocks(f) \cap N : u = TryUnit(f, t)
    <3>1. PICK t \in TryBlocks(f) \cap N : u = TryUnit(f, t)
      BY <2>3
    <3>2. Members(f, u) = f.raw[t] /\ Header(u) = NoBlock
      BY <3>1, TryUnitFacts
    <3>3. f.raw[t] = {b \in N : f.tries[t].entry \in dom[b]}
      BY <1>1, RawFacts
    <3>4. ASSUME NEW b \in l.blocks  PROVE b \in f.raw[t]
      <4>1. h \in dom[b] /\ f.tries[t].entry \in dom[h] /\ b \in N
        BY <1>2, <3>2, <3>3
      <4>2. f.tries[t].entry \in dom[b]
        BY <1>1, <4>1, DominatesTransitive
      <4>3. QED  BY <3>3, <4>1, <4>2
    <3>5. QED  BY <3>2, <3>4
  <2>4. QED  BY <2>1, <2>2, <2>3 DEF Region, Child
<1>4. QED  BY <1>3 DEF Candidates

LEMMA AllUnitsAreUnits ==
    ASSUME NEW f, NEW N, NEW dom, NEW loops, Looped(f, N, dom, loops),
           NEW u, Region(f, N, loops, u), NEW v \in AllUnits(f, loops, u)
    PROVE  Unit(f, N, loops, v)
BY AllUnitsFacts DEF Unit

(* A block of a region is in a unit of it, and a loop within it is too.      *)
LEMMA BlockHasUnit ==
    ASSUME NEW f, NEW loops, NEW u, NEW b \in Members(f, u)
    PROVE  \E v \in AllUnits(f, loops, u) : b \in v.blocks
<1>1. CASE b \in Alone(f, loops, u)
  <2>1. BlockUnit(b) \in AllUnits(f, loops, u)
    BY <1>1 DEF AllUnits
  <2>2. b \in BlockUnit(b).blocks
    BY BlockUnitFacts
  <2>3. QED  BY <2>1, <2>2
<1>2. CASE b \notin Alone(f, loops, u)
  BY <1>2 DEF Alone, AllUnits
<1>3. QED  BY <1>1, <1>2

(* A back edge to a block of a region, but to its header, is inside a unit.  *)
LEMMA BackEdgeInside ==
    ASSUME NEW f, NEW N, NEW dom, NEW loops, Accepted(f, N, dom, loops),
           NEW u, Region(f, N, loops, u),
           NEW h \in Members(f, u), h # Header(u), NEW s \in N, h \in f.succ[s], h \in dom[s]
    PROVE  \E d \in DirectChildren(f, loops, u) : h \in d.blocks /\ s \in d.blocks
<1>1. Members(f, u) \subseteq N /\ Looped(f, N, dom, loops)
  BY RegionFacts DEF Accepted
<1>2. PICK l \in loops : l.header = h /\ s \in l.blocks
  BY <1>1 DEF Accepted, Natural
<1>3. LoopUnit(f, l) \in Candidates(f, loops, u)
  BY <1>2, LoopCandidate
<1>4. PICK d \in DirectChildren(f, loops, u) : LoopUnit(f, l).blocks \subseteq d.blocks
  BY <1>1, <1>3, Covered
<1>5. l.blocks \subseteq LoopUnit(f, l).blocks /\ h \in l.blocks
  BY <1>1, <1>2, LoopUnitFacts DEF Looped
<1>6. QED  BY <1>2, <1>4, <1>5

(* When every cycle is headed, something can always come next.               *)
LEMMA SomeReady ==
    ASSUME NEW f, NEW N, NEW dom, NEW loops, Accepted(f, N, dom, loops), Headed(f, N, dom),
           NEW u, Region(f, N, loops, u), Disjoint(f, loops, u),
           NEW left \in SUBSET AllUnits(f, loops, u), left # {}
    PROVE  Ready(f, u, left) # {}
<1> DEFINE Inside(s, b) == b \in f.edges[s] /\ \E v \in left : s \in v.blocks /\ b \in v.blocks
           Between(s, b) == /\ b \in f.succ[s] /\ b \in Members(f, u) /\ b # Header(u)
                            /\ \E v, w \in left : v # w /\ s \in v.blocks /\ b = w.header
           T == UNION {v.blocks : v \in left}
           next == [s \in T |-> {b \in T : Inside(s, b) \/ Between(s, b)}]
<1>1. SUFFICES ASSUME Ready(f, u, left) = {} PROVE FALSE
  OBVIOUS
<1>2. /\ Looped(f, N, dom, loops) /\ Natural(f, N, dom, loops) /\ Charted(f, N, dom)
      /\ DomTree(f.entry, f.edges, N, dom) /\ ReachSet(f.entry, f.edges, N)
      /\ Members(f, u) \subseteq N /\ dom \in [N -> SUBSET N]
      /\ IsFiniteSet(N) /\ N \subseteq Blocks /\ \A b \in Blocks : f.succ[b] \subseteq f.edges[b]
  <2>1. Looped(f, N, dom, loops) /\ Natural(f, N, dom, loops) /\ Charted(f, N, dom)
    BY DEF Accepted
  <2>2. Verified(f, N, dom) /\ f.edges = UnwindEdges(f)
    BY <2>1 DEF Looped
  <2>3. IsFiniteSet(N) /\ N \subseteq Blocks
    BY <2>2 DEF Verified
  <2>4. \A b \in Blocks : f.succ[b] \subseteq f.edges[b]
    BY <2>2, UnwindFacts
  <2>5. DomTree(f.entry, f.edges, N, dom) /\ ReachSet(f.entry, f.edges, N)
    BY <2>1 DEF Charted
  <2>6. dom \in [N -> SUBSET N]
    BY <2>5 DEF DomTree
  <2>7. Members(f, u) \subseteq N
    BY <2>1, RegionFacts
  <2>8. QED  BY <2>1, <2>3, <2>4, <2>5, <2>6, <2>7
<1>3. \A v \in left : /\ Unit(f, N, loops, v) /\ v.header \in v.blocks
                      /\ v.blocks \subseteq N /\ v.header \in N
  <2> TAKE v \in left
  <2>1. Unit(f, N, loops, v)
    BY <1>2, AllUnitsAreUnits
  <2>2. QED  BY <1>2, <2>1, UnitHasHeader DEF Unit
<1>4. T \subseteq N /\ T # {} /\ IsFiniteSet(T)
  <2>1. T \in SUBSET N /\ T # {}
    BY <1>3
  <2> HIDE DEF T
  <2>2. QED  BY <1>2, <2>1, FS_Subset
<1>5. \A v, w \in left : \A b : b \in v.blocks /\ b \in w.blocks => v = w
  BY <1>2, UnitsApart
<1>6. ASSUME NEW w \in left
      PROVE  /\ w.header \in Members(f, u) /\ w.header # Header(u)
             /\ \E v \in left : v # w /\ \E s \in v.blocks : w.header \in f.succ[s]
  <2>1. PICK v \in left : Leads(f, u, v, w)
    BY <1>1 DEF Ready
  <2>2. v # w
    BY <2>1 DEF Leads
  <2>3. PICK s \in v.blocks, t \in w.blocks \cap Members(f, u) : t # Header(u) /\ t \in f.succ[s]
    BY <2>1 DEF Leads
  <2>4. s \notin w.blocks /\ s \in N /\ t \in f.edges[s]
    BY <1>2, <1>3, <1>5, <2>2, <2>3
  <2>5. t = w.header
    BY <1>2, <1>3, <2>3, <2>4, UnitEntered
  <2>6. QED  BY <2>2, <2>3, <2>5
<1>7. ASSUME NEW b \in T  PROVE \E s \in T : b \in next[s]
  <2>1. PICK v \in left : b \in v.blocks
    OBVIOUS
  <2>2. CASE b = v.header
    <3>1. PICK o \in left : o # v /\ \E s \in o.blocks : v.header \in f.succ[s]
      BY <1>6
    <3>2. PICK s \in o.blocks : v.header \in f.succ[s]
      BY <3>1
    <3>3. Between(s, b)
      BY <1>6, <2>2, <3>1, <3>2
    <3>4. s \in T
      OBVIOUS
    <3>5. QED  BY <3>3, <3>4
  <2>3. CASE b # v.header
    <3>1. b \in N /\ b # f.entry
      BY <1>2, <1>3, <2>1, <2>3, EntryStarts
    <3>2. PICK p \in N : b \in f.edges[p]
      BY <1>2, <3>1, ReachedHavePredecessors
    <3>3. p \in v.blocks
      BY <1>2, <1>3, <2>1, <2>3, <3>2, UnitEntered
    <3>4. Inside(p, b) /\ p \in T
      BY <2>1, <3>2, <3>3
    <3>5. QED  BY <3>4
  <2>4. QED  BY <2>2, <2>3
<1>8. /\ \A s, b \in T : b \in next[s] => Inside(s, b) \/ Between(s, b)
      /\ \A s, b \in T : Inside(s, b) \/ Between(s, b) => b \in next[s]
  OBVIOUS
<1> HIDE DEF next
<1>9. PICK Y \in SUBSET T : Tied(next, Y) /\ \A b \in Y, s \in T : b \in next[s] => s \in Y
  <2> HIDE DEF T
  <2> QED  BY <1>4, <1>7, TiedExists
<1>10. Tied(f.edges, Y)
  <2>1. \A b \in Y, x \in Y : x \in next[b] => x \in f.edges[b]
    <3> TAKE b \in Y, x \in Y
    <3>1. b \in Blocks
      BY <1>2, <1>4
    <3>2. x \in next[b] => Inside(b, x) \/ Between(b, x)
      BY <1>8
    <3>3. QED  BY <1>2, <3>1, <3>2
  <2>2. QED  BY <1>9, <2>1, TiedWithMore
<1>11. PICK h \in Y : \A b \in Y : h \in dom[b]
  <2>1. Y \in SUBSET N
    BY <1>4
  <2>2. QED  BY <1>10, <2>1 DEF Headed
<1>12. PICK w \in left : h \in w.blocks
  OBVIOUS
<1>13. w.header \in Y
  <2> DEFINE W == w.blocks \ Y
  <2>1. ASSUME w.header \notin Y  PROVE FALSE
    <3>1. w.header \in W
      BY <1>3, <2>1
    <3>2. ASSUME NEW s \in w.blocks \cap W, NEW b \in w.blocks, b \in f.edges[s]  PROVE b \in W
      <4>1. s \in T /\ b \in T /\ Inside(s, b)
        BY <3>2
      <4>2. b \in next[s]
        BY <1>8, <4>1
      <4>3. b \in Y => s \in Y
        BY <1>9, <4>1, <4>2
      <4>4. QED  BY <3>2, <4>3
    <3> HIDE DEF W
    <3>3. w.blocks \subseteq W
      BY <1>2, <1>3, <3>1, <3>2, UnitConnected
    <3>4. QED  BY <1>11, <1>12, <3>3 DEF W
  <2>2. QED  BY <2>1
<1>14. h = w.header
  <2>1. h \in dom[w.header] /\ w.header \in N /\ h \in N
    BY <1>3, <1>4, <1>11, <1>13
  <2>2. w.header \in dom[h]
    BY <1>2, <1>3, <1>12, UnitDominated
  <2>3. QED  BY <1>2, <2>1, <2>2, DominatesAntisymmetric
<1>15. PICK v \in left : v # w /\ \E s \in v.blocks : h \in f.succ[s]
  BY <1>6, <1>14
<1>16. PICK s \in v.blocks : h \in f.succ[s]
  BY <1>15
<1>17. s \in Y /\ s \in N
  <2>1. s \in T /\ h \in T /\ Between(s, h)
    BY <1>6, <1>12, <1>14, <1>15, <1>16
  <2>2. h \in next[s]
    BY <1>8, <2>1
  <2>3. QED  BY <1>4, <1>9, <1>11, <2>1, <2>2
<1>18. h \in dom[s] /\ h \in Members(f, u) /\ h # Header(u)
  BY <1>6, <1>11, <1>14, <1>17
<1>19. PICK d \in DirectChildren(f, loops, u) : h \in d.blocks /\ s \in d.blocks
  BY <1>16, <1>17, <1>18, BackEdgeInside
<1>20. d \in AllUnits(f, loops, u) /\ v \in AllUnits(f, loops, u) /\ w \in AllUnits(f, loops, u)
  BY DEF AllUnits
<1>21. d = w /\ d = v
  BY <1>2, <1>12, <1>16, <1>19, <1>20, UnitsApart
<1>22. QED  BY <1>15, <1>21

LEMMA NextIsReady ==
    ASSUME NEW f, NEW u, NEW units, \A v \in units : v.header \in Nat,
           NEW left \in SUBSET units, Ready(f, u, left) # {}
    PROVE  NextUnit(f, u, Ready(f, u, left)) \in Ready(f, u, left)
<1> DEFINE ready == Ready(f, u, left)
           starts == {v \in ready : First(f, u) \in v.blocks}
           lowest(v) == \A w \in ready : v.header <= w.header
<1>1. ready \subseteq units
  BY DEF Ready
<1> HIDE DEF ready
<1>2. NextUnit(f, u, ready) = IF starts # {} THEN CHOOSE v \in starts : TRUE
                              ELSE CHOOSE v \in ready : lowest(v)
  BY DEF NextUnit
<1>3. \E v \in ready : lowest(v)
  <2> DEFINE headers == {v.header : v \in ready}
  <2>1. headers \in SUBSET Nat /\ headers # {}
    BY <1>1 DEF ready
  <2>2. PICK k \in headers : \A j \in headers : k <= j
    <3> HIDE DEF headers
    <3> QED  BY <2>1, LeastExists
  <2>3. PICK v \in ready : k = v.header
    OBVIOUS
  <2>4. QED  BY <2>2, <2>3
<1>4. NextUnit(f, u, ready) \in ready
  <2>1. CASE starts # {}
    <3>1. (CHOOSE v \in starts : TRUE) \in starts
      BY <2>1
    <3>2. QED  BY <1>2, <2>1, <3>1
  <2>2. CASE starts = {}
    <3> HIDE DEF lowest
    <3> QED  BY <1>2, <1>3, <2>2
  <2>3. QED  BY <2>1, <2>2
<1>5. QED  BY <1>4 DEF ready

\* The order g gives left starts with v.
StartsOrder(g, left, v) ==
    g[left] = IF left = {v} THEN <<v>>
              ELSE IF g[left \ {v}] = NoCode THEN NoCode ELSE <<v>> \o g[left \ {v}]

\* What the orders in g are, unit by unit.
Orders(f, u, units, g) ==
    \A left \in SUBSET units :
        /\ Cardinality(left) \in Nat
        /\ \/ Ready(f, u, left) = {} /\ g[left] = NoCode
           \/ \E v \in Ready(f, u, left) :
                 /\ v \in left /\ left \ {v} \in SUBSET units
                 /\ Cardinality(left \ {v}) < Cardinality(left)
                 /\ StartsOrder(g, left, v)

LEMMA OrderingFacts ==
    ASSUME NEW f, NEW u, NEW units, IsFiniteSet(units), \A v \in units : v.header \in Nat
    PROVE  \E g : Ordered(f, u, units) = g[units] /\ Orders(f, u, units, g)
<1>1. \E g : Ordering(f, u, units, g)
  BY OrderExists
<1> DEFINE g == CHOOSE g : Ordering(f, u, units, g)
           next(left) == NextUnit(f, u, Ready(f, u, left))
<1>2. Ordering(f, u, units, g)
  BY <1>1
<1>3. Ordered(f, u, units) = g[units]
  BY DEF Ordered, Ordering, OrderedBy
<1> HIDE DEF g
<1>4. \A left \in SUBSET units :
         g[left] = IF Ready(f, u, left) = {} THEN NoCode
                   ELSE IF left = {next(left)} THEN <<next(left)>>
                   ELSE IF g[left \ {next(left)}] = NoCode THEN NoCode
                   ELSE <<next(left)>> \o g[left \ {next(left)}]
  BY <1>2 DEF Ordering, OrderedBy
<1>5. \A left \in SUBSET units : Cardinality(left) \in Nat
  BY FS_Subset, FS_CardinalityType
<1>6. ASSUME NEW left \in SUBSET units, Ready(f, u, left) # {}
      PROVE  /\ next(left) \in Ready(f, u, left) /\ next(left) \in left
             /\ left \ {next(left)} \in SUBSET units
             /\ Cardinality(left \ {next(left)}) < Cardinality(left)
  <2>1. /\ next(left) \in left /\ left \ {next(left)} \in SUBSET units
        /\ Cardinality(left \ {next(left)}) < Cardinality(left)
    BY <1>6, NextUnitFacts
  <2>2. next(left) \in Ready(f, u, left)
    BY <1>6, NextIsReady
  <2>3. QED  BY <2>1, <2>2
<1> HIDE DEF next
<1>7. ASSUME NEW left \in SUBSET units, Ready(f, u, left) # {}
      PROVE  \E v \in Ready(f, u, left) :
                /\ v \in left /\ left \ {v} \in SUBSET units
                /\ Cardinality(left \ {v}) < Cardinality(left)
                /\ StartsOrder(g, left, v)
  <2> DEFINE v == next(left)
  <2>1. StartsOrder(g, left, v)
    BY <1>4, <1>7 DEF StartsOrder
  <2>2. /\ v \in Ready(f, u, left) /\ v \in left /\ left \ {v} \in SUBSET units
        /\ Cardinality(left \ {v}) < Cardinality(left)
    BY <1>6, <1>7
  <2> HIDE DEF v
  <2>3. QED  BY <2>1, <2>2
<1>8. Orders(f, u, units, g)
  BY <1>4, <1>5, <1>7 DEF Orders
<1>9. QED  BY <1>3, <1>8

(* There is an order when something can always come next.                    *)
LEMMA OrderedSome ==
    ASSUME NEW f, NEW u, NEW units, IsFiniteSet(units), \A v \in units : v.header \in Nat,
           units # {}, \A left \in SUBSET units : left # {} => Ready(f, u, left) # {}
    PROVE  Ordered(f, u, units) # NoCode
<1>1. PICK g : Ordered(f, u, units) = g[units] /\ Orders(f, u, units, g)
  BY OrderingFacts
<1> DEFINE Some(s) == s \in Seq(units) /\ s # <<>>
           Gaps == {n \in Nat : \E left \in SUBSET units :
                                   left # {} /\ Cardinality(left) = n /\ ~Some(g[left])}
<1>2. Gaps = {}
  <2>1. SUFFICES ASSUME Gaps # {} PROVE FALSE
    OBVIOUS
  <2>2. Gaps \in SUBSET Nat
    OBVIOUS
  <2>3. PICK k \in Gaps : \A j \in Gaps : k <= j
    <3> HIDE DEF Gaps
    <3> QED  BY <2>1, <2>2, LeastExists
  <2>4. PICK left \in SUBSET units : left # {} /\ Cardinality(left) = k /\ ~Some(g[left])
    OBVIOUS
  <2>5. PICK v \in left : /\ left \ {v} \in SUBSET units
                          /\ Cardinality(left \ {v}) < Cardinality(left)
                          /\ StartsOrder(g, left, v)
    BY <1>1, <2>4 DEF Orders
  <2> DEFINE rest == left \ {v}
  <2>6. v \in units /\ <<v>> \in Seq(units) /\ <<v>> # <<>>
    BY <2>5
  <2>7. CASE rest = {}
    <3>1. left = {v}
      BY <2>5, <2>7
    <3>2. QED  BY <2>4, <2>5, <2>6, <3>1 DEF StartsOrder
  <2>8. CASE rest # {}
    <3>1. rest \in SUBSET units /\ Cardinality(rest) \in Nat /\ Cardinality(rest) < k /\ k \in Nat
          /\ left # {v}
      BY <1>1, <2>4, <2>5, <2>8 DEF Orders
    <3>2. Cardinality(rest) \notin Gaps
      <4> HIDE DEF Gaps, rest
      <4> QED  BY <2>3, <3>1
    <3>3. Some(g[rest])
      <4> HIDE DEF rest
      <4> QED  BY <2>8, <3>1, <3>2
    <3>4. g[left] = <<v>> \o g[rest]
      BY <2>5, <3>1, <3>3 DEF NoCode, StartsOrder
    <3> HIDE DEF rest
    <3>5. g[left] \in Seq(units) /\ Len(g[left]) = 1 + Len(g[rest]) /\ Len(g[rest]) \in Nat
      <4>1. Len(<<v>>) = 1
        OBVIOUS
      <4>2. QED  BY <2>6, <3>3, <3>4, <4>1, ConcatProperties
    <3>6. g[left] # <<>>
      BY <3>5, EmptySeq
    <3>7. QED  BY <2>4, <3>5, <3>6
  <2>9. QED  BY <2>7, <2>8
<1>3. units \in SUBSET units /\ Cardinality(units) \in Nat
  BY <1>1 DEF Orders
<1>4. Some(g[units])
  BY <1>2, <1>3
<1>5. QED  BY <1>1, <1>4 DEF NoCode

\* All of left stand in s, and none leads to an earlier one.
InOrder(f, u, s, left) ==
    /\ \A i \in 1 .. Len(s) : s[i] \in left
    /\ \A v \in left : \E i \in 1 .. Len(s) : s[i] = v
    /\ \A i, j \in 1 .. Len(s) : j < i => ~Leads(f, u, s[i], s[j])

LEMMA OrderGrows ==
    ASSUME NEW f, NEW u, NEW units, NEW left \in SUBSET units, NEW v \in Ready(f, u, left),
           NEW s \in Seq(units), InOrder(f, u, s, left \ {v})
    PROVE  <<v>> \o s \in Seq(units) /\ InOrder(f, u, <<v>> \o s, left)
<1> DEFINE r == <<v>> \o s
<1>1. v \in left /\ v \in units /\ \A w \in left : ~Leads(f, u, w, v)
  BY DEF Ready
<1>2. <<v>> \in Seq(units) /\ Len(<<v>>) = 1 /\ <<v>>[1] = v /\ Len(s) \in Nat
  BY <1>1
<1>3. /\ r \in Seq(units) /\ Len(r) = 1 + Len(s)
      /\ \A i \in 1 .. 1 + Len(s) : r[i] = IF i <= 1 THEN <<v>>[i] ELSE s[i - 1]
  BY <1>2, ConcatProperties
<1> HIDE DEF r
<1>4. /\ r[1] = v
      /\ \A i \in 2 .. Len(r) : i - 1 \in 1 .. Len(s) /\ r[i] = s[i - 1]
      /\ \A i \in 1 .. Len(s) : i + 1 \in 2 .. Len(r) /\ r[i + 1] = s[i]
  <2>1. r[1] = v
    BY <1>2, <1>3
  <2>2. ASSUME NEW i \in 2 .. Len(r)  PROVE i - 1 \in 1 .. Len(s) /\ r[i] = s[i - 1]
    BY <1>2, <1>3, <2>2
  <2>3. ASSUME NEW i \in 1 .. Len(s)  PROVE i + 1 \in 2 .. Len(r) /\ r[i + 1] = s[i]
    <3>1. i + 1 \in 2 .. Len(r) /\ (i + 1) - 1 = i
      BY <1>2, <1>3, <2>3
    <3>2. QED  BY <2>2, <3>1
  <2>4. QED  BY <2>1, <2>2, <2>3
<1>5. \A i \in 1 .. Len(r) : i = 1 \/ i \in 2 .. Len(r)
  BY <1>2, <1>3
<1>6. \A i \in 1 .. Len(r) : r[i] \in left
  <2>1. \A i \in 1 .. Len(s) : s[i] \in left
    BY DEF InOrder
  <2>2. QED  BY <1>1, <1>4, <1>5, <2>1
<1>7. ASSUME NEW w \in left  PROVE \E i \in 1 .. Len(r) : r[i] = w
  <2>1. 1 \in 1 .. Len(r) /\ \A i \in 2 .. Len(r) : i \in 1 .. Len(r)
    BY <1>2, <1>3
  <2>2. CASE w = v
    BY <1>4, <2>1, <2>2
  <2>3. CASE w # v
    <3>1. PICK i \in 1 .. Len(s) : s[i] = w
      BY <2>3 DEF InOrder
    <3>2. QED  BY <1>4, <2>1, <3>1
  <2>4. QED  BY <2>2, <2>3
<1>8. ASSUME NEW i \in 1 .. Len(r), NEW j \in 1 .. Len(r), j < i  PROVE ~Leads(f, u, r[i], r[j])
  <2>1. CASE j = 1
    BY <1>1, <1>4, <1>6, <2>1
  <2>2. CASE j # 1
    <3>1. i \in 2 .. Len(r) /\ j \in 2 .. Len(r) /\ j - 1 < i - 1
      BY <1>2, <1>3, <1>8, <2>2
    <3>2. /\ i - 1 \in 1 .. Len(s) /\ j - 1 \in 1 .. Len(s)
          /\ r[i] = s[i - 1] /\ r[j] = s[j - 1]
      BY <1>4, <3>1
    <3>3. ~Leads(f, u, s[i - 1], s[j - 1])
      BY <3>1, <3>2 DEF InOrder
    <3>4. QED  BY <3>2, <3>3
  <2>3. QED  BY <2>1, <2>2
<1>9. InOrder(f, u, r, left)
  BY <1>6, <1>7, <1>8 DEF InOrder
<1>10. QED  BY <1>3, <1>9 DEF r

(* The units of an order stand in it.                                        *)
LEMMA OrderedInOrder ==
    ASSUME NEW f, NEW u, NEW units, IsFiniteSet(units), \A v \in units : v.header \in Nat,
           Ordered(f, u, units) # NoCode
    PROVE  InOrder(f, u, Ordered(f, u, units), units)
<1>1. PICK g : Ordered(f, u, units) = g[units] /\ Orders(f, u, units, g)
  BY OrderingFacts
<1> DEFINE Fine(left) == g[left] # NoCode => g[left] \in Seq(units) /\ InOrder(f, u, g[left], left)
           Gaps == {n \in Nat : \E left \in SUBSET units : Cardinality(left) = n /\ ~Fine(left)}
<1>2. Gaps = {}
  <2>1. SUFFICES ASSUME Gaps # {} PROVE FALSE
    OBVIOUS
  <2>2. Gaps \in SUBSET Nat
    OBVIOUS
  <2>3. PICK k \in Gaps : \A j \in Gaps : k <= j
    <3> HIDE DEF Gaps
    <3> QED  BY <2>1, <2>2, LeastExists
  <2>4. PICK left \in SUBSET units : Cardinality(left) = k /\ ~Fine(left)
    OBVIOUS
  <2>5. PICK v \in Ready(f, u, left) : /\ v \in left /\ left \ {v} \in SUBSET units
                                       /\ Cardinality(left \ {v}) < Cardinality(left)
                                       /\ StartsOrder(g, left, v)
    BY <1>1, <2>4 DEF Orders
  <2> DEFINE rest == left \ {v}
  <2>6. CASE left = {v}
    <3>1. g[left] = <<v>> /\ v \in units
      BY <2>5, <2>6 DEF StartsOrder
    <3>2. <<v>> \in Seq(units) /\ Len(<<v>>) = 1 /\ <<v>>[1] = v
      BY <3>1
    <3>3. InOrder(f, u, <<v>>, left)
      BY <2>6, <3>2 DEF InOrder
    <3>4. QED  BY <2>4, <3>1, <3>2, <3>3
  <2>7. CASE left # {v}
    <3>1. rest \in SUBSET units /\ Cardinality(rest) \in Nat /\ Cardinality(rest) < k /\ k \in Nat
      BY <1>1, <2>4, <2>5 DEF Orders
    <3>2. Cardinality(rest) \notin Gaps
      <4> HIDE DEF Gaps, rest
      <4> QED  BY <2>3, <3>1
    <3>3. Fine(rest)
      <4> HIDE DEF rest, Fine
      <4> QED  BY <3>1, <3>2
    <3>4. g[rest] # NoCode /\ g[left] = <<v>> \o g[rest]
      BY <2>4, <2>5, <2>7 DEF StartsOrder
    <3>5. g[rest] \in Seq(units) /\ InOrder(f, u, g[rest], rest)
      <4> HIDE DEF rest
      <4> QED  BY <3>3, <3>4
    <3>6. g[left] \in Seq(units) /\ InOrder(f, u, g[left], left)
      <4> DEFINE s == g[rest]
      <4>1. s \in Seq(units) /\ InOrder(f, u, s, left \ {v}) /\ g[left] = <<v>> \o s
        BY <3>4, <3>5
      <4> HIDE DEF s, Gaps, Fine
      <4>2. <<v>> \o s \in Seq(units) /\ InOrder(f, u, <<v>> \o s, left)
        BY <4>1, OrderGrows, Zenon
      <4>3. QED  BY <4>1, <4>2, Zenon
    <3>7. QED  BY <2>4, <3>6
  <2>8. QED  BY <2>6, <2>7
<1>3. units \in SUBSET units /\ Cardinality(units) \in Nat
  BY <1>1 DEF Orders
<1>4. Fine(units)
  <2> HIDE DEF Fine
  <2> QED  BY <1>2, <1>3
<1>5. QED  BY <1>1, <1>4

(* The units of a region of a reducible graph are ordered.                   *)
LEMMA UnitsOrdered ==
    ASSUME NEW f, NEW N, NEW dom, NEW loops, Accepted(f, N, dom, loops),
           NEW u, Region(f, N, loops, u)
    PROVE  /\ Headed(f, N, dom) => Units(f, loops, u) # NoCode
           /\ Units(f, loops, u) # NoCode =>
                InOrder(f, u, Units(f, loops, u), AllUnits(f, loops, u))
<1> DEFINE all == AllUnits(f, loops, u)
<1>1. Looped(f, N, dom, loops) /\ LoopsNest(loops)
  BY DEF Accepted
<1>2. Disjoint(f, loops, u)
  BY <1>1, UnitsDisjoint
<1>3. Units(f, loops, u) = Ordered(f, u, all)
  BY <1>2, UnitsAre
<1>4. IsFiniteSet(all) /\ \A v \in all : v.header \in Nat
  BY <1>1, AllUnitsFinite, AllUnitsFacts
<1>5. all # {}
  <2>1. First(f, u) \in Members(f, u)
    BY <1>1, RegionFacts
  <2>2. QED  BY <2>1, BlockHasUnit
<1>6. Headed(f, N, dom) => \A left \in SUBSET all : left # {} => Ready(f, u, left) # {}
  BY <1>2, SomeReady
<1> HIDE DEF all
<1>7. Headed(f, N, dom) => Ordered(f, u, all) # NoCode
  BY <1>4, <1>5, <1>6, OrderedSome
<1>8. Ordered(f, u, all) # NoCode => InOrder(f, u, Ordered(f, u, all), all)
  BY <1>4, OrderedInOrder
<1>9. QED  BY <1>3, <1>7, <1>8 DEF all

-----------------------------------------------------------------------------
(* A region whose units are in order has code *)

\* A branch to t finds a label.
HasLabel(t, L) == \E i \in 1 .. Len(L) : L[i] = <<"loop", t>> \/ L[i] = <<"block", t>>

LEMMA LabelFound ==
    ASSUME NEW L \in Seq(Label), NEW t, HasLabel(t, L)
    PROVE  BranchLabel(t, L) # 0
<1> DEFINE loop == SelectLastInSeq(L, LAMBDA l : l = <<"loop", t>>)
           block == SelectLastInSeq(L, LAMBDA l : l = <<"block", t>>)
           I == {j \in 1 .. Len(L) : L[j] = <<"loop", t>>}
           J == {j \in 1 .. Len(L) : L[j] = <<"block", t>>}
<1>1. Len(L) \in Nat /\ I \in SUBSET (1 .. Len(L)) /\ J \in SUBSET (1 .. Len(L))
  OBVIOUS
<1>2. I # {} \/ J # {}
  BY DEF HasLabel
<1>3. loop = IF I # {} THEN Max(I) ELSE 0
  BY DEF SelectLastInSeq
<1>4. block = IF J # {} THEN Max(J) ELSE 0
  BY DEF SelectLastInSeq
<1>5. BranchLabel(t, L) = IF loop # 0 THEN loop ELSE block
  BY DEF BranchLabel
<1> HIDE DEF loop, block, I, J
<1>6. I # {} => loop # 0
  BY <1>1, <1>3, LastIs
<1>7. J # {} => block # 0
  BY <1>1, <1>4, LastIs
<1>8. QED  BY <1>2, <1>5, <1>6, <1>7

LEMMA LabelStays ==
    ASSUME NEW L \in Seq(Label), NEW K \in Seq(Label), NEW t
    PROVE  HasLabel(t, L) \/ HasLabel(t, K) => HasLabel(t, L \o K)
<1>1. Len(L) \in Nat /\ Len(K) \in Nat /\ Len(L \o K) = Len(L) + Len(K)
  OBVIOUS
<1>2. \A i \in 1 .. Len(L) : (L \o K)[i] = L[i] /\ i \in 1 .. Len(L \o K)
  BY <1>1
<1>3. \A i \in 1 .. Len(K) : (L \o K)[Len(L) + i] = K[i] /\ Len(L) + i \in 1 .. Len(L \o K)
  BY <1>1
<1> DEFINE LK == L \o K
<1> HIDE DEF LK
<1>4. ASSUME HasLabel(t, L)  PROVE HasLabel(t, LK)
  <2>1. PICK i \in 1 .. Len(L) : L[i] = <<"loop", t>> \/ L[i] = <<"block", t>>
    BY <1>4 DEF HasLabel
  <2>2. i \in 1 .. Len(LK) /\ LK[i] = L[i]
    BY <1>2 DEF LK
  <2>3. QED  BY <2>1, <2>2 DEF HasLabel
<1>5. ASSUME HasLabel(t, K)  PROVE HasLabel(t, LK)
  <2>1. PICK i \in 1 .. Len(K) : K[i] = <<"loop", t>> \/ K[i] = <<"block", t>>
    BY <1>5 DEF HasLabel
  <2>2. Len(L) + i \in 1 .. Len(LK) /\ LK[Len(L) + i] = K[i]
    BY <1>3 DEF LK
  <2> DEFINE j == Len(L) + i
  <2> HIDE DEF j
  <2>3. j \in 1 .. Len(LK) /\ LK[j] = K[i]
    BY <2>2 DEF j
  <2>4. QED  BY <2>1, <2>3 DEF HasLabel
<1>6. QED  BY <1>4, <1>5 DEF LK

LEMMA LabelAppended ==
    ASSUME NEW L \in Seq(Label), NEW k \in Label, NEW t, HasLabel(t, L)
    PROVE  HasLabel(t, Append(L, k))
<1>1. PICK i \in 1 .. Len(L) : L[i] = <<"loop", t>> \/ L[i] = <<"block", t>>
  BY DEF HasLabel
<1>2. Len(Append(L, k)) = Len(L) + 1 /\ Len(L) \in Nat /\ Append(L, k)[i] = L[i]
  OBVIOUS
<1>3. i \in 1 .. Len(Append(L, k))
  BY <1>2
<1>4. QED  BY <1>1, <1>2, <1>3 DEF HasLabel

(* Around a unit are the labels of its region, that of the loop the region   *)
(* is, and those of the units behind it.                                     *)
LEMMA LabelsHave ==
    ASSUME NEW u, u.kind = "loop" => u.header \in Blocks,
           NEW S, NEW units \in Seq(S), \A i \in 1 .. Len(units) : units[i].header \in Blocks,
           NEW L \in Seq(Label), NEW i \in 1 .. Len(units)
    PROVE  /\ Labels(u, units, i, L) \in Seq(Label)
           /\ \A t : HasLabel(t, L) => HasLabel(t, Labels(u, units, i, L))
           /\ u.kind = "loop" => HasLabel(u.header, Labels(u, units, i, L))
           /\ \A j \in 1 .. Len(units) :
                 i < j => HasLabel(units[j].header, Labels(u, units, i, L))
<1> DEFINE own == IF u.kind = "loop" THEN <<<<"loop", u.header>>>> ELSE <<>>
           n == Len(units) - i
           behind == [j \in 1 .. n |-> <<"block", units[Len(units) + 1 - j].header>>]
           K == Labels(u, units, i, L)
<1>1. Len(units) \in Nat /\ n \in Nat /\ i \in Nat
  OBVIOUS
<1>2. own \in Seq(Label) /\ (u.kind = "loop" => HasLabel(u.header, own))
  <2>1. CASE u.kind = "loop"
    <3> DEFINE k == <<"loop", u.header>>
    <3>1. k \in Label
      BY <2>1, MakeLabel
    <3>2. own = <<k>> /\ k = <<"loop", u.header>>
      BY <2>1
    <3> HIDE DEF own, k
    <3>3. own \in Seq(Label) /\ Len(own) = 1 /\ own[1] = k
      BY <3>1, <3>2
    <3>4. QED  BY <3>2, <3>3 DEF HasLabel
  <2>2. CASE u.kind # "loop"
    <3>1. own = <<>>
      BY <2>2
    <3> HIDE DEF own
    <3>2. QED  BY <2>2, <3>1
  <2>3. QED  BY <2>1, <2>2
<1>3. behind \in Seq(Label) /\ Len(behind) = n
  <2>1. ASSUME NEW j \in 1 .. n  PROVE <<"block", units[Len(units) + 1 - j].header>> \in Label
    <3>1. Len(units) + 1 - j \in 1 .. Len(units)
      BY <1>1
    <3>2. units[Len(units) + 1 - j].header \in Blocks
      BY <3>1
    <3>3. QED  BY <3>2, MakeLabel
  <2>2. behind \in [1 .. n -> Label]
    BY <2>1
  <2> HIDE DEF n, behind
  <2>3. QED  BY <1>1, <2>2, FunctionIsSeq
<1>4. \A j \in 1 .. Len(units) : i < j => HasLabel(units[j].header, behind)
  <2> TAKE j \in 1 .. Len(units)
  <2> HAVE i < j
  <2> DEFINE m == Len(units) + 1 - j
  <2>1. m \in 1 .. n /\ Len(units) + 1 - m = j
    BY <1>1
  <2>2. behind[m] = <<"block", units[j].header>>
    BY <2>1
  <2> HIDE DEF m, behind, n
  <2>3. QED  BY <1>3, <2>1, <2>2 DEF HasLabel
<1>5. K = (L \o own) \o behind
  BY DEF Labels
<1> HIDE DEF own, behind, K, n
<1>6. (L \o own) \in Seq(Label)
  BY <1>2
<1>7. K \in Seq(Label)
  BY <1>3, <1>5, <1>6
<1>8. \A t : HasLabel(t, L) => HasLabel(t, K)
  BY <1>2, <1>3, <1>5, <1>6, LabelStays
<1>9. u.kind = "loop" => HasLabel(u.header, K)
  BY <1>2, <1>3, <1>5, <1>6, LabelStays
<1>10. \A j \in 1 .. Len(units) : i < j => HasLabel(units[j].header, K)
  BY <1>3, <1>4, <1>5, <1>6, LabelStays
<1>11. QED  BY <1>7, <1>8, <1>9, <1>10 DEF K

LEMMA BlockEmits ==
    ASSUME NEW f, NEW b, NEW L \in Seq(Label), \A t \in f.succ[b] : HasLabel(t, L)
    PROVE  EmitBlock(f, b, L) # NoCode
<1>1. \A t \in f.succ[b] : BranchLabel(t, L) # 0
  BY LabelFound
<1>2. Terminator(f, b, L) # NoCode
  BY <1>1 DEF Terminator, NoCode
<1>3. IsSeq(Terminator(f, b, L))
  BY TerminatorFacts
<1> DEFINE end == Terminator(f, b, L)
<1>4. EmitBlock(f, b, L) = <<At(b)>> \o end
  BY <1>2 DEF EmitBlock
<1> HIDE DEF end
<1>5. IsSeq(end)
  BY <1>3 DEF end
<1>6. <<At(b)>> \o end # <<>>
  BY <1>5, TailOf
<1>7. QED  BY <1>4, <1>6 DEF NoCode

\* The blocks a region emits.
Area(f, u) == IF u.kind = "try" THEN f.raw[u.header] ELSE u.blocks

LEMMA AreaOfUnits ==
    ASSUME NEW f, NEW N, NEW dom, NEW loops, Looped(f, N, dom, loops)
    PROVE  /\ Area(f, RootUnit(f)) = N
           /\ \A l \in loops : Area(f, LoopUnit(f, l)) = LoopUnit(f, l).blocks
           /\ \A t : Area(f, TryUnit(f, t)) = f.raw[t]
<1>1. Area(f, RootUnit(f)) = N
  BY DEF Area, RootUnit, Looped
<1>2. \A l \in loops : Area(f, LoopUnit(f, l)) = LoopUnit(f, l).blocks
  <2> TAKE l \in loops
  <2>1. LoopUnit(f, l).kind = "loop"
    BY LoopUnitFacts
  <2>2. QED  BY <2>1 DEF Area
<1>3. \A t : Area(f, TryUnit(f, t)) = f.raw[t]
  <2> TAKE t
  <2>1. TryUnit(f, t).kind = "try" /\ TryUnit(f, t).header = t
    BY TryUnitFacts
  <2>2. QED  BY <2>1 DEF Area
<1>4. QED  BY <1>1, <1>2, <1>3

(* A region emits its blocks, and what the tries among them protect.         *)
LEMMA AreaHolds ==
    ASSUME NEW f, NEW N, NEW dom, NEW loops, Looped(f, N, dom, loops),
           NEW u, Region(f, N, loops, u)
    PROVE  /\ Members(f, u) \subseteq Area(f, u) /\ Area(f, u) \subseteq N
           /\ \A t \in TryBlocks(f) \cap Members(f, u) : Claim(f, t) \subseteq Area(f, u)
           /\ \A b \in Area(f, u) \ Members(f, u) :
                 \E t \in TryBlocks(f) \cap Members(f, u) : b \in Claim(f, t)
<1>1. /\ Verified(f, N, dom) /\ Members(f, u) \subseteq N
      /\ Area(f, RootUnit(f)) = N
      /\ \A l \in loops : Area(f, LoopUnit(f, l)) = LoopUnit(f, l).blocks
      /\ \A t : Area(f, TryUnit(f, t)) = f.raw[t]
  <2>1. Verified(f, N, dom) /\ Members(f, u) \subseteq N
    BY RegionFacts DEF Looped
  <2>2. QED  BY <2>1, AreaOfUnits
<1>2. \A t \in TryBlocks(f) \cap N : Claim(f, t) \subseteq N
  <2> TAKE t \in TryBlocks(f) \cap N
  <2>1. Claim(f, t) = f.raw[t] \cup {t, f.tries[t].handler} /\ f.raw[t] \subseteq N
    BY <1>1, ClaimFacts, TryDominates
  <2>2. f.tries[t].handler \in N
    BY <1>1, ReachedTogether
  <2>3. QED  BY <2>1, <2>2
<1>3. CASE u = RootUnit(f)
  <2>1. Members(f, u) = N
    BY <1>3, RootUnitFacts DEF Looped
  <2>2. QED  BY <1>1, <1>2, <1>3, <2>1
<1>4. CASE \E l \in loops : u = LoopUnit(f, l)
  <2>1. PICK l \in loops : u = LoopUnit(f, l)
    BY <1>4
  <2>2. /\ Members(f, u) = l.blocks
        /\ u.blocks = l.blocks \cup UNION {Claim(f, t) : t \in TryBlocks(f) \cap l.blocks}
    BY <2>1, LoopUnitFacts
  <2>3. Area(f, u) = u.blocks
    BY <1>1, <2>1
  <2>4. QED  BY <1>1, <1>2, <2>2, <2>3
<1>5. CASE \E t \in TryBlocks(f) \cap N : u = TryUnit(f, t)
  <2>1. PICK w \in TryBlocks(f) \cap N : u = TryUnit(f, w)
    BY <1>5
  <2>2. Members(f, u) = f.raw[w] /\ Area(f, u) = f.raw[w]
    BY <1>1, <2>1, TryUnitFacts
  <2>3. \A t \in TryBlocks(f) \cap f.raw[w] : Claim(f, t) \subseteq f.raw[w]
    BY <1>1, ClaimWithin
  <2>4. QED  BY <1>1, <2>2, <2>3
<1>6. QED  BY <1>3, <1>4, <1>5 DEF Region, Child

(* The units of a region emit what it emits.                                 *)
LEMMA AreaUnits ==
    ASSUME NEW f, NEW N, NEW dom, NEW loops, Looped(f, N, dom, loops),
           NEW u, Region(f, N, loops, u)
    PROVE  /\ \A v \in AllUnits(f, loops, u) : v.blocks \subseteq Area(f, u)
           /\ \A b \in Area(f, u) : \E v \in AllUnits(f, loops, u) : b \in v.blocks
<1>1. /\ Members(f, u) \subseteq N
      /\ Members(f, u) \subseteq Area(f, u)
      /\ \A t \in TryBlocks(f) \cap Members(f, u) : Claim(f, t) \subseteq Area(f, u)
      /\ \A b \in Area(f, u) \ Members(f, u) :
            \E t \in TryBlocks(f) \cap Members(f, u) : b \in Claim(f, t)
  BY RegionFacts, AreaHolds
<1>2. ASSUME NEW v \in AllUnits(f, loops, u)  PROVE v.blocks \subseteq Area(f, u)
  <2>1. CASE v \in Candidates(f, loops, u)
    <3>1. \/ \E l \in loops : v = LoopUnit(f, l) /\ l.blocks \subseteq Members(f, u)
          \/ \E t \in TryBlocks(f) \cap Members(f, u) : v = TryUnit(f, t)
      BY <1>1, <2>1, CandidateFacts
    <3>2. CASE \E l \in loops : v = LoopUnit(f, l) /\ l.blocks \subseteq Members(f, u)
      <4>1. PICK l \in loops : v = LoopUnit(f, l) /\ l.blocks \subseteq Members(f, u)
        BY <3>2
      <4>2. v.blocks = l.blocks \cup UNION {Claim(f, t) : t \in TryBlocks(f) \cap l.blocks}
        BY <4>1, LoopUnitFacts
      <4>3. QED  BY <1>1, <4>1, <4>2
    <3>3. CASE \E t \in TryBlocks(f) \cap Members(f, u) : v = TryUnit(f, t)
      <4>1. PICK t \in TryBlocks(f) \cap Members(f, u) : v = TryUnit(f, t)
        BY <3>3
      <4>2. v.blocks = Claim(f, t)
        BY <4>1, TryUnitFacts
      <4>3. QED  BY <1>1, <4>2
    <3>4. QED  BY <3>1, <3>2, <3>3
  <2>2. CASE v.header \in Members(f, u) /\ v.blocks = {v.header}
    BY <1>1, <2>2
  <2>3. QED  BY <2>1, <2>2, AllUnitsFacts
<1>3. ASSUME NEW b \in Area(f, u)  PROVE \E v \in AllUnits(f, loops, u) : b \in v.blocks
  <2>1. CASE b \in Members(f, u)
    BY <2>1, BlockHasUnit
  <2>2. CASE b \notin Members(f, u)
    <3>1. PICK t \in TryBlocks(f) \cap Members(f, u) : b \in Claim(f, t)
      BY <1>1, <2>2
    <3>2. TryUnit(f, t) \in Candidates(f, loops, u) /\ b \in TryUnit(f, t).blocks
      BY <3>1, TryUnitFacts DEF Candidates
    <3>3. PICK d \in DirectChildren(f, loops, u) : TryUnit(f, t).blocks \subseteq d.blocks
      BY <1>1, <3>2, Covered
    <3>4. d \in AllUnits(f, loops, u)
      BY DEF AllUnits
    <3>5. QED  BY <3>2, <3>3, <3>4
  <2>3. QED  BY <2>1, <2>2
<1>4. QED  BY <1>2, <1>3

(* The header of a unit is in its region.                                    *)
LEMMA UnitInside ==
    ASSUME NEW f, NEW N, NEW dom, NEW loops, Looped(f, N, dom, loops),
           NEW u, Region(f, N, loops, u), NEW w \in AllUnits(f, loops, u)
    PROVE  w.header \in Members(f, u)
<1>1. Members(f, u) \subseteq N
  BY RegionFacts
<1>2. CASE w \in Candidates(f, loops, u)
  <2>1. \/ \E l \in loops : w = LoopUnit(f, l) /\ l.blocks \subseteq Members(f, u)
        \/ \E x \in TryBlocks(f) \cap Members(f, u) : w = TryUnit(f, x)
    BY <1>1, <1>2, CandidateFacts
  <2>2. CASE \E l \in loops : w = LoopUnit(f, l) /\ l.blocks \subseteq Members(f, u)
    <3>1. PICK l \in loops : w = LoopUnit(f, l) /\ l.blocks \subseteq Members(f, u)
      BY <2>2
    <3>2. w.header = l.header /\ l.header \in l.blocks
      BY <3>1, LoopUnitFacts DEF Looped
    <3>3. QED  BY <3>1, <3>2
  <2>3. CASE \E x \in TryBlocks(f) \cap Members(f, u) : w = TryUnit(f, x)
    BY <2>3, TryUnitFacts
  <2>4. QED  BY <2>1, <2>2, <2>3
<1>3. QED  BY <1>2, AllUnitsFacts

\* What leaves the region finds a label around it.
Covers(f, u, L) ==
    \A b \in Area(f, u) : \A t \in f.succ[b] : t \in Area(f, u) \/ HasLabel(t, L)

(* What leaves a unit of an ordered region finds a label around it: that of  *)
(* the loop the region is, or of a unit behind it.                           *)
LEMMA UnitCovered ==
    ASSUME NEW f, NEW N, NEW dom, NEW loops, Accepted(f, N, dom, loops),
           NEW u, Region(f, N, loops, u), Units(f, loops, u) # NoCode,
           NEW L \in Seq(Label), Covers(f, u, L),
           NEW i \in 1 .. Len(Units(f, loops, u)),
           NEW v, v = Units(f, loops, u)[i],
           NEW K, K = Labels(u, Units(f, loops, u), i, L)
    PROVE  /\ K \in Seq(Label) /\ v \in AllUnits(f, loops, u)
           /\ u.kind = "loop" => HasLabel(u.header, K)
           /\ \A b \in v.blocks : \A t \in f.succ[b] : t \in v.blocks \/ HasLabel(t, K)
<1> DEFINE units == Units(f, loops, u)
           all == AllUnits(f, loops, u)
<1>1. Looped(f, N, dom, loops) /\ LoopsNest(loops) /\ Verified(f, N, dom) /\ f.edges = UnwindEdges(f)
  BY DEF Accepted, Looped
<1>2. Disjoint(f, loops, u)
  BY <1>1, UnitsDisjoint
<1>3. units \in Seq(all) /\ units # NoCode
  BY <1>1, UnitsFacts
<1>4. InOrder(f, u, units, all)
  BY UnitsOrdered
<1>5. \A w \in all : w.header \in N /\ w.blocks \subseteq N
  BY <1>1, AllUnitsFacts
<1>6. u.header \in N /\ N \subseteq Blocks /\ Members(f, u) \subseteq N
  BY <1>1, RegionFacts DEF Verified
<1>7. \A b \in Blocks : f.succ[b] \subseteq f.edges[b]
  BY <1>1, UnwindFacts
<1>8. \A j \in 1 .. Len(units) : units[j] \in all
  BY <1>3
<1>9. v \in all
  BY <1>8
<1>10. /\ K \in Seq(Label)
       /\ \A t : HasLabel(t, L) => HasLabel(t, K)
       /\ u.kind = "loop" => HasLabel(u.header, K)
       /\ \A j \in 1 .. Len(units) : i < j => HasLabel(units[j].header, K)
  <2>1. \A j \in 1 .. Len(units) : units[j].header \in Blocks
    BY <1>5, <1>6, <1>8
  <2> HIDE DEF units, all
  <2>2. i \in 1 .. Len(units) /\ K = Labels(u, units, i, L)
    BY DEF units
  <2>3. QED  BY <1>3, <1>6, <2>1, <2>2, LabelsHave
<1>11. ASSUME NEW b \in v.blocks, NEW t \in f.succ[b], t \notin v.blocks  PROVE HasLabel(t, K)
  <2>1. b \in Area(f, u) /\ b \in N
    BY <1>1, <1>5, <1>9, AreaUnits
  <2>2. CASE t \notin Area(f, u)
    BY <1>10, <2>1, <2>2 DEF Covers
  <2>3. CASE t \in Area(f, u)
    <3>1. PICK w \in all : t \in w.blocks
      BY <1>1, <2>3, AreaUnits
    <3>2. w # v /\ b \notin w.blocks
      BY <1>1, <1>2, <1>9, <1>11, <3>1, UnitsApart
    <3>3. t \in f.edges[b]
      BY <1>6, <1>7, <2>1
    <3>4. t = w.header
      <4>1. Unit(f, N, loops, w)
        BY <1>1, AllUnitsAreUnits
      <4>2. QED  BY <1>1, <2>1, <3>1, <3>2, <3>3, <4>1, UnitEntered
    <3>5. t \in Members(f, u)
      BY <1>1, <3>1, <3>4, UnitInside
    <3>6. CASE t = Header(u)
      <4>1. t # NoBlock
        BY <1>6, <3>5, NoBlocks
      <4>2. u.kind = "loop" /\ u.header = t
        BY <3>6, <4>1 DEF Header
      <4>3. QED  BY <1>10, <4>2
    <3>7. CASE t # Header(u)
      <4>1. Leads(f, u, v, w)
        BY <3>1, <3>2, <3>5, <3>7 DEF Leads
      <4>2. PICK j \in 1 .. Len(units) : units[j] = w
        BY <1>4 DEF InOrder
      <4>3. ~(j < i)
        <5> HIDE DEF units, all
        <5>1. i \in 1 .. Len(units) /\ v = units[i]
          BY DEF units
        <5>2. QED  BY <1>4, <4>1, <4>2, <5>1 DEF InOrder
      <4>4. i < j
        <5>1. i # j
          BY <3>2, <4>2
        <5>2. QED  BY <1>3, <4>3, <5>1
      <4>5. QED  BY <1>10, <3>4, <4>2, <4>4
    <3>8. QED  BY <3>6, <3>7
  <2>4. QED  BY <2>2, <2>3
<1>12. QED  BY <1>9, <1>10, <1>11

(* Nothing branches to the block of a unit of its own from within it, unless *)
(* it is the header of the loop the region is.                               *)
LEMMA SelfEdge ==
    ASSUME NEW f, NEW N, NEW dom, NEW loops, Accepted(f, N, dom, loops),
           NEW u, Region(f, N, loops, u), NEW v \in AllUnits(f, loops, u),
           v.kind = "block", v.header \in f.succ[v.header]
    PROVE  u.kind = "loop" /\ u.header = v.header
<1> DEFINE b == v.header
<1>1. Looped(f, N, dom, loops) /\ DomTree(f.entry, f.edges, N, dom)
  BY DEF Accepted, Charted
<1>2. v \notin DirectChildren(f, loops, u)
  <2>1. ASSUME v \in DirectChildren(f, loops, u)  PROVE FALSE
    <3>1. Child(f, N, loops, v)
      <4>1. Members(f, u) \subseteq N
        BY <1>1, RegionFacts
      <4>2. v \in Candidates(f, loops, u)
        BY <2>1 DEF DirectChildren
      <4>3. QED  BY <4>1, <4>2, CandidateFacts
    <3>2. v.kind \in {"loop", "try"}
      BY <3>1, LoopUnitFacts, TryUnitFacts DEF Child
    <3>3. QED  BY <3>2
  <2>2. QED  BY <2>1
<1>3. /\ b \in N /\ b \in Members(f, u)
      /\ \A c \in DirectChildren(f, loops, u) : b \notin c.blocks
  BY <1>1, <1>2, AllUnitsFacts
<1>4. b \in dom[b]
  BY <1>1, <1>3 DEF DomTree
<1>5. b = Header(u)
  <2>1. ASSUME b # Header(u)  PROVE FALSE
    <3>1. b \in f.succ[b]
      OBVIOUS
    <3> HIDE DEF b
    <3>2. QED  BY <1>3, <1>4, <2>1, <3>1, BackEdgeInside
  <2>2. QED  BY <2>1
<1>6. b # NoBlock
  <2>1. N \subseteq Blocks
    BY <1>1 DEF Looped, Verified
  <2>2. QED  BY <1>3, <2>1, NoBlocks
<1>7. QED  BY <1>5, <1>6 DEF Header

(* What a try leads to from within, and from its handler.                    *)
LEMMA TryLeavings ==
    ASSUME NEW f, NEW N, NEW dom, Verified(f, N, dom), NEW t \in TryBlocks(f) \cap N
    PROVE  LET h == f.tries[t].handler
           IN  /\ \A b \in f.raw[t] : \A x \in f.succ[b] : x # t /\ x # h
               /\ \A x \in f.succ[h] : x \notin Claim(f, t)
<1> DEFINE h == f.tries[t].handler
<1>1. /\ \A b \in Blocks : h \notin f.succ[b]
      /\ \A b \in Blocks : h \in SeedEdges(f)[b] => b = t
      /\ \A b \in Blocks : f.tries[t].entry \in SeedEdges(f)[b] => b = t
      /\ h \notin TryBlocks(f) /\ h # f.entry
  BY TryShape
<1>2. h \in N /\ N \subseteq Blocks /\ dom \in [N -> SUBSET N] /\ \A b \in N : b \in dom[b]
  BY ReachedTogether DEF Verified, DomTree
<1>3. \A b \in N : t \in f.succ[b] => t \notin dom[b]
  <2>1. \A b \in DOMAIN dom : t \in f.succ[b] => t \notin dom[b]
    BY DEF Verified, RegionsVerified
  <2>2. DOMAIN dom = N
    BY <1>2
  <2>3. QED  BY <2>1, <2>2
<1>4. \A b \in f.raw[t] : b \in N /\ t \in dom[b]
  BY TryDominates
<1>5. t \in dom[h]
  <2>1. DomTree(f.entry, SeedEdges(f), N, dom)
    BY DEF Verified
  <2>2. \A p \in N : h \in SeedEdges(f)[p] => p = t
    BY <1>1, <1>2
  <2> HIDE DEF h
  <2>3. dom[t] \subseteq dom[h]
    BY <1>1, <1>2, <2>1, <2>2, OnlyPredecessor
  <2>4. QED  BY <1>2, <2>3
<1>6. \A b \in f.raw[t] : \A x \in f.succ[b] : x # t /\ x # h
  BY <1>1, <1>2, <1>3, <1>4
<1>7. ASSUME NEW x \in f.succ[h], x \in Claim(f, t)  PROVE FALSE
  <2>1. x \in f.raw[t] \cup {t, h}
    BY <1>7, ClaimFacts
  <2>2. x # t /\ x # h
    BY <1>1, <1>2, <1>3, <1>5, <1>7
  <2>3. x \in f.raw[t] /\ x \in SeedEdges(f)[h]
    <3>1. Typed(f)
      BY DEF Verified
    <3>2. f.succ[h] \subseteq SeedEdges(f)[h]
      BY <1>2, <3>1, SeedFacts
    <3>3. QED  BY <1>7, <2>1, <2>2, <3>2
  <2>4. x # f.tries[t].entry
    <3>1. h # t
      BY <1>1
    <3>2. QED  BY <1>1, <1>2, <2>3, <3>1
  <2> HIDE DEF h
  <2>5. h \in f.raw[t]
    BY <1>2, <2>3, <2>4, RawEntered
  <2>6. h \notin f.raw[t]
    BY HandlerPlace DEF h
  <2>7. QED  BY <2>5, <2>6
<1>8. QED  BY <1>6, <1>7

(* A try whose leavings find labels emits its region and its handler.        *)
LEMMA TryEmits ==
    ASSUME NEW f, NEW N, NEW dom, NEW loops, Looped(f, N, dom, loops),
           NEW t \in TryBlocks(f) \cap N, NEW K \in Seq(Label),
           \A b \in Claim(f, t) : \A x \in f.succ[b] : x \in Claim(f, t) \/ HasLabel(x, K)
    PROVE  /\ Armed(t, K) \in Seq(Label) /\ Covers(f, TryUnit(f, t), Armed(t, K))
           /\ \A p : p # NoCode => EmitTry(f, t, p, K) # NoCode
<1> DEFINE h == f.tries[t].handler
           A == Armed(t, K)
<1>1. Verified(f, N, dom) /\ t \in Blocks
  BY DEF Looped, Verified
<1>2. Claim(f, t) = f.raw[t] \cup {t, h}
  BY <1>1, ClaimFacts
<1>3. /\ \A b \in f.raw[t] : \A x \in f.succ[b] : x # t /\ x # h
      /\ \A x \in f.succ[h] : x \notin Claim(f, t)
  BY <1>1, TryLeavings
<1>4. A \in Seq(Label) /\ \A x : HasLabel(x, K) => HasLabel(x, A)
  <2>1. A = Append(Append(K, <<"unwind", t>>), <<"try", t>>) /\ Append(K, <<"unwind", t>>) \in Seq(Label)
        /\ A \in Seq(Label)
    BY <1>1, ArmedFacts
  <2>2. <<"unwind", t>> \in Label /\ <<"try", t>> \in Label
    BY <1>1, MakeLabel
  <2> HIDE DEF A
  <2>3. QED  BY <2>1, <2>2, LabelAppended
<1>5. Covers(f, TryUnit(f, t), A)
  <2>1. Area(f, TryUnit(f, t)) = f.raw[t]
    BY AreaOfUnits
  <2> HIDE DEF A, h
  <2>2. QED  BY <1>2, <1>3, <1>4, <2>1 DEF Covers
<1>6. EmitBlock(f, h, K) # NoCode
  <2>1. \A x \in f.succ[h] : HasLabel(x, K)
    BY <1>2, <1>3
  <2> HIDE DEF h
  <2>2. QED  BY <2>1, BlockEmits
<1>7. ASSUME NEW p, p # NoCode  PROVE EmitTry(f, t, p, K) # NoCode
  <2> DEFINE handler == EmitBlock(f, h, K)
             guard == Block(<<Try(f.tries[t].catches, p), Unreachable>>)
  <2>1. EmitTry(f, t, p, K) = <<At(t), guard>> \o handler
    BY <1>6, <1>7 DEF EmitTry
  <2>2. IsSeq(handler)
    BY BlockCode
  <2> HIDE DEF handler, guard
  <2>3. <<At(t), guard>> \o handler # <<>>
    BY <2>2, TailOfTwo
  <2>4. QED  BY <2>1, <2>3 DEF NoCode
<1>8. QED  BY <1>4, <1>5, <1>7

(* When every cycle is headed, a region with labels around it for all it     *)
(* leads to has code.                                                        *)
LEMMA RegionEmits ==
    ASSUME NEW f, NEW N, NEW dom, NEW loops, Accepted(f, N, dom, loops), Headed(f, N, dom),
           NEW u0, Region(f, N, loops, u0), NEW L0 \in Seq(Label), Covers(f, u0, L0)
    PROVE  EmitRegion(f, loops)[<<u0, L0>>] # NoCode
<1> DEFINE g == EmitRegion(f, loops)
           Bad(u, L) == /\ Region(f, N, loops, u) /\ L \in Seq(Label) /\ Covers(f, u, L)
                        /\ g[<<u, L>>] = NoCode
           Heights == {n \in Nat : \E u, L : Bad(u, L) /\ Height(N, dom, u) = n}
<1>1. Looped(f, N, dom, loops) /\ Verified(f, N, dom)
  BY DEF Accepted, Looped
<1>2. SUFFICES ASSUME Bad(u0, L0)  PROVE FALSE
  OBVIOUS
<1>3. \A u : Height(N, dom, u) \in Nat
  BY <1>1, HeightFacts
<1>4. Heights \in SUBSET Nat /\ Heights # {}
  <2>1. Height(N, dom, u0) \in Heights
    BY <1>2, <1>3
  <2>2. QED  BY <2>1
<1>5. PICK n \in Heights : \A m \in Heights : n <= m
  <2> HIDE DEF Heights
  <2> QED  BY <1>4, LeastExists
<1>6. PICK u, L : Bad(u, L) /\ Height(N, dom, u) = n
  OBVIOUS
<1>7. ASSUME NEW w, NEW K \in Seq(Label), Region(f, N, loops, w), Covers(f, w, K),
             Height(N, dom, w) < Height(N, dom, u)
      PROVE  g[<<w, K>>] # NoCode
  <2>1. ASSUME g[<<w, K>>] = NoCode  PROVE FALSE
    <3>1. Bad(w, K)
      BY <1>7, <2>1
    <3>2. Height(N, dom, w) \in Heights
      BY <1>3, <3>1
    <3>3. n <= Height(N, dom, w) /\ n \in Nat /\ Height(N, dom, w) \in Nat
      BY <1>3, <1>5, <3>2
    <3>4. QED  BY <1>6, <1>7, <3>3
  <2>2. QED  BY <2>1
<1>8. Region(f, N, loops, u) /\ L \in Seq(Label) /\ Covers(f, u, L) /\ g[<<u, L>>] = NoCode
  BY <1>6
<1> HIDE DEF Bad, Heights
<1> DEFINE units == Units(f, loops, u)
           parts == Parts(f, loops, g, u, L)
<1>9. units # NoCode
  BY <1>8, UnitsOrdered
<1>10. Len(units) \in Nat /\ Len(units) >= 1
  <2>1. units \in Seq(AllUnits(f, loops, u)) /\ Len(units) >= 1
    BY <1>1, <1>8, <1>9, UnitsFacts
  <2>2. QED  BY <2>1
<1>11. ASSUME NEW i \in 1 .. Len(units)  PROVE parts[i] # NoCode
  <2> DEFINE v == units[i]
             K == Labels(u, units, i, L)
  <2>1. /\ K \in Seq(Label) /\ v \in AllUnits(f, loops, u)
        /\ u.kind = "loop" => HasLabel(u.header, K)
        /\ \A b \in v.blocks : \A t \in f.succ[b] : t \in v.blocks \/ HasLabel(t, K)
    BY <1>8, <1>9, UnitCovered
  <2>2. parts[i] = EmitUnit(f, v, g, K)
    BY DEF Parts
  <2>3. /\ v.kind \in {"block", "loop", "try"}
        /\ v.kind # "block" => Height(N, dom, v) < Height(N, dom, u)
    BY <1>1, <1>8, <2>1, UnitHeight
  <2>4. Child(f, N, loops, v) \/ (v = BlockUnit(v.header) /\ v.blocks = {v.header})
    BY <1>1, <1>8, <2>1, AllUnitsFacts
  <2>5. /\ \A l : v = LoopUnit(f, l) => v.kind = "loop"
        /\ \A t : v = TryUnit(f, t) => v.kind = "try" /\ v.header = t /\ v.blocks = Claim(f, t)
        /\ v = BlockUnit(v.header) => v.kind = "block"
    BY LoopUnitFacts, TryUnitFacts, BlockUnitFacts
  <2> HIDE DEF v, K, units, parts, g
  <2>6. CASE v.kind = "block"
    <3>1. v.blocks = {v.header}
      BY <2>4, <2>5, <2>6 DEF Child
    <3>2. \A t \in f.succ[v.header] : HasLabel(t, K)
      <4> TAKE t \in f.succ[v.header]
      <4>1. CASE t = v.header
        <5>1. u.kind = "loop" /\ u.header = t
          BY <1>8, <2>1, <2>6, <4>1, SelfEdge
        <5>2. QED  BY <2>1, <5>1
      <4>2. CASE t # v.header
        BY <2>1, <3>1, <4>2
      <4>3. QED  BY <4>1, <4>2
    <3>3. EmitBlock(f, v.header, K) # NoCode
      BY <2>1, <3>2, BlockEmits
    <3>4. EmitUnit(f, v, g, K) = EmitBlock(f, v.header, K)
      BY <2>6 DEF EmitUnit
    <3>5. QED  BY <2>2, <3>3, <3>4
  <2>7. CASE v.kind = "loop"
    <3>1. PICK l \in loops : v = LoopUnit(f, l)
      BY <2>4, <2>5, <2>7 DEF Child
    <3>2. Area(f, v) = v.blocks
      BY <2>7 DEF Area
    <3>3. Covers(f, v, K)
      BY <2>1, <3>2 DEF Covers
    <3>4. Region(f, N, loops, v)
      BY <3>1 DEF Region, Child
    <3>5. g[<<v, K>>] # NoCode
      BY <1>7, <2>1, <2>3, <2>7, <3>3, <3>4
    <3>6. EmitUnit(f, v, g, K) = <<Loop(g[<<v, K>>])>>
      BY <2>7, <3>5 DEF EmitUnit
    <3>7. QED  BY <2>2, <3>6 DEF NoCode
  <2>8. CASE v.kind = "try"
    <3>1. PICK t \in TryBlocks(f) \cap N : v = TryUnit(f, t)
      BY <2>4, <2>5, <2>8 DEF Child
    <3>2. v.header = t /\ v.blocks = Claim(f, t)
      BY <2>5, <3>1
    <3>3. /\ Armed(t, K) \in Seq(Label) /\ Covers(f, TryUnit(f, t), Armed(t, K))
          /\ \A p : p # NoCode => EmitTry(f, t, p, K) # NoCode
      <4>1. \A b \in Claim(f, t) : \A x \in f.succ[b] : x \in Claim(f, t) \/ HasLabel(x, K)
        BY <2>1, <3>2
      <4>2. QED  BY <1>1, <2>1, <4>1, TryEmits
    <3>4. Region(f, N, loops, v)
      BY <3>1 DEF Region, Child
    <3>5. g[<<v, Armed(t, K)>>] # NoCode
      BY <1>7, <2>3, <2>8, <3>1, <3>3, <3>4
    <3>6. EmitUnit(f, v, g, K) = EmitTry(f, t, g[<<v, Armed(t, K)>>], K)
      BY <2>8, <3>2 DEF EmitUnit
    <3>7. QED  BY <2>2, <3>3, <3>5, <3>6
  <2>9. QED  BY <2>3, <2>6, <2>7, <2>8
<1>12. g[<<u, L>>] = Nested(NoCode, parts)[Len(units)]
  <2>1. u \in Regions(f, loops)
    BY <1>1, <1>8, RegionsAre
  <2>2. g[<<u, L>>] = RegionCode(f, loops, g, u, L)
    BY <1>1, <1>8, <2>1, EmissionFacts
  <2> HIDE DEF g
  <2>3. QED  BY <1>11, <2>2, RegionCodeIs
<1>13. Nested(NoCode, parts)[Len(units)] # <<>>
  <2>1. Len(units) \in 1 .. Len(units)
    BY <1>10
  <2>2. QED  BY <1>1, <1>8, <2>1, NestedShape
<1>14. QED  BY <1>8, <1>12, <1>13 DEF NoCode

(* The code of a function whose cycles are headed.                           *)
LEMMA RootEmits ==
    ASSUME NEW f, NEW N, NEW dom, NEW loops, Accepted(f, N, dom, loops), Headed(f, N, dom)
    PROVE  EmitRegion(f, loops)[<<RootUnit(f), <<>>>>] # NoCode
<1> DEFINE u == RootUnit(f)
           L == <<>>
<1>1. Looped(f, N, dom, loops) /\ Verified(f, N, dom) /\ f.edges = UnwindEdges(f)
  BY DEF Accepted, Looped
<1>2. Region(f, N, loops, u) /\ Area(f, u) = N
  BY <1>1, AreaOfUnits DEF Region
<1>3. ASSUME NEW b \in N  PROVE f.succ[b] \subseteq N
  <2>1. b \in Blocks /\ f.succ[b] \subseteq f.edges[b]
    <3>1. b \in Blocks
      BY <1>1 DEF Verified
    <3>2. QED  BY <1>1, <3>1, UnwindFacts
  <2>2. ReachSet(f.entry, f.edges, N)
    BY DEF Accepted, Charted
  <2>3. f.edges[b] \subseteq N
    BY <2>2 DEF ReachSet, Closed
  <2>4. QED  BY <2>1, <2>3
<1>4. L \in Seq(Label) /\ Covers(f, u, L)
  BY <1>2, <1>3 DEF Covers
<1> HIDE DEF u, L
<1>5. EmitRegion(f, loops)[<<u, L>>] # NoCode
  BY <1>2, <1>4, RegionEmits
<1>6. QED  BY <1>5 DEF u, L

(* Without a try, control goes only where a block branches to.               *)
LEMMA NoTryEdges ==
    ASSUME NEW f, Typed(f), f.edges = UnwindEdges(f), TryBlocks(f) = {}
    PROVE  \A b \in Blocks : f.edges[b] = f.succ[b]
<1> TAKE b \in Blocks
<1>1. SeedEdges(f)[b] = f.succ[b]
  BY DEF SeedEdges
<1>2. \A x \in Tags : Landing(f, b, x) = Nowhere
  BY DEF Landing
<1>3. UnwindEdges(f)[b] = SeedEdges(f)[b] \cup
        (IF b \in f.throws THEN {Landing(f, b, x) : x \in Tags} \ {Nowhere} ELSE {})
  BY DEF UnwindEdges
<1>4. QED  BY <1>1, <1>2, <1>3

(* A tied set that leaves a part of it comes back to that part.              *)
LEMMA TiedReturns ==
    ASSUME NEW next, NEW S, Tied(next, S), NEW P, S \cap P # {}, ~(S \subseteq P)
    PROVE  \E s \in S \ P : \E b \in S \cap P : b \in next[s]
<1>1. SUFFICES ASSUME \A s \in S \ P : \A b \in S \cap P : b \notin next[s]  PROVE FALSE
  OBVIOUS
<1>2. PICK o \in S : o \notin P
  OBVIOUS
<1> DEFINE W == S \ P
<1>3. \A x \in S : x \in next[o] => x \in W
  BY <1>1, <1>2
<1>4. \A y \in S \cap W, x \in S : x \in next[y] => x \in W
  BY <1>1
<1> HIDE DEF W
<1>5. S \subseteq W
  BY <1>2, <1>3, <1>4 DEF Tied
<1>6. QED  BY <1>5 DEF W

(* Where there is code and no try, every cycle is headed: the smallest       *)
(* region around it is entered at the header alone.                          *)
LEMMA CodeIsHeaded ==
    ASSUME NEW f, NEW N, NEW dom, NEW loops, Accepted(f, N, dom, loops), TryBlocks(f) = {},
           EmitRegion(f, loops)[<<RootUnit(f), <<>>>>] # NoCode
    PROVE  Headed(f, N, dom)
<1> DEFINE g == EmitRegion(f, loops)
<1>1. Looped(f, N, dom, loops) /\ Verified(f, N, dom) /\ f.edges = UnwindEdges(f)
  BY DEF Accepted, Looped
<1>2. DomTree(f.entry, f.edges, N, dom) /\ N \subseteq Blocks
  BY DEF Accepted, Charted
<1>3. \A b \in Blocks : f.edges[b] = f.succ[b]
  BY <1>1, NoTryEdges DEF Verified
<1>4. SUFFICES ASSUME NEW S \in SUBSET N, Tied(f.edges, S)
               PROVE  \E h \in S : \A b \in S : h \in dom[b]
  BY DEF Headed
<1> DEFINE Around(u) == /\ Region(f, N, loops, u) /\ S \subseteq Members(f, u)
                        /\ \E L \in Seq(Label) : g[<<u, L>>] # NoCode
           Heights == {n \in Nat : \E u : Around(u) /\ Height(N, dom, u) = n}
<1>5. \A u : Height(N, dom, u) \in Nat
  BY <1>1, HeightFacts
<1>6. Heights \in SUBSET Nat /\ Heights # {}
  <2>1. Members(f, RootUnit(f)) = N
    BY <1>1, RootUnitFacts DEF Looped
  <2>2. Region(f, N, loops, RootUnit(f)) /\ <<>> \in Seq(Label)
    BY DEF Region
  <2>3. Around(RootUnit(f))
    BY <2>1, <2>2
  <2>4. Height(N, dom, RootUnit(f)) \in Heights
    BY <1>5, <2>3
  <2>5. QED  BY <2>4
<1>7. PICK n \in Heights : \A m \in Heights : n <= m
  <2> HIDE DEF Heights
  <2> QED  BY <1>6, LeastExists
<1>8. PICK u : Around(u) /\ Height(N, dom, u) = n
  OBVIOUS
<1>9. PICK L \in Seq(Label) : g[<<u, L>>] # NoCode
  BY <1>8
<1>10. Region(f, N, loops, u) /\ S \subseteq Members(f, u)
  BY <1>8
<1>11. ASSUME NEW w, Around(w)  PROVE ~(Height(N, dom, w) < Height(N, dom, u))
  <2>1. Height(N, dom, w) \in Heights
    BY <1>5, <1>11
  <2>2. n <= Height(N, dom, w)
    BY <1>7, <2>1
  <2>3. QED  BY <1>5, <1>8, <2>2
<1> HIDE DEF Heights, Around
<1> DEFINE units == Units(f, loops, u)
           all == AllUnits(f, loops, u)
           parts == Parts(f, loops, g, u, L)
<1>12. /\ units # NoCode /\ Len(units) \in Nat
       /\ \A i \in 1 .. Len(units) : parts[i] # NoCode
  BY <1>1, <1>9, <1>10, RegionShape
<1>13. InOrder(f, u, units, all)
  BY <1>10, <1>12, UnitsOrdered
<1>14. Disjoint(f, loops, u)
  BY <1>1, <1>10, UnitsDisjoint DEF Accepted
<1>15. ASSUME NEW v \in all, S \subseteq v.blocks
       PROVE  \E h \in S : \A b \in S : h \in dom[b]
  <2>1. Child(f, N, loops, v) \/ (v.header \in N /\ v.blocks = {v.header})
    BY <1>1, <1>10, AllUnitsFacts
  <2>2. CASE v.header \in N /\ v.blocks = {v.header}
    <3>1. S = {v.header}
      BY <1>4, <1>15, <2>2 DEF Tied
    <3>2. v.header \in dom[v.header]
      BY <1>2, <2>2 DEF DomTree
    <3>3. QED  BY <3>1, <3>2
  <2>3. CASE Child(f, N, loops, v)
    <3>1. PICK l \in loops : v = LoopUnit(f, l)
      BY <2>3 DEF Child
    <3>2. v.kind = "loop" /\ Members(f, v) = l.blocks /\ v.blocks = l.blocks
      <4>1. /\ v.kind = "loop" /\ Members(f, v) = l.blocks
            /\ v.blocks = l.blocks \cup UNION {Claim(f, t) : t \in TryBlocks(f) \cap l.blocks}
        BY <3>1, LoopUnitFacts
      <4>2. UNION {Claim(f, t) : t \in TryBlocks(f) \cap l.blocks} = {}
        OBVIOUS
      <4>3. QED  BY <4>1, <4>2
    <3>3. Region(f, N, loops, v)
      BY <3>1 DEF Region, Child
    <3>4. PICK i \in 1 .. Len(units) : units[i] = v
      BY <1>13 DEF InOrder
    <3> DEFINE K == Labels(u, units, i, L)
    <3>5. parts[i] = EmitUnit(f, v, g, K)
      BY <3>4 DEF Parts
    <3>6. EmitUnit(f, v, g, K) # NoCode
      BY <1>12, <3>5
    <3>7. g[<<v, K>>] # NoCode
      <4> HIDE DEF g, K, units, parts
      <4> QED  BY <3>2, <3>6 DEF EmitUnit
    <3>8. K \in Seq(Label)
      <4>1. /\ u.kind = "loop" => u.header \in Blocks
            /\ \E Q : units \in Seq(Q)
            /\ \A j \in 1 .. Len(units) : units[j].header \in Blocks
        <5>1. u \in Regions(f, loops)
          BY <1>1, <1>10, RegionsAre
        <5>2. QED  BY <1>1, <5>1, UnitsOfRegions
      <4> HIDE DEF units
      <4>2. QED  BY <4>1, LabelsHave
    <3>9. Around(v)
      BY <1>15, <3>2, <3>3, <3>7, <3>8 DEF Around
    <3>10. Height(N, dom, v) < Height(N, dom, u)
      BY <1>1, <1>10, <3>2, UnitHeight
    <3>11. QED  BY <1>11, <3>9, <3>10
  <2>4. QED  BY <2>1, <2>2, <2>3
<1>16. ASSUME \A v \in all : ~(S \subseteq v.blocks)
       PROVE  \E h \in S : \A b \in S : h \in dom[b]
  <2> DEFINE I == {i \in 1 .. Len(units) : units[i].blocks \cap S # {}}
  <2>1. \A s \in S : \E j \in I : s \in units[j].blocks
    <3> TAKE s \in S
    <3>1. PICK w \in all : s \in w.blocks
      BY <1>10, BlockHasUnit
    <3>2. PICK j \in 1 .. Len(units) : units[j] = w
      BY <1>13 DEF InOrder
    <3>3. QED  BY <3>1, <3>2
  <2>2. I \in SUBSET Nat /\ I # {}
    <3>1. S # {}
      BY <1>4 DEF Tied
    <3>2. QED  BY <2>1, <3>1
  <2>3. PICK i \in I : \A j \in I : i <= j
    <3> HIDE DEF I
    <3> QED  BY <2>2, LeastExists
  <2> DEFINE v == units[i]
  <2>4. i \in 1 .. Len(units) /\ v \in all /\ S \cap v.blocks # {}
    BY <1>13, <2>3 DEF InOrder
  <2> HIDE DEF v, units, all
  <2>5. PICK s \in S \ v.blocks, b \in S \cap v.blocks : b \in f.edges[s]
    BY <1>4, <1>16, <2>4, TiedReturns
  <2>6. b = v.header /\ b \in Members(f, u)
    <3>1. Unit(f, N, loops, v)
      BY <1>1, <1>10, <2>4, AllUnitsAreUnits DEF all
    <3>2. b = v.header
      BY <1>1, <2>5, <3>1, UnitEntered
    <3>3. QED  BY <1>10, <2>5, <3>2
  <2>7. PICK j \in I : s \in units[j].blocks
    BY <2>1, <2>5
  <2>8. i < j /\ j \in 1 .. Len(units)
    <3>1. i # j
      BY <2>5, <2>7 DEF v
    <3>2. i <= j
      BY <2>3
    <3>3. QED  BY <1>12, <2>2, <3>1, <3>2
  <2>9. ~Leads(f, u, units[j], v)
    BY <1>13, <2>4, <2>8 DEF InOrder, v
  <2>10. units[j] # v /\ b \in f.succ[s]
    BY <1>2, <1>3, <2>5, <2>7
  <2>11. b = Header(u)
    BY <2>5, <2>6, <2>7, <2>9, <2>10 DEF Leads
  <2>12. u.kind = "loop" /\ u.header = b
    <3>1. b # NoBlock
      BY <1>2, <2>5, NoBlocks
    <3>2. QED  BY <2>11, <3>1 DEF Header
  <2>13. PICK l \in loops : u = LoopUnit(f, l)
    BY <1>10, <2>12, RootUnitFacts, TryUnitFacts DEF Region, Child
  <2>14. l.header = b /\ S \subseteq l.blocks
    BY <1>10, <2>12, <2>13, LoopUnitFacts
  <2>15. \A c \in l.blocks : b \in dom[c]
    BY <1>1, <2>14 DEF Looped
  <2>16. QED  BY <2>5, <2>14, <2>15
<1>17. QED  BY <1>15, <1>16

-----------------------------------------------------------------------------
(* What has_irreducible_component finds                                      *)

\* What leads to b, and the component of b.
Back(preds) == [b \in DOMAIN preds |-> Closure({b}, preds)]
Component(back, b) == {c \in back[b] : b \in back[c]}
Entries(f, preds, C) == {b \in C : b = f.entry \/ preds[b] \ C # {}}

LEMMA IrreducibleMeans ==
    ASSUME NEW f, NEW preds
    PROVE  HasIrreducibleComponent(f, preds) <=>
             \E b \in DOMAIN preds :
                Cardinality(Entries(f, preds, Component(Back(preds), b))) > 1
BY DEF HasIrreducibleComponent, Back, Component, Entries

LEMMA BackFacts ==
    ASSUME NEW N, IsFiniteSet(N), NEW preds \in [N -> SUBSET N], NEW b \in N
    PROVE  /\ b \in Back(preds)[b] /\ Back(preds)[b] \subseteq N
           /\ \A c \in Back(preds)[b] : preds[c] \subseteq Back(preds)[b]
           /\ \A W : b \in W /\ (\A c \in W \cap N : preds[c] \subseteq W) => Back(preds)[b] \subseteq W
           /\ \A c \in Back(preds)[b] : Back(preds)[c] \subseteq Back(preds)[b]
<1> DEFINE back == Back(preds)
<1>1. \A c \in N : back[c] = Closure({c}, preds)
  BY DEF Back
<1>2. \A c \in N : /\ c \in back[c] /\ back[c] \subseteq N
                   /\ \A x \in back[c] : preds[x] \subseteq back[c]
                   /\ \A W : c \in W /\ (\A x \in W \cap N : preds[x] \subseteq W) => back[c] \subseteq W
  <2> TAKE c \in N
  <2> DEFINE S == {c}
  <2>1. S \in SUBSET N /\ c \in S /\ back[c] = Closure(S, preds)
    BY <1>1
  <2> HIDE DEF S
  <2>2. /\ S \subseteq Closure(S, preds) /\ Closure(S, preds) \subseteq N
        /\ Closed(preds, Closure(S, preds))
        /\ \A W : S \subseteq W /\ Closed(preds, W) => Closure(S, preds) \subseteq W
    BY <2>1, ClosureFacts
  <2>3. DOMAIN preds = N
    OBVIOUS
  <2> HIDE DEF back
  <2>4. c \in back[c] /\ back[c] \subseteq N /\ \A x \in back[c] : preds[x] \subseteq back[c]
    BY <2>1, <2>2, <2>3 DEF Closed
  <2>5. ASSUME NEW W, c \in W, \A x \in W \cap N : preds[x] \subseteq W  PROVE back[c] \subseteq W
    <3>1. S \subseteq W
      BY <2>5 DEF S
    <3>2. Closed(preds, W)
      BY <2>3, <2>5 DEF Closed
    <3>3. QED  BY <2>1, <2>2, <3>1, <3>2
  <2>6. QED  BY <2>4, <2>5
<1> HIDE DEF back
<1>3. ASSUME NEW c \in back[b]  PROVE back[c] \subseteq back[b]
  <2>1. c \in N /\ \A x \in back[b] \cap N : preds[x] \subseteq back[b]
    BY <1>2
  <2> DEFINE W == back[b]
  <2> HIDE DEF W
  <2>2. c \in W /\ \A x \in W \cap N : preds[x] \subseteq W
    BY <1>3, <2>1 DEF W
  <2>3. back[c] \subseteq W
    BY <1>2, <2>1, <2>2
  <2>4. QED  BY <2>3 DEF W
<1>4. QED  BY <1>2, <1>3 DEF back

(* A component of more than one block is a cycle: what cannot be reached     *)
(* from b within it, and what leads to it from outside, would be closed.     *)
LEMMA ComponentTied ==
    ASSUME NEW N, IsFiniteSet(N), NEW next,
           NEW preds \in [N -> SUBSET N], \A b, s \in N : s \in preds[b] <=> b \in next[s],
           NEW o \in N, Component(Back(preds), o) # {o}
    PROVE  /\ Tied(next, Component(Back(preds), o))
           /\ Component(Back(preds), o) \subseteq N /\ o \in Component(Back(preds), o)
<1> DEFINE back == Back(preds)
           C == Component(back, o)
<1>0. C # {o}
  OBVIOUS
<1>2. \A b \in N : /\ b \in back[b] /\ back[b] \subseteq N
                   /\ \A c \in back[b] : preds[c] \subseteq back[b]
                   /\ \A W : b \in W /\ (\A c \in W \cap N : preds[c] \subseteq W) => back[b] \subseteq W
                   /\ \A c \in back[b] : back[c] \subseteq back[b]
  BY BackFacts
<1>3. C = {c \in back[o] : o \in back[c]}
  BY DEF Component
<1> HIDE DEF back, C
<1>4. o \in C /\ C \subseteq N
  BY <1>2, <1>3
<1>5. \A b, c \in C : c \in back[b]
  <2> TAKE b, c \in C
  <2>1. o \in back[b] /\ c \in back[o] /\ b \in N
    BY <1>3, <1>4
  <2>2. QED  BY <1>2, <2>1
<1>6. ASSUME NEW b \in C, NEW W, \A x \in C : x \in next[b] => x \in W,
             \A y \in C \cap W, x \in C : x \in next[y] => x \in W
      PROVE  C \subseteq W
  <2> DEFINE R == {y \in back[o] : o \notin back[y]}
             Q == (C \ W) \cup R
             P == Q \ {b}
  <2>1. \A y \in R : preds[y] \subseteq R /\ y \in N
    <3> TAKE y \in R
    <3>1. y \in back[o] /\ o \notin back[y] /\ y \in N /\ preds[y] \subseteq back[o]
      BY <1>2
    <3>2. ASSUME NEW p \in preds[y]  PROVE o \notin back[p]
      <4>1. p \in back[y]
        BY <1>2, <3>1
      <4>2. back[p] \subseteq back[y]
        BY <1>2, <3>1, <4>1
      <4>3. QED  BY <3>1, <4>2
    <3>3. QED  BY <3>1, <3>2
  <2>2. b \notin R /\ C \cap R = {}
    BY <1>3
  <2>3. ASSUME NEW y \in C \ W, NEW p \in preds[y]  PROVE p # b /\ (p \in C \ W \/ p \in R)
    <3>1. y \in N /\ y \in back[o] /\ y \in next[p] /\ p \in N
      BY <1>3, <1>4, <2>3
    <3>2. p \in back[o]
      BY <1>2, <3>1
    <3>3. p # b /\ (p \in C => p \notin W)
      BY <1>6, <2>3, <3>1
    <3>4. p \in C \/ p \in R
      BY <1>3, <3>2
    <3>5. QED  BY <3>3, <3>4
  <2>4. \A y \in P \cap N : preds[y] \subseteq P
    <3> HIDE DEF R
    <3> QED  BY <2>1, <2>2, <2>3
  <2>5. ASSUME NEW z \in C \ W  PROVE z = b
    <3>1. ASSUME z # b  PROVE FALSE
      <4>1. z \in P /\ z \in N
        BY <1>4, <3>1
      <4> HIDE DEF P
      <4>2. back[z] \subseteq P
        BY <1>2, <2>4, <4>1
      <4>3. b \in back[z]
        BY <1>5
      <4>4. QED  BY <4>2, <4>3 DEF P
    <3>2. QED  BY <3>1
  <2>6. ASSUME b \notin W  PROVE FALSE
    <3> DEFINE V == R \cup {b}
    <3>1. preds[b] \subseteq R
      <4> HIDE DEF R
      <4> QED  BY <2>3, <2>5, <2>6
    <3>2. \A y \in V \cap N : preds[y] \subseteq V
      <4> HIDE DEF R
      <4> QED  BY <2>1, <3>1
    <3>3. b \in V /\ b \in N
      BY <1>4
    <3>4. V \cap C = {b}
      BY <2>2
    <3> HIDE DEF V
    <3>5. back[b] \subseteq V
      BY <1>2, <3>2, <3>3
    <3>6. C \subseteq back[b]
      BY <1>5
    <3>7. C = {b}
      BY <3>4, <3>5, <3>6
    <3>8. QED  BY <1>0, <1>4, <3>7
  <2>7. QED  BY <2>5, <2>6
<1>7. Tied(next, C)
  BY <1>4, <1>6 DEF Tied
<1>8. QED  BY <1>4, <1>7 DEF C, back

(* Where every cycle is headed no component has two entries.                 *)
LEMMA HeadedIsReducible ==
    ASSUME NEW f, NEW N, NEW dom, Charted(f, N, dom), IsFiniteSet(N), Headed(f, N, dom),
           NEW preds \in [N -> SUBSET N],
           \A b, s \in N : s \in preds[b] <=> b \in f.edges[s]
    PROVE  ~HasIrreducibleComponent(f, preds)
<1> DEFINE back == Back(preds)
<1>0. ASSUME NEW o \in N, Component(Back(preds), o) # {o}
      PROVE  /\ Tied(f.edges, Component(Back(preds), o))
             /\ Component(Back(preds), o) \subseteq N /\ o \in Component(Back(preds), o)
  <2> DEFINE next == f.edges
  <2>1. \A b, s \in N : s \in preds[b] <=> b \in next[s]
    OBVIOUS
  <2> HIDE DEF next
  <2>2. /\ Tied(next, Component(Back(preds), o))
        /\ Component(Back(preds), o) \subseteq N /\ o \in Component(Back(preds), o)
    BY <1>0, <2>1, ComponentTied
  <2>3. QED  BY <2>2 DEF next
<1>1. /\ ReachSet(f.entry, f.edges, N) /\ DomTree(f.entry, f.edges, N, dom)
      /\ preds \in [N -> SUBSET N]
  BY DEF Charted
<1>2. ASSUME NEW o \in N
      PROVE  \E h : Entries(f, preds, Component(back, o)) \subseteq {h}
  <2> DEFINE C == Component(back, o)
  <2>1. CASE C = {o}
    BY <2>1 DEF Entries
  <2>2. CASE C # {o}
    <3>1. Tied(f.edges, C) /\ C \subseteq N /\ o \in C
      BY <1>0, <2>2
    <3>2. PICK h \in C : \A b \in C : h \in dom[b]
      <4> HIDE DEF C
      <4> QED  BY <3>1 DEF Headed
    <3>3. \A b \in N : /\ b \in back[b] /\ back[b] \subseteq N
                       /\ \A c \in back[b] : preds[c] \subseteq back[b]
                       /\ \A c \in back[b] : back[c] \subseteq back[b]
      <4> TAKE b \in N
      <4> HIDE DEF C, back
      <4>1. QED  BY <1>1, BackFacts, Zenon DEF back
    <3>4. C = {c \in back[o] : o \in back[c]}
      BY DEF Component
    <3> HIDE DEF C, back
    <3>5. ASSUME NEW b \in Entries(f, preds, C)  PROVE b = h
      <4>1. b \in C /\ b \in N /\ (b = f.entry \/ preds[b] \ C # {})
        BY <3>1 DEF Entries
      <4>2. CASE b = f.entry
        <5>1. h \in dom[f.entry] /\ dom[f.entry] = {f.entry}
          BY <1>1, <3>2, <4>1, <4>2 DEF DomTree
        <5>2. QED  BY <4>2, <5>1
      <4>3. CASE b # f.entry
        <5>1. PICK p \in preds[b] : p \notin C
          BY <4>1, <4>3
        <5>2. p \in N /\ b \in f.edges[p]
          BY <4>1, <5>1
        <5>3. ASSUME b # h  PROVE FALSE
          <6>1. h \in dom[p] /\ h \in N
            BY <1>1, <3>1, <3>2, <4>1, <4>3, <5>2, <5>3 DEF DomTree
          <6>2. h \in back[p]
            <7> DEFINE Z == {y \in back[p] : h \in dom[y]}
            <7>1. ASSUME h \notin back[p]  PROVE FALSE
              <8>1. p \in Z /\ Z \in SUBSET N
                BY <3>3, <5>2, <6>1
              <8>2. f.entry \notin Z
                <9>1. ASSUME f.entry \in Z  PROVE FALSE
                  <10>1. h \in dom[f.entry] /\ f.entry \in back[p]
                    BY <9>1
                  <10>2. h = f.entry
                    BY <1>1, <10>1 DEF DomTree
                  <10>3. QED  BY <7>1, <10>1, <10>2
                <9>2. QED  BY <9>1
              <8>3. ASSUME NEW y \in Z, NEW q \in N, y \in f.edges[q]  PROVE q \in Z
                <9>1. y \in back[p] /\ h \in dom[y] /\ y \in N /\ y # f.entry
                  BY <8>1, <8>2
                <9>2. q \in preds[y]
                  BY <8>3, <9>1
                <9>3. q \in back[p]
                  BY <3>3, <5>2, <9>1, <9>2
                <9>4. h # y
                  BY <7>1, <9>1
                <9>5. h \in dom[q]
                  BY <1>1, <8>3, <9>1, <9>4 DEF DomTree
                <9>6. QED  BY <9>3, <9>5
              <8> HIDE DEF Z
              <8>4. Z = {}
                BY <1>1, <8>1, <8>2, <8>3, BackClosedEmpty
              <8>5. QED  BY <8>1, <8>4
            <7>2. QED  BY <7>1
          <6>3. p \in back[o]
            BY <3>3, <3>4, <4>1, <5>1
          <6>4. o \in back[p]
            BY <3>2, <3>3, <3>4, <5>2, <6>2
          <6>5. QED  BY <3>4, <5>1, <6>3, <6>4
        <5>4. QED  BY <5>3
      <4>4. QED  BY <4>2, <4>3
    <3>6. Entries(f, preds, C) \subseteq {h}
      BY <3>5
    <3>7. QED  BY <3>6 DEF C
  <2>3. QED  BY <2>1, <2>2
<1>3. ASSUME NEW E, NEW h, E \subseteq {h}  PROVE ~(Cardinality(E) > 1)
  <2>1. IsFiniteSet({h}) /\ Cardinality({h}) = 1
    BY FS_Singleton
  <2>2. E \in SUBSET {h}
    BY <1>3
  <2>3. Cardinality(E) <= Cardinality({h}) /\ IsFiniteSet(E)
    BY <2>1, <2>2, FS_Subset
  <2>4. Cardinality(E) \in Nat
    BY <2>3, FS_CardinalityType
  <2>5. QED  BY <2>1, <2>3, <2>4
<1>4. DOMAIN preds = N
  BY <1>1
<1>5. \A o \in N : ~(Cardinality(Entries(f, preds, Component(back, o))) > 1)
  BY <1>2, <1>3
<1>6. QED  BY <1>4, <1>5, IrreducibleMeans

-----------------------------------------------------------------------------
(* Reducible graphs, and without tries only they, get structured code        *)

LEMMA StructureDecides ==
    ASSUME NEW f, Analysed(f)
    PROVE  LET preds == Predecessors(f, f.edges)
               dom == Dominators(f, preds)
               loops == NaturalLoops(f, preds, dom)
               code == EmitRegion(f, loops)[<<RootUnit(f), <<>>>>]
           IN  /\ LoopsNest(loops) /\ HeadersDominate(loops, dom) /\ TriesNest(f, loops)
               /\ Reducible(f) => ~HasIrreducibleComponent(f, preds) /\ code # NoCode
               /\ TryBlocks(f) = {} /\ code # NoCode => Reducible(f)
<1> DEFINE preds == Predecessors(f, f.edges)
           flow == Dominators(f, preds)
           loops == NaturalLoops(f, preds, flow)
           code == EmitRegion(f, loops)[<<RootUnit(f), <<>>>>]
<1>1. PICK N, dom : Verified(f, N, dom) /\ f.edges = UnwindEdges(f)
  BY DEF Analysed
<1>2. /\ LoopsNest(loops) /\ HeadersDominate(loops, flow) /\ TriesNest(f, loops)
      /\ preds = [b \in N |-> {s \in N : b \in f.edges[s]}]
      /\ Natural(f, N, dom, loops) /\ Looped(f, N, dom, loops)
  BY <1>1, AnalysisAccepts
<1>3. IsFiniteSet(N)
  BY <1>1 DEF Verified
<1> HIDE DEF loops, preds, flow
<1>4. Charted(f, N, dom)
  BY <1>2, NaturalCharted
<1>5. Accepted(f, N, dom, loops)
  BY <1>2, <1>4 DEF Accepted
<1>6. Reducible(f) <=> Headed(f, N, dom)
  BY <1>4, ReducibleMeans
<1>7. preds \in [N -> SUBSET N] /\ \A b, s \in N : s \in preds[b] <=> b \in f.edges[s]
  BY <1>2
<1>8. Headed(f, N, dom) => ~HasIrreducibleComponent(f, preds)
  BY <1>3, <1>4, <1>7, HeadedIsReducible
<1>9. Headed(f, N, dom) => code # NoCode
  BY <1>5, RootEmits
<1>10. TryBlocks(f) = {} /\ code # NoCode => Headed(f, N, dom)
  BY <1>5, CodeIsHeaded
<1> HIDE DEF code
<1>11. /\ LoopsNest(loops) /\ HeadersDominate(loops, flow) /\ TriesNest(f, loops)
       /\ Reducible(f) => ~HasIrreducibleComponent(f, preds) /\ code # NoCode
       /\ TryBlocks(f) = {} /\ code # NoCode => Reducible(f)
  BY <1>2, <1>6, <1>8, <1>9, <1>10
<1>12. QED  BY <1>11 DEF code, loops, flow, preds

LEMMA StructureGives ==
    ASSUME Follows, Structure
    PROVE  ReducibleIsStructured'
<1> DEFINE f == function
           preds == Predecessors(f, f.edges)
           dom == Dominators(f, preds)
           loops == NaturalLoops(f, preds, dom)
           code == EmitRegion(f, loops)[<<RootUnit(f), <<>>>>]
<1>1. Analysed(f)
  BY DEF Follows, Structure
<1>2. /\ LoopsNest(loops) /\ HeadersDominate(loops, dom) /\ TriesNest(f, loops)
      /\ Reducible(f) => ~HasIrreducibleComponent(f, preds) /\ code # NoCode
      /\ TryBlocks(f) = {} /\ code # NoCode => Reducible(f)
  <2> HIDE DEF f
  <2>1. QED  BY <1>1, StructureDecides, Zenon
<1>3. /\ function' = f
      /\ \/ /\ HasIrreducibleComponent(f, preds) /\ form' = "dispatcher"
         \/ /\ form' = "structured"
            /\ IF /\ LoopsNest(loops) /\ HeadersDominate(loops, dom)
                  /\ TriesNest(f, loops) /\ code # NoCode
               THEN phase' = "code" ELSE phase' = "rejected"
  BY DEF Structure, Emitted, Rejected
<1> HIDE DEF f, preds, dom, loops, code
<1>4. Reducible(f) => form' = "structured" /\ phase' = "code"
  BY <1>2, <1>3
<1>5. TryBlocks(f) = {} /\ form' = "structured" /\ phase' = "code" => Reducible(f)
  BY <1>2, <1>3
<1>6. QED  BY <1>3, <1>4, <1>5 DEF ReducibleIsStructured

LEMMA StructuredStep ==
    Follows /\ ReducibleIsStructured /\ [Next]_vars => ReducibleIsStructured'
<1> SUFFICES ASSUME Follows, ReducibleIsStructured, [Next]_vars
             PROVE  ReducibleIsStructured'
  OBVIOUS
<1>1. CASE Verify
  BY <1>1 DEF Verify, ReducibleIsStructured
<1>2. CASE Structure
  BY <1>2, StructureGives
<1>3. CASE Call
  BY <1>3 DEF Call, ReducibleIsStructured
<1>4. CASE Step
  BY <1>4 DEF Step, ReducibleIsStructured
<1>5. CASE Arm
  BY <1>5 DEF Arm, Ends, InBlock, ReducibleIsStructured
<1>6. CASE Take
  BY <1>6 DEF Take, Ends, InBlock, ReducibleIsStructured
<1>7. CASE Select
  BY <1>7 DEF Select, Ends, InBlock, ReducibleIsStructured
<1>8. CASE Raise
  BY <1>8 DEF Raise, InBlock, ReducibleIsStructured
<1>9. CASE Exit
  BY <1>9 DEF Exit, ReducibleIsStructured
<1>10. CASE UNCHANGED vars
  BY <1>10 DEF vars, ReducibleIsStructured
<1>11. QED
  BY <1>1, <1>2, <1>3, <1>4, <1>5, <1>6, <1>7, <1>8, <1>9, <1>10 DEF Next

(* ReducibleIsStructured: every function that passes the verifier and whose  *)
(* graph is reducible gets structured code - no validation of the control    *)
(* flow plan fails, no region is left without an order of its units, and no  *)
(* branch misses its label - and without a try no other function does.       *)
THEOREM ReducibleIsStructuredHolds == Spec => []ReducibleIsStructured
<1>1. Init => ReducibleIsStructured
  BY DEF Init, Start, ReducibleIsStructured
<1>2. Follows /\ ReducibleIsStructured /\ [Next]_vars => (Follows /\ ReducibleIsStructured)'
  BY FollowsStep, StructuredStep
<1>3. QED  BY <1>1, <1>2, FollowsInit, PTL DEF Spec

\* validate_loop_nesting, validate_try_loop_nesting and the check that a header
\* dominates its loop.
PlanAccepted ==
    phase = "graph" =>
        LET dom == Dominators(function, Predecessors(function, function.edges))
            loops == NaturalLoops(function, Predecessors(function, function.edges), dom)
        IN  LoopsNest(loops) /\ HeadersDominate(loops, dom) /\ TriesNest(function, loops)

(* PlanAccepted: the validations of the control flow plan fail for no        *)
(* function the verifier lets through.  Loops nest, their headers dominate   *)
(* them, and no loop crosses a try's region, reducible or not.               *)
THEOREM PlanAcceptedAlways == Spec => []PlanAccepted
<1>1. Follows => PlanAccepted
  <2> SUFFICES ASSUME Follows, phase = "graph"
               PROVE  LET dom == Dominators(function, Predecessors(function, function.edges))
                          loops == NaturalLoops(function, Predecessors(function, function.edges), dom)
                      IN  LoopsNest(loops) /\ HeadersDominate(loops, dom)
                          /\ TriesNest(function, loops)
    BY DEF PlanAccepted
  <2>1. Analysed(function)
    BY DEF Follows
  <2>2. QED  BY <2>1, StructureDecides
<1>2. Follows /\ [Next]_vars => Follows'
  BY FollowsStep
<1>3. QED  BY <1>1, <1>2, FollowsInit, PTL DEF Spec
=============================================================================
