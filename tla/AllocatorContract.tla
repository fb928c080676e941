------------------------- MODULE AllocatorContract -------------------------
(***************************************************************************)
(* What cabi_realloc promises its callers, without the registry, the       *)
(* segments or the memory they live in: a set of buffers, each with an     *)
(* address and its contents.  A buffer that is handed out is aligned,      *)
(* never null and apart from every buffer that is live; a replacement      *)
(* keeps the common prefix; whatever traps changes no buffer.              *)
(***************************************************************************)
EXTENDS Integers

CONSTANTS Address,  \* the addresses a buffer can have
          Value     \* what one cell of a buffer can hold

VARIABLE blocks     \* [address of a live buffer -> [offset -> Value]]

\* The cells [u, u + len) hold no cell of a buffer of B.
Apart(u, len, B) ==
    \A v \in DOMAIN B : \A i \in DOMAIN B[v] : ~(u <= v + i /\ v + i < u + len)

Without(B, u) == [v \in DOMAIN B \ {u} |-> B[v]]

-----------------------------------------------------------------------------
Init == blocks = [u \in {} |-> <<>>]

\* after is B with one more buffer: apart from every buffer of before, never
\* at the null address, never empty.
Handout(before, B, u, after) ==
    /\ u \in Address \ {0}
    /\ DOMAIN after = DOMAIN B \cup {u}
    /\ \A v \in DOMAIN B \ {u} : after[v] = B[v]
    /\ \E len \in Address : DOMAIN after[u] = 0 .. len /\ Apart(u, len + 1, before)
    /\ \A i \in DOMAIN after[u] : after[u][i] \in Value

\* What a fresh buffer holds is not promised.
Alloc(before, after) == \E u \in DOMAIN after : Handout(before, before, u, after)

Free(before, after) == \E u \in DOMAIN before : after = Without(before, u)

\* The replacement is apart from every live buffer, the one it replaces
\* included, and starts with that buffer's cells.
Replace(before, after) ==
    \E u \in DOMAIN before, v \in DOMAIN after :
        /\ Handout(before, Without(before, u), v, after)
        /\ \A i \in DOMAIN after[v] \cap DOMAIN before[u] : after[v][i] = before[u][i]

\* The owner of a buffer writes one of its cells.
Write(before, after) ==
    \E u \in DOMAIN before : \E i \in DOMAIN before[u], x \in Value :
        after = [before EXCEPT ![u][i] = x]

Next ==
    \E before \in {blocks}, after \in {blocks'} :
        \/ Alloc(before, after) \/ Free(before, after)
        \/ Replace(before, after) \/ Write(before, after)

Spec == Init /\ [][Next]_blocks
=============================================================================
