----------------------- MODULE MCCanonicalAllocator -----------------------
(* A small wasm32: addresses below 32, pages of 8 cells, records of 3.      *)
EXTENDS CanonicalAllocator
MCHeapBases == {0, 6, 7, 20}
MCPointers == {0, 9, 11, 12, 15, 16, 19, 20, 23, 24, 28}
MCLengths == {0, 1, 2, 28}
MCAligns == {1, 3, 8}
=============================================================================
