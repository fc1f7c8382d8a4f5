------------------------------- MODULE MCHeap -------------------------------
(* Values for the constants of Heap.                                        *)
EXTENDS Heap

\* base below the heap, or right after its end.
MCBases == {1, Hi}
MCUnits == {1, 2, 3}
=============================================================================
