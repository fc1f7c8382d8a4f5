-------------------------- MODULE MCFixedSections ---------------------------
(***************************************************************************)
(* Values for the constants of FixedSections.                              *)
(***************************************************************************)
EXTENDS FixedSections

R(b, n) == [base |-> b, size |-> n]
Map(vm, pm) == [regions |-> [a \in Allocs |-> IF a = "vm" THEN vm ELSE pm], objects |-> {}]

MCSizes    == {1, 2, 4, 8, 16}
MCPerPool  == [fp |-> 2, ms |-> 3, bt |-> 1]
MCRequests == {[flags |-> "normal", size |-> 1]}

\* Maps with enough physical memory for some segments, and with hardly any.  In the
\* second, fp_cache grows while the loop has a node of the same list ahead of it.
MCMaps == {Map(<<R(1, 13)>>, <<R(2, 10)>>), Map(<<R(1, 23)>>, <<R(2, 10)>>),
           Map(<<R(0, 10)>>, <<R(0, 6)>>)}

\* Segments in the middle of an fpage, at its end, and over several fpages.
MCFixed == {R(9, 2), R(13, 1), R(18, 1), R(6, 3)}

\* An instance in which a cache takes a page of the segment during the walk.
ChunkSizes    == {1, 2, 4, 8, 16, 32, 64}
ChunkPerPool  == [fp |-> 3, ms |-> 1, bt |-> 2]
ChunkRequests == {[flags |-> "user", size |-> 2]}
ChunkMaps     == {Map(<<R(25, 72)>>, <<R(0, 32)>>)}
ChunkFixed    == {R(67, 3)}
=============================================================================
