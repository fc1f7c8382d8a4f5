---------------------------- MODULE MCFpageAlloc ----------------------------
(* Values for the constants of FpageAlloc.                                  *)
EXTENDS FpageAlloc

R(b, n) == [base |-> b, size |-> n]
Map(vm, pm, objs) == [regions |-> [a \in Allocs |-> IF a = "vm" THEN vm ELSE pm],
                      objects |-> objs]

MCSizes   == {1, 2, 4, 8, 16}
MCPerPool == [fp |-> 2, ms |-> 3, bt |-> 1]
MCRequests == [flags : {"normal"}, size : {1, 3}] \union
              {[flags |-> "user", size |-> 2], [flags |-> "utcb", size |-> 1]}
\* A fragmented map and one short of physical memory, of which a creation must be
\* undone; a plain one; the smallest sys$bootstrap accepts; and four it refuses.
MCMaps == {Map(<<R(0, 2), R(3, 8)>>, <<R(1, 1), R(3, 5), R(9, 3)>>, {}),
           Map(<<R(0, 10)>>, <<R(0, 6)>>, {}),
           Map(<<R(1, 11)>>, <<R(2, 10)>>, {R(20, 1)}),
           Map(<<R(0, 4)>>, <<R(2, 2)>>, {}),
           Map(<<R(0, 2)>>, <<R(0, 4)>>, {}),
           Map(<<R(0, 2)>>, <<R(0, 4), R(6, 1)>>, {}),
           Map(<<R(0, 1), R(2, 3)>>, <<R(0, 4)>>, {}),
           Map(<<R(0, 4)>>, <<R(0, 1), R(2, 1)>>, {})}

\* A machine whose first usable physical region has exactly the two pages
\* sys$bootstrap asks for.
MCTwoPages == {Map(<<R(0, 4)>>, <<R(2, 2)>>, {})}
=============================================================================
