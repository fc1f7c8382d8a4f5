---------------------------- MODULE IntervalSet ----------------------------
(***************************************************************************)
(* What the object table does for its users: it stores intervals of        *)
(* addresses and never loses one.  b_plus_tree.h promises that it refuses  *)
(* what overlaps something stored.  It looks at the neighbours only: the   *)
(* object at or below the new one must not hold its base, and the new one  *)
(* must end before the next, except that it may enclose the lowest object  *)
(* of all.  Once its order is broken it may accept anything.               *)
(***************************************************************************)
EXTENDS Naturals

CONSTANT Objects             \* the intervals that may be inserted

VARIABLES known,             \* the intervals stored
          broken             \* their order is lost

Meet(o, p) == o.base <= p.end /\ p.base <= o.end

Encloses(o, p) == o.base < p.base /\ p.end < o.end

\* The object with the nearest base at or below k, that with the nearest above it, and
\* the lowest of all, if there is one.
AtOrBelow(k) == {o \in known : o.base <= k /\ \A p \in known : p.base <= k => p.base <= o.base}
Above(k)     == {o \in known : o.base > k /\ \A p \in known : p.base > k => o.base <= p.base}
Lowest       == {o \in known : \A p \in known : o.base <= p.base}

Fits(o) ==
  /\ \A p \in AtOrBelow(o.base) : o.base > p.end
  /\ \A p \in Above(o.base) :
       \/ o.end < p.base
       \/ p \in Lowest /\ Encloses(o, p) /\ \A q \in Above(p.base) : o.end < q.base

Init == known = {} /\ broken = FALSE

Insert(o) == /\ broken \/ Fits(o)
             /\ known' = known \union {o}
             /\ broken' \in {broken, TRUE}

Next == \E o \in Objects : Insert(o)

Spec == Init /\ [][Next]_<<known, broken>>
=============================================================================
