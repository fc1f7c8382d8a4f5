-------------------------- MODULE RangeListProofs ---------------------------
(***************************************************************************)
(* The range free list of sys_rfl.c stays canonical and implements a pool  *)
(* of numbers, for every range of numbers it is set up with.               *)
(*                                                                         *)
(* That the list is canonical is what makes the search of                  *)
(* sys$rfl_insert_range correct: it stops at the first range that meets    *)
(* the number or lies behind it, and only in a list that is in order and   *)
(* merged is that the one range to look at.  What the operations do to a   *)
(* list is shown in module ListFacts, by looking at the first range that   *)
(* would be out of order.                                                  *)
(***************************************************************************)
EXTENDS RangeList, ListFacts


-----------------------------------------------------------------------------
\* The inductive invariant: a canonical list of numbers of the range, none of which is
\* handed out.
RInv ==
  /\ Canon(ranges)
  /\ Covered(ranges) \subseteq Numbers
  /\ out \subseteq Numbers
  /\ out \intersect Covered(ranges) = {}
  /\ result \in {"RFL_SUCCESS", "E_RFL_OVERLAP", "E_RFL_NOMEM"}
  /\ memory \in Memory

\* What the pool of numbers sees of the list.
Seen == <<Covered(ranges), out, memory # "both">>

\* sys$thread_init leaves every number free.
LEMMA InitCovered == Init => RInv /\ Covered(ranges) = Numbers
<1> SUFFICES ASSUME Init PROVE RInv /\ Covered(ranges) = Numbers
  OBVIOUS
<1>1. Canon(ranges) /\ Covered(ranges) = Numbers
  BY NumbersAssumption, OneRange DEF Init, Numbers
<1> QED BY <1>1 DEF RInv, Init, Memory

\* sys$rfl_alloc is an allocation of the pool.
LEMMA AllocStep ==
  ASSUME RInv, RflAlloc
  PROVE  RInv' /\ Pool!Next /\ out \subseteq out'
<1> DEFINE n == ranges[1].from
<1>1. /\ Canon(ranges') /\ n \in Covered(ranges) /\ Covered(ranges') = Covered(ranges) \ {n}
  BY RestKeeps DEF RInv, RflAlloc
<1>2. out' = out \union {n} /\ result' = result /\ memory' = memory
  BY DEF RflAlloc
<1> HIDE DEF n
<1>3. RInv'
  <2>1. Covered(ranges)' = Covered(ranges')
    BY DEF Covered
  <2> QED BY <1>1, <1>2, <2>1 DEF RInv, Canon
<1>4. n \in Numbers /\ Pool!Alloc(n)
  BY <1>1, <1>2 DEF RInv, Pool!Alloc
<1> QED BY <1>2, <1>3, <1>4 DEF Pool!Next

\* sys$rfl_free is a release of the pool, a loss for want of memory, or a refusal; a number
\* next to a free one is not lost.
LEMMA FreeStep ==
  ASSUME RInv, NEW n \in out \union Covered(ranges), NEW m \in Memory, RflFree(n, m)
  PROVE  /\ RInv'
         /\ Pool!Next \/ UNCHANGED Seen
         /\ \A k \in out \ out' :
              {k - 1, k + 1} \intersect Covered(ranges) # {} => k \in Covered(ranges')
<1> DEFINE r == FreeNumber(ranges, n, m)
<1>1. n \in Numbers /\ n \in Nat /\ n > 0
  BY NumbersAssumption DEF RInv, Numbers
<1>2. Freed(ranges, n, m, r)
  BY <1>1, FreeNumberKeeps DEF RInv
<1>3. ranges' = r.list /\ out' = out \ {n} /\ result' = r.ret /\ memory' = m
  BY DEF RflFree
<1> HIDE DEF r
<1>4. Covered(ranges)' = Covered(ranges') /\ Canon(ranges)' = Canon(ranges')
  BY DEF Covered, Canon
<1>5. \/ n \in Covered(ranges) /\ ranges' = ranges
      \/ n \notin Covered(ranges) /\ Covered(ranges') = Covered(ranges) \union {n}
      \/ /\ n \notin Covered(ranges) /\ n - 1 \notin Covered(ranges) /\ n + 1 \notin Covered(ranges)
         /\ memory' # "both" /\ ranges' = ranges
  BY <1>2, <1>3 DEF Freed
<1>6. RInv'
  BY <1>1, <1>2, <1>3, <1>4, <1>5 DEF RInv, Freed
<1>7. Pool!Next \/ UNCHANGED Seen
  <2>0. (memory # "both")' \in BOOLEAN
    OBVIOUS
  <2>1. CASE n \in Covered(ranges) /\ ranges' = ranges
    <3>1. Pool!Refuse
      BY <1>3, <1>4, <2>0, <2>1 DEF RInv, Pool!Refuse
    <3> QED BY <3>1 DEF Pool!Next
  <2>2. CASE n \notin Covered(ranges) /\ Covered(ranges') = Covered(ranges) \union {n}
    <3>1. Pool!Free(n)
      BY <1>3, <1>4, <2>0, <2>2 DEF Pool!Free
    <3> QED BY <1>1, <3>1 DEF Pool!Next
  <2>3. CASE n \notin Covered(ranges) /\ memory' # "both" /\ ranges' = ranges
    <3>1. Pool!Lose(n)
      BY <1>3, <1>4, <2>3 DEF Pool!Lose
    <3> QED BY <1>1, <3>1 DEF Pool!Next
  <2> QED BY <1>5, <2>1, <2>2, <2>3
<1>8. ASSUME NEW k \in out \ out', {k - 1, k + 1} \intersect Covered(ranges) # {}
      PROVE  k \in Covered(ranges')
  <2>1. k = n
    BY <1>3
  <2> QED BY <1>5, <1>8, <2>1
<1> QED BY <1>6, <1>7, <1>8

\* What a step of the list is worth: all that the theorems say of one step.
NextStep ==
  /\ RInv'
  /\ Pool!Next \/ UNCHANGED Seen
  /\ \A n \in out \ out' : {n - 1, n + 1} \intersect Covered(ranges) # {} => n \in Covered(ranges')

\* Every step is worth that.
LEMMA EveryStep == RInv /\ [Next]_vars => NextStep
<1> SUFFICES ASSUME RInv, [Next]_vars PROVE NextStep
  OBVIOUS
<1>1. CASE RflAlloc
  BY <1>1, AllocStep DEF NextStep
<1>2. ASSUME NEW n \in out \union Covered(ranges), NEW m \in Memory, RflFree(n, m) PROVE NextStep
  BY <1>2, FreeStep DEF NextStep
<1>3. CASE UNCHANGED vars
  BY <1>3 DEF NextStep, RInv, vars, Canon, Covered, Seen
<1> QED BY <1>1, <1>2, <1>3 DEF Next

\* The list stays canonical and never holds a number that is handed out (sys$rfl_alloc,
\* sys$rfl_free).
THEOREM Invariance == Spec => []RInv
<1>1. Init => RInv
  BY InitCovered
<1>2. RInv /\ [Next]_vars => RInv'
  BY EveryStep DEF NextStep
<1> QED BY <1>1, <1>2, PTL DEF Spec

\* The invariant is stronger than Canonical.
LEMMA InvCanonical == RInv => Canonical
<1> SUFFICES ASSUME RInv PROVE Canonical
  OBVIOUS
<1>1. /\ ranges \in Seq(Interval) /\ Len(ranges) \in Nat /\ DOMAIN ranges = 1 .. Len(ranges)
      /\ \A k \in 1 .. Len(ranges) : /\ ranges[k] = [from |-> ranges[k].from, to |-> ranges[k].to]
                                     /\ ranges[k].from \in Nat /\ ranges[k].to \in Nat
                                     /\ ranges[k].from <= ranges[k].to
  BY CanonElems DEF RInv
<1>2. ASSUME NEW k \in 1 .. Len(ranges) PROVE ranges[k] \in [from : Numbers, to : Numbers]
  <2>1. ranges[k].from \in Covered(ranges) /\ ranges[k].to \in Covered(ranges)
    BY <1>1, CoveredElems
  <2>2. ranges[k].from \in Numbers /\ ranges[k].to \in Numbers
    BY <2>1 DEF RInv
  <2>3. ranges[k] = [from |-> ranges[k].from, to |-> ranges[k].to]
    BY <1>1
  <2> QED BY <2>2, <2>3
<1>3. ranges \in Seq([from : Numbers, to : Numbers])
  <2>1. ranges \in [1 .. Len(ranges) -> [from : Numbers, to : Numbers]]
    BY <1>1, <1>2
  <2> QED BY <1>1, <2>1, FcnIsSeq
<1> QED BY <1>1, <1>3 DEF Canonical, TypeOK, RInv, Canon

\* The list is in order, its ranges do not touch and none is empty, in whatever order
\* numbers are given back, twice even, and whichever are lost (sys$rfl_insert_range).
THEOREM AlwaysCanonical == Spec => []Canonical
  BY Invariance, InvCanonical, PTL

\* The list implements the pool of numbers NumberPool: no number is handed out twice and
\* none is lost by a sys$rfl_free whose allocations succeed (sys$rfl_alloc, sys$rfl_free).
THEOREM RefinesPool == Spec => ImplementsPool
<1>1. Init => Pool!Init
  BY InitCovered DEF Pool!Init, Init
<1>2. RInv /\ [Next]_vars => [Pool!Next]_<<Covered(ranges), out, memory # "both">>
  BY EveryStep DEF NextStep, Seen
<1> QED BY <1>1, <1>2, Invariance, PTL DEF ImplementsPool, Pool!Spec, Spec

\* A number given back next to a free one is never lost: extending a range takes no memory
\* (sys$rfl_insert_range).
THEOREM NeighboursKept == Spec => NeighbourKept
<1>1. RInv /\ [Next]_vars
      => [\A n \in out \ out' : {n - 1, n + 1} \intersect Covered(ranges) # {}
                                => n \in Covered(ranges')]_vars
  BY EveryStep DEF NextStep
<1> QED BY <1>1, Invariance, PTL DEF Spec, NeighbourKept
====
