------------------------------ MODULE RangeList ------------------------------
(***************************************************************************)
(* The range free list (sys_rfl.c): a list of ranges of free numbers       *)
(* (module Ranges) and those who take numbers from it and give them back.  *)
(***************************************************************************)
EXTENDS Ranges

CONSTANTS MinNo, MaxNo     \* the range the list is set up with (sys$thread_init)

ASSUME NumbersAssumption == MinNo \in Nat /\ MaxNo \in Nat /\ 0 < MinNo /\ MinNo <= MaxNo

VARIABLES ranges,   \* the list, records [from, to]
          out,      \* the numbers handed out
          result,   \* what the last sys$rfl_free returned
          memory    \* and what its allocations came to

vars == <<ranges, out, result, memory>>

Numbers == MinNo .. MaxNo

\* sys$rfl_alloc; an empty list gives -1 and does not change.
RflAlloc ==
  /\ ranges # <<>>
  /\ ranges' = Rest(ranges)
  /\ out' = out \union {ranges[1].from}
  /\ UNCHANGED <<result, memory>>

RflFree(n, m) ==
  LET r == FreeNumber(ranges, n, m)
  IN  /\ ranges' = r.list
      /\ out' = out \ {n}
      /\ result' = r.ret
      /\ memory' = m

\* sys$thread_init: an empty list that gets one range.
Init ==
  /\ ranges = <<[from |-> MinNo, to |-> MaxNo]>>
  /\ out = {}
  /\ result = "RFL_SUCCESS"
  /\ memory = "both"

\* Owners give back what they own; a number that is free already may be given back
\* by mistake.
Next ==
  \/ RflAlloc
  \/ \E n \in out \union Covered(ranges), m \in Memory : RflFree(n, m)

Spec == Init /\ [][Next]_vars

-----------------------------------------------------------------------------
(***************************************************************************)
(* Properties                                                              *)
(***************************************************************************)

\* No range of the list is empty.
TypeOK ==
  /\ ranges \in Seq([from : Numbers, to : Numbers])
  /\ \A i \in DOMAIN ranges : ranges[i].from <= ranges[i].to
  /\ out \subseteq Numbers
  /\ result \in {"RFL_SUCCESS", "E_RFL_OVERLAP", "E_RFL_NOMEM"}
  /\ memory \in Memory

\* The list is in order, its ranges are disjoint and not empty, and ranges that touch are merged, in
\* whatever order numbers come back and whichever of them are lost.
Canonical ==
  /\ TypeOK
  /\ \A i \in 1 .. Len(ranges) - 1 : ranges[i].to + 1 < ranges[i + 1].from

Pool == INSTANCE NumberPool WITH free <- Covered(ranges), short <- memory # "both"

\* The list implements a pool of numbers: no number is handed out twice, a number is
\* given back at most once, and it is lost only in a sys$rfl_free that lacked memory.
ImplementsPool == Pool!Spec

\* A number next to a free one needs no memory to be noted, so it is never lost.
NeighbourKept ==
  [][\A n \in out \ out' : {n - 1, n + 1} \intersect Covered(ranges) # {} => n \in Covered(ranges')]_vars
=============================================================================
