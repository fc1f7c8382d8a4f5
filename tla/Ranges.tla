------------------------------- MODULE Ranges -------------------------------
(***************************************************************************)
(* Lists of ranges of free numbers (sys_rfl.c over the rings of            *)
(* sys_lists.c) and what the operations of a range free list make of them. *)
(* The ring is a sequence of records [from, to].  A range and its list     *)
(* node are two blocks of the heap, and each allocation can fail.          *)
(***************************************************************************)
EXTENDS Naturals, SequencesExt

Covered(rs) == UNION {rs[i].from .. rs[i].to : i \in DOMAIN rs}

Overlaps(r, from, to) == from \in r.from .. r.to \/ to \in r.from .. r.to

\* The loop of sys$rfl_insert_range ends at this range.
Stops(r, from, to) ==
  \/ Overlaps(r, from, to)
  \/ r.from = to + 1
  \/ r.to = from - 1
  \/ r.from > to

\* Where it ends; behind the last range if nowhere else.
StopAt(rs, from, to) ==
  CHOOSE i \in 1 .. Len(rs) + 1 : /\ i <= Len(rs) => Stops(rs[i], from, to)
                                  /\ \A j \in 1 .. i - 1 : ~Stops(rs[j], from, to)

\* Mutant of Joins: the range behind an extended range is not looked at.
JoinsNever(rs, i, to) == FALSE

\* The range behind rs[i] starts where rs[i], extended, ends.
Joins(rs, i, to) == i < Len(rs) /\ rs[i + 1].from = to + 1

\* What each of the two allocations of sys$rfl_insert_range, a range and a list node,
\* comes to.
Memory == {"both", "range", "none"}

\* sys$rfl_insert_range with what it returns.  Without memory for the range it
\* returns E_RFL_NOMEM; without memory for the node, RFL_SUCCESS: the result of
\* ll_insert_before is not looked at.
InsertRange(rs, from, to, memory) ==
  LET i == StopAt(rs, from, to)
      r == rs[i]
      Gives(list, ret) == [list |-> list, ret |-> ret]
  IN  IF i <= Len(rs) /\ Overlaps(r, from, to) THEN Gives(rs, "E_RFL_OVERLAP")
      ELSE IF i <= Len(rs) /\ r.from = to + 1
        THEN Gives([rs EXCEPT ![i].from = from], "RFL_SUCCESS")
      ELSE IF i <= Len(rs) /\ r.to = from - 1
        THEN IF Joins(rs, i, to)
               THEN Gives(RemoveAt([rs EXCEPT ![i].to = rs[i + 1].to], i + 1), "RFL_SUCCESS")
               ELSE Gives([rs EXCEPT ![i].to = to], "RFL_SUCCESS")
      ELSE CASE memory = "both"  -> Gives(InsertAt(rs, i, [from |-> from, to |-> to]), "RFL_SUCCESS")
             [] memory = "range" -> Gives(rs, "RFL_SUCCESS")
             [] memory = "none"  -> Gives(rs, "E_RFL_NOMEM")

\* Mutant of FreeNumber: the new range is allocated before the list is searched.
FreeNumberAllocFirst(rs, n, memory) ==
  IF memory = "none" THEN [list |-> rs, ret |-> "E_RFL_NOMEM"] ELSE InsertRange(rs, n, n, memory)

\* Mutant of FreeNumber: a number behind the last range is not added.
FreeNumberFallsOff(rs, n, memory) ==
  IF StopAt(rs, n, n) > Len(rs) THEN [list |-> rs, ret |-> "RFL_SUCCESS"]
                                ELSE InsertRange(rs, n, n, memory)

\* sys$rfl_free
FreeNumber(rs, n, memory) == InsertRange(rs, n, n, memory)

\* What sys$rfl_alloc leaves of the list when it takes the first number.
Rest(rs) == IF rs[1].from = rs[1].to THEN Tail(rs) ELSE [rs EXCEPT ![1].from = @ + 1]
=============================================================================
