---------------------------- MODULE MCBootMemory ----------------------------
(***************************************************************************)
(* Pages of eight bytes; descriptors of whole halves of a page in virtual  *)
(* memory, of quarters in physical memory.                                 *)
(***************************************************************************)
EXTENDS BootMemory

CONSTANT null

\* Objects that end before, on and after the first byte of a page, of one byte and of a
\* page, in one page and over two.
PmObjects ==
  { [base |-> 2, end |-> 5], [base |-> 3, end |-> 8], [base |-> 8, end |-> 8],
    [base |-> 8, end |-> 15], [base |-> 6, end |-> 9] }

\* Objects in virtual memory above the guard page, one of which splits a region.
VmObjects ==
  { [base |-> 10, end |-> 13], [base |-> 11, end |-> 16], [base |-> 16, end |-> 16],
    [base |-> 17, end |-> 23], [base |-> 6, end |-> 9] }

MCGranule  == [v \in BOOLEAN |-> IF v THEN 4 ELSE 2]
MCMemEnd   == [v \in BOOLEAN |-> IF v THEN 32 ELSE 20]
MCMaxDescs == [v \in BOOLEAN |-> 3]
MCObjects  == [v \in BOOLEAN |-> IF v THEN VmObjects ELSE PmObjects]
=============================================================================
