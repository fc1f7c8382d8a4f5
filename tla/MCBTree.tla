------------------------------ MODULE MCBTree ------------------------------
(* Values for the constants of BTree.                                      *)
EXTENDS BTree

CONSTANTS Top,      \* the last address
          Longest   \* the length of the longest object

MCObjects == {o \in [base : 1 .. Top, end : 1 .. Top] :
                o.base <= o.end /\ o.end < o.base + Longest}
MCJunkKeys == {0, Top + 1}
=============================================================================
