---------------------------- MODULE MCObjTable ----------------------------
(* Values for the constants of ObjTable.                                   *)
EXTENDS ObjTable

CONSTANTS n1, n2, n3, pd1, a1, a2

MCNodes  == {n1, n2, n3}
MCPds    == {pd1}
MCAddrs  == {a1, a2}
MCRanges == {{a1}, {a2}}
=============================================================================
