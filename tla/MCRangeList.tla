---------------------------- MODULE MCRangeList ----------------------------
(* RangeList with the constants of its cfg.                                *)
EXTENDS RangeList
=============================================================================
