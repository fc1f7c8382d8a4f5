---------------------------- MODULE MCRootServer ----------------------------
(***************************************************************************)
(* The root task with the pager and another task it started.               *)
(***************************************************************************)
EXTENDS RootServer, TLC

CONSTANTS pager, init, null

MCInvalid == 1023

\* References of memsection structures: a heap and the two lists.  Behind the capabilities
\* of a list the section is clear.
MCSections    == {8, 24, 32}
MCListSection == (pager :> 24) @@ (init :> 32)
MCClists      == (pager :> <<8, 24, 0>>) @@ (init :> <<32, 0>>)

\* What is written into a list: an invalid capability, or one for the list of init.
MCWords == {MCInvalid, 32}
=============================================================================
