----------------------------- MODULE MCThreads -----------------------------
(* Values for the constants of Threads.                                    *)
EXTENDS Threads

CONSTANTS p, q

MCPds == {p, q}
MCMaxThreads == [pd \in MCPds |-> IF pd = p THEN 3 ELSE 2]
MCEven == [pd \in MCPds |-> 2]
=============================================================================
