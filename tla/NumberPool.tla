----------------------------- MODULE NumberPool -----------------------------
(***************************************************************************)
(* What a free list of numbers promises: a number is handed out to one     *)
(* owner at a time.  A number given back is lost only if there is no       *)
(* memory to note it; it is then never handed out again.                   *)
(***************************************************************************)
CONSTANT Numbers

VARIABLES free,   \* the numbers that can be handed out
          out,    \* the numbers that are handed out
          short   \* memory was short when a number was last given back

Init == free = Numbers /\ out = {} /\ short = FALSE

Alloc(n) == /\ n \in free
            /\ free' = free \ {n}
            /\ out' = out \union {n}
            /\ UNCHANGED short

Free(n) == /\ n \in out
           /\ free' = free \union {n}
           /\ out' = out \ {n}
           /\ short' \in BOOLEAN

Lose(n) == /\ n \in out
           /\ short' = TRUE
           /\ out' = out \ {n}
           /\ UNCHANGED free

\* A number that is free is given back: nothing comes of it.
Refuse == short' \in BOOLEAN /\ UNCHANGED <<free, out>>

Next == Refuse \/ \E n \in Numbers : Alloc(n) \/ Free(n) \/ Lose(n)

Spec == Init /\ [][Next]_<<free, out, short>>
=============================================================================
