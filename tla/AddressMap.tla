----------------------------- MODULE AddressMap -----------------------------
(***************************************************************************)
(* What the kernel's lookup of memsections promises, as one step:          *)
(*                                                                         *)
(*  - the memsections of the kernel itself, slab pools among them, are     *)
(*    never missed;                                                        *)
(*  - those of other domains are not missed if they were stored and the    *)
(*    table is not in doubt: it refuses only what meets something stored,  *)
(*    and is in doubt only after it stored such a memsection or one of its *)
(*    nodes was used again;                                                *)
(*  - an answer holds the address.  It is a memsection of the kernel or    *)
(*    something stored, which can be a creation that is under way or has   *)
(*    failed.                                                              *)
(***************************************************************************)
CONSTANTS Nodes,   \* the nodes of memsections
          Addrs,   \* the addresses looked up
          Ranges,  \* the sets of addresses memsections have
          NULL

VARIABLES range,    \* the addresses of each node
          known,    \* the memsections that exist
          kernel,   \* those of the kernel itself
          stored,   \* the nodes in the table
          doubt,    \* the table may miss what it stores
          new,      \* the node of a creation that is under way, or NULL
          addr,     \* the address being looked up, NULL between lookups
          answer    \* what the last lookup returned

vars == <<range, known, kernel, stored, doubt, new, addr, answer>>

Init == /\ range = [n \in Nodes |-> {}]
        /\ known = {} /\ kernel = {} /\ stored = {}
        /\ doubt = FALSE
        /\ new = NULL /\ addr = NULL /\ answer = NULL

Take(n, r) == /\ addr = NULL
              /\ n \notin known
              /\ n # new
              /\ range' = [range EXCEPT ![n] = r]
              /\ UNCHANGED <<addr, answer>>

Clear(n, r) == ~doubt /\ n \notin stored /\ \A m \in stored : range[m] \intersect r = {}

Store(n, r) == \/ stored' = stored \union {n} /\ doubt' = ~Clear(n, r)
               \/ ~Clear(n, r) /\ stored' = stored /\ doubt' = (doubt \/ n \in stored)

Skip(n) == stored' = stored /\ doubt' = (doubt \/ n \in stored)

Link(n, own) == known' = known \union {n} /\ kernel' = kernel \union own

\* A memsection that is stored, or one of the kernel that is not.
Add(n, r) == /\ Take(n, r)
             /\ \/ \E own \in {{}, {n}} : Store(n, r) /\ Link(n, own)
                \/ Skip(n) /\ Link(n, {n})
             /\ UNCHANGED new

\* A creation that fails before anything is stored.
Waste(n, r) == Take(n, r) /\ Skip(n) /\ UNCHANGED <<known, kernel, new>>

\* A creation that is stored first, and then ends or fails.
Begin(n, r) == Take(n, r) /\ new = NULL /\ Store(n, r) /\ new' = n /\ UNCHANGED <<known, kernel>>

End == /\ addr = NULL
       /\ new # NULL
       /\ \/ \E own \in {{}, {new}} : Link(new, own)
          \/ UNCHANGED <<known, kernel>>
       /\ new' = NULL
       /\ UNCHANGED <<range, stored, doubt, addr, answer>>

Ask(a) == /\ addr = NULL
          /\ addr' = a
          /\ UNCHANGED <<range, known, kernel, stored, doubt, new, answer>>

Held(S) == {n \in S : addr \in range[n]}

Reply == /\ addr # NULL
         /\ \/ answer' \in Held(kernel \union stored)
            \/ /\ answer' = NULL
               /\ Held(kernel) = {}
               /\ ~doubt => Held(stored) = {}
         /\ addr' = NULL
         /\ UNCHANGED <<range, known, kernel, stored, doubt, new>>

Next == \/ \E n \in Nodes, r \in Ranges : Add(n, r) \/ Waste(n, r) \/ Begin(n, r)
        \/ End \/ Reply
        \/ \E a \in Addrs : Ask(a)

Spec == Init /\ [][Next]_vars
=============================================================================
