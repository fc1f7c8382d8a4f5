------------------------------ MODULE ObjTable ------------------------------
(***************************************************************************)
(* The lists and the table through which the kernel finds a memsection by  *)
(* address (sys_objtables.c, sys_slab.c, sys_pd_init.c).                   *)
(*                                                                         *)
(* A memsection_list is a pair of pointers laid out like the first two     *)
(* fields of a memsection_node, so a list head is linked into its own ring *)
(* as if it were a node.  sys$pd_init moves the boot memsections to the    *)
(* list of freevms_pd one by one, and the head of the boot list with them: *)
(* from then on the two heads are in one ring, into which slab pools and   *)
(* kernel memsections are inserted at two different places and which       *)
(* sys$objtable_lookup walks for whatever the B+ tree does not hold.       *)
(*                                                                         *)
(* The B+ tree holds pointers to nodes and reads addresses through them.   *)
(* It is the set of the nodes it points to.  Module BTree shows what it    *)
(* can be trusted with: it is exact as long as what it stores is disjoint  *)
(* and stays as it was stored.  A fixed memsection is stored before it is  *)
(* backed; if that fails its node is freed, the tree still points to it,   *)
(* and ms_cache hands it out again.                                        *)
(***************************************************************************)
EXTENDS Naturals, FiniteSets

CONSTANTS Nodes,   \* the memsection nodes ms_cache can hand out
          Pds,     \* the protection domains besides freevms_pd
          Addrs,   \* the addresses that are looked up
          Ranges,  \* the sets of addresses a memsection may have
          NULL

internal_memsections == "internal_memsections"
freevms_pd == "freevms_pd"                       \* stands for its memsections list

Heads == {internal_memsections, freevms_pd} \union Pds
Cells == Nodes \union Heads

ASSUME CellsAssumption ==
  /\ Nodes \intersect Heads = {}
  /\ Pds \intersect {internal_memsections, freevms_pd} = {}
  /\ NULL \notin Cells \union Addrs
  /\ Ranges \subseteq SUBSET Addrs

VARIABLES
  next, prev,   \* the links of a node; first and last of a list head
  range,        \* the addresses from base to end of a node, {} in a node never used
  tree,         \* the nodes the B+ tree objtable points to
  exact,        \* all it points to is as it was stored, and disjoint
  new, into,    \* the node of a fixed memsection that is being created, or NULL, and
                \* the list it is for
  kernel,       \* history: the nodes linked into lists of the kernel itself
  pc,           \* "run"; "move": sys$pd_init's loop; "found", "walk": a lookup's
                \* result of ObjBTSearch, its loop
  cur, first,   \* the loop variable and first_ms
  addr, answer, \* the address looked up and what the last lookup returned
  vms_pd_initialized

links == <<next, prev>>
table == <<range, tree, exact>>
loop == <<pc, cur, first, addr, answer>>
vars == <<links, table, kernel, new, into, loop, vms_pd_initialized>>

Linked == {c \in Cells : next[c] # NULL}

\* The variables of a loop are not used again after it.
Forget == cur' = internal_memsections /\ first' = internal_memsections

\* Mutant of Append: the list's last is not moved on.
AppendKeepsLast(list, n) ==
  /\ next' = [next EXCEPT ![n] = list, ![prev[list]] = n]
  /\ prev' = [prev EXCEPT ![n] = prev[list]]

\* node->next = list; list->last->next = node; node->prev = list->last;
\* list->last = node.
Append(list, n) ==
  /\ next' = [next EXCEPT ![n] = list, ![prev[list]] = n]
  /\ prev' = [prev EXCEPT ![n] = prev[list], ![list] = n]

\* The list of internal_memsections or that of freevms_pd.
Kernel(l) == l \notin Pds

\* A memsection that has become a member of the list.
Joins(l, n) == Append(l, n) /\ kernel' = IF Kernel(l) THEN kernel \union {n} ELSE kernel

\* ms_cache hands out a node, which then describes r.
Take(n, r) ==
  /\ pc = "run"
  /\ n \notin Linked
  /\ n # new
  /\ range' = [range EXCEPT ![n] = r]

\* sys$memsection_create_cache: a slab pool always goes to internal_memsections, and
\* never into the tree.
CreateCache(n, r) ==
  /\ Take(n, r)
  /\ Joins(internal_memsections, n)
  /\ exact' = (exact /\ n \notin tree)
  /\ UNCHANGED <<tree, new, into, loop, vms_pd_initialized>>

\* A node with these addresses is new to the tree and meets nothing in it.
Clear(n, r) == exact /\ n \notin tree /\ \A m \in tree : range[m] \intersect r = {}

\* objtable_insert, which does nothing before sys$pd_init: the tree takes what is clear
\* of all it has; anything else it takes or refuses (BTree), and ObjBTIns returns 0
\* either way.
ObjtableInsert(n, r) ==
  IF vms_pd_initialized
    THEN \/ tree' = tree \union {n} /\ exact' = Clear(n, r)
         \/ ~Clear(n, r) /\ tree' = tree /\ exact' = (exact /\ n \notin tree)
    ELSE UNCHANGED <<tree, exact>>

\* The list a memsection of the domain is linked into.
ListOf(pd) == IF vms_pd_initialized THEN pd ELSE internal_memsections

\* sys$pd_create_memsection of all but the fixed ones: they are stored when nothing can
\* fail any more.
CreateMemsection(pd, n, r) ==
  /\ new = NULL
  /\ IF vms_pd_initialized THEN pd \in Linked ELSE pd = freevms_pd
  /\ Take(n, r)
  /\ ObjtableInsert(n, r)
  /\ Joins(ListOf(pd), n)
  /\ UNCHANGED <<new, into, loop, vms_pd_initialized>>

\* sys$pd_create_memsection that fails before that: the node is freed, with whatever
\* addresses it has got.
CreateFails(n, r) ==
  /\ new = NULL
  /\ Take(n, r)
  /\ exact' = (exact /\ n \notin tree)
  /\ UNCHANGED <<links, kernel, tree, new, into, loop, vms_pd_initialized>>

\* sys$pd_create_memsection of a fixed memsection: objtable_setup_fixed stores it
\* first ...
CreateFixed(pd, n, r) ==
  /\ new = NULL
  /\ vms_pd_initialized
  /\ pd \in Linked
  /\ Take(n, r)
  /\ ObjtableInsert(n, r)
  /\ new' = n
  /\ into' = pd
  /\ UNCHANGED <<links, kernel, loop, vms_pd_initialized>>

\* ... then takes and backs its pages, on which caches grow and fpages are freed, and it
\* is linked ...
FixedDone ==
  /\ pc = "run"
  /\ new # NULL
  /\ Joins(into, new)
  /\ new' = NULL
  /\ into' = internal_memsections
  /\ UNCHANGED <<table, loop, vms_pd_initialized>>

\* ... or, if there is no memory to back it, its node is freed as it is.  The tree
\* still points to it.
FixedFails ==
  /\ pc = "run"
  /\ new # NULL
  /\ new' = NULL
  /\ into' = internal_memsections
  /\ UNCHANGED <<links, kernel, table, loop, vms_pd_initialized>>

\* sys$pd_setup of a new protection domain: an empty list.
PdCreate(pd) ==
  /\ pc = "run"
  /\ new = NULL
  /\ vms_pd_initialized
  /\ pd \notin Linked
  /\ next' = [next EXCEPT ![pd] = pd]
  /\ prev' = [prev EXCEPT ![pd] = pd]
  /\ UNCHANGED <<table, kernel, new, into, loop, vms_pd_initialized>>

\* sys$pd_init: freevms_pd gets an empty list and the loop starts ...
PdInit ==
  /\ pc = "run"
  /\ freevms_pd \notin Linked
  /\ next' = [next EXCEPT ![freevms_pd] = freevms_pd]
  /\ prev' = [prev EXCEPT ![freevms_pd] = freevms_pd]
  /\ pc' = "move"
  /\ cur' = next[internal_memsections]
  /\ first' = next[internal_memsections]
  /\ UNCHANGED <<table, kernel, new, into, addr, answer, vms_pd_initialized>>

\* ... and moves what it meets until it is back at the first node.  The call of
\* objtable_insert does nothing: vms$pd_initialized is set when the loop is over.
Move ==
  /\ pc = "move"
  /\ Append(freevms_pd, cur)
  /\ IF next[cur] = first THEN pc' = "run" /\ vms_pd_initialized' = TRUE /\ Forget
                          ELSE cur' = next[cur] /\ UNCHANGED <<pc, first, vms_pd_initialized>>
  /\ UNCHANGED <<table, kernel, new, into, addr, answer>>

\* sys$objtable_lookup: ObjBTSearch finds a node that holds the address, and misses one
\* only in a tree that is not exact; then the ring is searched (before sys$objtable_init
\* it finds nothing: BT_INVALID).
Lookup(a) ==
  /\ pc = "run"
  /\ addr' = a
  /\ \/ \E n \in tree : a \in range[n] /\ pc' = "found" /\ cur' = n /\ UNCHANGED first
     \/ /\ exact => \A n \in tree : a \notin range[n]
        /\ pc' = "walk"
        /\ cur' = next[internal_memsections]
        /\ first' = next[internal_memsections]
  /\ UNCHANGED <<links, table, kernel, new, into, answer, vms_pd_initialized>>

\* Mutant of Last: the list is taken to end with a null pointer.
LastIsNull(c) == next[c] = NULL

\* Mutant of Last: the list is taken to end at its head.
LastIsHead(c) == next[c] = internal_memsections

\* ms->next == first_ms ends the loop, before ms itself is looked at.
Last(c) == next[c] = first

\* The list heads on the ring hold no address.
Holds(c) == c \in Nodes /\ addr \in range[c]

Walk ==
  /\ pc = "walk"
  /\ ~Last(cur)
  /\ ~Holds(cur)
  /\ cur' = next[cur]
  /\ UNCHANGED <<links, table, kernel, new, into, pc, first, addr, answer, vms_pd_initialized>>

Return(a) ==
  /\ answer' = a
  /\ addr' = NULL
  /\ pc' = "run"
  /\ Forget
  /\ UNCHANGED <<links, table, kernel, new, into, vms_pd_initialized>>

LookupReturns ==
  \/ pc = "found" /\ Return(cur)
  \/ pc = "walk" /\ Last(cur) /\ Return(NULL)
  \/ pc = "walk" /\ ~Last(cur) /\ Holds(cur) /\ Return(cur)

Init ==
  /\ next = [c \in Cells |-> IF c = internal_memsections THEN c ELSE NULL]
  /\ prev = [c \in Cells |-> IF c = internal_memsections THEN c ELSE NULL]
  /\ range = [n \in Nodes |-> {}]
  /\ tree = {}
  /\ exact = TRUE
  /\ kernel = {}
  /\ new = NULL
  /\ into = internal_memsections
  /\ pc = "run"
  /\ cur = internal_memsections
  /\ first = internal_memsections
  /\ addr = NULL
  /\ answer = NULL
  /\ vms_pd_initialized = FALSE

Next ==
  \/ \E n \in Nodes, r \in Ranges :
       \/ CreateCache(n, r)
       \/ CreateFails(n, r)
       \/ \E pd \in Pds \union {freevms_pd} : CreateMemsection(pd, n, r) \/ CreateFixed(pd, n, r)
  \/ \E a \in Addrs : Lookup(a)
  \/ \E pd \in Pds : PdCreate(pd)
  \/ FixedDone \/ FixedFails
  \/ PdInit \/ Move \/ Walk \/ LookupReturns

Spec == Init /\ [][Next]_vars

\* One kernel thread runs each loop to its end.
FairSpec == Spec /\ WF_vars(Move \/ Walk \/ LookupReturns)

-----------------------------------------------------------------------------
(***************************************************************************)
(* Properties                                                              *)
(***************************************************************************)

\* Links lead to cells; the loop variables are never null pointers.
TypeOK ==
  /\ next \in [Cells -> Cells \union {NULL}]
  /\ prev \in [Cells -> Cells \union {NULL}]
  /\ range \in [Nodes -> SUBSET Addrs]
  /\ tree \subseteq Nodes
  /\ exact \in BOOLEAN
  /\ kernel \subseteq Nodes
  /\ new \in Nodes \union {NULL}
  /\ into \in Heads
  /\ pc \in {"run", "move", "found", "walk"}
  /\ cur \in Cells
  /\ first \in Cells
  /\ addr \in Addrs \union {NULL}
  /\ answer \in Nodes \union {NULL}
  /\ vms_pd_initialized \in BOOLEAN

\* The one link that is broken while sys$pd_init moves the list: the head of the
\* boot list still points at a node that now belongs to freevms_pd.
Broken == IF pc = "move" /\ cur # first THEN {internal_memsections} ELSE {}

\* The rings are whole: following next and then prev leads back, in each list and
\* across the two heads that sys$pd_init leaves in one ring, so that an insertion
\* at either of them never cuts nodes off.
RingWhole == \A c \in Linked \ Broken : next[c] \in Linked /\ prev[next[c]] = c

Table == INSTANCE AddressMap WITH known <- Linked \intersect Nodes, stored <- tree,
                                  doubt <- ~exact

\* sys$objtable_lookup implements AddressMap: the walk and the tree together never miss a
\* memsection of the kernel, such as the slab pools that are in no tree (on this depends
\* sys$slab_cache_free, which uses the answer unchecked), whatever the tree has become;
\* what is stored is missed only by a tree in doubt; and no answer is out of date but
\* for a node that the tree holds and no list does.
ImplementsMap == Table!Spec

\* Both loops end: the ring always leads back to the node it was entered at.
LoopsEnd == (pc # "run") ~> (pc = "run")

\* The comment in sys$pd_init: "Insert memsections used during bootstrapping into
\* memsection list and objtable."
BootInObjtable == [][vms_pd_initialized' /\ ~vms_pd_initialized
                     => Linked \intersect Nodes \subseteq tree']_vars
=============================================================================
