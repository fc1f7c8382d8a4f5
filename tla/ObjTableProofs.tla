--------------------------- MODULE ObjTableProofs ---------------------------
(***************************************************************************)
(* The rings of ObjTable stay whole, and sys$objtable_lookup finds what it *)
(* should, whatever the number of nodes and of protection domains.         *)
(*                                                                         *)
(* RingWhole only speaks of following next and then prev.  An insertion    *)
(* goes the other way, from a head to its last node, so the invariant also *)
(* needs BackWhole.  Neither survives the loop of sys$pd_init by itself:   *)
(* that the node being moved is not in the ring it is moved to depends on  *)
(* the nodes still to come, which MoveInv keeps as a set closed under next *)
(* and disjoint from the ring of freevms_pd.  What the lookup finds needs  *)
(* more, the invariant MInv of the second part: which cells a head leads   *)
(* to.                                                                     *)
(***************************************************************************)
EXTENDS ObjTable, TLAPS

\* The node sys$pd_init is about to move: its predecessor has already been moved
\* and no longer points to it.
CutOff == IF pc = "move" /\ cur # first THEN {cur} ELSE {}

\* Following prev and then next leads back.
BackWhole == \A c \in Linked : /\ prev[c] \in Linked
                               /\ c \notin CutOff => next[prev[c]] = c

\* The head of the boot list is always in use, that of freevms_pd from sys$pd_init on.
HeadsInv == /\ internal_memsections \in Linked
            /\ vms_pd_initialized \/ pc = "move" => freevms_pd \in Linked

\* S holds the cells that sys$pd_init has still to move: the links inside S stay
\* inside, but for the stale one of the head, and no other link leads into S.
Remaining(S) ==
  /\ S \subseteq Linked
  /\ cur \in S
  /\ internal_memsections \in S
  /\ freevms_pd \notin S
  /\ next[internal_memsections] = first
  /\ first \in Linked
  /\ first \in S => cur = first
  /\ \A c \in S \ {internal_memsections} : next[c] \in S
  /\ \A c \in Linked \ S : next[c] \notin S /\ prev[c] \notin S
  /\ prev[cur] \in S => cur = first /\ prev[cur] = internal_memsections

MoveInv == pc = "move" => \E S \in SUBSET Cells : Remaining(S)

\* The walk of sys$objtable_lookup stays on linked cells; what the search found is a node.
WalkInv == /\ pc = "walk" => cur \in Linked
           /\ pc = "found" => cur \in tree

\* A fixed memsection under way is in no list yet, and the list it is for exists.
NewInv == new # NULL => /\ new \notin Linked
                        /\ into \in Linked
                        /\ into \in Pds \union {freevms_pd}
                        /\ vms_pd_initialized

RInv == /\ TypeOK
        /\ NewInv
        /\ HeadsInv
        /\ RingWhole
        /\ BackWhole
        /\ MoveInv
        /\ WalkInv

-----------------------------------------------------------------------------
\* The specification starts with one empty ring.
LEMMA InitRInv == Init => RInv
<1> SUFFICES ASSUME Init PROVE RInv
  OBVIOUS
<1> USE DEF Init
<1>1. internal_memsections \in Cells /\ internal_memsections # NULL
  BY CellsAssumption DEF Cells, Heads
<1>2. Linked = {internal_memsections}
  BY <1>1 DEF Linked
<1>3. TypeOK
  BY <1>1 DEF TypeOK, Heads
<1>4. NewInv
  BY DEF NewInv
<1>5. HeadsInv /\ RingWhole /\ BackWhole /\ MoveInv /\ WalkInv
  BY <1>1, <1>2 DEF HeadsInv, RingWhole, BackWhole, MoveInv, WalkInv, Broken, CutOff
<1> QED BY <1>3, <1>4, <1>5 DEF RInv

\* Linking a new node behind the last one of a list keeps every ring whole:
\* the writes to node->next, list->last->next, node->prev and list->last.
LEMMA AppendKeeps ==
  ASSUME RInv, pc = "run", NEW list \in Linked, NEW n \in Cells, n \notin Linked,
         Append(list, n), pc' = "run", vms_pd_initialized' = vms_pd_initialized
  PROVE  /\ next' \in [Cells -> Cells \union {NULL}]
         /\ prev' \in [Cells -> Cells \union {NULL}]
         /\ HeadsInv' /\ RingWhole' /\ BackWhole' /\ MoveInv' /\ WalkInv'
<1> DEFINE m == prev[list]
<1> USE DEF RInv
<1>1. /\ list \in Cells /\ list # n /\ list # NULL /\ n # NULL
      /\ m \in Linked /\ m \in Cells /\ m # n /\ next[m] = list
  BY CellsAssumption DEF TypeOK, Linked, BackWhole, CutOff
<1>2. /\ next' \in [Cells -> Cells \union {NULL}]
      /\ prev' \in [Cells -> Cells \union {NULL}]
  BY <1>1 DEF Append, TypeOK
<1>3. /\ next'[n] = list /\ next'[m] = n
      /\ prev'[n] = m /\ prev'[list] = n
      /\ \A c \in Cells \ {n, m} : next'[c] = next[c]
      /\ \A c \in Cells \ {n, list} : prev'[c] = prev[c]
  BY <1>1 DEF Append, TypeOK
<1> HIDE DEF m
<1>4. Linked' = Linked \union {n}
  BY <1>1, <1>3 DEF Linked
<1>5. HeadsInv' /\ MoveInv' /\ WalkInv'
  BY <1>4 DEF HeadsInv, MoveInv, WalkInv
<1>6. RingWhole'
  <2> SUFFICES ASSUME NEW c \in Linked' PROVE next'[c] \in Linked' /\ prev'[next'[c]] = c
    BY DEF RingWhole, Broken
  <2>1. CASE c \in {n, m}
    BY <1>1, <1>3, <1>4, <2>1
  <2>2. CASE c \notin {n, m}
    <3>1. c \in Linked /\ c \in Cells /\ next'[c] = next[c]
      BY <1>3, <1>4, <2>2 DEF Linked
    <3>2. next[c] \in Linked /\ next[c] \in Cells /\ prev[next[c]] = c
      BY <3>1 DEF RingWhole, Broken, Linked
    <3>3. next[c] # n /\ next[c] # list
      BY <2>2, <3>2 DEF m
    <3> QED BY <1>3, <1>4, <3>1, <3>2, <3>3
  <2> QED BY <2>1, <2>2
<1>7. BackWhole'
  <2> SUFFICES ASSUME NEW c \in Linked' PROVE prev'[c] \in Linked' /\ next'[prev'[c]] = c
    BY DEF BackWhole, CutOff
  <2>1. CASE c \in {n, list}
    BY <1>1, <1>3, <1>4, <2>1
  <2>2. CASE c \notin {n, list}
    <3>1. c \in Linked /\ c \in Cells /\ prev'[c] = prev[c]
      BY <1>3, <1>4, <2>2 DEF Linked
    <3>2. prev[c] \in Linked /\ prev[c] \in Cells /\ next[prev[c]] = c
      BY <3>1 DEF BackWhole, CutOff, Linked
    <3>3. prev[c] # n /\ prev[c] # m
      BY <1>1, <2>2, <3>2
    <3> QED BY <1>3, <1>4, <3>1, <3>2, <3>3
  <2> QED BY <2>1, <2>2
<1> QED BY <1>2, <1>5, <1>6, <1>7

\* What Append writes, when no ring is open.
LEMMA AppendLinks ==
  ASSUME RInv, pc = "run", NEW list \in Linked, NEW n \in Cells, n \notin Linked,
         Append(list, n)
  PROVE  /\ Linked' = Linked \union {n}
         /\ prev[list] \in Linked /\ next[prev[list]] = list
         /\ next'[n] = list /\ next'[prev[list]] = n
         /\ \A c \in Cells \ {n, prev[list]} : next'[c] = next[c]
         /\ \A c \in Cells : next[c] \in Cells => c \in Linked /\ next[c] # n
<1>1. /\ list \in Cells /\ list # n /\ n # NULL
      /\ prev[list] \in Linked /\ prev[list] \in Cells /\ prev[list] # n
      /\ next[prev[list]] = list
  BY CellsAssumption DEF RInv, TypeOK, Linked, BackWhole, CutOff
<1>2. /\ next'[n] = list /\ next'[prev[list]] = n
      /\ \A c \in Cells \ {n, prev[list]} : next'[c] = next[c]
  BY <1>1 DEF Append, RInv, TypeOK
<1>3. Linked' = Linked \union {n}
  <2>1. list # NULL
    BY <1>1, CellsAssumption
  <2> QED BY <1>1, <1>2, <2>1 DEF Linked
<1>4. ASSUME NEW c \in Cells, next[c] \in Cells PROVE c \in Linked /\ next[c] # n
  <2>1. c \in Linked
    BY <1>4, CellsAssumption DEF Linked
  <2> QED BY <2>1 DEF RInv, RingWhole, Broken
<1> QED BY <1>1, <1>2, <1>3, <1>4

\* Whatever becomes of a node that ms_cache hands out, the table stays well formed.
LEMMA TakeKeeps ==
  ASSUME TypeOK, NEW n \in Nodes, NEW r \in Ranges, Take(n, r),
         \/ ObjtableInsert(n, r)
         \/ tree' = tree /\ exact' = (exact /\ n \notin tree)
  PROVE  /\ range' \in [Nodes -> SUBSET Addrs]
         /\ tree' \subseteq Nodes
         /\ exact' \in BOOLEAN
         /\ pc = "run" /\ n \in Cells /\ n \notin Linked /\ n # new
<1>1. range' \in [Nodes -> SUBSET Addrs]
  BY CellsAssumption DEF Take, TypeOK
<1>2. tree' \subseteq Nodes
  BY DEF ObjtableInsert, TypeOK
<1>3. exact' \in BOOLEAN
  BY DEF ObjtableInsert, TypeOK, Clear
<1> QED BY <1>1, <1>2, <1>3 DEF Take, Cells

\* A memsection that joins a list preserves the invariant, if the table does.
LEMMA JoinKeeps ==
  ASSUME RInv, pc = "run", NEW list \in Linked, NEW n \in Nodes, n \notin Linked,
         Joins(list, n), UNCHANGED <<loop, vms_pd_initialized>>,
         range' \in [Nodes -> SUBSET Addrs], tree' \subseteq Nodes, exact' \in BOOLEAN,
         \/ UNCHANGED <<new, into>> /\ n # new
         \/ new' = NULL /\ into' = internal_memsections
  PROVE  RInv'
<1>1. n \in Cells /\ Append(list, n) /\ pc' = "run" /\ UNCHANGED <<pc, cur, first, addr, answer>>
  BY DEF Cells, Joins, loop
<1>2. /\ next' \in [Cells -> Cells \union {NULL}]
      /\ prev' \in [Cells -> Cells \union {NULL}]
      /\ HeadsInv' /\ RingWhole' /\ BackWhole' /\ MoveInv' /\ WalkInv'
  BY <1>1, AppendKeeps
<1>3. kernel' \subseteq Nodes
  BY DEF Joins, RInv, TypeOK
<1>4. into' \in Heads /\ new' \in Nodes \union {NULL}
  BY DEF RInv, TypeOK, Heads
<1>5. TypeOK'
  BY <1>1, <1>2, <1>3, <1>4 DEF RInv, TypeOK
<1>6. Linked' = Linked \union {n}
  BY <1>1, AppendLinks
<1>7. NewInv'
  BY <1>6 DEF RInv, NewInv
<1> QED BY <1>2, <1>5, <1>7 DEF RInv

\* sys$memsection_create_cache preserves the invariant.
LEMMA StepCreateCache ==
  ASSUME RInv, NEW n \in Nodes, NEW r \in Ranges, CreateCache(n, r)
  PROVE  RInv'
<1>1. internal_memsections \in Linked /\ Joins(internal_memsections, n)
  BY DEF RInv, HeadsInv, CreateCache
<1>2. /\ range' \in [Nodes -> SUBSET Addrs] /\ tree' \subseteq Nodes /\ exact' \in BOOLEAN
      /\ pc = "run" /\ n \notin Linked /\ n # new
  BY TakeKeeps DEF CreateCache, RInv
<1>3. UNCHANGED <<new, into, loop, vms_pd_initialized>>
  BY DEF CreateCache
<1> QED BY <1>1, <1>2, <1>3, JoinKeeps

\* The list a memsection is linked into is in use.
LEMMA ListInUse ==
  ASSUME RInv, NEW pd \in Pds \union {freevms_pd},
         IF vms_pd_initialized THEN pd \in Linked ELSE pd = freevms_pd
  PROVE  /\ ListOf(pd) \in Linked
         /\ ListOf(pd) \in Pds \union {internal_memsections, freevms_pd}
         /\ ListOf(pd) = freevms_pd => vms_pd_initialized
<1>1. CASE vms_pd_initialized
  BY <1>1 DEF ListOf
<1>2. CASE ~vms_pd_initialized
  <2>1. ListOf(pd) = internal_memsections /\ internal_memsections \in Linked
    BY <1>2 DEF RInv, HeadsInv, ListOf
  <2>2. internal_memsections # freevms_pd
    BY DEF internal_memsections, freevms_pd
  <2> QED BY <2>1, <2>2
<1> QED BY <1>1, <1>2

\* sys$pd_create_memsection preserves the invariant.
LEMMA StepCreateMemsection ==
  ASSUME RInv, NEW n \in Nodes, NEW pd \in Pds \union {freevms_pd}, NEW r \in Ranges,
         CreateMemsection(pd, n, r)
  PROVE  RInv'
<1>1. PICK list \in Linked : list = ListOf(pd)
  BY ListInUse DEF CreateMemsection
<1>2. /\ range' \in [Nodes -> SUBSET Addrs] /\ tree' \subseteq Nodes /\ exact' \in BOOLEAN
      /\ pc = "run" /\ n \notin Linked /\ n # new
  BY TakeKeeps DEF CreateMemsection, RInv
<1>3. Joins(list, n) /\ UNCHANGED <<new, into, loop, vms_pd_initialized>>
  BY <1>1 DEF CreateMemsection
<1> QED BY <1>2, <1>3, JoinKeeps

\* As long as no link changes and no loop runs, the rings stay as they are.
LEMMA SameLinks ==
  ASSUME RInv, pc = "run", UNCHANGED <<links, loop, vms_pd_initialized>>
  PROVE  /\ Linked' = Linked
         /\ HeadsInv' /\ RingWhole' /\ BackWhole' /\ MoveInv' /\ WalkInv'
<1>1. Linked' = Linked
  BY DEF links, Linked
<1> QED BY <1>1 DEF RInv, HeadsInv, RingWhole, BackWhole, MoveInv, WalkInv, Broken, CutOff, links, loop

\* A creation that fails before it stores anything preserves the invariant.
LEMMA StepCreateFails ==
  ASSUME RInv, NEW n \in Nodes, NEW r \in Ranges, CreateFails(n, r)
  PROVE  RInv'
<1>1. /\ range' \in [Nodes -> SUBSET Addrs] /\ tree' \subseteq Nodes /\ exact' \in BOOLEAN
      /\ pc = "run"
  BY TakeKeeps DEF CreateFails, RInv
<1>2. UNCHANGED <<links, kernel, new, into, loop, vms_pd_initialized>>
  BY DEF CreateFails
<1>3. Linked' = Linked /\ HeadsInv' /\ RingWhole' /\ BackWhole' /\ MoveInv' /\ WalkInv'
  BY <1>1, <1>2, SameLinks
<1>4. TypeOK'
  BY <1>1, <1>2 DEF RInv, TypeOK, links, loop
<1>5. NewInv'
  BY <1>2, <1>3 DEF RInv, NewInv
<1> QED BY <1>3, <1>4, <1>5 DEF RInv

\* The first part of the creation of a fixed memsection preserves the invariant.
LEMMA StepCreateFixed ==
  ASSUME RInv, NEW n \in Nodes, NEW pd \in Pds \union {freevms_pd}, NEW r \in Ranges,
         CreateFixed(pd, n, r)
  PROVE  RInv'
<1>1. /\ range' \in [Nodes -> SUBSET Addrs] /\ tree' \subseteq Nodes /\ exact' \in BOOLEAN
      /\ pc = "run" /\ n \notin Linked
  BY TakeKeeps DEF CreateFixed, RInv
<1>2. UNCHANGED <<links, kernel, loop, vms_pd_initialized>> /\ new' = n /\ into' = pd
  BY DEF CreateFixed
<1>3. Linked' = Linked /\ HeadsInv' /\ RingWhole' /\ BackWhole' /\ MoveInv' /\ WalkInv'
  BY <1>1, <1>2, SameLinks
<1>4. TypeOK'
  BY <1>1, <1>2 DEF RInv, TypeOK, links, loop, Heads
<1>5. NewInv'
  BY <1>1, <1>2, <1>3 DEF CreateFixed, NewInv
<1> QED BY <1>3, <1>4, <1>5 DEF RInv

\* The two ways it ends preserve the invariant.
LEMMA StepFixedEnds ==
  ASSUME RInv, FixedDone \/ FixedFails
  PROVE  RInv'
<1>0. pc = "run" /\ new # NULL /\ new \in Nodes /\ UNCHANGED <<table, loop, vms_pd_initialized>>
      /\ new' = NULL /\ into' = internal_memsections
  BY DEF FixedDone, FixedFails, RInv, TypeOK
<1>1. new \notin Linked /\ into \in Linked
  BY <1>0 DEF RInv, NewInv
<1>2. range' \in [Nodes -> SUBSET Addrs] /\ tree' \subseteq Nodes /\ exact' \in BOOLEAN
  BY <1>0 DEF table, RInv, TypeOK
<1>3. CASE FixedDone
  <2>1. PICK n \in Nodes, list \in Linked : n = new /\ list = into
    BY <1>0, <1>1
  <2>2. Joins(list, n)
    BY <1>3, <2>1 DEF FixedDone
  <2> QED BY <1>0, <1>1, <1>2, <2>1, <2>2, JoinKeeps
<1>4. CASE FixedFails
  <2>1. UNCHANGED <<links, kernel>>
    BY <1>4 DEF FixedFails
  <2>2. HeadsInv' /\ RingWhole' /\ BackWhole' /\ MoveInv' /\ WalkInv'
    BY <1>0, <2>1, SameLinks
  <2>3. TypeOK'
    BY <1>0, <1>2, <2>1 DEF RInv, TypeOK, links, loop, Heads
  <2> QED BY <1>0, <2>2, <2>3 DEF RInv, NewInv
<1> QED BY <1>3, <1>4

\* A new head pointing at itself is a ring of its own: dl_list_init.
LEMMA NewRing ==
  ASSUME RInv, pc = "run", NEW h \in Cells, h \notin Linked,
         next' = [next EXCEPT ![h] = h], prev' = [prev EXCEPT ![h] = h]
  PROVE  /\ next' \in [Cells -> Cells \union {NULL}]
         /\ prev' \in [Cells -> Cells \union {NULL}]
         /\ next'[h] = h /\ prev'[h] = h
         /\ Linked' = Linked \union {h}
         /\ \A c \in Linked : /\ next'[c] = next[c] /\ prev'[c] = prev[c]
                              /\ next[c] \in Linked /\ prev[next[c]] = c
                              /\ prev[c] \in Linked /\ next[prev[c]] = c
<1>1. h # NULL
  BY CellsAssumption
<1>2. TypeOK /\ RingWhole /\ BackWhole /\ Broken = {} /\ CutOff = {}
  BY DEF RInv, Broken, CutOff
<1> QED BY <1>1, <1>2 DEF TypeOK, RingWhole, BackWhole, Linked

\* sys$pd_create preserves the invariant.
LEMMA StepPdCreate ==
  ASSUME RInv, NEW pd \in Pds, PdCreate(pd)
  PROVE  RInv'
<1>1. /\ pc = "run" /\ pc' = "run" /\ pd \in Cells /\ pd \notin Linked
      /\ next' = [next EXCEPT ![pd] = pd] /\ prev' = [prev EXCEPT ![pd] = pd]
      /\ UNCHANGED <<range, tree, exact, kernel, new, into, pc, cur, first, addr, answer,
                     vms_pd_initialized>>
      /\ new = NULL
  BY DEF PdCreate, loop, table, Cells, Heads
<1>2. TypeOK'
  BY <1>1, NewRing DEF RInv, TypeOK
<1>3. HeadsInv' /\ MoveInv' /\ WalkInv' /\ NewInv'
  BY <1>1, NewRing DEF RInv, HeadsInv, MoveInv, WalkInv, NewInv
<1>4. RingWhole' /\ BackWhole'
  <2>1. /\ Linked' = Linked \union {pd} /\ next'[pd] = pd /\ prev'[pd] = pd
        /\ \A c \in Linked : /\ next'[c] = next[c] /\ prev'[c] = prev[c]
                             /\ next[c] \in Linked /\ prev[next[c]] = c
                             /\ prev[c] \in Linked /\ next[prev[c]] = c
    BY <1>1, NewRing
  <2> QED BY <2>1 DEF RingWhole, BackWhole
<1> QED BY <1>2, <1>3, <1>4 DEF RInv

\* Entering sys$pd_init preserves the invariant: everything linked is to be moved.
LEMMA StepPdInit ==
  ASSUME RInv, PdInit
  PROVE  RInv'
<1>0. PICK S : S = Linked
  OBVIOUS
<1>1. /\ pc = "run" /\ pc' = "move" /\ freevms_pd \in Cells /\ freevms_pd \notin Linked
      /\ next' = [next EXCEPT ![freevms_pd] = freevms_pd]
      /\ prev' = [prev EXCEPT ![freevms_pd] = freevms_pd]
      /\ cur' = next[internal_memsections] /\ first' = cur'
      /\ UNCHANGED <<range, tree, exact, kernel, new, into, addr, answer, vms_pd_initialized>>
  BY DEF PdInit, table, Cells, Heads
<1>2. internal_memsections \in S /\ S \subseteq Cells /\ freevms_pd \notin S
  BY <1>0, <1>1 DEF RInv, HeadsInv, Linked
<1>3. /\ Linked' = S \union {freevms_pd}
      /\ next'[freevms_pd] = freevms_pd /\ prev'[freevms_pd] = freevms_pd
      /\ \A c \in S : /\ next'[c] = next[c] /\ prev'[c] = prev[c]
                      /\ next[c] \in S /\ prev[next[c]] = c
                      /\ prev[c] \in S /\ next[prev[c]] = c
      /\ next' \in [Cells -> Cells \union {NULL}]
      /\ prev' \in [Cells -> Cells \union {NULL}]
  BY <1>0, <1>1, NewRing
<1>4. TypeOK'
  BY <1>1, <1>2, <1>3 DEF RInv, TypeOK
<1>5. HeadsInv' /\ WalkInv' /\ RingWhole' /\ BackWhole'
  BY <1>1, <1>2, <1>3 DEF HeadsInv, WalkInv, RingWhole, BackWhole
<1>8. NewInv'
  BY <1>1 DEF RInv, HeadsInv, NewInv
<1>6. Remaining(S)'
  BY <1>1, <1>2, <1>3 DEF Remaining
<1>7. MoveInv'
  BY <1>2, <1>6 DEF MoveInv
<1> QED BY <1>4, <1>5, <1>7, <1>8 DEF RInv

\* One turn of the loop of sys$pd_init preserves the invariant: a cell leaves the
\* remaining ones and joins the ring of freevms_pd; the last one is the head of the
\* boot list.
LEMMA StepMove ==
  ASSUME RInv, Move
  PROVE  RInv'
<1> USE DEF RInv
<1> DEFINE pd == freevms_pd
           im == internal_memsections
           m  == prev[pd]
<1>1. /\ pc = "move" /\ Append(pd, cur)
      /\ UNCHANGED <<range, tree, exact, kernel, new, into, addr, answer>>
      /\ next[cur] = first => pc' = "run" /\ vms_pd_initialized' = TRUE /\ cur' = im /\ first' = im
      /\ next[cur] # first => /\ pc' = "move" /\ cur' = next[cur]
                              /\ UNCHANGED <<first, vms_pd_initialized>>
  BY DEF Move, Forget, table
<1>2. PICK S \in SUBSET Cells : Remaining(S)
  BY <1>1 DEF MoveInv
<1>3. /\ cur \in Cells /\ pd \in Cells /\ im \in Cells /\ cur # NULL /\ pd # NULL
      /\ cur \in Linked /\ pd \in Linked /\ im \in Linked
      /\ cur # pd /\ im # pd
  BY <1>1, <1>2, CellsAssumption DEF HeadsInv, Remaining, Cells, Heads, Linked
<1>4. /\ m \in Linked /\ m \in Cells /\ m \notin S /\ m # cur
      /\ next[m] = pd
  BY <1>1, <1>2, <1>3 DEF BackWhole, CutOff, Remaining, Linked
<1>5. /\ next' \in [Cells -> Cells \union {NULL}]
      /\ prev' \in [Cells -> Cells \union {NULL}]
      /\ next'[cur] = pd /\ next'[m] = cur
      /\ prev'[cur] = m /\ prev'[pd] = cur
      /\ \A c \in Cells \ {cur, m} : next'[c] = next[c]
      /\ \A c \in Cells \ {cur, pd} : prev'[c] = prev[c]
  BY <1>1, <1>3, <1>4 DEF Append, TypeOK
<1>6. Linked' = Linked
  BY <1>3, <1>4, <1>5 DEF Linked
<1> HIDE DEF m
\* What precedes a cell other than cur in a ring is not cur, but for the next to move.
<1>7. \A c \in Linked \ {im} : /\ next[c] \in Linked /\ prev[next[c]] = c
                               /\ next[c] # cur
                               /\ c # m => next[c] # pd
  BY <1>1, <1>2, <1>3, <1>4 DEF RingWhole, Broken, Remaining, m
<1>8. next[im] = first /\ first \in Linked
  BY <1>2 DEF Remaining
<1>9. cur # im => next[cur] # first /\ next[cur] # cur /\ next[cur] \in S
  BY <1>2, <1>3, <1>7 DEF Remaining
<1>10. next[cur] \in Linked
  BY <1>3, <1>7, <1>8
<1>11. TypeOK'
  <2>1. cur' \in Cells /\ first' \in Cells
    BY <1>1, <1>3, <1>8, <1>10 DEF Linked
  <2> QED BY <1>1, <1>5, <2>1 DEF TypeOK
<1>12. HeadsInv' /\ WalkInv' /\ NewInv'
  BY <1>1, <1>3, <1>6 DEF HeadsInv, WalkInv, NewInv
<1>13. RingWhole'
  <2> SUFFICES ASSUME NEW c \in Linked, c \notin Broken'
               PROVE  next'[c] \in Linked /\ prev'[next'[c]] = c
    BY <1>6 DEF RingWhole
  <2>1. CASE c \in {cur, m}
    BY <1>3, <1>5, <2>1
  <2>2. CASE c \notin {cur, m}
    <3>1. c # im
      BY <1>1, <1>8, <1>9, <2>2 DEF Broken
    <3>2. c \in Cells /\ next[c] \in Cells
      BY <1>7, <3>1 DEF Linked
    <3> QED BY <1>5, <1>7, <2>2, <3>1, <3>2
  <2> QED BY <2>1, <2>2
<1>14. BackWhole'
  <2> SUFFICES ASSUME NEW c \in Linked
               PROVE  /\ prev'[c] \in Linked
                      /\ c \notin CutOff' => next'[prev'[c]] = c
    BY <1>6 DEF BackWhole
  <2>1. CASE c \in {cur, pd}
    BY <1>3, <1>4, <1>5, <2>1
  <2>2. CASE c \notin {cur, pd}
    <3>1. /\ c \in Cells /\ prev[c] \in Linked /\ prev[c] \in Cells
          /\ next[prev[c]] = c /\ prev'[c] = prev[c]
      BY <1>5, <2>2 DEF BackWhole, CutOff, Linked
    <3>2. prev[c] # m
      BY <1>4, <2>2, <3>1
    <3>3. CASE prev[c] # cur
      BY <1>5, <3>1, <3>2, <3>3
    <3>4. CASE prev[c] = cur
      <4>1. c = next[cur]
        BY <3>1, <3>4
      <4>2. cur # im
        BY <1>2, <1>8, <2>2, <3>4, <4>1 DEF Remaining
      <4> QED BY <1>1, <1>9, <3>1, <4>1, <4>2 DEF CutOff
    <3> QED BY <3>3, <3>4
  <2> QED BY <2>1, <2>2
<1>15. MoveInv'
  <2> SUFFICES ASSUME pc' = "move" PROVE \E T \in SUBSET Cells : Remaining(T)'
    BY DEF MoveInv
  <2>1. cur # im /\ cur' = next[cur] /\ first' = first
    BY <1>1, <1>8
  <2>0. PICK T \in SUBSET Cells : T = S \ {cur}
    OBVIOUS
  <2>2. /\ cur' \in T /\ im \in T /\ pd \notin T /\ T \subseteq Linked
        /\ first \notin T /\ cur \notin T /\ m \notin T
    BY <1>1, <1>2, <1>4, <1>9, <2>0, <2>1 DEF Remaining
  <2>3. next'[im] = first
    BY <1>3, <1>5, <1>8, <2>2
  <2>4. \A c \in T \ {im} : next'[c] \in T
    BY <1>2, <1>5, <1>7, <2>0, <2>2 DEF Remaining, Linked
  <2>5. \A c \in Linked \ T : next'[c] \notin T /\ prev'[c] \notin T
    BY <1>2, <1>3, <1>4, <1>5, <2>0, <2>2 DEF Remaining, Linked
  <2>6. prev'[cur'] = cur
    BY <1>1, <1>3, <1>5, <1>7, <1>10, <2>1, <2>2 DEF Linked
  <2>7. first' \in Linked
    BY <1>1, <1>8
  <2>8. Remaining(T)'
    BY <1>1, <1>6, <2>2, <2>3, <2>4, <2>5, <2>6, <2>7 DEF Remaining
  <2> QED BY <2>8
<1> QED BY <1>11, <1>12, <1>13, <1>14, <1>15

\* A lookup reads the rings and leaves them as they are.
LEMMA StepLookup ==
  ASSUME RInv, \/ \E a \in Addrs : Lookup(a)
               \/ Walk
               \/ LookupReturns
  PROVE  RInv'
<1> USE DEF RInv
<1>1. /\ UNCHANGED <<next, prev, range, tree, exact, kernel, new, into, vms_pd_initialized>>
      /\ pc # "move" /\ pc' # "move" /\ Linked' = Linked
  BY DEF Lookup, Walk, LookupReturns, Return, Linked, links, table
<1>2. \A c \in Linked : next[c] \in Linked
  BY <1>1 DEF RingWhole, Broken
<1>3. WalkInv' /\ cur' \in Cells /\ first' \in Cells
  <2>1. ASSUME NEW a \in Addrs, Lookup(a)
        PROVE  WalkInv' /\ cur' \in Cells /\ first' \in Cells
    BY <1>1, <1>2, <2>1 DEF WalkInv, Lookup, HeadsInv, TypeOK, Linked, Cells
  <2>2. CASE Walk
    BY <1>1, <1>2, <2>2 DEF WalkInv, Walk, TypeOK, Linked
  <2>3. CASE LookupReturns
    BY <2>3 DEF WalkInv, LookupReturns, Return, Forget, Cells, Heads
  <2> QED BY <2>1, <2>2, <2>3
<1>4. TypeOK'
  <2>1. addr' \in Addrs \union {NULL} /\ pc' \in {"run", "found", "walk"}
    BY DEF TypeOK, Lookup, Walk, LookupReturns, Return
  <2>2. answer' \in Nodes \union {NULL}
    BY DEF TypeOK, WalkInv, Lookup, Walk, LookupReturns, Return, Holds
  <2> QED BY <1>1, <1>3, <2>1, <2>2 DEF TypeOK
<1>5. HeadsInv' /\ RingWhole' /\ BackWhole' /\ MoveInv' /\ NewInv'
  BY <1>1 DEF HeadsInv, RingWhole, BackWhole, MoveInv, Broken, CutOff, NewInv
<1> QED BY <1>3, <1>4, <1>5

\* Every step of the specification preserves the invariant.
LEMMA NextRInv == RInv /\ [Next]_vars => RInv'
<1> SUFFICES ASSUME RInv, [Next]_vars PROVE RInv'
  OBVIOUS
<1>1. CASE Next
  BY <1>1, StepCreateCache, StepCreateMemsection, StepCreateFails, StepCreateFixed,
     StepFixedEnds, StepPdCreate, StepPdInit, StepMove, StepLookup DEF Next
<1>2. CASE UNCHANGED vars
  BY <1>2 DEF vars, links, table, loop, RInv, TypeOK, HeadsInv, RingWhole, BackWhole, MoveInv,
     WalkInv, NewInv, Remaining, Linked, Broken, CutOff
<1> QED BY <1>1, <1>2

\* The rings of memsections are whole in every reachable state: no insertion at
\* internal_memsections or at a protection domain's list, and no turn of the loop
\* of sys$pd_init, ever cuts a memsection off.
THEOREM RingsStayWhole == Spec => []RingWhole
<1>1. RInv => RingWhole
  BY DEF RInv
<1> QED BY <1>1, InitRInv, NextRInv, PTL DEF Spec
-----------------------------------------------------------------------------
(***************************************************************************)
(* What the lookup finds.  A lookup that misses the B+ tree follows next   *)
(* from the head of the boot list until it is back, so what it can find is *)
(* what that head leads to.  Leading to is said without counting steps: a  *)
(* cell is reached from the head if it is in every set of cells that has   *)
(* the head and is closed under the links.  The memsections of the kernel  *)
(* are reached (Reached) and nothing else is (OwnInv).                     *)
(***************************************************************************)

\* Where a cell leads; the stale link of the head is taken for the one to the
\* cells still to be moved.
Link(c)   == IF pc = "move" /\ c = internal_memsections THEN cur ELSE next[c]
Closed(S) == \A c \in S : Link(c) \in S

\* Rings have no way in: what leads into a closed set is in it.
NoWayIn == \A S \in SUBSET Cells :
             Closed(S) => \A c \in Linked : Link(c) \in S => c \in S

\* The head of the boot list leads to the memsections of the kernel and, once
\* sys$pd_init is over, to the head of freevms_pd; during sys$pd_init that has a part
\* of them.
Reached == \A S \in SUBSET Cells :
             (/\ Closed(S)
              /\ internal_memsections \in S
              /\ pc = "move" => freevms_pd \in S)
             => /\ kernel \subseteq S
                /\ vms_pd_initialized => freevms_pd \in S

\* The lists of the kernel have nothing but the two heads and memsections of the kernel.
Own == kernel \union {internal_memsections, freevms_pd}
OwnInv == /\ kernel \subseteq Linked
          /\ \A c \in Linked : c \in Own <=> next[c] \in Own
          /\ pc \in {"move", "walk"} => cur \in Own

\* The walk has looked at the cells of V, from the first to the one before cur.
Seen(V) == /\ \A c \in V : ~Holds(c)
           /\ first \in V \union {cur}
           /\ \A c \in V : next[c] \in V \union {cur}

LookupInv == /\ addr = NULL <=> pc \in {"run", "move"}
             /\ pc = "found" => addr \in range[cur]
             /\ pc = "walk" => /\ first = next[internal_memsections]
                               /\ exact => \A n \in tree : addr \notin range[n]
                               /\ \E V \in SUBSET Cells : Seen(V)

MInv == NoWayIn /\ Reached /\ OwnInv /\ LookupInv

\* It holds at the start, where there is one head that leads to itself.
LEMMA InitMInv == Init => MInv
<1> SUFFICES ASSUME Init PROVE MInv
  OBVIOUS
<1> USE DEF Init
<1>1. Linked = {internal_memsections} /\ internal_memsections \notin Nodes
  BY CellsAssumption DEF Linked, Cells, Heads
<1>2. NoWayIn
  BY <1>1, CellsAssumption DEF NoWayIn, Closed, Link, Cells, Heads
<1>3. Reached
  BY DEF Reached
<1>4. OwnInv
  BY <1>1 DEF OwnInv, Own, Cells, Heads
<1>5. LookupInv
  BY DEF LookupInv
<1> QED BY <1>2, <1>3, <1>4, <1>5 DEF MInv

\* A node linked behind the last one of a list is reached from wherever the list is.
LEMMA AppendReaches ==
  ASSUME RInv, MInv, pc = "run", pc' = "run", vms_pd_initialized' = vms_pd_initialized,
         NEW list \in Linked, NEW n \in Nodes, n \notin Linked, Joins(list, n),
         list \in Pds \union {internal_memsections, freevms_pd},
         list = freevms_pd => vms_pd_initialized
  PROVE  NoWayIn' /\ Reached' /\ OwnInv' /\ Linked' = Linked \union {n}
<1>0. /\ n \in Cells /\ Append(list, n)
      /\ kernel' = IF list \in Pds THEN kernel ELSE kernel \union {n}
  BY DEF Cells, Joins, Kernel
<1> DEFINE m == prev[list]
<1>1. /\ Linked' = Linked \union {n} /\ m \in Linked /\ m \in Cells /\ next[m] = list
      /\ next'[n] = list /\ next'[m] = n
      /\ \A c \in Cells \ {n, m} : next'[c] = next[c]
      /\ \A c \in Cells : next[c] \in Cells => c \in Linked /\ next[c] # n
      /\ list # n /\ list \in Cells
  BY <1>0, AppendLinks DEF Linked
<1> HIDE DEF m
<1>2. (\A c : Link(c) = next[c]) /\ (\A c : Link(c)' = next'[c])
  BY DEF Link
<1>3. ASSUME NEW S \in SUBSET Cells, Closed(S)'
      PROVE  Closed(S \ {n}) /\ S \ {n} \in SUBSET Cells
  <2>1. \A c \in S : next'[c] \in S
    BY <1>2, <1>3 DEF Closed
  <2>2. ASSUME NEW c \in S \ {n} PROVE next[c] \in S \ {n}
    <3>1. CASE c = m
      BY <1>1, <2>1, <3>1
    <3>2. CASE c # m
      BY <1>1, <2>1, <2>2, <3>2
    <3> QED BY <3>1, <3>2
  <2> QED BY <1>2, <2>2 DEF Closed
<1>4. ASSUME NEW S \in SUBSET Cells, Closed(S)'
      PROVE  /\ \A c \in Linked' : next'[c] \in S => c \in S
             /\ list \in S => n \in S
  <2>1. \A c \in S : next'[c] \in S
    BY <1>2, <1>4 DEF Closed
  <2>2. \A c \in Linked : next[c] \in S \ {n} => c \in S \ {n}
    BY <1>2, <1>3, <1>4 DEF MInv, NoWayIn
  <2>3. list \in S => m \in S /\ n \in S
    BY <1>1, <2>1, <2>2
  <2>4. ASSUME NEW c \in Linked', next'[c] \in S PROVE c \in S
    <3>1. CASE c \in {n, m}
      BY <1>1, <2>1, <2>3, <2>4, <3>1
    <3>2. CASE c \notin {n, m}
      <4>1. c \in Linked /\ c \in Cells /\ next'[c] = next[c] /\ next[c] # n
        BY <1>1, <2>4, <3>2 DEF Linked
      <4> QED BY <2>2, <2>4, <4>1
    <3> QED BY <3>1, <3>2
  <2> QED BY <2>3, <2>4
<1>5. NoWayIn'
  BY <1>2, <1>4 DEF NoWayIn
<1>6. Reached'
  <2> SUFFICES ASSUME NEW S \in SUBSET Cells, Closed(S)', internal_memsections \in S
               PROVE  kernel' \subseteq S /\ (vms_pd_initialized => freevms_pd \in S)
    BY DEF Reached
  <2>1. internal_memsections \in S \ {n}
    BY DEF RInv, HeadsInv
  <2>2. kernel \subseteq S /\ (vms_pd_initialized => freevms_pd \in S)
    BY <1>3, <2>1 DEF MInv, Reached
  <2>3. list \notin Pds => n \in S
    BY <1>4, <2>2
  <2> QED BY <1>0, <2>2, <2>3
<1>7. OwnInv'
  <2>1. /\ kernel \subseteq Linked
        /\ \A c \in Linked : c \in Own <=> next[c] \in Own
    BY DEF MInv, OwnInv
  <2>2. n \notin Own /\ n \notin Heads
    BY <2>1, CellsAssumption DEF Own, Heads
  <2>3. list \in Own <=> list \notin Pds
    BY CellsAssumption DEF Own, RInv, TypeOK, Heads
  <2>4. Own' = IF list \in Pds THEN Own ELSE Own \union {n}
    BY <1>0 DEF Own
  <2>5. ASSUME NEW c \in Linked' PROVE c \in Own' <=> next'[c] \in Own'
    <3>1. CASE c = n
      BY <1>1, <2>2, <2>3, <2>4, <3>1
    <3>2. CASE c = m
      BY <1>1, <2>1, <2>2, <2>3, <2>4, <3>2
    <3>3. CASE c \notin {n, m}
      <4>1. c \in Linked /\ c \in Cells /\ next'[c] = next[c] /\ next[c] # n
        BY <1>1, <3>3 DEF Linked, RInv, RingWhole, Broken
      <4> QED BY <2>1, <2>4, <3>3, <4>1
    <3> QED BY <3>1, <3>2, <3>3
  <2> QED BY <1>0, <1>1, <2>1, <2>5 DEF OwnInv
<1> QED BY <1>1, <1>5, <1>6, <1>7

\* A new head leads to itself, and nothing else does.
LEMMA NewRingReaches ==
  ASSUME RInv, MInv, pc = "run", NEW h \in Heads, h \notin Linked,
         next' = [next EXCEPT ![h] = h], prev' = [prev EXCEPT ![h] = h],
         UNCHANGED <<kernel, vms_pd_initialized>>,
         pc' = "run" \/ (pc' = "move" /\ cur' = next[internal_memsections])
  PROVE  NoWayIn' /\ Reached' /\ OwnInv' /\ Linked' = Linked \union {h}
<1>0. h \in Cells /\ h \notin Nodes /\ internal_memsections \in Linked
  BY CellsAssumption DEF Cells, RInv, HeadsInv
<1>1. /\ Linked' = Linked \union {h} /\ next'[h] = h
      /\ \A c \in Linked : next'[c] = next[c] /\ next[c] \in Linked
  BY <1>0, NewRing
<1>2. /\ \A c : Link(c) = next[c]
      /\ \A c \in Linked : Link(c)' = next[c]
      /\ Link(h)' = h
  BY <1>0, <1>1 DEF Link
<1>3. ASSUME NEW S \in SUBSET Cells, Closed(S)'
      PROVE  Closed(S \ {h}) /\ S \ {h} \in SUBSET Cells
  <2>1. \A c \in S : Link(c)' \in S
    BY <1>3 DEF Closed
  <2>2. \A c \in S \ {h} : c \in Linked
    <3> SUFFICES ASSUME NEW c \in S \ {h}, c \notin Linked PROVE FALSE
      OBVIOUS
    <3>1. next[c] = NULL /\ c \in Cells /\ c # internal_memsections
      BY <1>0 DEF Linked
    <3>2. Link(c)' = NULL
      BY <3>1 DEF Link, RInv, TypeOK
    <3> QED BY <2>1, <3>2, CellsAssumption
  <2>3. \A c \in S \ {h} : next[c] \in S /\ next[c] # h
    BY <1>1, <1>2, <2>1, <2>2
  <2> QED BY <1>2, <2>3 DEF Closed
<1>4. NoWayIn'
  <2> SUFFICES ASSUME NEW S \in SUBSET Cells, Closed(S)', NEW c \in Linked', Link(c)' \in S
               PROVE  c \in S
    BY DEF NoWayIn
  <2>1. CASE c = h
    BY <1>2, <2>1
  <2>2. CASE c # h
    <3>1. c \in Linked /\ Link(c) \in S \ {h}
      BY <1>1, <1>2, <2>2
    <3> QED BY <1>3, <3>1 DEF MInv, NoWayIn
  <2> QED BY <2>1, <2>2
<1>5. Reached'
  <2> SUFFICES ASSUME NEW S \in SUBSET Cells, Closed(S)', internal_memsections \in S
               PROVE  kernel \subseteq S /\ (vms_pd_initialized => freevms_pd \in S)
    BY DEF Reached
  <2>1. internal_memsections \in S \ {h}
    BY <1>0
  <2> QED BY <1>3, <2>1 DEF MInv, Reached
<1>6. OwnInv'
  <2>1. /\ kernel \subseteq Linked /\ internal_memsections \in Own
        /\ \A c \in Linked : c \in Own <=> next[c] \in Own
    BY DEF MInv, OwnInv, Own
  <2>2. Own' = Own
    BY DEF Own
  <2>3. cur' \in Own \/ pc' = "run"
    BY <1>0, <2>1
  <2> QED BY <1>1, <2>1, <2>2, <2>3 DEF OwnInv
<1> QED BY <1>1, <1>4, <1>5, <1>6

\* What one turn of the loop of sys$pd_init does to the links: cur leaves the cells that
\* the head of the boot list leads to and comes between the last cell of freevms_pd's
\* list and its head.
LEMMA MoveLinks ==
  ASSUME RInv, Move, NEW k \in Cells, k = cur, NEW m \in Cells, m = prev[freevms_pd]
  PROVE  LET pd == freevms_pd
             im == internal_memsections
         IN  /\ Linked' = Linked
             /\ {k, pd, im, m} \subseteq Linked
             /\ k # pd /\ im # pd /\ m # k /\ m # im
             /\ Link(im) = k /\ Link(m) = pd
             /\ Link(k)' = pd /\ Link(m)' = k
             /\ k # im => Link(im)' = Link(k) /\ Link(k) # k
             /\ pc' = "move" <=> k # im
             /\ \A c \in Linked \ {k, m, im} : Link(c)' = Link(c) /\ Link(c) # k
             /\ \A c \in Cells : Link(c) \in Cells \/ Link(c)' \in Cells => c \in Linked
<1> USE DEF RInv
<1> DEFINE pd == freevms_pd
           im == internal_memsections
<1>1. /\ pc = "move" /\ Append(pd, cur)
      /\ next[cur] = first => pc' = "run"
      /\ next[cur] # first => pc' = "move" /\ cur' = next[cur]
  BY DEF Move
<1>2. PICK S \in SUBSET Cells : Remaining(S)
  BY <1>1 DEF MoveInv
<1>3. /\ cur \in Cells /\ pd \in Cells /\ im \in Cells /\ cur # NULL /\ pd # NULL
      /\ cur \in Linked /\ pd \in Linked /\ im \in Linked
      /\ cur # pd /\ im # pd
  BY <1>1, <1>2, CellsAssumption DEF HeadsInv, Remaining, Cells, Heads, Linked
<1>4. /\ m \in Linked /\ m \in Cells /\ m # cur /\ m # im
      /\ next[m] = pd
  BY <1>1, <1>2, <1>3 DEF BackWhole, CutOff, Remaining, Linked
<1>5. /\ next'[cur] = pd /\ next'[m] = cur
      /\ \A c \in Cells \ {cur, m} : next'[c] = next[c]
  BY <1>1, <1>3, <1>4 DEF Append, TypeOK
<1>6. Linked' = Linked
  BY <1>3, <1>4, <1>5 DEF Linked
<1>7. \A c \in Linked \ {im} : next[c] # cur
  BY <1>1, <1>2, <1>3, <1>4 DEF RingWhole, Broken, Remaining
<1>8. next[im] = first
  BY <1>2 DEF Remaining
<1>9. cur # im => next[cur] # first
  BY <1>2, <1>3, <1>7 DEF Remaining
<1>10. pc' = "move" <=> cur # im
  BY <1>1, <1>8, <1>9
<1>11. /\ Link(im) = cur /\ Link(m) = pd
       /\ Link(k)' = pd /\ Link(m)' = k
  BY <1>1, <1>3, <1>4, <1>5, <1>10 DEF Link
<1>12. cur # im => Link(im)' = Link(k) /\ Link(k) # k
  BY <1>1, <1>3, <1>7, <1>10 DEF Link
<1>13. \A c \in Linked \ {k, m, im} : Link(c)' = Link(c) /\ Link(c) # k
  BY <1>5, <1>7 DEF Link, Linked
<1>14. \A c \in Cells : Link(c) \in Cells \/ Link(c)' \in Cells => c \in Linked
  BY <1>3, <1>4, <1>5, CellsAssumption DEF Link, Linked
<1> QED BY <1>3, <1>4, <1>6, <1>10, <1>11, <1>12, <1>13, <1>14

\* One turn of the loop of sys$pd_init: what the two heads lead to is the same set of
\* cells before and after it.
LEMMA MoveReaches ==
  ASSUME RInv, MInv, Move
  PROVE  NoWayIn' /\ Reached' /\ OwnInv'
<1>0. PICK k \in Cells, m \in Cells : k = cur /\ m = prev[freevms_pd]
  BY DEF RInv, TypeOK, MoveInv, BackWhole, CutOff, HeadsInv, Move, Linked
<1> DEFINE pd == freevms_pd
           im == internal_memsections
           T(S) == IF im \in S THEN S \union {k} ELSE S \ {k}
<1>1. /\ Linked' = Linked
      /\ {k, pd, im, m} \subseteq Linked
      /\ k # pd /\ im # pd /\ m # k /\ m # im
      /\ Link(im) = k /\ Link(m) = pd
      /\ Link(k)' = pd /\ Link(m)' = k
      /\ k # im => Link(im)' = Link(k) /\ Link(k) # k
      /\ pc' = "move" <=> k # im
      /\ \A c \in Linked \ {k, m, im} : Link(c)' = Link(c) /\ Link(c) # k
      /\ \A c \in Cells : Link(c) \in Cells \/ Link(c)' \in Cells => c \in Linked
  BY <1>0, MoveLinks
<1>2. Linked \subseteq Cells
  BY DEF Linked
<1> HIDE DEF pd, im
<1>3. ASSUME NEW S \in SUBSET Cells, Closed(S)' PROVE Closed(T(S)) /\ T(S) \in SUBSET Cells
  <2>1. \A c \in S : Link(c)' \in S /\ c \in Linked
    BY <1>1, <1>3 DEF Closed
  <2>2. k \in S => pd \in S
    BY <1>1, <2>1
  <2>3. CASE im \in S
    <3>1. Link(k) \in T(S)
      BY <1>1, <2>1, <2>3
    <3>2. ASSUME NEW c \in S, c # k PROVE Link(c) \in T(S)
      BY <1>1, <2>1, <2>2, <2>3, <3>2
    <3> QED BY <1>1, <1>2, <2>3, <3>1, <3>2 DEF Closed
  <2>4. CASE im \notin S
    <3>1. ASSUME NEW c \in S, c # k PROVE Link(c) \in T(S)
      BY <1>1, <2>1, <2>2, <2>4, <3>1
    <3> QED BY <2>4, <3>1 DEF Closed
  <2> QED BY <2>3, <2>4
<1>4. ASSUME NEW S \in SUBSET Cells, Closed(S)'
      PROVE  /\ \A c \in Linked : Link(c) \in T(S) => c \in T(S)
             /\ pd \in S => k \in S /\ m \in S
             /\ k \in S => pd \in S
  <2>1. \A c \in S : Link(c)' \in S
    BY <1>4 DEF Closed
  <2>2. \A c \in Linked : Link(c) \in T(S) => c \in T(S)
    BY <1>3, <1>4 DEF MInv, NoWayIn
  <2>3. pd \in S => m \in S
    BY <1>1, <2>2
  <2>4. k \in S => pd \in S
    BY <1>1, <2>1
  <2> QED BY <1>1, <2>1, <2>2, <2>3, <2>4
<1>5. NoWayIn'
  <2> SUFFICES ASSUME NEW S \in SUBSET Cells, Closed(S)', NEW c \in Linked, Link(c)' \in S
               PROVE  c \in S
    BY <1>1 DEF NoWayIn
  <2>1. CASE c \in {k, m}
    BY <1>1, <1>4, <2>1
  <2>2. CASE c = im /\ c # k
    <3> SUFFICES ASSUME im \notin S PROVE FALSE
      BY <2>2
    <3>1. Link(k) \in T(S)
      BY <1>1, <2>2
    <3> QED BY <1>1, <1>4, <3>1
  <2>3. CASE c \notin {k, m, im}
    <3>1. Link(c) \in T(S)
      BY <1>1, <2>3
    <3> QED BY <1>4, <2>3, <3>1
  <2> QED BY <2>1, <2>2, <2>3
<1>6. Reached'
  <2> SUFFICES ASSUME NEW S \in SUBSET Cells, Closed(S)', im \in S, pc' = "move" => pd \in S
               PROVE  kernel \subseteq S /\ pd \in S
    BY DEF Reached, Move, im, pd
  <2>1. pd \in S
    BY <1>1 DEF Closed
  <2>2. k \in S
    BY <1>4, <2>1
  <2>3. im \in T(S) /\ pd \in T(S)
    BY <2>1
  <2>4. kernel \subseteq T(S)
    <3> HIDE DEF T
    <3> QED BY <1>3, <2>3 DEF MInv, Reached, im, pd
  <2> QED BY <2>1, <2>2, <2>4
<1>7. OwnInv'
  <2>1. /\ pc = "move" /\ kernel' = kernel /\ Own' = Own /\ im \in Own /\ pd \in Own
        /\ next[k] # first => cur' = next[k]
        /\ next[k] = first => pc' = "run"
    BY <1>0 DEF Move, Own, im, pd
  <2>2. /\ kernel \subseteq Linked /\ k \in Own
        /\ \A c \in Linked : c \in Own <=> next[c] \in Own
    BY <1>0, <2>1 DEF MInv, OwnInv
  <2>3. /\ next'[k] = pd /\ next'[m] = k
        /\ \A c \in Linked \ {k, m} : next'[c] = next[c]
    BY <1>0, <1>1, <1>2 DEF Move, Append, RInv, TypeOK, pd
  <2>4. next[m] = pd
    BY <1>1, <2>1 DEF Link, im
  <2>5. m \in Own
    BY <1>1, <2>1, <2>2, <2>4
  <2>6. \A c \in Linked : c \in Own <=> next'[c] \in Own
    BY <2>1, <2>2, <2>3, <2>5
  <2>7. pc' # "walk" /\ (pc' = "move" => cur' \in Own)
    BY <1>0, <1>1, <2>1, <2>2 DEF Move
  <2> QED BY <1>1, <2>1, <2>2, <2>6, <2>7 DEF OwnInv
<1> QED BY <1>5, <1>6, <1>7

\* A lookup leaves the rings alone, and its walk has seen what it has passed.
LEMMA LookupSees ==
  ASSUME RInv, MInv, \/ \E a \in Addrs : Lookup(a)
                     \/ Walk
                     \/ LookupReturns
  PROVE  MInv'
<1>1. /\ UNCHANGED <<next, prev, range, tree, exact, kernel, vms_pd_initialized>>
      /\ Linked' = Linked /\ Own' = Own
      /\ pc # "move" /\ pc' # "move"
  BY DEF Lookup, Walk, LookupReturns, Return, Linked, Own, links, table
<1>2. NoWayIn' /\ Reached'
  BY <1>1 DEF MInv, NoWayIn, Reached, Closed, Link
<1>3. OwnInv'
  <2>1. /\ kernel \subseteq Linked /\ \A c \in Linked : c \in Own <=> next[c] \in Own
        /\ pc = "walk" => cur \in Own
        /\ internal_memsections \in Own /\ internal_memsections \in Linked
    BY DEF MInv, OwnInv, RInv, HeadsInv, Own
  <2>2. pc' = "walk" => cur' \in Own
    BY <2>1 DEF Lookup, Walk, LookupReturns, Return, RInv, WalkInv
  <2> QED BY <1>1, <2>1, <2>2 DEF OwnInv
<1>4. ASSUME NEW a \in Addrs, Lookup(a) PROVE LookupInv'
  <2>1. a # NULL /\ addr' = a
    BY <1>4, CellsAssumption DEF Lookup
  <2>2. CASE pc' = "found"
    BY <1>1, <1>4, <2>1, <2>2 DEF LookupInv, Lookup
  <2>3. CASE pc' # "found"
    <3>1. /\ pc' = "walk" /\ cur' = next[internal_memsections]
          /\ first' = next[internal_memsections]
          /\ exact => \A n \in tree : a \notin range[n]
      BY <1>4, <2>3 DEF Lookup
    <3>2. Seen({})'
      BY <3>1 DEF Seen
    <3>3. \E V \in SUBSET Cells : Seen(V)'
      BY <3>2
    <3> QED BY <1>1, <2>1, <3>1, <3>3 DEF LookupInv
  <2> QED BY <2>2, <2>3
<1>5. ASSUME Walk PROVE LookupInv'
  <2>1. /\ pc = "walk" /\ ~Holds(cur) /\ cur' = next[cur]
        /\ UNCHANGED <<next, pc, first, addr, tree, range, exact>>
    BY <1>5 DEF Walk, links, table
  <2>2. PICK V \in SUBSET Cells : Seen(V)
    BY <2>1 DEF MInv, LookupInv
  <2>3. PICK W \in SUBSET Cells : W = V \union {cur}
    BY DEF RInv, TypeOK
  <2>4. Seen(W)'
    BY <2>1, <2>2, <2>3 DEF Seen, Holds
  <2> QED BY <1>1, <2>1, <2>4 DEF MInv, LookupInv
<1>6. ASSUME LookupReturns PROVE LookupInv'
  BY <1>6 DEF LookupReturns, Return, LookupInv
<1> QED BY <1>2, <1>3, <1>4, <1>5, <1>6 DEF MInv

\* A step outside the loops that leaves the links alone keeps what the lookup rests on.
LEMMA SameReach ==
  ASSUME MInv, pc = "run", UNCHANGED <<links, kernel, loop, vms_pd_initialized>>
  PROVE  MInv' /\ Linked' = Linked
<1>1. /\ UNCHANGED <<next, kernel, pc, cur, first, addr, vms_pd_initialized>>
      /\ Linked' = Linked /\ Own' = Own
  BY DEF links, loop, Linked, Own
<1>2. NoWayIn' /\ Reached'
  BY <1>1 DEF MInv, NoWayIn, Reached, Closed, Link
<1>3. OwnInv' /\ LookupInv'
  BY <1>1 DEF MInv, OwnInv, LookupInv
<1> QED BY <1>1, <1>2, <1>3 DEF MInv

\* Every step of the specification preserves what the lookup rests on.
LEMMA NextMInv == RInv /\ MInv /\ [Next]_vars => MInv'
<1> SUFFICES ASSUME RInv, MInv, [Next]_vars PROVE MInv'
  OBVIOUS
<1>1. ASSUME NEW n \in Nodes, NEW list \in Linked, n \notin Linked, pc = "run", Joins(list, n),
             list \in Pds \union {internal_memsections, freevms_pd},
             list = freevms_pd => vms_pd_initialized,
             UNCHANGED <<loop, vms_pd_initialized>>
      PROVE  MInv'
  <2>1. NoWayIn' /\ Reached' /\ OwnInv'
    BY <1>1, AppendReaches DEF loop
  <2>2. LookupInv'
    BY <1>1 DEF MInv, LookupInv, loop
  <2> QED BY <2>1, <2>2 DEF MInv
<1>2. ASSUME NEW n \in Nodes, NEW r \in Ranges, CreateCache(n, r) PROVE MInv'
  <2>1. internal_memsections \in Linked /\ internal_memsections # freevms_pd
    BY DEF RInv, HeadsInv, internal_memsections, freevms_pd
  <2> QED BY <1>1, <1>2, <2>1 DEF CreateCache, Take
<1>3. ASSUME NEW n \in Nodes, NEW r \in Ranges, NEW pd \in Pds \union {freevms_pd},
             CreateMemsection(pd, n, r)
      PROVE  MInv'
  <2>1. PICK list \in Linked : list = ListOf(pd)
    BY <1>3, ListInUse DEF CreateMemsection
  <2>2. /\ list \in Pds \union {internal_memsections, freevms_pd}
        /\ list = freevms_pd => vms_pd_initialized
    BY <1>3, <2>1, ListInUse DEF CreateMemsection
  <2>3. /\ n \notin Linked /\ pc = "run" /\ Joins(list, n)
        /\ UNCHANGED <<loop, vms_pd_initialized>>
    BY <1>3, <2>1 DEF CreateMemsection, Take
  <2> QED BY <1>1, <2>2, <2>3
<1>4. ASSUME FixedDone PROVE MInv'
  <2>1. new \in Nodes /\ new \notin Linked /\ into \in Linked /\ vms_pd_initialized
        /\ into \in Pds \union {freevms_pd}
    BY <1>4 DEF FixedDone, RInv, NewInv, TypeOK
  <2>2. PICK n \in Nodes, list \in Linked : n = new /\ list = into
    BY <2>1
  <2>3. n \notin Linked /\ pc = "run" /\ Joins(list, n) /\ UNCHANGED <<loop, vms_pd_initialized>>
    BY <1>4, <2>1, <2>2 DEF FixedDone
  <2> QED BY <1>1, <2>1, <2>2, <2>3
<1>5. ASSUME NEW n \in Nodes, NEW r \in Ranges, NEW pd \in Pds \union {freevms_pd},
             CreateFails(n, r) \/ CreateFixed(pd, n, r)
      PROVE  MInv'
  BY <1>5, SameReach DEF CreateFails, CreateFixed, Take
<1>6. ASSUME FixedFails PROVE MInv'
  BY <1>6, SameReach DEF FixedFails
<1>7. ASSUME NEW pd \in Pds, PdCreate(pd) PROVE MInv'
  <2>1. NoWayIn' /\ Reached' /\ OwnInv'
    BY <1>7, NewRingReaches DEF PdCreate, loop, Heads
  <2> QED BY <1>7, <2>1 DEF PdCreate, loop, MInv, LookupInv
<1>8. ASSUME PdInit PROVE MInv'
  <2>1. NoWayIn' /\ Reached' /\ OwnInv'
    BY <1>8, NewRingReaches DEF PdInit, Heads
  <2> QED BY <1>8, <2>1 DEF PdInit, MInv, LookupInv
<1>9. ASSUME Move PROVE MInv'
  <2>1. pc \in {"run", "move"} /\ pc' \in {"run", "move"} /\ addr' = addr
    BY <1>9 DEF Move
  <2> QED BY <1>9, <2>1, MoveReaches DEF MInv, LookupInv
<1>10. ASSUME UNCHANGED vars PROVE MInv'
  <2>1. /\ UNCHANGED <<next, range, tree, exact, kernel, pc, cur, first, addr,
                       vms_pd_initialized>>
        /\ Linked' = Linked /\ Own' = Own
    BY <1>10 DEF vars, links, table, loop, Linked, Own
  <2>2. NoWayIn' /\ Reached'
    BY <2>1 DEF MInv, NoWayIn, Reached, Closed, Link
  <2>3. OwnInv' /\ LookupInv'
    BY <2>1 DEF MInv, OwnInv, LookupInv, Seen, Holds
  <2> QED BY <2>2, <2>3 DEF MInv
<1> QED BY <1>2, <1>3, <1>4, <1>5, <1>6, <1>7, <1>8, <1>9, <1>10, LookupSees DEF Next

\* A walk that ends has come to the head of the boot list, and the address is in no
\* memsection of the kernel: the answer NULL of sys$objtable_lookup is true of them.
LEMMA NullIsTrue ==
  ASSUME RInv, MInv, pc = "walk", Last(cur)
  PROVE  \A n \in kernel : addr \notin range[n]
<1>1. cur \in Linked /\ internal_memsections \in Linked
  BY DEF RInv, WalkInv, HeadsInv
<1>2. next[cur] = first /\ next[internal_memsections] = first
  BY DEF Last, MInv, LookupInv
<1>3. cur = internal_memsections
  BY <1>1, <1>2 DEF RInv, RingWhole, Broken
<1>4. PICK V \in SUBSET Cells : Seen(V)
  BY DEF MInv, LookupInv
<1>5. PICK S \in SUBSET Cells : S = V \union {internal_memsections}
  BY DEF Cells, Heads
<1>6. Closed(S)
  BY <1>2, <1>3, <1>4, <1>5 DEF Closed, Link, Seen
<1>7. kernel \subseteq S
  BY <1>5, <1>6 DEF MInv, Reached
<1>8. kernel \subseteq Nodes /\ internal_memsections \notin Nodes
  BY CellsAssumption DEF RInv, TypeOK, Heads
<1> QED BY <1>4, <1>5, <1>7, <1>8 DEF Seen, Holds

\* objtable_insert stores nothing before sys$pd_init is over.
NothingEarly == ~vms_pd_initialized => tree = {}

LEMMA NextNothingEarly == TypeOK /\ NothingEarly /\ [Next]_vars => NothingEarly'
<1> SUFFICES ASSUME TypeOK, NothingEarly, [Next]_vars, ~vms_pd_initialized' PROVE tree' = {}
  BY DEF NothingEarly
<1>1. ~vms_pd_initialized
  BY DEF Next, CreateCache, CreateFails, CreateMemsection, CreateFixed, Lookup, PdCreate,
     FixedDone, FixedFails, PdInit, Move, Walk, LookupReturns, Return, vars
<1>2. tree' = tree
  BY <1>1 DEF Next, CreateCache, CreateFails, CreateMemsection, CreateFixed, ObjtableInsert,
     Lookup, PdCreate, FixedDone, FixedFails, PdInit, Move, Walk, LookupReturns, Return, vars, table
<1> QED BY <1>1, <1>2 DEF NothingEarly

\* The abstract doubt about the table is the negation of exact.
LEMMA Doubts ==
  ASSUME NEW n, NEW r, TypeOK
  PROVE  /\ tree' = tree /\ exact' = (exact /\ n \notin tree) => Table!Skip(n)
         /\ vms_pd_initialized /\ ObjtableInsert(n, r) => Table!Store(n, r)
<1>1. ASSUME tree' = tree, exact' = (exact /\ n \notin tree) PROVE Table!Skip(n)
  BY <1>1, Zenon DEF Table!Skip
<1>2. Table!Clear(n, r) = Clear(n, r)
  BY Zenon DEF Table!Clear, Clear
<1>3. ASSUME vms_pd_initialized, ObjtableInsert(n, r) PROVE Table!Store(n, r)
  <2>1. CASE tree' = tree \union {n} /\ exact' = Clear(n, r)
    BY <1>2, <2>1, Zenon DEF Table!Store
  <2>2. CASE ~Clear(n, r) /\ tree' = tree /\ exact' = (exact /\ n \notin tree)
    BY <1>2, <2>2, Zenon DEF Table!Store
  <2> QED BY <1>3, <2>1, <2>2 DEF ObjtableInsert
<1> QED BY <1>1, <1>3

\* Each step of ObjTable is one of AddressMap, or changes nothing that AddressMap has.
LEMMA StepRefines ==
  ASSUME RInv, MInv, NothingEarly, [Next]_vars
  PROVE  [Table!Next]_(Table!vars)
<1> DEFINE known == Linked \intersect Nodes
<1>0. pc = "run" \/ pc = "move" <=> addr = NULL
  BY DEF MInv, LookupInv
<1>1. ASSUME NEW n \in Nodes, NEW r \in Ranges, Take(n, r), UNCHANGED loop
      PROVE  Table!Take(n, r)
  BY <1>0, <1>1 DEF Take, Table!Take, loop
<1>2. ASSUME NEW n \in Nodes, NEW list \in Linked, n \notin Linked, pc = "run", Joins(list, n)
      PROVE  /\ list \notin Pds => Table!Link(n, {n})
             /\ \E own \in {{}, {n}} : Table!Link(n, own)
  <2>1. known' = known \union {n}
    BY <1>2, AppendLinks DEF Cells, Joins
  <2>2. kernel' = IF list \in Pds THEN kernel ELSE kernel \union {n}
    BY <1>2 DEF Joins, Kernel
  <2>3. list \notin Pds => Table!Link(n, {n})
    BY <2>1, <2>2 DEF Table!Link
  <2>4. list \in Pds => Table!Link(n, {})
    BY <2>1, <2>2 DEF Table!Link
  <2> QED BY <2>3, <2>4
<1>3. ASSUME NEW n \in Nodes, NEW r \in Ranges, CreateCache(n, r) PROVE Table!Next
  <2>1. Table!Take(n, r) /\ Table!Skip(n)
    BY <1>1, <1>3, Doubts DEF CreateCache, RInv
  <2>2. internal_memsections \in Linked /\ internal_memsections \notin Pds
    BY CellsAssumption DEF RInv, HeadsInv
  <2>3. Table!Link(n, {n}) /\ new' = new
    BY <1>2, <1>3, <2>2 DEF CreateCache, Take
  <2> QED BY <2>1, <2>3 DEF Table!Next, Table!Add
<1>4. ASSUME NEW n \in Nodes, NEW r \in Ranges, NEW pd \in Pds \union {freevms_pd},
             CreateMemsection(pd, n, r)
      PROVE  Table!Next
  <2>1. PICK list \in Linked : list = ListOf(pd)
    BY <1>4, ListInUse DEF CreateMemsection
  <2>2. n \notin Linked /\ pc = "run" /\ Joins(list, n) /\ new' = new /\ Table!Take(n, r)
    BY <1>1, <1>4, <2>1 DEF CreateMemsection, Take
  <2>3. CASE vms_pd_initialized
    <3>1. Table!Store(n, r)
      BY <1>4, <2>3, Doubts DEF CreateMemsection, RInv
    <3>2. \E own \in {{}, {n}} : Table!Link(n, own)
      BY <1>2, <2>2
    <3> QED BY <2>2, <3>1, <3>2 DEF Table!Next, Table!Add
  <2>4. CASE ~vms_pd_initialized
    <3>1. list \notin Pds
      BY <2>1, <2>4, CellsAssumption DEF ListOf
    <3>2. Table!Link(n, {n})
      BY <1>2, <2>2, <3>1
    <3>3. Table!Skip(n)
      <4>1. tree = {} /\ tree' = tree /\ exact' = exact
        BY <1>4, <2>4 DEF CreateMemsection, ObjtableInsert, NothingEarly
      <4>2. exact' = (exact /\ n \notin tree)
        BY <4>1 DEF RInv, TypeOK
      <4> QED BY <4>1, <4>2, Doubts DEF RInv
    <3> QED BY <2>2, <3>2, <3>3 DEF Table!Next, Table!Add
  <2> QED BY <2>3, <2>4
<1>5. ASSUME NEW n \in Nodes, NEW r \in Ranges, CreateFails(n, r) PROVE Table!Next
  <2>1. Table!Take(n, r) /\ Table!Skip(n)
    BY <1>1, <1>5, Doubts DEF CreateFails, RInv
  <2>2. UNCHANGED <<known, kernel, new>>
    BY <1>5 DEF CreateFails, links, Linked
  <2> QED BY <2>1, <2>2 DEF Table!Next, Table!Waste
<1>6. ASSUME NEW n \in Nodes, NEW r \in Ranges, NEW pd \in Pds \union {freevms_pd},
             CreateFixed(pd, n, r)
      PROVE  Table!Next
  <2>1. Table!Take(n, r) /\ Table!Store(n, r)
    BY <1>1, <1>6, Doubts DEF CreateFixed, RInv
  <2>2. UNCHANGED <<known, kernel>> /\ new = NULL /\ new' = n
    BY <1>6 DEF CreateFixed, links, Linked
  <2> QED BY <2>1, <2>2 DEF Table!Next, Table!Begin
<1>7. ASSUME FixedDone \/ FixedFails PROVE Table!Next
  <2>1. /\ addr = NULL /\ new # NULL /\ new' = NULL
        /\ UNCHANGED <<range, tree, exact, addr, answer>>
    BY <1>0, <1>7 DEF FixedDone, FixedFails, table, loop
  <2>2. CASE FixedDone
    <3>1. new \in Nodes /\ into \in Linked /\ new \notin Linked
      BY <2>1 DEF RInv, NewInv, TypeOK
    <3>2. PICK n \in Nodes, list \in Linked : n = new /\ list = into
      BY <3>1
    <3>3. \E own \in {{}, {n}} : Table!Link(n, own)
      BY <1>2, <2>2, <3>1, <3>2 DEF FixedDone
    <3> QED BY <2>1, <3>2, <3>3 DEF Table!Next, Table!End
  <2>3. CASE FixedFails
    <3>1. UNCHANGED <<known, kernel>>
      BY <2>3 DEF FixedFails, links, Linked
    <3> QED BY <2>1, <3>1 DEF Table!Next, Table!End
  <2> QED BY <1>7, <2>2, <2>3
<1>8. ASSUME NEW a \in Addrs, Lookup(a) PROVE Table!Next
  <2>1. UNCHANGED <<range, known, kernel, tree, exact, new, answer>> /\ addr = NULL /\ addr' = a
    BY <1>0, <1>8 DEF Lookup, Linked, links, table
  <2> QED BY <2>1 DEF Table!Next, Table!Ask
<1>9. ASSUME NEW h \in Heads, h \notin Linked, pc = "run",
             next' = [next EXCEPT ![h] = h], prev' = [prev EXCEPT ![h] = h]
      PROVE  known' = known
  <2>1. Linked' = Linked \union {h}
    BY <1>9, NewRing DEF Cells
  <2> QED BY <2>1, CellsAssumption
<1>10. ASSUME NEW pd \in Pds, PdCreate(pd) PROVE UNCHANGED (Table!vars)
  <2>1. known' = known
    BY <1>9, <1>10 DEF PdCreate, Heads
  <2> QED BY <1>10, <2>1 DEF PdCreate, loop, table, Table!vars
<1>11. ASSUME PdInit PROVE UNCHANGED (Table!vars)
  <2>1. known' = known
    BY <1>9, <1>11 DEF PdInit, Heads
  <2> QED BY <1>11, <2>1 DEF PdInit, table, Table!vars
<1>12. ASSUME Move PROVE UNCHANGED (Table!vars)
  <2>1. PICK k \in Cells, m \in Cells : k = cur /\ m = prev[freevms_pd]
    BY <1>12 DEF RInv, TypeOK, MoveInv, BackWhole, CutOff, HeadsInv, Move, Linked
  <2>2. Linked' = Linked
    BY <1>12, <2>1, MoveLinks
  <2> QED BY <1>12, <2>2 DEF Move, table, Table!vars
<1>13. ASSUME Walk PROVE UNCHANGED (Table!vars)
  BY <1>13 DEF Walk, Linked, links, table, Table!vars
<1>14. ASSUME LookupReturns PROVE Table!Next
  <2>1. /\ addr # NULL /\ addr' = NULL
        /\ UNCHANGED <<range, known, kernel, tree, exact, new>>
    BY <1>0, <1>14 DEF LookupReturns, Return, Linked, links, table
  <2>2. CASE answer' = NULL /\ pc = "walk" /\ Last(cur)
    <3>1. \A n \in kernel : addr \notin range[n]
      BY <2>2, NullIsTrue
    <3>2. exact => \A n \in tree : addr \notin range[n]
      BY <2>2 DEF MInv, LookupInv
    <3> QED BY <2>1, <2>2, <3>1, <3>2 DEF Table!Next, Table!Reply, Table!Held
  <2>3. CASE answer' = cur /\ cur \in kernel \union tree /\ addr \in range[cur]
    BY <2>1, <2>3 DEF Table!Next, Table!Reply, Table!Held
  <2>4. CASE pc = "found" /\ Return(cur)
    BY <2>3, <2>4 DEF Return, RInv, WalkInv, MInv, LookupInv
  <2>5. CASE pc = "walk" /\ Holds(cur) /\ Return(cur)
    <3>1. cur \in kernel
      BY <2>5, CellsAssumption DEF MInv, OwnInv, Own, Holds, Heads
    <3> QED BY <2>3, <2>5, <3>1 DEF Return, Holds
  <2> QED BY <1>14, <2>2, <2>4, <2>5 DEF LookupReturns, Return
<1>15. ASSUME UNCHANGED vars PROVE UNCHANGED (Table!vars)
  BY <1>15 DEF vars, links, table, loop, Linked, Table!vars
<1> QED BY <1>3, <1>4, <1>5, <1>6, <1>7, <1>8, <1>10, <1>11, <1>12, <1>13, <1>14, <1>15 DEF Next

\* sys$objtable_lookup implements AddressMap, in every reachable state and whatever was
\* linked, stored and given up before, during and after sys$pd_init.  It never misses a
\* memsection of the kernel, the slab pools that are in no B+ tree among them.  It
\* misses another that was stored only after an overlap or a used again node of the tree,
\* and it answers with a memsection of the kernel or with a node that was stored, which
\* is all that can be said of a tree that keeps the nodes of failed creations.
THEOREM LookupMap == Spec => ImplementsMap
<1>1. Init => Table!Init
  <2> SUFFICES ASSUME Init PROVE Table!Init
    OBVIOUS
  <2>1. Linked \intersect Nodes = {}
    BY CellsAssumption DEF Init, Linked, Cells, Heads
  <2>2. (~exact) = FALSE
    BY DEF Init
  <2> QED BY <2>1, <2>2 DEF Init, Table!Init
<1>2. Init => NothingEarly
  BY DEF Init, NothingEarly
<1>3. RInv => TypeOK
  BY DEF RInv
<1>4. Spec => [](RInv /\ MInv /\ NothingEarly)
  BY <1>2, <1>3, InitRInv, InitMInv, NextRInv, NextMInv, NextNothingEarly, PTL DEF Spec
<1>5. RInv /\ MInv /\ NothingEarly /\ [Next]_vars => [Table!Next]_(Table!vars)
  BY StepRefines
<1> QED BY <1>1, <1>4, <1>5, PTL DEF ImplementsMap, Table!Spec, Spec
=============================================================================
