-------------------------------- MODULE Heap --------------------------------
(***************************************************************************)
(* The kernel heap (sys_core.c): a ring of free blocks in address order,   *)
(* extended by whole pages at vms$bss, under a counting lock               *)
(* (sys_mutex.c).                                                          *)
(*                                                                         *)
(* sys$alloc searches the ring; back at freep, it calls sys$morecore,      *)
(* which has new pages backed (sys$back_mem), frees them as one block      *)
(* through sys$free, under the lock its caller already holds, and lets the *)
(* search go on in the ring that sys$free has changed.                     *)
(*                                                                         *)
(* Addresses and sizes count units of sizeof(Header).                      *)
(***************************************************************************)
EXTENDS Naturals

CONSTANTS
  PageUnits,  \* vms$min_pagesize() / sizeof(Header)
  HeapPages,  \* VMS$HEAP_SIZE, in pages
  Bases,      \* where the static header "base" may have been linked
  Units,      \* the values of nunits that are asked for
  Memory      \* most pages that sys$back_mem ever gets

Lo == PageUnits                      \* heap->base
Hi == PageUnits * (HeapPages + 1)    \* heap->end + 1
NULL == 0

Cells == Lo .. Hi - 1
Pages(from, to) == {a \in from .. to - 1 : a % PageUnits = 0}

ASSUME HeapAssumption ==
  /\ PageUnits \in Nat \ {0}
  /\ HeapPages \in Nat \ {0}
  /\ Memory \in Nat
  /\ Units \subseteq Nat \ {0}
  /\ Bases \subseteq Nat \ (Cells \union {NULL})

VARIABLES
  base,         \* &base
  ptr, size,    \* s.ptr and s.size of the header at each address
  freep,
  bss,          \* vms$bss
  held,         \* the blocks the kernel has allocated
  pc,           \* "idle"; "scan", "more": in sys$alloc; "find": in sys$free
  p, prevp, bp, \* local variables
  nunits,
  ret,          \* where the sys$free in progress returns to
  count,        \* alloc_mutex.count
  backed,       \* how many pages sys$back_mem has taken
  mapped        \* the pages of the heap that are mapped

vars == <<base, ptr, size, freep, bss, held, pc, p, prevp, bp, nunits, ret,
          count, backed, mapped>>
ring == <<base, ptr, size, freep>>

\* A call returns: its local variables are gone.
Return == /\ pc' = "idle"
          /\ p' = NULL /\ prevp' = NULL /\ bp' = NULL
          /\ nunits' = 0
          /\ ret' = "idle"

\* What is left at the address of a header that no longer heads a block, or of the
\* link of a block in use, is never read: it is forgotten.
Forget(f, A) == [a \in DOMAIN f |-> IF a \in A THEN 0 ELSE f[a]]

-----------------------------------------------------------------------------
\* sys$mutex_count_lock and sys$mutex_count_unlock.  Their inner lock is free
\* again when they return: the thread may lock once more what it has locked.
CountLock   == count' = count + 1
CountUnlock == count' = count - 1

\* sys$alloc.  The first call makes the ring, of base alone.
Alloc(n) ==
  /\ pc = "idle"
  /\ CountLock
  /\ nunits' = n
  /\ IF freep = NULL
       THEN /\ ptr' = [ptr EXCEPT ![base] = base]
            /\ size' = [size EXCEPT ![base] = 0]
            /\ freep' = base
       ELSE UNCHANGED <<ptr, size, freep>>
  /\ prevp' = freep'
  /\ p' = ptr'[freep']
  /\ pc' = "scan"
  /\ UNCHANGED <<base, bss, held, bp, ret, backed, mapped>>

\* Mutant of Tail: n units from the front instead of the back.
TailFront(b, n) == b + n

\* Where the last n units of block b start.
Tail(b, n) == b + (size[b] - n)

\* A block that is big enough: all of it, or its tail end.
Take ==
  /\ pc = "scan"
  /\ size[p] >= nunits
  /\ IF size[p] = nunits
       THEN /\ ptr' = Forget([ptr EXCEPT ![prevp] = ptr[p]], {p})
            /\ held' = held \union {p}
            /\ UNCHANGED size
       ELSE /\ size' = [size EXCEPT ![p] = @ - nunits, ![Tail(p, nunits)] = nunits]
            /\ held' = held \union {Tail(p, nunits)}
            /\ UNCHANGED ptr
  /\ freep' = prevp
  /\ CountUnlock
  /\ Return
  /\ UNCHANGED <<base, bss, backed, mapped>>

Skip ==
  /\ pc = "scan"
  /\ size[p] < nunits
  /\ p # freep
  /\ prevp' = p
  /\ p' = ptr[p]
  /\ UNCHANGED <<ring, bss, held, pc, bp, nunits, ret, count, backed, mapped>>

\* Wrapped around: sys$morecore.
Wrapped ==
  /\ pc = "scan"
  /\ size[p] < nunits
  /\ p = freep
  /\ pc' = "more"
  /\ UNCHANGED <<ring, bss, held, p, prevp, bp, nunits, ret, count, backed, mapped>>

RoundUp(n) == ((n + PageUnits - 1) \div PageUnits) * PageUnits

\* The end of n more units is compared with vms$top, the last byte of the heap.
Beyond(n) == bss + n >= Hi

\* nu, and the number of pages sys$back_mem is asked for.
nu    == RoundUp(nunits)
Wants == nu \div PageUnits

\* The heap is created with VMS$MEM_NORMAL | VMS$MEM_USER.
HeapFlags == {"normal", "user"}

\* sys$memsection_page_map returns -1 for a memsection that is paged by the user.
\* The result is not looked at.
PageMap(pages) == mapped' = IF "user" \in HeapFlags THEN mapped ELSE mapped \union pages

\* Mutant of MoreFails: the lock is kept.
MoreFailsLocked ==
  /\ pc = "more"
  /\ Beyond(nu)
  /\ Return
  /\ UNCHANGED <<ring, bss, held, count, backed, mapped>>

\* sys$morecore fails and sys$alloc returns NULL: there is no room, or memory ran
\* out after k pages.  sys$back_mem does not give these back.
MoreFails ==
  /\ pc = "more"
  /\ \/ Beyond(nu) /\ UNCHANGED <<backed, mapped>>
     \/ /\ ~Beyond(nu)
        /\ \E k \in 0 .. Wants - 1 : /\ backed + k <= Memory
                                    /\ backed' = backed + k
                                    /\ PageMap(Pages(bss, bss + PageUnits * k))
  /\ CountUnlock
  /\ Return
  /\ UNCHANGED <<ring, bss, held>>

\* Otherwise it calls sys$free with the new pages as one block.
More ==
  /\ pc = "more"
  /\ ~Beyond(nu)
  /\ backed + Wants <= Memory
  /\ backed' = backed + Wants
  /\ PageMap(Pages(bss, bss + nu))
  /\ bss' = bss + nu
  /\ size' = [size EXCEPT ![bss] = nu]
  /\ CountLock
  /\ bp' = bss
  /\ p' = freep
  /\ pc' = "find"
  /\ ret' = "scan"
  /\ UNCHANGED <<base, ptr, freep, held, prevp, nunits>>

\* sys$free of a block that sys$alloc has returned.
Free(b) ==
  /\ pc = "idle"
  /\ b \in held
  /\ held' = held \ {b}
  /\ CountLock
  /\ bp' = b
  /\ p' = freep
  /\ pc' = "find"
  /\ ret' = "idle"
  /\ UNCHANGED <<ring, bss, prevp, nunits, backed, mapped>>

Between(b, q) == q < b /\ b < ptr[q]

\* Mutant of AtEnd: the end of the arena is forgotten.
AtEndNever(b, q) == FALSE

\* q is the last block in address order, and b lies beyond it or before the first.
AtEnd(b, q) == q >= ptr[q] /\ (b > q \/ b < ptr[q])

Find ==
  /\ pc = "find"
  /\ ~Between(bp, p)
  /\ ~AtEnd(bp, p)
  /\ p' = ptr[p]
  /\ UNCHANGED <<ring, bss, held, pc, prevp, bp, nunits, ret, count, backed, mapped>>

\* Mutant of JoinsLower: the lower neighbour is not joined.
JoinsLowerNever == FALSE

JoinsUpper == bp + size[bp] = ptr[p]
JoinsLower == p + size[p] = bp

\* The place is found: bp is linked after p, joined to its neighbours.  Then
\* sys$free returns, to its caller or to the search, which goes on after freep.
Link ==
  /\ pc = "find"
  /\ Between(bp, p) \/ AtEnd(bp, p)
  /\ LET len  == IF JoinsUpper THEN size[bp] + size[ptr[p]] ELSE size[bp]
         succ == IF JoinsUpper THEN ptr[ptr[p]] ELSE ptr[p]
         gone == (IF JoinsUpper THEN {ptr[p]} ELSE {}) \union
                 (IF JoinsLower THEN {bp} ELSE {})
     IN IF JoinsLower
          THEN /\ size' = Forget([size EXCEPT ![p] = @ + len], gone)
               /\ ptr' = Forget([ptr EXCEPT ![p] = succ], gone)
          ELSE /\ size' = Forget([size EXCEPT ![bp] = len], gone)
               /\ ptr' = Forget([ptr EXCEPT ![bp] = succ, ![p] = bp], gone)
  /\ freep' = p
  /\ CountUnlock
  /\ IF ret = "scan"
       THEN pc' = "scan" /\ prevp' = p /\ p' = ptr'[p] /\ UNCHANGED <<bp, nunits, ret>>
       ELSE Return
  /\ UNCHANGED <<base, bss, held, backed, mapped>>

Init ==
  /\ base \in Bases
  /\ ptr = [a \in Cells \union Bases |-> NULL]
  /\ size = [a \in Cells \union Bases |-> 0]
  /\ freep = NULL
  /\ bss = Lo
  /\ held = {}
  /\ pc = "idle"
  /\ p = NULL /\ prevp = NULL /\ bp = NULL
  /\ nunits = 0
  /\ ret = "idle"
  /\ count = 0
  /\ backed = 0
  /\ mapped = {}

Next ==
  \/ \E n \in Units : Alloc(n)
  \/ \E b \in held : Free(b)
  \/ Take \/ Skip \/ Wrapped \/ MoreFails \/ More \/ Find \/ Link

Spec == Init /\ [][Next]_vars

\* The kernel thread goes on with the call it is in.
FairSpec == Spec /\ WF_vars(pc # "idle" /\ Next)

-----------------------------------------------------------------------------
(***************************************************************************)
(* Properties                                                              *)
(***************************************************************************)

Addr == Cells \union Bases \union {NULL}

\* Headers and local variables hold addresses of the heap, vms$bss stays inside it.
TypeOK ==
  /\ base \in Bases
  /\ ptr \in [Cells \union Bases -> Addr]
  /\ size \in [Cells \union Bases -> 0 .. Hi - Lo]
  /\ freep \in Addr
  /\ bss \in Cells
  /\ held \subseteq Cells
  /\ pc \in {"idle", "scan", "more", "find"}
  /\ p \in Addr /\ prevp \in Addr /\ bp \in Addr
  /\ nunits \in Units \union {0}
  /\ ret \in {"idle", "scan"}
  /\ count \in 0 .. 2
  /\ backed \in 0 .. Memory
  /\ mapped \subseteq Cells

\* The blocks on the free list: the headers that have a link.
Ring   == {a \in DOMAIN ptr : ptr[a] # NULL}
Blocks == (Ring \ {base}) \union held \union (IF pc = "find" THEN {bp} ELSE {})

\* c lies between a and z, going up from a and at the end of memory on from its start.
Inside(a, c, z) == IF a < z THEN a < c /\ c < z ELSE a < c \/ c < z

\* Following ptr from freep leads round through every block of the free list, in address
\* order.
OneRing == /\ freep # NULL => {freep, base} \subseteq Ring
           /\ \A a \in Ring : /\ ptr[a] \in Ring
                              /\ \A c \in Ring : ~Inside(a, c, ptr[a])

\* The free list is one ring in address order, and its blocks, those in use and the one
\* being freed tile the part of the heap below vms$bss: none overlaps another, no unit
\* is lost, whatever the order of allocations and frees, and also when sys$morecore
\* frees new pages in the middle of a search.
Tiles ==
  /\ TypeOK
  /\ OneRing
  /\ \A b \in Blocks : Lo <= b /\ size[b] > 0 /\ b + size[b] <= bss
  /\ \A u \in Lo .. bss - 1 :
       \E b \in Blocks : /\ b <= u /\ u < b + size[b]
                         /\ \A c \in Blocks \ {b} : ~(c <= u /\ u < c + size[c])

\* Free neighbours are always joined, so that a request fails for want of a block
\* only if no run of free units is long enough.
Coalesced == \A b \in Ring \ {base} : b + size[b] \notin Ring \ {base}

\* Every return of sys$alloc and sys$free, the failures too, gives up the lock once
\* for each time it was taken: the nested sys$free of sys$morecore takes it twice.
LockBalanced == count = (IF pc = "idle" THEN 0
                         ELSE IF pc = "find" /\ ret = "scan" THEN 2 ELSE 1)

\* Both searches end: round the ring once, or once more after sys$morecore.
Returns == (pc # "idle") ~> (pc = "idle")

\* The comment of sys$morecore: "we need to ensure we back memory before touching
\* it, or else we are in trouble".
BackedFirst == Pages(Lo, bss) \subseteq mapped
=============================================================================
