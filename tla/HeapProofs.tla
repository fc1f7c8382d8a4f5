----------------------------- MODULE HeapProofs -----------------------------
(***************************************************************************)
(* The kernel heap, for every size of the heap, of a page and of the       *)
(* requests and wherever base was linked: its blocks tile it, free         *)
(* neighbours are joined, the lock is balanced.                            *)
(*                                                                         *)
(* Tiles speaks of the blocks and Coalesced of their ends.  Neither is     *)
(* inductive: that sys$free finds the neighbours of a block, and never     *)
(* joins one that is not adjacent, rests on the order of the ring          *)
(* (Ordered), and that it never takes base for a neighbour on base having  *)
(* no units and no address of the heap (Started, Apart).  The searches     *)
(* keep a block of the ring in hand (Locals) while sys$morecore frees new  *)
(* pages under them.                                                       *)
(*                                                                         *)
(* The operations are put together from three on tilings (join two blocks, *)
(* cut one in two, add one at the end) and two on rings (insert, remove),  *)
(* with a lemma each.                                                      *)
(***************************************************************************)
EXTENDS Heap, TLAPS

-----------------------------------------------------------------------------
(***************************************************************************)
(* The inductive invariant                                                 *)
(***************************************************************************)

\* f leads through the addresses of R in order, and round.
Ordered(R, f) == \A a \in R : /\ f[a] \in R
                              /\ \A c \in R : ~Inside(a, c, f[a])

\* The blocks of B, of the sizes sz, tile the addresses from Lo to end.
InBounds(B, sz, end) == \A b \in B : Lo <= b /\ sz[b] > 0 /\ b + sz[b] <= end
Disjoint(B, sz)      == \A b, c \in B : b < c => b + sz[b] <= c
Covers(B, sz, end)   == \A u \in Lo .. end - 1 :
                          \E b \in B : b <= u /\ u < b + sz[b]
Laid(B, sz, end)     == InBounds(B, sz, end) /\ Disjoint(B, sz) /\ Covers(B, sz, end)

\* Which of the three a block is.
Apart == /\ Ring \subseteq Cells \union {base}
         /\ Ring \intersect held = {}
         /\ pc = "find" => bp \in Cells /\ bp \notin Ring \union held

\* Before the first call there is no ring; afterwards base is in it, with no units.
Started == IF freep = NULL THEN Ring = {} /\ held = {} /\ pc = "idle"
                           ELSE freep \in Ring /\ base \in Ring /\ size[base] = 0

\* The local variables of the searches.
Locals == /\ pc \in {"scan", "more"} \/ (pc = "find" /\ ret = "scan") => nunits \in Units
          /\ pc = "scan" => prevp \in Ring /\ p = ptr[prevp]
          /\ pc = "find" => p \in Ring

HInv == /\ TypeOK
        /\ LockBalanced
        /\ Apart
        /\ Started
        /\ Locals
        /\ Ordered(Ring, ptr)
        /\ Laid(Blocks, size, bss)
        /\ Coalesced

-----------------------------------------------------------------------------
(***************************************************************************)
(* Rings in address order                                                  *)
(***************************************************************************)

\* Linking b after q, the place that the search of sys$free stops at, keeps the order.
LEMMA InsertOrdered ==
  ASSUME NEW R \in SUBSET Nat, NEW f, NEW g, Ordered(R, f),
         NEW q \in R, NEW b \in Nat \ R, Inside(q, b, f[q]),
         g[q] = b, g[b] = f[q], \A a \in R \ {q} : g[a] = f[a]
  PROVE  Ordered(R \union {b}, g)
<1>1. \A a \in R : f[a] \in R /\ f[a] \in Nat /\ \A c \in R : ~Inside(a, c, f[a])
  BY DEF Ordered
<1>2. ASSUME NEW a \in R \union {b}, NEW c \in R \union {b} PROVE ~Inside(a, c, g[a])
  <2>1. CASE a = q
    BY <1>1, <2>1 DEF Inside
  <2>2. CASE a = b
    BY <1>1, <2>2 DEF Inside
  <2>3. CASE a \notin {q, b}
    <3>1. g[a] = f[a] /\ a \in R /\ f[a] \in Nat
      BY <1>1, <2>3
    <3>2. CASE c \in R
      BY <1>1, <3>1, <3>2
    <3>3. CASE c = b
      <4>1. /\ ~Inside(a, q, f[a]) /\ ~Inside(a, f[q], f[a])
            /\ ~Inside(q, a, f[q]) /\ ~Inside(q, f[a], f[q])
        BY <1>1, <3>1
      <4> QED BY <1>1, <2>3, <3>1, <3>3, <4>1 DEF Inside
    <3> QED BY <3>2, <3>3
  <2> QED BY <2>1, <2>2, <2>3
<1>3. \A a \in R \union {b} : g[a] \in R \union {b}
  BY <1>1
<1> QED BY <1>2, <1>3 DEF Ordered

\* Linking q past the block r it leads to takes r out of the ring and keeps the order.
LEMMA RemoveOrdered ==
  ASSUME NEW R \in SUBSET Nat, NEW f, NEW g, Ordered(R, f),
         NEW q \in R, NEW r \in R, f[q] = r, r # q,
         g[q] = f[r], \A a \in R \ {q, r} : g[a] = f[a]
  PROVE  Ordered(R \ {r}, g) /\ f[r] # r
<1>1. \A a \in R : /\ f[a] \in R /\ f[a] \in Nat /\ a \in Nat
                   /\ \A c \in R : ~Inside(a, c, f[a])
  BY DEF Ordered
<1>2. f[r] # r
  <2>1. ~Inside(r, q, f[r])
    BY <1>1
  <2> QED BY <1>1, <2>1 DEF Inside
<1>3. ASSUME NEW a \in R \ {r} PROVE g[a] \in R \ {r}
  <2>1. CASE a = q
    BY <1>1, <1>2, <2>1
  <2>2. CASE a # q
    <3>1. ~Inside(a, q, f[a]) /\ ~Inside(q, a, f[q])
      BY <1>1
    <3>2. f[a] # r
      BY <1>1, <2>2, <3>1 DEF Inside
    <3> QED BY <1>1, <2>2, <3>2
  <2> QED BY <2>1, <2>2
<1>4. ASSUME NEW a \in R \ {r}, NEW c \in R \ {r} PROVE ~Inside(a, c, g[a])
  <2>1. CASE a = q
    <3>1. /\ ~Inside(q, c, r) /\ ~Inside(r, c, f[r])
          /\ ~Inside(q, f[r], r) /\ ~Inside(r, q, f[r])
      BY <1>1
    <3> QED BY <1>1, <1>2, <2>1, <3>1 DEF Inside
  <2>2. CASE a # q
    BY <1>1, <2>2
  <2> QED BY <2>1, <2>2
<1> QED BY <1>2, <1>3, <1>4 DEF Ordered

-----------------------------------------------------------------------------
(***************************************************************************)
(* Tilings                                                                 *)
(***************************************************************************)

\* From the sizes sz to the sizes tz, the block y is joined to the block x before it; the
\* block x gives up its last n units, at y.
Joined(B, sz, tz, x, y) ==
  /\ x + sz[x] = y
  /\ tz[x] = sz[x] + sz[y]
  /\ \A b \in B \ {x, y} : tz[b] = sz[b]
CutOff(B, sz, tz, x, y, n) ==
  /\ y = x + (sz[x] - n)
  /\ n < sz[x]
  /\ tz[x] = sz[x] - n
  /\ tz[y] = n
  /\ \A b \in B \ {x, y} : tz[b] = sz[b]

\* Joining a block and the one that starts where it ends: sys$free, with its upper or its
\* lower neighbour.
LEMMA MergeLaid ==
  ASSUME NEW B \in SUBSET Nat, NEW sz, NEW tz, NEW end \in Nat,
         \A b \in B : sz[b] \in Nat, Laid(B, sz, end),
         NEW x \in B, NEW y \in B, Joined(B, sz, tz, x, y)
  PROVE  Laid(B \ {y}, tz, end)
<1> USE DEF Laid, Joined
<1>1. x # y /\ x \in Nat /\ y \in Nat /\ sz[x] \in Nat /\ sz[y] \in Nat
  BY DEF InBounds
<1>2. InBounds(B \ {y}, tz, end)
  BY <1>1 DEF InBounds
<1>3. ASSUME NEW b \in B \ {y}, NEW c \in B \ {y}, b < c PROVE b + tz[b] <= c
  <2>1. b + sz[b] <= c /\ (y < c => y + sz[y] <= c) /\ b \in Nat /\ c \in Nat
    BY <1>3 DEF Disjoint
  <2>2. CASE b = x
    BY <1>1, <1>3, <2>1, <2>2
  <2>3. CASE b # x
    BY <2>1, <2>3
  <2> QED BY <2>2, <2>3
<1>4. Disjoint(B \ {y}, tz)
  BY <1>3 DEF Disjoint
<1>5. ASSUME NEW u \in Lo .. end - 1 PROVE \E b \in B \ {y} : b <= u /\ u < b + tz[b]
  <2>1. PICK b \in B : b <= u /\ u < b + sz[b]
    BY DEF Covers
  <2>2. Lo \in Nat /\ u \in Nat /\ b \in Nat
    BY <1>5, HeapAssumption DEF Lo
  <2>3. CASE b \in {x, y}
    BY <1>1, <2>1, <2>2, <2>3
  <2>4. CASE b \notin {x, y}
    BY <2>1, <2>4
  <2> QED BY <2>3, <2>4
<1> QED BY <1>2, <1>4, <1>5 DEF Covers

\* Cutting the last n units off a block: sys$alloc.
LEMMA SplitLaid ==
  ASSUME NEW B \in SUBSET Nat, NEW sz, NEW tz, NEW end \in Nat,
         \A b \in B : sz[b] \in Nat, Laid(B, sz, end),
         NEW x \in B, NEW n \in Nat \ {0}, NEW y, CutOff(B, sz, tz, x, y, n)
  PROVE  y \notin B /\ Laid(B \union {y}, tz, end)
<1> USE DEF Laid, CutOff
<1>0. Lo \in Nat
  BY HeapAssumption DEF Lo
<1>1. /\ x \in Nat /\ y \in Nat /\ sz[x] \in Nat /\ x < y /\ y < x + sz[x]
      /\ x + tz[x] = y /\ y + tz[y] = x + sz[x] /\ tz[x] > 0 /\ tz[x] \in Nat
  OBVIOUS
<1>2. y \notin B
  BY <1>1 DEF Disjoint
<1>3. InBounds(B \union {y}, tz, end)
  BY <1>0, <1>1, <1>2 DEF InBounds
<1>4. ASSUME NEW b \in B \union {y}, NEW c \in B \union {y}, b < c PROVE b + tz[b] <= c
  <2>1. CASE b \in B \ {x} /\ c \in B
    BY <1>2, <1>4, <2>1 DEF Disjoint
  <2>2. CASE b = x /\ c \in B
    BY <1>1, <1>4, <2>2 DEF Disjoint
  <2>3. CASE b \in B \ {x} /\ c = y
    <3>1. b \in Nat /\ sz[b] \in Nat /\ tz[b] = sz[b]
      BY <1>2, <2>3
    <3>2. b < x => b + sz[b] <= x
      BY <2>3 DEF Disjoint
    <3>3. x < b => x + sz[x] <= b
      BY <2>3 DEF Disjoint
    <3> QED BY <1>1, <1>4, <2>3, <3>1, <3>2, <3>3
  <2>4. CASE b = x /\ c = y
    BY <1>1, <2>4
  <2>5. CASE b = y /\ c \in B
    <3>1. x < c
      BY <1>1, <1>4, <2>5
    <3> QED BY <1>1, <2>5, <3>1 DEF Disjoint
  <2>6. CASE b = y /\ c = y
    BY <1>1, <1>4, <2>6
  <2> QED BY <2>1, <2>2, <2>3, <2>4, <2>5, <2>6
<1>5. Disjoint(B \union {y}, tz)
  BY <1>4 DEF Disjoint
<1>6. ASSUME NEW u \in Lo .. end - 1 PROVE \E b \in B \union {y} : b <= u /\ u < b + tz[b]
  <2>1. PICK b \in B : b <= u /\ u < b + sz[b]
    BY DEF Covers
  <2>2. u \in Nat /\ b \in Nat
    BY <1>0, <1>6
  <2>3. CASE b = x
    BY <1>1, <2>1, <2>2, <2>3
  <2>4. CASE b # x
    BY <1>2, <2>1, <2>4
  <2> QED BY <2>3, <2>4
<1> QED BY <1>2, <1>3, <1>5, <1>6 DEF Covers

\* A new block at the end: sys$morecore.
LEMMA ExtendLaid ==
  ASSUME NEW B \in SUBSET Nat, NEW sz, NEW tz, NEW end \in Nat, Lo <= end,
         \A b \in B : sz[b] \in Nat, Laid(B, sz, end),
         NEW n \in Nat \ {0}, tz[end] = n, \A b \in B \ {end} : tz[b] = sz[b]
  PROVE  end \notin B /\ Laid(B \union {end}, tz, end + n)
<1> USE DEF Laid
<1>0. Lo \in Nat
  BY HeapAssumption DEF Lo
<1>1. end \notin B
  BY DEF InBounds
<1>2. InBounds(B \union {end}, tz, end + n)
  BY <1>0, <1>1 DEF InBounds
<1>3. ASSUME NEW b \in B \union {end}, NEW c \in B \union {end}, b < c PROVE b + tz[b] <= c
  <2>1. b \in B /\ b \in Nat /\ sz[b] \in Nat /\ b + sz[b] <= end /\ tz[b] = sz[b]
    BY <1>1, <1>3 DEF InBounds
  <2>2. c \in B => b + sz[b] <= c
    BY <1>3, <2>1 DEF Disjoint
  <2> QED BY <2>1, <2>2
<1>4. Disjoint(B \union {end}, tz)
  BY <1>3 DEF Disjoint
<1>5. ASSUME NEW u \in Lo .. (end + n) - 1
      PROVE  \E b \in B \union {end} : b <= u /\ u < b + tz[b]
  <2>1. CASE u < end
    <3>1. PICK b \in B : b <= u /\ u < b + sz[b]
      BY <1>0, <2>1 DEF Covers
    <3> QED BY <1>1, <3>1
  <2>2. CASE u >= end
    BY <1>0, <1>5, <2>2
  <2> QED BY <1>0, <2>1, <2>2
<1> QED BY <1>1, <1>2, <1>4, <1>5 DEF Covers

-----------------------------------------------------------------------------
(***************************************************************************)
(* The steps of the specification                                          *)
(***************************************************************************)

\* What the invariant says of the numbers involved.
LEMMA Addresses ==
  ASSUME HInv
  PROVE  /\ Lo \in Nat /\ Hi \in Nat /\ Cells = Lo .. Hi - 1 /\ NULL \notin Cells
         /\ base \in Nat /\ base # NULL /\ base \notin Cells
         /\ bss \in Nat /\ Lo <= bss /\ bss < Hi
         /\ Ring \subseteq Nat /\ NULL \notin Ring
         /\ Blocks \subseteq Cells /\ Blocks \subseteq Nat /\ base \notin Blocks
         /\ \A a \in Cells \union Bases : size[a] \in Nat
         /\ \A a \in Ring : a \in Cells \union Bases
<1>1. /\ Lo \in Nat /\ Hi \in Nat /\ Cells = Lo .. Hi - 1 /\ NULL \notin Cells
      /\ \A a \in Bases : a \in Nat /\ a # NULL /\ a \notin Cells
  BY HeapAssumption DEF Lo, Hi, Cells, NULL
<1>2. base \in Bases /\ bss \in Cells
  BY DEF HInv, TypeOK
<1>3. Ring \subseteq Cells \union {base} /\ held \subseteq Cells
  BY DEF HInv, TypeOK, Apart
<1>4. Blocks \subseteq Cells
  BY <1>3 DEF Blocks, HInv, Apart
<1>5. \A a \in Cells \union Bases : size[a] \in Nat
  BY <1>1 DEF HInv, TypeOK
<1>6. /\ base \in Nat /\ base # NULL /\ base \notin Cells
      /\ bss \in Nat /\ Lo <= bss /\ bss < Hi
  BY <1>1, <1>2
<1>7. Cells \subseteq Nat
  BY <1>1
<1>8. Ring \subseteq Nat /\ NULL \notin Ring /\ Blocks \subseteq Nat /\ base \notin Blocks
  BY <1>1, <1>3, <1>4, <1>6, <1>7
<1>9. \A a \in Ring : a \in Cells \union Bases
  BY <1>2, <1>3
<1> QED BY <1>1, <1>4, <1>5, <1>6, <1>8, <1>9

\* There is no ring before the first call.
LEMMA InitHInv == Init => HInv
<1> SUFFICES ASSUME Init PROVE HInv
  OBVIOUS
<1> USE DEF Init
<1>1. /\ Lo \in Nat /\ Hi \in Nat /\ Lo < Hi /\ Lo \in Cells
      /\ 0 \in 0 .. Hi - Lo /\ 0 \in 0 .. Memory
  <2>1. Lo \in Nat /\ Lo > 0 /\ HeapPages \in Nat /\ HeapPages > 0 /\ Memory \in Nat
    BY HeapAssumption DEF Lo
  <2>2. Hi = Lo * HeapPages + Lo /\ Lo * HeapPages \in Nat /\ Lo * HeapPages >= Lo
    BY <2>1, HeapAssumption DEF Hi, Lo
  <2> QED BY <2>1, <2>2 DEF Cells
<1>2. Ring = {} /\ Blocks = {}
  BY DEF Ring, Blocks
<1>3. TypeOK
  BY <1>1 DEF TypeOK, Addr, NULL
<1>4. Laid(Blocks, size, bss) /\ Ordered(Ring, ptr) /\ Coalesced
  BY <1>1, <1>2 DEF Laid, InBounds, Disjoint, Covers, Ordered, Coalesced
<1> QED BY <1>2, <1>3, <1>4 DEF HInv, LockBalanced, Apart, Started, Locals

\* A step that changes no header, no block and not vms$bss.
LEMMA SameHeap ==
  ASSUME HInv, UNCHANGED <<base, ptr, size, freep, bss>>, Blocks' = Blocks,
         TypeOK', LockBalanced', Apart', Started', Locals'
  PROVE  HInv'
<1>1. Ring' = Ring
  BY DEF Ring
<1>2. Ordered(Ring, ptr)' /\ Coalesced'
  BY <1>1 DEF HInv, Ordered, Coalesced
<1>3. Laid(Blocks, size, bss)'
  BY DEF HInv
<1> QED BY <1>2, <1>3 DEF HInv

\* sys$alloc enters: the first time with the ring of base alone.
LEMMA StepAlloc ==
  ASSUME HInv, NEW n \in Units, Alloc(n)
  PROVE  HInv'
<1>1. /\ pc = "idle" /\ pc' = "scan" /\ count = 0 /\ count' = 1 /\ nunits' = n
      /\ prevp' = freep' /\ p' = ptr'[freep']
      /\ UNCHANGED <<base, bss, held, bp, ret, backed, mapped>>
  BY DEF Alloc, CountLock, HInv, LockBalanced
<1>2. LockBalanced'
  BY <1>1 DEF LockBalanced
<1>3. CASE freep # NULL
  <2>1. UNCHANGED <<ptr, size, freep>> /\ Ring' = Ring /\ freep \in Ring
    BY <1>3 DEF Alloc, Ring, HInv, Started
  <2>2. Blocks' = Blocks
    BY <1>1, <2>1 DEF Blocks
  <2>3. TypeOK'
    BY <1>1, <2>1 DEF HInv, TypeOK, Ring
  <2>4. Apart' /\ Started' /\ Locals'
    BY <1>1, <1>3, <2>1 DEF HInv, Apart, Started, Locals
  <2> QED BY <1>1, <1>2, <2>1, <2>2, <2>3, <2>4, SameHeap
<1>4. CASE freep = NULL
  <2>1. /\ ptr' = [ptr EXCEPT ![base] = base] /\ size' = [size EXCEPT ![base] = 0]
        /\ freep' = base
    BY <1>4 DEF Alloc
  <2>2. base \in Bases /\ base # NULL /\ base \notin Cells /\ base \in Nat
    BY HeapAssumption DEF HInv, TypeOK
  <2>3. Ring = {} /\ held = {}
    BY <1>4 DEF HInv, Started
  <2>4. /\ DOMAIN ptr' = DOMAIN ptr /\ ptr'[base] = base /\ size'[base] = 0
        /\ \A a \in DOMAIN ptr \ {base} : ptr'[a] = ptr[a]
        /\ base \in DOMAIN ptr
    BY <2>1, <2>2 DEF HInv, TypeOK
  <2>5. Ring' = {base}
    BY <2>2, <2>3, <2>4 DEF Ring
  <2>6. Blocks' = {} /\ Blocks = {}
    BY <1>1, <2>3, <2>5 DEF Blocks
  <2>7. TypeOK'
    <3>1. ptr' \in [Cells \union Bases -> Addr]
      BY <2>1, <2>2 DEF HInv, TypeOK, Addr
    <3>2. size' \in [Cells \union Bases -> 0 .. Hi - Lo]
      <4>1. 0 \in 0 .. Hi - Lo
        BY Addresses
      <4> QED BY <2>1, <4>1 DEF HInv, TypeOK
    <3>3. freep' \in Addr /\ ptr'[base] \in Addr
      BY <2>1, <2>2, <2>4 DEF Addr
    <3> QED BY <1>1, <2>1, <3>1, <3>2, <3>3 DEF HInv, TypeOK
  <2>8. Apart' /\ Started' /\ Locals'
    BY <1>1, <2>1, <2>2, <2>3, <2>4, <2>5 DEF Apart, Started, Locals
  <2>9. Ordered(Ring, ptr)' /\ Coalesced'
    <3>1. ~Inside(base, base, base)
      BY <2>2 DEF Inside
    <3>2. Ordered({base}, ptr')
      BY <2>4, <3>1 DEF Ordered
    <3>3. Ordered(Ring, ptr)'
      BY <2>5, <3>2 DEF Ordered
    <3>4. Coalesced'
      BY <1>1, <2>5 DEF Coalesced
    <3> QED BY <3>3, <3>4
  <2>10. Laid(Blocks, size, bss)'
    BY <1>1, <2>6 DEF HInv, Laid, InBounds, Disjoint, Covers
  <2> QED BY <1>2, <2>7, <2>8, <2>9, <2>10 DEF HInv
<1> QED BY <1>3, <1>4

\* The searches move on in the ring.
LEMMA StepSearch ==
  ASSUME HInv, Skip \/ Wrapped \/ Find
  PROVE  HInv'
<1>1. /\ UNCHANGED <<ring, bss, held, bp, nunits, ret, count, backed, mapped>>
      /\ UNCHANGED <<base, ptr, size, freep>>
      /\ pc = "find" <=> pc' = "find"
      /\ Ring' = Ring
  BY DEF Skip, Wrapped, Find, ring, Ring
<1>2. Blocks' = Blocks
  BY <1>1 DEF Blocks
<1>3. \A a \in Ring : ptr[a] \in Ring
  BY DEF HInv, Ordered
<1>4. p \in Ring
  BY <1>3 DEF HInv, Locals, Skip, Wrapped, Find
<1>5. Apart' /\ Started'
  BY <1>1, <1>4 DEF HInv, Apart, Started, Skip, Wrapped, Find
<1>6. Locals'
  BY <1>1, <1>3, <1>4 DEF HInv, Locals, Skip, Wrapped, Find
<1>7. LockBalanced'
  BY <1>1 DEF HInv, LockBalanced, Skip, Wrapped, Find
<1>8. p' \in Addr /\ prevp' \in Addr /\ pc' \in {"scan", "more", "find"}
  BY <1>1, <1>3, <1>4 DEF HInv, TypeOK, Ring, Skip, Wrapped, Find
<1>9. TypeOK'
  BY <1>1, <1>8 DEF HInv, TypeOK
<1> QED BY <1>1, <1>2, <1>5, <1>6, <1>7, <1>9, SameHeap

\* sys$morecore fails and the call returns.
LEMMA StepMoreFails ==
  ASSUME HInv, MoreFails
  PROVE  HInv'
<1>1. /\ pc = "more" /\ pc' = "idle" /\ p' = NULL /\ prevp' = NULL /\ bp' = NULL
      /\ nunits' = 0 /\ ret' = "idle" /\ count = 1 /\ count' = 0
      /\ UNCHANGED <<base, ptr, size, freep, bss, held>>
      /\ Ring' = Ring
  BY DEF MoreFails, Return, CountUnlock, ring, Ring, HInv, LockBalanced
<1>2. backed' \in 0 .. Memory /\ mapped' = mapped
  <2>1. CASE UNCHANGED <<backed, mapped>>
    BY <2>1 DEF HInv, TypeOK
  <2>2. CASE \E k \in 0 .. Wants - 1 : /\ backed + k <= Memory
                                       /\ backed' = backed + k
                                       /\ PageMap(Pages(bss, bss + PageUnits * k))
    <3>1. PICK k \in 0 .. Wants - 1 : /\ backed + k <= Memory
                                      /\ backed' = backed + k
                                      /\ PageMap(Pages(bss, bss + PageUnits * k))
      BY <2>2
    <3>2. mapped' = mapped
      BY <3>1 DEF PageMap, HeapFlags
    <3> QED BY <3>1, <3>2, HeapAssumption DEF HInv, TypeOK
  <2> QED BY <2>1, <2>2 DEF MoreFails
<1>3. Blocks' = Blocks
  BY <1>1 DEF Blocks
<1>4. TypeOK'
  BY <1>1, <1>2 DEF HInv, TypeOK, Addr
<1>5. LockBalanced' /\ Apart' /\ Started' /\ Locals'
  BY <1>1 DEF HInv, LockBalanced, Apart, Started, Locals
<1> QED BY <1>1, <1>3, <1>4, <1>5, SameHeap

\* The pages sys$morecore asks for hold the units wanted.
LEMMA RoundUpEnough ==
  ASSUME NEW n \in Nat \ {0}
  PROVE  RoundUp(n) \in Nat \ {0}
<1> DEFINE k == (n + PageUnits - 1) \div PageUnits
<1>1. PageUnits \in Nat /\ PageUnits > 0
  BY HeapAssumption
<1>2. k \in Nat /\ k >= 1
  <2>1. n + PageUnits - 1 \in Nat /\ n + PageUnits - 1 >= PageUnits
    BY <1>1
  <2> HIDE DEF k
  <2>2. PICK m \in Nat : m = n + PageUnits - 1
    BY <2>1
  <2>3. k = m \div PageUnits
    BY <2>2 DEF k
  <2> QED BY <1>1, <2>1, <2>2, <2>3
<1> HIDE DEF k
<1>3. k * PageUnits \in Nat /\ k * PageUnits > 0
  BY <1>1, <1>2
<1> QED BY <1>3 DEF RoundUp, k

\* sys$morecore has its pages: they are one block, about to be freed.
LEMMA StepMore ==
  ASSUME HInv, More
  PROVE  HInv'
<1>1. /\ pc = "more" /\ pc' = "find" /\ count = 1 /\ count' = 2 /\ ret' = "scan"
      /\ bss' = bss + nu /\ size' = [size EXCEPT ![bss] = nu] /\ bp' = bss /\ p' = freep
      /\ UNCHANGED <<base, ptr, freep, held, prevp, nunits>>
      /\ mapped' = mapped
      /\ Ring' = Ring
  BY DEF More, CountLock, HInv, LockBalanced, PageMap, HeapFlags, Ring
<1>2. nunits \in Units /\ nu \in Nat \ {0}
  BY <1>1, RoundUpEnough, HeapAssumption DEF HInv, Locals, nu
<1>3. bss + nu < Hi
  BY <1>2, Addresses DEF More, Beyond
<1>4. backed' \in 0 .. Memory
  <2>1. PICK w \in Nat : w = Wants
    <3>1. PageUnits \in Nat \ {0}
      BY HeapAssumption
    <3> QED BY <1>2, <3>1 DEF Wants
  <2> QED BY <2>1, HeapAssumption DEF More, HInv, TypeOK
<1>5. /\ bss \in Cells /\ size'[bss] = nu
      /\ \A a \in (Cells \union Bases) \ {bss} : size'[a] = size[a]
  BY <1>1 DEF HInv, TypeOK
<1>6. /\ bss \notin Blocks
      /\ Laid(Blocks \union {bss}, size', bss + nu)
  <2>1. \A b \in Blocks : b \in Cells \union Bases /\ size[b] \in Nat
    BY Addresses
  <2>2. PICK end \in Nat, n \in Nat \ {0} : end = bss /\ n = nu
    BY <1>2, Addresses
  <2>3. end \notin Blocks /\ Laid(Blocks \union {end}, size', end + n)
    <3>1. /\ Blocks \in SUBSET Nat /\ Lo <= end /\ Laid(Blocks, size, end)
          /\ size'[end] = n
      BY <1>5, <2>2, Addresses DEF HInv
    <3>2. \A b \in Blocks \ {end} : size'[b] = size[b]
      BY <1>5, <2>1, <2>2
    <3> QED BY <2>1, <3>1, <3>2, ExtendLaid
  <2> QED BY <2>2, <2>3
<1>7. freep # NULL /\ freep \in Ring /\ base \in Ring /\ size[base] = 0
  BY <1>1 DEF HInv, Started
<1>8. base # bss /\ bss \notin Ring /\ bss \notin held
  BY <1>5, <1>6, Addresses DEF Blocks
<1>9. Blocks' = Blocks \union {bss}
  BY <1>1 DEF Blocks
<1>10. TypeOK'
  <2>1. nu \in 0 .. Hi - Lo /\ bss' \in Cells /\ bss \in Addr
    BY <1>1, <1>2, <1>3, <1>5, Addresses DEF Addr
  <2>2. size' \in [Cells \union Bases -> 0 .. Hi - Lo]
    BY <1>1, <2>1 DEF HInv, TypeOK
  <2> QED BY <1>1, <1>4, <2>1, <2>2 DEF HInv, TypeOK
<1>11. LockBalanced' /\ Apart' /\ Locals'
  BY <1>1, <1>2, <1>5, <1>7, <1>8 DEF HInv, LockBalanced, Apart, Locals
<1>12. Started'
  BY <1>1, <1>5, <1>7, <1>8, Addresses DEF Started
<1>13. Ordered(Ring, ptr)'
  BY <1>1 DEF HInv
<1>14. Coalesced'
  BY <1>1, <1>5, <1>8, Addresses DEF HInv, Coalesced
<1>15. Laid(Blocks, size, bss)'
  BY <1>1, <1>6, <1>9
<1> QED BY <1>10, <1>11, <1>12, <1>13, <1>14, <1>15 DEF HInv

\* sys$free enters.
LEMMA StepFree ==
  ASSUME HInv, NEW b \in held, Free(b)
  PROVE  HInv'
<1>1. /\ pc = "idle" /\ pc' = "find" /\ count = 0 /\ count' = 1 /\ ret' = "idle"
      /\ held' = held \ {b} /\ bp' = b /\ p' = freep
      /\ UNCHANGED <<base, ptr, size, freep, bss, prevp, nunits, backed, mapped>>
      /\ Ring' = Ring
  BY DEF Free, CountLock, HInv, LockBalanced, Ring, ring
<1>2. freep # NULL /\ freep \in Ring /\ b \in Cells /\ b \notin Ring
  BY DEF HInv, Started, TypeOK, Apart
<1>3. Blocks' = Blocks
  BY <1>1 DEF Blocks
<1>4. TypeOK'
  BY <1>1, <1>2 DEF HInv, TypeOK, Addr
<1>5. LockBalanced' /\ Apart' /\ Started' /\ Locals'
  BY <1>1, <1>2 DEF HInv, LockBalanced, Apart, Started, Locals
<1> QED BY <1>1, <1>3, <1>4, <1>5, SameHeap

\* Forget sets what it is told to and leaves the rest.
LEMMA ForgetValues ==
  ASSUME NEW D, NEW E, NEW f \in [D -> E], NEW A, 0 \in E
  PROVE  /\ Forget(f, A) \in [D -> E]
         /\ \A a \in D : Forget(f, A)[a] = IF a \in A THEN 0 ELSE f[a]
  BY DEF Forget

\* sys$alloc takes all of a block: its predecessor is linked past it.
LEMMA StepTakeAll ==
  ASSUME HInv, Take, size[p] = nunits
  PROVE  HInv'
<1> DEFINE D == Cells \union Bases
<1>1. /\ pc = "scan" /\ count = 1 /\ count' = 0 /\ pc' = "idle"
      /\ p' = NULL /\ prevp' = NULL /\ bp' = NULL /\ nunits' = 0 /\ ret' = "idle"
      /\ ptr' = Forget([ptr EXCEPT ![prevp] = ptr[p]], {p})
      /\ held' = held \union {p} /\ freep' = prevp
      /\ UNCHANGED <<size, base, bss, backed, mapped>>
  BY DEF Take, CountUnlock, Return, HInv, LockBalanced
<1>2. /\ nunits \in Nat \ {0} /\ prevp \in Ring /\ p = ptr[prevp] /\ freep # NULL
      /\ base \in Ring /\ size[base] = 0
  BY <1>1, HeapAssumption DEF HInv, Locals, Started
<1>3. p \in Ring /\ p # base /\ p \in Cells /\ ptr[p] \in Ring /\ Ordered(Ring, ptr)
  BY <1>2 DEF HInv, Ordered, Apart
<1>4. Ring \in SUBSET Nat /\ Ring \subseteq D /\ NULL \notin Ring /\ Ring \subseteq Addr
  BY Addresses DEF HInv, Apart, TypeOK, Addr
<1>5. prevp # p
  <2>1. p \in Nat /\ base \in Nat /\ (prevp = p => ~Inside(p, base, p))
    BY <1>2, <1>3, <1>4 DEF Ordered
  <2> QED BY <1>3, <2>1 DEF Inside
<1>6. /\ ptr' \in [D -> Addr]
      /\ ptr'[p] = NULL /\ ptr'[prevp] = ptr[p]
      /\ \A a \in D \ {p, prevp} : ptr'[a] = ptr[a]
  <2>1. ptr \in [D -> Addr] /\ NULL \in Addr /\ ptr[p] \in Addr /\ p \in D /\ prevp \in D
    BY <1>2, <1>3, <1>4 DEF HInv, TypeOK, Addr
  <2>2. PICK f \in [D -> Addr] : f = [ptr EXCEPT ![prevp] = ptr[p]]
    BY <2>1
  <2>3. f[prevp] = ptr[p] /\ \A a \in D \ {prevp} : f[a] = ptr[a]
    BY <2>1, <2>2
  <2>4. /\ Forget(f, {p}) \in [D -> Addr]
        /\ \A a \in D : Forget(f, {p})[a] = IF a \in {p} THEN 0 ELSE f[a]
    <3>1. 0 \in Addr
      BY <2>1 DEF NULL
    <3> HIDE DEF D
    <3> QED BY <3>1, ForgetValues
  <2> QED BY <1>1, <1>5, <2>1, <2>2, <2>3, <2>4 DEF NULL
<1>7. Ring' = Ring \ {p}
  <2>1. DOMAIN ptr' = D /\ DOMAIN ptr = D
    BY <1>6 DEF HInv, TypeOK
  <2> QED BY <1>2, <1>3, <1>4, <1>6, <2>1 DEF Ring
<1>8. Ordered(Ring \ {p}, ptr')
  <2>1. PICK r \in Ring, q \in Ring : r = p /\ q = prevp
    BY <1>2, <1>3
  <2>2. ptr[q] = r /\ r # q /\ ptr'[q] = ptr[r] /\ \A a \in Ring \ {q, r} : ptr'[a] = ptr[a]
    BY <1>2, <1>4, <1>5, <1>6, <2>1
  <2>3. Ordered(Ring \ {r}, ptr')
    BY <1>3, <1>4, <2>2, RemoveOrdered
  <2> QED BY <2>1, <2>3
<1>9. Ordered(Ring, ptr)'
  BY <1>7, <1>8
<1>10. Blocks' = Blocks
  BY <1>1, <1>3, <1>7 DEF Blocks
<1>11. Laid(Blocks, size, bss)'
  BY <1>1, <1>10 DEF HInv
<1>12. Coalesced'
  BY <1>1, <1>7 DEF HInv, Coalesced
<1>13. TypeOK'
  <2>1. prevp \in Addr /\ NULL \in Addr /\ 0 \in 0 .. 2
    BY <1>2, <1>4 DEF Addr
  <2>2. held' \subseteq Cells
    BY <1>1, <1>3 DEF HInv, TypeOK
  <2> QED BY <1>1, <1>6, <2>1, <2>2 DEF HInv, TypeOK
<1>14. LockBalanced' /\ Apart' /\ Locals'
  BY <1>1, <1>7 DEF HInv, LockBalanced, Apart, Locals
<1>15. Started'
  BY <1>1, <1>2, <1>3, <1>4, <1>5, <1>7 DEF Started
<1> QED BY <1>9, <1>11, <1>12, <1>13, <1>14, <1>15 DEF HInv

\* sys$alloc takes the tail end of a block, which stays where it is in the ring.
LEMMA StepTakeTail ==
  ASSUME HInv, Take, size[p] # nunits
  PROVE  HInv'
<1> DEFINE D == Cells \union Bases
           t == Tail(p, nunits)
<1>1. /\ pc = "scan" /\ count = 1 /\ count' = 0 /\ pc' = "idle"
      /\ p' = NULL /\ prevp' = NULL /\ bp' = NULL /\ nunits' = 0 /\ ret' = "idle"
      /\ size' = [size EXCEPT ![p] = @ - nunits, ![t] = nunits]
      /\ held' = held \union {t} /\ freep' = prevp
      /\ UNCHANGED <<ptr, base, bss, backed, mapped>>
      /\ size[p] >= nunits
      /\ Ring' = Ring
  BY DEF Take, CountUnlock, Return, HInv, LockBalanced, Ring
<1>2. /\ nunits \in Nat \ {0} /\ prevp \in Ring /\ p = ptr[prevp] /\ freep # NULL
      /\ base \in Ring /\ size[base] = 0
  BY <1>1, HeapAssumption DEF HInv, Locals, Started
<1>3. p \in Ring /\ size[p] \in Nat /\ nunits < size[p]
  BY <1>1, <1>2, Addresses DEF HInv, Ordered
<1>4. p # base /\ p \in Cells /\ p \in Nat /\ p \in Blocks
  BY <1>2, <1>3, Addresses DEF HInv, Apart, Blocks
<1>5. p + size[p] <= bss /\ t = p + (size[p] - nunits)
  BY <1>4 DEF HInv, Laid, InBounds, Tail
<1>6. t \in Cells /\ t # p /\ t \in Nat
  <2>1. /\ Lo \in Nat /\ Hi \in Nat /\ Cells = Lo .. Hi - 1
        /\ bss \in Nat /\ bss < Hi /\ Lo <= p
    BY <1>4, Addresses
  <2> HIDE DEF t
  <2>2. PICK k \in Nat : k = size[p] - nunits /\ k > 0
    BY <1>2, <1>3
  <2>3. t = p + k /\ p + k < bss
    <3>1. t = p + k
      BY <1>5, <2>2
    <3>2. k < size[p]
      BY <1>2, <1>3, <2>2
    <3> QED BY <1>3, <1>4, <1>5, <2>1, <3>1, <3>2
  <2>4. Lo <= p + k /\ p + k < Hi /\ p + k # p /\ p + k \in Nat
    BY <1>4, <2>1, <2>2, <2>3
  <2> QED BY <2>1, <2>3, <2>4
<1>7. /\ size' \in [D -> 0 .. Hi - Lo]
      /\ size'[p] = size[p] - nunits /\ size'[t] = nunits
      /\ \A a \in D \ {p, t} : size'[a] = size[a]
  <2>1. PICK k \in Nat : k = t
    BY <1>6
  <2>2. /\ size \in [D -> 0 .. Hi - Lo] /\ p \in D /\ k \in D /\ k # p
        /\ size' = [size EXCEPT ![p] = @ - nunits, ![k] = nunits]
    BY <1>1, <1>4, <1>6, <2>1 DEF HInv, TypeOK
  <2>3. size[p] - nunits \in 0 .. Hi - Lo /\ nunits \in 0 .. Hi - Lo
    <3>1. Lo \in Nat /\ Hi \in Nat
      BY Addresses
    <3>2. size[p] \in 0 .. Hi - Lo
      BY <2>2
    <3> QED BY <1>2, <1>3, <3>1, <3>2
  <2>4. /\ size' \in [D -> 0 .. Hi - Lo]
        /\ size'[p] = size[p] - nunits /\ size'[k] = nunits
        /\ \A a \in D \ {p, k} : size'[a] = size[a]
    BY <2>2, <2>3
  <2> QED BY <2>1, <2>4
<1> HIDE DEF t
<1>8. t \notin Blocks /\ Laid(Blocks \union {t}, size', bss)
  <2>1. PICK x \in Blocks, n \in Nat \ {0}, end \in Nat, y \in Nat :
                 x = p /\ n = nunits /\ end = bss /\ y = t
    <3>1. bss \in Nat
      BY Addresses
    <3> QED BY <1>2, <1>4, <1>6, <3>1
  <2>2. /\ Blocks \in SUBSET Nat /\ Laid(Blocks, size, end)
        /\ \A b \in Blocks : b \in D
    BY <2>1, Addresses DEF HInv
  <2>4. \A b \in Blocks : size[b] \in Nat
    BY Addresses
  <2>3. CutOff(Blocks, size, size', x, y, n)
    BY <1>3, <1>5, <1>7, <2>1, <2>2 DEF CutOff
  <2>5. y \notin Blocks /\ Laid(Blocks \union {y}, size', end)
    BY <2>2, <2>3, <2>4, SplitLaid
  <2> QED BY <2>1, <2>5
<1>9. t \notin Ring /\ t # base
  BY <1>6, <1>8, Addresses DEF Blocks
<1>10. Blocks' = Blocks \union {t}
  BY <1>1 DEF Blocks
<1>11. Laid(Blocks, size, bss)'
  BY <1>1, <1>8, <1>10
<1>12. Ordered(Ring, ptr)'
  BY <1>1 DEF HInv
<1>13. Coalesced'
  <2>1. ASSUME NEW b \in Ring \ {base} PROVE b + size'[b] \notin Ring \ {base}
    <3>1. CASE b = p
      <4>1. p + size'[p] = t
        BY <1>2, <1>3, <1>4, <1>5, <1>7
      <4> QED BY <1>9, <3>1, <4>1
    <3>2. CASE b # p
      <4>1. size'[b] = size[b]
        BY <1>7, <1>9, <2>1, <3>2, Addresses
      <4> QED BY <2>1, <4>1 DEF HInv, Coalesced
    <3> QED BY <3>1, <3>2
  <2> QED BY <1>1, <2>1 DEF Coalesced
<1>14. TypeOK'
  <2>1. prevp \in Addr /\ NULL \in Addr
    BY <1>2 DEF HInv, TypeOK, Addr
  <2>2. held' \subseteq Cells
    BY <1>1, <1>6 DEF HInv, TypeOK
  <2> QED BY <1>1, <1>7, <2>1, <2>2 DEF HInv, TypeOK
<1>15. LockBalanced' /\ Apart' /\ Locals'
  BY <1>1, <1>9 DEF HInv, LockBalanced, Apart, Locals
<1>16. Started'
  <2>1. size'[base] = 0
    BY <1>2, <1>4, <1>7, <1>9 DEF HInv, TypeOK
  <2>2. prevp # NULL
    BY <1>2, Addresses
  <2> QED BY <1>1, <1>2, <2>1, <2>2 DEF Started
<1> QED BY <1>11, <1>12, <1>13, <1>14, <1>15, <1>16 DEF HInv

\* Where sys$free links the block: between two blocks that are neighbours in the ring, so
\* that no third one can touch it.
LEMMA LinkPlace ==
  ASSUME HInv, Link, NEW q, q = p, NEW b, b = bp, NEW s, s = ptr[p]
  PROVE  /\ pc = "find" /\ q \in Ring /\ s \in Ring /\ b \in Blocks /\ b \notin Ring
         /\ b \in Cells /\ b \notin held
         /\ q \in Nat /\ b \in Nat /\ s \in Nat /\ size[b] \in Nat \ {0}
         /\ Inside(q, b, s)
         /\ b + size[b] = s => s \in Blocks /\ s # q /\ s # b
         /\ q + size[q] = b => q \in Blocks
         /\ b + size[b] # s => b + size[b] \notin Ring \ {base}
         /\ \A c \in Ring \ {base} : c # q => c + size[c] # b
<1>1. /\ pc = "find" /\ q \in Ring /\ b \in Cells /\ b \notin Ring /\ b \notin held
      /\ freep # NULL /\ base \in Ring /\ size[base] = 0
  BY DEF Link, HInv, Locals, Apart, Started
<1>2. s \in Ring /\ b \in Blocks
  BY <1>1 DEF HInv, Ordered, Blocks
<1>3. q \in Nat /\ b \in Nat /\ s \in Nat /\ base \in Nat
  BY <1>1, <1>2, Addresses
<1>4. Inside(q, b, s)
  BY <1>3 DEF Link, Between, AtEnd, Inside
<1>5. \A c \in Ring : c \in Nat /\ ~Inside(q, c, s)
  BY <1>1, Addresses DEF HInv, Ordered
<1>6. /\ Lo \in Nat /\ Hi \in Nat /\ bss < Hi /\ bss \in Nat
      /\ base < Lo \/ base >= Hi
      /\ \A c \in Cells : Lo <= c /\ c < Hi
  BY Addresses
<1>7. /\ \A c \in Ring \ {base} : c \in Blocks
      /\ \A c \in Blocks : /\ c \in Nat /\ size[c] \in Nat /\ size[c] > 0
                           /\ Lo <= c /\ c + size[c] <= bss
      /\ \A c, d \in Blocks : c < d => c + size[c] <= d
  <2>1. \A c \in Ring \ {base} : c \in Blocks
    BY DEF Blocks
  <2>2. \A c \in Blocks : c \in Nat /\ size[c] \in Nat
    BY Addresses
  <2> QED BY <2>1, <2>2 DEF HInv, Laid, InBounds, Disjoint
<1>8. size[b] \in Nat \ {0} /\ Lo <= b /\ b + size[b] <= bss
  BY <1>2, <1>7
<1>9. ASSUME b + size[b] = s PROVE s \in Blocks /\ s # q /\ s # b
  <2>1. s # base
    BY <1>3, <1>6, <1>8, <1>9
  <2>2. s # q
    BY <1>1, <1>3, <1>5, <2>1 DEF Inside
  <2> QED BY <1>2, <1>3, <1>7, <1>8, <1>9, <2>1, <2>2
<1>10. ASSUME q + size[q] = b PROVE q \in Blocks
  <2>1. q # base
    BY <1>1, <1>3, <1>6, <1>10
  <2> QED BY <1>1, <1>7, <2>1
<1>11. ASSUME NEW c \in Ring \ {base}, b + size[b] = c PROVE c = s
  <2>1. c \in Blocks /\ c \in Nat /\ ~Inside(q, c, s) /\ b < c /\ c <= bss
    BY <1>3, <1>5, <1>7, <1>8, <1>11
  <2>2. s # base => s \in Blocks /\ (b < s => b + size[b] <= s)
    BY <1>2, <1>7
  <2>3. CASE s = base
    BY <1>3, <1>4, <1>6, <1>8, <2>1, <2>3 DEF Inside
  <2>4. CASE s # base
    BY <1>3, <1>4, <1>8, <1>11, <2>1, <2>2, <2>4 DEF Inside
  <2> QED BY <2>3, <2>4
<1>12. ASSUME NEW c \in Ring \ {base}, c # q PROVE c + size[c] # b
  <2> SUFFICES ASSUME c + size[c] = b PROVE FALSE
    OBVIOUS
  <2>1. c \in Blocks /\ c \in Nat /\ ~Inside(q, c, s) /\ c < b /\ Lo <= c /\ size[c] \in Nat
    BY <1>3, <1>5, <1>7, <1>12
  <2>2. q # base => q \in Blocks /\ (c < q => c + size[c] <= q)
    BY <1>1, <1>7, <2>1
  <2>3. CASE q = base
    BY <1>3, <1>4, <1>6, <1>8, <1>12, <2>1, <2>3 DEF Inside
  <2>4. CASE q # base
    BY <1>3, <1>4, <1>12, <2>1, <2>2, <2>4 DEF Inside
  <2> QED BY <2>3, <2>4
<1> QED BY <1>1, <1>2, <1>3, <1>4, <1>8, <1>9, <1>10, <1>11, <1>12

\* What sys$free writes at the place it has found, whichever neighbours it joins.
LEMMA LinkWrites ==
  ASSUME HInv, Link, NEW q, q = p, NEW b, b = bp, NEW s, s = ptr[p]
  PROVE  LET D    == Cells \union Bases
             up   == b + size[b] = s
             down == q + size[q] = b
             len  == IF up THEN size[b] + size[s] ELSE size[b]
             succ == IF up THEN ptr[s] ELSE s
         IN  /\ \A a \in D :
                  ptr'[a] = IF (up /\ a = s) \/ (down /\ a = b) THEN NULL
                            ELSE IF a = q THEN IF down THEN succ ELSE b
                            ELSE IF a = b THEN succ ELSE ptr[a]
             /\ \A a \in D :
                  size'[a] = IF (up /\ a = s) \/ (down /\ a = b) THEN 0
                             ELSE IF a = q THEN IF down THEN size[q] + len ELSE size[q]
                             ELSE IF a = b THEN len ELSE size[a]
             /\ ptr' = [a \in D |-> ptr'[a]] /\ size' = [a \in D |-> size'[a]]
<1> DEFINE D    == Cells \union Bases
           up   == b + size[b] = s
           down == q + size[q] = b
           len  == IF up THEN size[b] + size[s] ELSE size[b]
           succ == IF up THEN ptr[s] ELSE s
           gone == (IF up THEN {s} ELSE {}) \union (IF down THEN {b} ELSE {})
<1>1. /\ DOMAIN ptr = D /\ DOMAIN size = D /\ ptr \in [D -> Addr]
      /\ size \in [D -> 0 .. Hi - Lo]
      /\ q \in D /\ b \in D /\ q # b
  BY LinkPlace, Addresses DEF HInv, TypeOK
<1>2. IF down
        THEN /\ size' = Forget([size EXCEPT ![q] = @ + len], gone)
             /\ ptr' = Forget([ptr EXCEPT ![q] = succ], gone)
        ELSE /\ size' = Forget([size EXCEPT ![b] = len], gone)
             /\ ptr' = Forget([ptr EXCEPT ![b] = succ, ![q] = b], gone)
  BY DEF Link, JoinsUpper, JoinsLower
<1>3. \A a : a \in gone <=> (up /\ a = s) \/ (down /\ a = b)
  OBVIOUS
<1> HIDE DEF D, up, down, len, succ, gone
<1>4. CASE down
  <2>1. PICK f, g : f = [ptr EXCEPT ![q] = succ] /\ g = [size EXCEPT ![q] = @ + len]
    OBVIOUS
  <2>2. /\ DOMAIN f = D /\ f[q] = succ /\ \A a \in D \ {q} : f[a] = ptr[a]
        /\ DOMAIN g = D /\ g[q] = size[q] + len /\ \A a \in D \ {q} : g[a] = size[a]
    BY <1>1, <2>1
  <2>3. ptr' = Forget(f, gone) /\ size' = Forget(g, gone)
    BY <1>2, <1>4, <2>1
  <2>4. /\ ptr' = [a \in D |-> ptr'[a]] /\ size' = [a \in D |-> size'[a]]
        /\ \A a \in D : ptr'[a] = IF a \in gone THEN 0 ELSE f[a]
        /\ \A a \in D : size'[a] = IF a \in gone THEN 0 ELSE g[a]
    BY <2>2, <2>3 DEF Forget
  <2>5. ASSUME NEW a \in D
        PROVE  /\ ptr'[a] = IF (up /\ a = s) \/ (down /\ a = b) THEN NULL
                            ELSE IF a = q THEN IF down THEN succ ELSE b
                            ELSE IF a = b THEN succ ELSE ptr[a]
               /\ size'[a] = IF (up /\ a = s) \/ (down /\ a = b) THEN 0
                             ELSE IF a = q THEN IF down THEN size[q] + len ELSE size[q]
                             ELSE IF a = b THEN len ELSE size[a]
    BY <1>3, <1>4, <2>2, <2>4 DEF NULL
  <2> QED BY <2>4, <2>5 DEF D, up, down, len, succ
<1>5. CASE ~down
  <2>1. PICK f, g : f = [ptr EXCEPT ![b] = succ, ![q] = b] /\ g = [size EXCEPT ![b] = len]
    OBVIOUS
  <2>2. /\ DOMAIN f = D /\ f[q] = b /\ f[b] = succ /\ \A a \in D \ {q, b} : f[a] = ptr[a]
        /\ DOMAIN g = D /\ g[b] = len /\ \A a \in D \ {b} : g[a] = size[a]
    BY <1>1, <2>1
  <2>3. ptr' = Forget(f, gone) /\ size' = Forget(g, gone)
    BY <1>2, <1>5, <2>1
  <2>4. /\ ptr' = [a \in D |-> ptr'[a]] /\ size' = [a \in D |-> size'[a]]
        /\ \A a \in D : ptr'[a] = IF a \in gone THEN 0 ELSE f[a]
        /\ \A a \in D : size'[a] = IF a \in gone THEN 0 ELSE g[a]
    BY <2>2, <2>3 DEF Forget
  <2>5. ASSUME NEW a \in D
        PROVE  /\ ptr'[a] = IF (up /\ a = s) \/ (down /\ a = b) THEN NULL
                            ELSE IF a = q THEN IF down THEN succ ELSE b
                            ELSE IF a = b THEN succ ELSE ptr[a]
               /\ size'[a] = IF (up /\ a = s) \/ (down /\ a = b) THEN 0
                             ELSE IF a = q THEN IF down THEN size[q] + len ELSE size[q]
                             ELSE IF a = b THEN len ELSE size[a]
    BY <1>1, <1>3, <1>5, <2>2, <2>4 DEF NULL
  <2> QED BY <2>4, <2>5 DEF D, up, down, len, succ
<1> QED BY <1>4, <1>5

\* A block linked into the ring and joined to its neighbours keeps the ring in order.
LEMMA LinkOrdered ==
  ASSUME HInv, Link, NEW q, q = p, NEW b, b = bp, NEW s, s = ptr[p]
  PROVE  /\ Ring' = ((Ring \union {b}) \ (IF b + size[b] = s THEN {s} ELSE {}))
                      \ (IF q + size[q] = b THEN {b} ELSE {})
         /\ Ordered(Ring', ptr')
<1> DEFINE D    == Cells \union Bases
           up   == b + size[b] = s
           down == q + size[q] = b
           succ == IF up THEN ptr[s] ELSE s
           f    == [a \in D |-> IF a = q THEN b ELSE IF a = b THEN s ELSE ptr[a]]
           g    == [a \in D |-> IF a = q THEN b ELSE IF a = b THEN succ ELSE ptr[a]]
           R    == IF up THEN (Ring \union {b}) \ {s} ELSE Ring \union {b}
<1>1. /\ q \in Ring /\ s \in Ring /\ b \notin Ring /\ b \in D /\ q \in Nat /\ b \in Nat
      /\ s \in Nat /\ Inside(q, b, s) /\ (up => s # q /\ s # b) /\ s = ptr[q] /\ q # b
  BY LinkPlace
<1>2. /\ Ring \in SUBSET Nat /\ NULL \notin Ring /\ Ring \subseteq D /\ Ordered(Ring, ptr)
      /\ \A a \in Ring : ptr[a] \in Ring
      /\ \A a \in D : a \in Ring <=> ptr[a] # NULL
  BY Addresses DEF HInv, Ordered, Ring, TypeOK
<1>3. DOMAIN ptr' = D /\ \A a \in D :
        ptr'[a] = IF (up /\ a = s) \/ (down /\ a = b) THEN NULL
                  ELSE IF a = q THEN IF down THEN succ ELSE b
                  ELSE IF a = b THEN succ ELSE ptr[a]
  BY LinkWrites
<1>4. b # NULL /\ succ \in Ring
  BY <1>1, <1>2, LinkPlace, Addresses
<1>5. /\ f[q] = b /\ f[b] = s /\ \A a \in Ring \ {q} : f[a] = ptr[a]
      /\ g[q] = b /\ g[b] = succ /\ \A a \in Ring \ {q} : g[a] = ptr[a]
  BY <1>1, <1>2
<1> HIDE DEF D, up, down, succ, f, g
<1>6. Ring' = (IF down THEN R \ {b} ELSE R)
  <2>1. \A a \in D : a \in Ring' <=> ptr'[a] # NULL
    BY <1>3 DEF Ring
  <2>2. Ring' \subseteq D
    BY <1>3 DEF Ring
  <2>3. R \subseteq D
    BY <1>1, <1>2
  <2>4. ASSUME NEW a \in D PROVE a \in Ring' <=> a \in (IF down THEN R \ {b} ELSE R)
    BY <1>1, <1>2, <1>3, <1>4, <2>1, <2>4
  <2> QED BY <2>2, <2>3, <2>4
<1>7. Ordered(Ring \union {b}, f)
  BY <1>1, <1>2, <1>5, InsertOrdered
<1>8. Ordered(R, g)
  <2>1. CASE ~up
    <3>1. succ = s
      BY <2>1 DEF succ
    <3> QED BY <1>5, <1>7, <2>1, <3>1 DEF Ordered
  <2>2. CASE up
    <3>1. s # b /\ s # q /\ succ = ptr[s]
      BY <1>1, <2>2 DEF succ
    <3>2. /\ /\ Ring \union {b} \in SUBSET Nat /\ b \in Ring \union {b}
          /\ s \in Ring \union {b}
          /\ f[b] = s /\ g[b] = f[s]
          /\ \A a \in (Ring \union {b}) \ {b, s} : g[a] = f[a]
      BY <1>1, <1>2, <1>5, <3>1
    <3>3. Ordered((Ring \union {b}) \ {s}, g)
      BY <1>7, <3>1, <3>2, RemoveOrdered
    <3> QED BY <2>2, <3>3
  <2> QED BY <2>1, <2>2
<1>9. q \in R /\ b \in R /\ R \in SUBSET Nat /\ R \subseteq D
  BY <1>1, <1>2
<1> HIDE DEF R
<1>10. \A a \in R \ {q, b} : ptr'[a] = g[a]
  BY <1>2, <1>3, <1>5 DEF R
<1>11. Ordered(Ring', ptr')
  <2>1. CASE ~down
    <3>1. \A a \in R : ptr'[a] = g[a]
      BY <1>1, <1>3, <1>5, <1>9, <1>10, <2>1 DEF R
    <3>2. Ordered(R, ptr')
      BY <1>8, <3>1 DEF Ordered
    <3> QED BY <1>6, <2>1, <3>2
  <2>2. CASE down
    <3>1. ptr'[q] = g[b]
      BY <1>1, <1>2, <1>3, <1>5, <2>2
    <3>2. Ordered(R \ {b}, ptr')
      BY <1>1, <1>5, <1>8, <1>9, <1>10, <3>1, RemoveOrdered
    <3> QED BY <1>6, <2>2, <3>2
  <2> QED BY <2>1, <2>2
<1>12. Ring' = ((Ring \union {b}) \ (IF b + size[b] = s THEN {s} ELSE {}))
                      \ (IF q + size[q] = b THEN {b} ELSE {})
  BY <1>6 DEF R, up, down
<1> QED BY <1>11, <1>12

\* A block freed and joined to its neighbours: the heap is tiled as before.
LEMMA LinkLaid ==
  ASSUME HInv, Link, NEW q, q = p, NEW b, b = bp, NEW s, s = ptr[p]
  PROVE  Blocks' \subseteq Blocks /\ Laid(Blocks', size', bss)
<1> DEFINE D    == Cells \union Bases
           up   == b + size[b] = s
           down == q + size[q] = b
           len  == IF up THEN size[b] + size[s] ELSE size[b]
           tz   == [a \in D |-> IF a = b THEN len ELSE size[a]]
           B    == IF up THEN Blocks \ {s} ELSE Blocks
<1>1. /\ b \in Blocks /\ (up => s \in Blocks /\ s # q /\ s # b) /\ (down => q \in Blocks)
      /\ q \in Nat /\ b \in Nat /\ s \in Nat /\ q # b /\ pc = "find"
      /\ q \in Ring /\ s \in Ring /\ b \notin Ring /\ b \notin held
  BY LinkPlace
<1>2. /\ /\ Blocks \in SUBSET Nat /\ Blocks \subseteq D /\ Laid(Blocks, size, bss)
      /\ bss \in Nat
      /\ \A a \in D : size[a] \in Nat
  BY Addresses DEF HInv
<1>3. /\ \A a \in D : size'[a] = IF (up /\ a = s) \/ (down /\ a = b) THEN 0
                                 ELSE IF a = q THEN IF down THEN size[q] + len ELSE size[q]
                                 ELSE IF a = b THEN len ELSE size[a]
  BY LinkWrites
<1>4. /\ Ring' = ((Ring \union {b}) \ (IF up THEN {s} ELSE {})) \ (IF down THEN {b} ELSE {})
      /\ UNCHANGED <<base, bss, held>> /\ pc' # "find"
  BY LinkOrdered DEF Link, Return
<1>5. tz[b] = len /\ \A a \in D \ {b} : tz[a] = size[a]
  BY <1>1, <1>2
<1>6. len \in Nat
  BY <1>1, <1>2
<1> HIDE DEF D, up, down, tz
<1>7. Blocks' = (IF down THEN B \ {b} ELSE B)
  <2>1. Blocks = (Ring \ {base}) \union held \union {b}
    BY <1>1 DEF Blocks
  <2>2. Blocks' = (Ring' \ {base}) \union held
    BY <1>4 DEF Blocks
  <2>3. base # b /\ base \notin Blocks
    BY <1>1, Addresses
  <2>4. Ring \intersect held = {}
    BY DEF HInv, Apart
  <2> QED BY <1>1, <1>4, <2>1, <2>2, <2>3, <2>4
<1>8. Laid(B, tz, bss)
  <2>1. CASE ~up
    <3>1. len = size[b] /\ B = Blocks
      BY <2>1
    <3>2. \A a \in Blocks : tz[a] = size[a]
      BY <1>2, <1>5, <3>1
    <3> QED BY <1>2, <3>1, <3>2 DEF Laid, InBounds, Disjoint, Covers
  <2>2. CASE up
    <3>1. len = size[b] + size[s] /\ B = Blocks \ {s}
      BY <2>2
    <3>2. Joined(Blocks, size, tz, b, s)
      BY <1>2, <1>5, <2>2, <3>1 DEF Joined, up
    <3>3. \A a \in Blocks : size[a] \in Nat
      BY <1>2
    <3> QED BY <1>1, <1>2, <2>2, <3>1, <3>2, <3>3, MergeLaid
  <2> QED BY <2>1, <2>2
<1>9. B \in SUBSET Nat /\ B \subseteq D /\ b \in B /\ (down => q \in B) /\ (up => s \notin B)
  BY <1>1, <1>2
<1> HIDE DEF B, len
<1>10. CASE ~down
  <2>1. \A a \in B : size'[a] = tz[a]
    BY <1>3, <1>5, <1>9, <1>10, <1>1
  <2> QED BY <1>7, <1>8, <1>10, <2>1 DEF Laid, InBounds, Disjoint, Covers, B
<1>11. CASE down
  <2>1. /\ size'[q] = size[q] + len /\ tz[q] = size[q] /\ tz[b] = len /\ q \in B /\ b \in B
        /\ \A a \in B \ {q, b} : size'[a] = tz[a]
    BY <1>1, <1>3, <1>5, <1>9, <1>11
  <2>2. Joined(B, tz, size', q, b)
    BY <1>11, <2>1 DEF Joined, down
  <2>3. \A a \in B : tz[a] \in Nat
    BY <1>2, <1>5, <1>6, <1>9
  <2>4. Laid(B \ {b}, size', bss)
    BY <1>2, <1>8, <1>9, <2>1, <2>2, <2>3, MergeLaid
  <2> QED BY <1>7, <1>11, <2>4 DEF B
<1> QED BY <1>10, <1>11

\* No free block ends where another starts after a block was linked and joined.
LEMMA LinkCoalesced ==
  ASSUME HInv, Link, NEW q, q = p, NEW b, b = bp, NEW s, s = ptr[p]
  PROVE  Coalesced'
<1> DEFINE D    == Cells \union Bases
           up   == b + size[b] = s
           down == q + size[q] = b
           len  == IF up THEN size[b] + size[s] ELSE size[b]
<1>1. /\ b \in D /\ q \in Nat /\ b \in Nat /\ s \in Nat /\ size[b] \in Nat \ {0} /\ q # b
      /\ (up => s \in Blocks) /\ q \in Ring /\ s \in Ring /\ b \notin Ring
      /\ ~up => b + size[b] \notin Ring \ {base}
      /\ \A c \in Ring \ {base} : c # q => c + size[c] # b
  BY LinkPlace
<1>2. /\ \A a \in D : size[a] \in Nat
      /\ Ring \subseteq D /\ Ring \subseteq Nat /\ base \notin Blocks
      /\ \A c \in Ring \ {base} : c + size[c] \notin Ring \ {base}
  BY Addresses DEF HInv, Coalesced
<1>3. \A a \in D : size'[a] = IF (up /\ a = s) \/ (down /\ a = b) THEN 0
                              ELSE IF a = q THEN IF down THEN size[q] + len ELSE size[q]
                              ELSE IF a = b THEN len ELSE size[a]
  BY LinkWrites
<1>4. /\ Ring' = ((Ring \union {b}) \ (IF up THEN {s} ELSE {})) \ (IF down THEN {b} ELSE {})
      /\ base' = base
  BY LinkOrdered DEF Link
\* The joined block ends where no free one starts.
<1>5. b + len \notin Ring \ {base} /\ b + len # b /\ len \in Nat
  <2>1. CASE ~up
    BY <1>1, <2>1
  <2>2. CASE up
    <3>1. s # base /\ size[s] \in Nat /\ s + size[s] \notin Ring \ {base}
      BY <1>1, <1>2, <2>2
    <3>2. b + len = s + size[s] /\ len \in Nat /\ len > 0
      BY <1>1, <2>2, <3>1
    <3> QED BY <1>1, <3>1, <3>2
  <2> QED BY <2>1, <2>2
<1> HIDE DEF D, len, up
<1>6. ASSUME NEW c \in Ring' \ {base} PROVE c + size'[c] \notin Ring' \ {base}
  <2>1. Ring' \ {base} \subseteq (Ring \ {base}) \union {b} /\ (down => b \notin Ring')
    BY <1>4
  <2>2. CASE c = b
    <3>1. ~down /\ size'[b] = len
      BY <1>1, <1>3, <1>4, <1>6, <2>1, <2>2
    <3> QED BY <1>5, <2>1, <2>2, <3>1
  <2>3. CASE c = q /\ down
    <3>1. size'[q] = size[q] + len /\ q + size'[q] = b + len
      BY <1>1, <1>2, <1>3, <1>4, <1>5, <1>6, <2>3
    <3> QED BY <1>5, <2>1, <2>3, <3>1
  <2>4. CASE c # b /\ ~(c = q /\ down)
    <3>1. c \in Ring \ {base} /\ c \in D /\ ~(up /\ c = s)
      BY <1>2, <1>4, <1>6, <2>4
    <3>2. size'[c] = size[c]
      BY <1>3, <2>4, <3>1
    <3>3. down \/ c + size[c] # b
      BY <1>1, <2>4, <3>1
    <3> QED BY <1>2, <2>1, <3>1, <3>2, <3>3
  <2> QED BY <2>2, <2>3, <2>4
<1> QED BY <1>4, <1>6 DEF Coalesced

\* sys$free links the block and returns, to its caller or to the search of sys$alloc.
LEMMA StepLink ==
  ASSUME HInv, Link
  PROVE  HInv'
<1>0. PICK q, b, s : q = p /\ b = bp /\ s = ptr[p]
  OBVIOUS
<1> DEFINE D    == Cells \union Bases
           up   == b + size[b] = s
           down == q + size[q] = b
           len  == IF up THEN size[b] + size[s] ELSE size[b]
           succ == IF up THEN ptr[s] ELSE s
<1>1. /\ pc = "find" /\ q \in Ring /\ s \in Ring /\ b \in Blocks /\ b \notin Ring
      /\ b \in Cells /\ b \notin held /\ q # b
      /\ up => s \in Blocks /\ s # q /\ s # b
      /\ down => q \in Blocks
  BY <1>0, LinkPlace
<1>2. /\ Ring' = ((Ring \union {b}) \ (IF up THEN {s} ELSE {})) \ (IF down THEN {b} ELSE {})
      /\ Ordered(Ring', ptr')
  BY <1>0, LinkOrdered
<1>3. Laid(Blocks', size', bss) /\ Blocks' \subseteq Blocks
  BY <1>0, LinkLaid
<1>4. Coalesced'
  BY <1>0, LinkCoalesced
<1>5. /\ ptr' = [a \in D |-> ptr'[a]] /\ size' = [a \in D |-> size'[a]]
      /\ \A a \in D : ptr'[a] = IF (up /\ a = s) \/ (down /\ a = b) THEN NULL
                                ELSE IF a = q THEN IF down THEN succ ELSE b
                                ELSE IF a = b THEN succ ELSE ptr[a]
      /\ \A a \in D : size'[a] = IF (up /\ a = s) \/ (down /\ a = b) THEN 0
                                 ELSE IF a = q THEN IF down THEN size[q] + len ELSE size[q]
                                 ELSE IF a = b THEN len ELSE size[a]
  BY <1>0, LinkWrites
<1>6. /\ freep' = q /\ UNCHANGED <<base, bss, held, backed, mapped>>
      /\ \/ /\ ret = "scan" /\ pc' = "scan" /\ prevp' = q /\ p' = ptr'[q] /\ count' = 1
            /\ UNCHANGED <<bp, nunits, ret>>
         \/ /\ ret = "idle" /\ pc' = "idle" /\ p' = NULL /\ prevp' = NULL /\ bp' = NULL
            /\ nunits' = 0 /\ ret' = "idle" /\ count' = 0
  <2>1. ret \in {"scan", "idle"} /\ count = IF ret = "scan" THEN 2 ELSE 1
    BY <1>1 DEF HInv, LockBalanced, TypeOK
  <2> QED BY <1>0, <2>1 DEF Link, CountUnlock, Return
<1>7. /\ freep # NULL /\ base \in Ring /\ size[base] = 0 /\ base \in D /\ base \notin Blocks
      /\ Ring \subseteq D /\ Ring \subseteq Addr /\ NULL \notin Ring
      /\ base \notin Cells /\ \A a \in D : ptr[a] \in Addr
      /\ \A a \in Ring : ptr[a] \in Ring
  BY <1>1, Addresses DEF HInv, Started, TypeOK, Addr, Ordered
<1> HIDE DEF up, down
<1>8. q \in Ring' /\ base \in Ring' /\ b \in Addr /\ b \in D
  BY <1>1, <1>2, <1>7 DEF Addr
<1>9. size'[base] = 0
  BY <1>1, <1>5, <1>7
<1>10. ptr' \in [D -> Addr]
  <2>1. succ \in Addr /\ NULL \in Addr
    BY <1>1, <1>7 DEF Addr
  <2>2. \A a \in D : ptr'[a] \in Addr
    BY <1>5, <1>7, <1>8, <2>1
  <2> QED BY <1>5, <2>2
<1>11. size' \in [D -> 0 .. Hi - Lo]
  <2>1. ASSUME NEW a \in D PROVE size'[a] \in 0 .. Hi - Lo
    <3>1. size[a] \in 0 .. Hi - Lo /\ 0 \in 0 .. Hi - Lo
      BY Addresses DEF HInv, TypeOK
    <3>2. size'[a] \in Nat
      <4>1. \A c \in D : size[c] \in Nat
        BY Addresses
      <4>2. len \in Nat /\ size[q] \in Nat
        BY <1>1, <1>7, <1>8, <4>1
      <4> HIDE DEF len
      <4> QED BY <1>5, <4>1, <4>2
    <3>3. CASE a \in Blocks'
      <4>1. Lo <= a /\ a + size'[a] <= bss
        BY <1>3, <3>3 DEF Laid, InBounds
      <4>2. Lo \in Nat /\ Hi \in Nat /\ bss \in Nat /\ bss < Hi /\ a \in Nat
        BY <1>3, <3>3, Addresses
      <4> QED BY <3>2, <4>1, <4>2
    <3>4. CASE a \notin Blocks'
      <4>1. Blocks' = (Ring' \ {base}) \union held
        BY <1>6 DEF Blocks
      <4>2. ~(a = q /\ down)
        BY <1>1, <1>7, <1>8, <3>4, <4>1
      <4>3. ~(a = b /\ ~down)
        BY <1>1, <1>2, <1>7, <3>4, <4>1
      <4> HIDE DEF len
      <4> QED BY <1>5, <3>1, <4>2, <4>3
    <3> QED BY <3>3, <3>4
  <2> QED BY <1>5, <2>1
<1>12. TypeOK'
  <2>1. /\ q \in Addr /\ NULL \in Addr /\ ptr'[q] \in Addr /\ 0 \in 0 .. 2 /\ 1 \in 0 .. 2
    BY <1>1, <1>7, <1>10 DEF Addr
  <2>2. TypeOK /\ freep' \in Addr /\ p' \in Addr /\ prevp' \in Addr /\ bp' \in Addr
    BY <1>6, <2>1 DEF HInv, TypeOK
  <2> QED BY <1>6, <1>10, <1>11, <2>1, <2>2 DEF TypeOK
<1>13. LockBalanced'
  BY <1>6 DEF LockBalanced
<1>14. Apart'
  BY <1>1, <1>2, <1>6 DEF HInv, Apart
<1>15. Started'
  BY <1>6, <1>7, <1>8, <1>9, <1>1 DEF Started
<1>16. Locals'
  BY <1>1, <1>6, <1>8 DEF HInv, Locals
<1>17. Ordered(Ring, ptr)' /\ Laid(Blocks, size, bss)'
  BY <1>2, <1>3, <1>6
<1> QED BY <1>4, <1>12, <1>13, <1>14, <1>15, <1>16, <1>17 DEF HInv

\* Every step of the specification preserves the invariant.
LEMMA NextHInv == HInv /\ [Next]_vars => HInv'
<1> SUFFICES ASSUME HInv, [Next]_vars PROVE HInv'
  OBVIOUS
<1>1. CASE Next
  BY <1>1, StepAlloc, StepFree, StepTakeAll, StepTakeTail, StepSearch, StepMoreFails,
     StepMore, StepLink DEF Next
<1>2. CASE UNCHANGED vars
  <2>1. TypeOK' /\ LockBalanced' /\ Apart' /\ Started' /\ Locals' /\ Blocks' = Blocks
    BY <1>2 DEF vars, HInv, TypeOK, LockBalanced, Apart, Started, Locals, Blocks, Ring
  <2> QED BY <1>2, <2>1, SameHeap DEF vars
<1> QED BY <1>1, <1>2

\* The invariant holds in every state the kernel heap reaches.
LEMMA HeapInvariance == Spec => []HInv
BY InitHInv, NextHInv, PTL DEF Spec

-----------------------------------------------------------------------------
(***************************************************************************)
(* The theorems                                                            *)
(***************************************************************************)

\* In every reachable state the free list is one ring in address order, and the free
\* blocks, those in use and the one being freed tile the heap below vms$bss: sys$alloc,
\* sys$free and sys$morecore lose no unit and give none out twice, in whatever order they
\* are called.
THEOREM HeapTiled == Spec => []Tiles
<1>1. HInv => Tiles
  <2> SUFFICES ASSUME HInv PROVE Tiles
    OBVIOUS
  <2>1. TypeOK
    BY DEF HInv
  <2>2. OneRing
    BY DEF HInv, Started, Ordered, OneRing
  <2>3. \A b \in Blocks : Lo <= b /\ size[b] > 0 /\ b + size[b] <= bss
    BY DEF HInv, Laid, InBounds
  <2>4. ASSUME NEW u \in Lo .. bss - 1
        PROVE  \E b \in Blocks : /\ b <= u /\ u < b + size[b]
                                 /\ \A c \in Blocks \ {b} : ~(c <= u /\ u < c + size[c])
    <3>1. PICK b \in Blocks : b <= u /\ u < b + size[b]
      BY DEF HInv, Laid, Covers
    <3>2. u \in Nat /\ \A c \in Blocks : c \in Nat /\ size[c] \in Nat
      BY <2>4, Addresses
    <3>3. \A c \in Blocks \ {b} : ~(c <= u /\ u < c + size[c])
      BY <3>1, <3>2 DEF HInv, Laid, Disjoint
    <3> QED BY <3>1, <3>3
  <2> QED BY <2>1, <2>2, <2>3, <2>4 DEF Tiles
<1> QED BY <1>1, HeapInvariance, PTL

\* In every reachable state no free block ends where another one starts: sys$free joins
\* what it frees with both neighbours, and no allocation takes them apart again.
THEOREM NeighboursJoined == Spec => []Coalesced
<1>1. HInv => Coalesced
  BY DEF HInv
<1> QED BY <1>1, HeapInvariance, PTL

\* The counting lock of the heap is held exactly as often as a call in progress has taken
\* it: once, and twice while sys$morecore frees the new pages for sys$alloc.
THEOREM LockAlwaysBalanced == Spec => []LockBalanced
<1>1. HInv => LockBalanced
  BY DEF HInv
<1> QED BY <1>1, HeapInvariance, PTL
=============================================================================
