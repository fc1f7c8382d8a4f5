-------------------------- MODULE FpageAllocProofs --------------------------
(***************************************************************************)
(* FpageAlloc's page exclusion, alignment and "no NULL slab", for every    *)
(* set of fpage sizes, memory map, pool capacity and sequence of requests. *)
(*                                                                         *)
(* Exclusive is not inductive by itself.  Whether a page may be put on a   *)
(* list depends on whose it is, and that on the point of execution: the    *)
(* conjuncts below say what each local variable of the C routines holds at *)
(* each pc, and that what a routine is going to give back (the chunk of a  *)
(* memsection, the fpages that back it, a region of the memory map) is     *)
(* there, in one piece, to be given back.  The proof has one lemma per     *)
(* action.                                                                 *)
(*                                                                         *)
(* The later sections add who owns what (NothingLost, NoOrphan, Backed,    *)
(* SlabsBalance) and the segments of FixedSections, which are loaded by    *)
(* the same routines.                                                      *)
(***************************************************************************)
EXTENDS FixedSections, TLAPS, ListFacts, FiniteSetTheorems

\* Where a routine of sys_alloc.c holds pages in its local variables, and where
\* none does.  In the flush loop it may hold the chunk that is freed next.
Holding     == {"split", "chunk", "lnode", "free", "load"}
EmptyHanded == PCs \ (Holding \union {"clear", "node"} \union Halts)

\* The points inside sys$fpage_free_chunk and those it returns to.
Freeing == {"free", "load", "clear", "node"}
Resumes == {"fail", "back", "undone", "boot_pm_rest", "boot_vm_rest"}

\* The virtual range of the memsection being created.
Chunk == [base |-> op.at, size |-> op.size]

\* Where the creation in progress has a size, and where it owns its range.
SizedOp  == \/ pc \in {"new", "insert", "chunk"}
            \/ pc \in {"alloc", "split"} /\ ret = "chunk"
HasChunk == \/ pc \in {"back", "list", "lnode", "undo", "undone"}
            \/ pc \in {"alloc", "split"} /\ ret = "lnode"
            \/ pc \in Freeing /\ ret \in {"back", "undone"}

\* Needed wherever pages leave or enter a routine's hands.
HandInv == /\ pc \in Holding => hand.size > 0
           /\ pc \in EmptyHanded => hand.size = 0

\* sys$fpage_alloc returns to sys$fpage_alloc_chunk with virtual pages and to
\* sys$fpage_alloc_list with physical ones.
RetInv == /\ pc \in {"alloc", "split"} => \/ ret = "chunk" /\ al = "vm"
                                          \/ ret = "lnode" /\ al = "pm"
          /\ pc = "chunk" => al = "vm"
          /\ pc = "lnode" => al = "pm"
          /\ pc \in Freeing => ret \in Resumes \/ (op.flags = "fixed" /\ ret \in {"above", "scan"})

\* A cache only grows inside a call of sys$slab_cache_alloc.
GrowInv == Growing => pc \in {"node", "split", "lnode", "insert", "new"} \union Halts

\* An active internal region has a page, except at the loop test of
\* sys$fpage_clear_internal, where no cache grows: this is why
\* sys$fpage_alloc_internal always finds one.
ActiveInv == \A a \in Allocs : internal[a].active =>
               internal[a].base < internal[a].end \/ (pc = "clear" /\ al = a)

\* The range a failed creation gives back was handed out to it, and not by the
\* memory map.
ChunkInv == /\ SizedOp => op.size > 0
            /\ HasChunk /\ op.flags # "fixed" =>
                 /\ Chunk \in used["vm"]
                 /\ \A i \in pending["vm"] : RegionAt("vm", i) # Chunk

\* So were the fpages of its list, each once.
ListInv == \A e \in op.list :
             /\ e.fpage \in used["pm"]
             /\ \A i \in pending["pm"] : RegionAt("pm", i) # e.fpage
             /\ \A d \in op.list : d.fpage = e.fpage => d = e

\* A region that sys$bootstrap has not yet handed over belongs to nobody else.
PendInv == \A a \in Allocs : \A i \in pending[a] :
             i \in DOMAIN mem.regions[a] /\ RegionAt(a, i) \in used[a]

\* A step of the allocators: any, or one below the creation of a fixed memsection.
AllocStep == (op.flags # "fixed" /\ [Next]_vars) \/ Callees

IInv == /\ TypeOK
        /\ Aligned
        /\ HandInv
        /\ RetInv
        /\ GrowInv
        /\ ActiveInv
        /\ NeverNull
        /\ ChunkInv
        /\ ListInv
        /\ PendInv
        /\ Exclusive

-----------------------------------------------------------------------------
\* Euclidean division, as the provers use it.
LEMMA DivMod ==
  ASSUME NEW b \in Nat, NEW h \in Nat \ {0}
  PROVE  b \div h \in Nat /\ b = (h * (b \div h)) + (b % h)
BY SMT

\* A multiple of h leaves no remainder.
LEMMA Multiple ==
  ASSUME NEW k \in Nat, NEW h \in Nat \ {0}
  PROVE  (h * k) % h = 0 /\ (h * k) \div h = k
BY SMT

\* An address aligned to 2h is aligned to h, the page of size h there is the
\* lower of its two buddies, and the upper one is aligned too: what a split of
\* sys$fpage_alloc relies on.
LEMMA HalfAligned ==
  ASSUME NEW b \in Nat, NEW h \in Nat \ {0}, b % (2 * h) = 0
  PROVE  b % h = 0 /\ (b \div h) % 2 = 0 /\ (b + h) % h = 0
<1>1. PICK n \in Nat \ {0} : n = 2 * h
  OBVIOUS
<1> DEFINE k == b \div n
<1>2. k \in Nat /\ b = n * k
  <2>1. k \in Nat /\ b = (n * k) + (b % n)
    BY DivMod
  <2> QED BY <1>1, <2>1
<1> HIDE DEF k
<1>3. 2 * k \in Nat /\ b = h * (2 * k)
  BY <1>1, <1>2
<1>4. (2 * k) + 1 \in Nat /\ b + h = h * ((2 * k) + 1)
  BY <1>1, <1>2
<1>5. b % h = 0 /\ b \div h = 2 * k
  BY <1>3, Multiple
<1>6. (b + h) % h = 0
  BY <1>4, Multiple
<1>7. (2 * k) % 2 = 0
  BY <1>2
<1> QED BY <1>5, <1>6, <1>7

\* The regions of the memory map are regions, pairwise disjoint and hence
\* distinct.
LEMMA RegionFacts ==
  ASSUME mem \in MemInfos, NEW a \in Allocs
  PROVE  /\ DOMAIN mem.regions[a] \subseteq Nat \ {0}
         /\ \A i \in DOMAIN mem.regions[a] : RegionAt(a, i) \in Region
         /\ \A i, j \in DOMAIN mem.regions[a] :
              i # j => /\ Disj(RegionAt(a, i), RegionAt(a, j))
                       /\ RegionAt(a, i) # RegionAt(a, j)
<1>1. mem.regions[a] \in Seq(Region)
  BY MapsAssumption
<1>2. \A i \in DOMAIN mem.regions[a] : RegionAt(a, i) \in Region
  BY <1>1 DEF RegionAt
<1>3. \A i, j \in DOMAIN mem.regions[a] :
        i # j => Disj(RegionAt(a, i), RegionAt(a, j))
  BY MapsAssumption DEF RegionAt
<1>4. \A r, s \in Region : Disj(r, s) => r # s
  BY DEF Disj, EndOf, Region
<1> QED BY <1>1, <1>2, <1>3, <1>4

\* sys$bootstrap starts with empty allocators and all of the map pending.
LEMMA InitIInv == Init => IInv
<1> SUFFICES ASSUME Init PROVE IInv
  OBVIOUS
<1> USE DEF Init
<1>0. \A a \in Allocs :
        /\ DOMAIN mem.regions[a] \subseteq Nat \ {0}
        /\ \A i \in DOMAIN mem.regions[a] : RegionAt(a, i) \in Region
        /\ \A i, j \in DOMAIN mem.regions[a] :
             i # j => Disj(RegionAt(a, i), RegionAt(a, j))
  BY RegionFacts
<1>1. TypeOK
  <2>1. /\ mem \in MemInfos
        /\ pending \in [Allocs -> SUBSET (Nat \ {0})]
        /\ used \in [Allocs -> SUBSET Region]
    BY <1>0
  <2>2. /\ flist \in [Allocs -> SUBSET Fpage]
        /\ internal \in [Allocs -> [base : Nat, end : Nat, active : BOOLEAN]]
        /\ hand \in [base : Nat, size : Nat]
        /\ pc \in PCs /\ ret \in PCs /\ al \in Allocs
    BY DEF NoPages, PCs, Allocs
  <2>3. /\ slabs \in [Caches -> Nat]
        /\ pools \in [Caches -> SUBSET [virt : Nat, phys : Nat]]
        /\ grow \in [Caches -> [stage : Stages, virt : Nat, phys : Nat]]
    BY DEF NoGrow, Stages
  <2>4. /\ op \in [flags : Flags, size : Nat, at : Nat, cur : Nat, want : Nat,
                   list : PhysList, bt : 0..BtMax]
        /\ sections \subseteq [flags : Flags, base : Nat, size : Nat \ {0},
                               list : PhysList]
    BY ParamAssumption DEF NoOp, Flags, PhysList
  <2>5. vms_pd_initialized \in BOOLEAN
    OBVIOUS
  <2> QED BY <2>1, <2>2, <2>3, <2>4, <2>5 DEF TypeOK
<1>2. Exclusive
  BY <1>0 DEF Exclusive, ExclusiveIn, Separate, Apart, InternalRegion, InHand, NoPages,
       Allocs
<1>3. Aligned /\ HandInv /\ RetInv /\ GrowInv /\ ActiveInv /\ NeverNull
  BY DEF Aligned, HandInv, RetInv, GrowInv, ActiveInv, NeverNull, Growing, NoGrow, NoPages,
       Holding, Freeing, Allocs, Caches, Halts
<1>4. ChunkInv /\ ListInv /\ PendInv
  BY DEF ChunkInv, ListInv, PendInv, SizedOp, HasChunk, NoOp, Freeing, RegionAt, Allocs
<1> QED BY <1>1, <1>2, <1>3, <1>4 DEF IInv

-----------------------------------------------------------------------------
(* Regions                                                                 *)

Within(t, r) == r.base <= t.base /\ EndOf(t) <= EndOf(r)

\* An fpage is a region.
LEMMA FpageIsRegion == Fpage \subseteq Region
BY SizesAssumption DEF Fpage, Region

\* Disjointness does not depend on the order of the regions.
LEMMA DisjSymmetric ==
  ASSUME NEW r, NEW s PROVE Disj(r, s) <=> Disj(s, r)
BY DEF Disj

\* A part of a region is disjoint from whatever the region is disjoint from.
LEMMA DisjWithin ==
  ASSUME NEW r \in Region, NEW s \in Region, NEW t \in Region,
         Within(t, r), Disj(r, s)
  PROVE  Disj(t, s) /\ Disj(s, t)
BY DEF Disj, Within, EndOf, Region

\* Disjoint regions are different: a region has at least one page.
LEMMA DisjDistinct ==
  ASSUME NEW r \in Region, NEW s \in Region, Disj(r, s)
  PROVE  r # s
BY DEF Disj, EndOf, Region

\* What the allocators hold is made of regions.
LEMMA HeldRegions ==
  ASSUME TypeOK, NEW a \in Allocs
  PROVE  /\ flist[a] \subseteq Region
         /\ used[a] \subseteq Region
         /\ InternalRegion(a) \subseteq Region
         /\ InHand(a) \subseteq Region
<1>1. flist[a] \subseteq Region /\ used[a] \subseteq Region
  BY FpageIsRegion DEF TypeOK
<1>2. InternalRegion(a) \subseteq Region
  BY DEF TypeOK, InternalRegion, Region
<1>3. InHand(a) \subseteq Region
  BY DEF TypeOK, InHand, Region
<1> QED BY <1>1, <1>2, <1>3

\* Nothing of an allocator changes if its lists, regions and pages in hand do not.
LEMMA ExclusiveSame ==
  ASSUME NEW a \in Allocs, ExclusiveIn(a),
         flist'[a] = flist[a], used'[a] = used[a], internal'[a] = internal[a],
         InHand(a)' \subseteq InHand(a)
  PROVE  ExclusiveIn(a)'
BY DEF ExclusiveIn, InternalRegion, Separate, Apart

-----------------------------------------------------------------------------
(* Carving a page for a slab cache                                         *)

\* What sys$fpage_alloc_internal carves a page from belongs to nobody: it is the
\* internal region or a free fpage.
LEMMA SourceFacts ==
  ASSUME IInv, NEW a \in Allocs, NEW r \in Sources(a)
  PROVE  /\ r \in Region
         /\ \A s \in used[a] \union InHand(a) : Disj(r, s)
         /\ internal[a].active => \A f \in flist[a] : Disj(r, f)
         /\ ~internal[a].active => /\ r \in flist[a]
                                   /\ \A f \in flist[a] \ {r} : Disj(r, f)
<1>0. TypeOK /\ ExclusiveIn(a)
  BY DEF IInv, Exclusive
<1>1. CASE internal[a].active
  <2>1. r \in InternalRegion(a)
    BY <1>1 DEF Sources
  <2> QED BY <1>0, <1>1, <2>1, HeldRegions, DisjSymmetric DEF ExclusiveIn, Apart
<1>2. CASE ~internal[a].active
  <2>1. r \in flist[a]
    BY <1>2 DEF Sources, Smallest
  <2> QED BY <1>0, <1>2, <2>1, HeldRegions, DisjSymmetric DEF ExclusiveIn, Apart, Separate
<1> QED BY <1>1, <1>2

\* Carving a page leaves well-formed lists, region and slab count.
LEMMA CarveTypes ==
  ASSUME IInv, NEW a \in Allocs, NEW r \in Sources(a), AllocInternal(a, r)
  PROVE  /\ flist' \in [Allocs -> SUBSET Fpage]
         /\ internal' \in [Allocs -> [base : Nat, end : Nat, active : BOOLEAN]]
         /\ used' \in [Allocs -> SUBSET Region]
         /\ slabs' \in [Caches -> Nat]
<1>1. r \in Region
  BY SourceFacts
<1>2. TypeOK
  BY DEF IInv
<1>3. flist' \in [Allocs -> SUBSET Fpage] /\ slabs' \in [Caches -> Nat]
  BY <1>2 DEF TypeOK, AllocInternal, Caches
<1>4. used' \in [Allocs -> SUBSET Region]
  BY <1>1, <1>2 DEF TypeOK, AllocInternal, Region
<1>5. /\ r.base + 1 \in Nat
      /\ EndOf(r) \in Nat
      /\ (r.base + 1 < EndOf(r)) \in BOOLEAN
  BY <1>1 DEF Region, EndOf
<1>6. internal' \in [Allocs -> [base : Nat, end : Nat, active : BOOLEAN]]
  BY <1>2, <1>5 DEF TypeOK, AllocInternal
<1> QED BY <1>3, <1>4, <1>6

\* Carving a page keeps the places of a page apart, whatever routine it
\* interrupts.
LEMMA CarveExclusive ==
  ASSUME IInv, NEW a \in Allocs, NEW r \in Sources(a), AllocInternal(a, r),
         UNCHANGED <<hand, al>>
  PROVE  Exclusive'
<1> SUFFICES ASSUME NEW b \in Allocs PROVE ExclusiveIn(b)'
  BY DEF Exclusive
<1>0. TypeOK /\ ExclusiveIn(b)
  BY DEF IInv, Exclusive
<1>1. InHand(b)' = InHand(b)
  BY DEF InHand
<1>2. CASE b # a
  <2>1. flist'[b] = flist[b] /\ used'[b] = used[b] /\ internal'[b] = internal[b]
    BY <1>0, <1>2 DEF TypeOK, AllocInternal
  <2> QED BY <1>0, <1>1, <2>1, ExclusiveSame
<1>3. CASE b = a
  <2> DEFINE page == [base |-> r.base, size |-> 1]
             rest == [base |-> r.base + 1, size |-> r.size - 1]
  <2>1. /\ r \in Region /\ page \in Region /\ Within(page, r)
        /\ r.size > 1 => rest \in Region /\ Within(rest, r) /\ Disj(rest, page)
    BY SourceFacts DEF Region, Within, Disj, EndOf
  <2>2. used'[a] = used[a] \union {page}
    BY <1>0 DEF TypeOK, AllocInternal
  <2>3. InternalRegion(a)' \subseteq {rest} /\ (InternalRegion(a)' # {} => r.size > 1)
    BY <1>0, <2>1 DEF TypeOK, AllocInternal, InternalRegion, EndOf, Region
  <2>4. flist'[a] \subseteq flist[a] /\ \A f \in flist'[a] : Disj(r, f)
    BY <1>0, SourceFacts DEF TypeOK, AllocInternal
  <2>5. \A s \in used[a] \union InHand(a) : Disj(r, s)
    BY SourceFacts
  <2>6. flist[a] \subseteq Region /\ used[a] \subseteq Region /\ InHand(a) \subseteq Region
    BY <1>0, HeldRegions
  <2> HIDE DEF page, rest
  <2>7. \A s \in flist'[a] \union used[a] \union InHand(a) : Disj(page, s) /\ Disj(s, page)
    BY <2>1, <2>4, <2>5, <2>6, DisjWithin
  <2>8. r.size > 1 =>
          \A s \in flist'[a] \union used[a] \union InHand(a) : Disj(rest, s) /\ Disj(s, rest)
    BY <2>1, <2>4, <2>5, <2>6, DisjWithin
  <2>9. Separate(flist'[a]) /\ Separate(used'[a]) /\ Apart(flist'[a], used'[a])
    BY <1>0, <1>3, <2>2, <2>4, <2>7 DEF ExclusiveIn, Separate, Apart
  <2>10. Apart(InternalRegion(a)', flist'[a] \union used'[a])
    BY <2>1, <2>2, <2>3, <2>8 DEF Apart
  <2>11. Apart(InHand(a), flist'[a] \union used'[a] \union InternalRegion(a)')
    BY <1>0, <1>3, <2>2, <2>3, <2>4, <2>7, <2>8 DEF ExclusiveIn, Apart
  <2> QED BY <1>1, <1>3, <2>9, <2>10, <2>11 DEF ExclusiveIn, Separate, Apart
<1> QED BY <1>2, <1>3

-----------------------------------------------------------------------------
(* Moving memory in and out of a routine's hands                           *)

\* Memory that was handed out comes back into the hands of a routine.
LEMMA TakeBack ==
  ASSUME TypeOK, NEW a \in Allocs, ExclusiveIn(a), NEW r \in used[a],
         used'[a] = used[a] \ {r}, flist'[a] = flist[a], internal'[a] = internal[a],
         InHand(a)' \subseteq {r}
  PROVE  ExclusiveIn(a)'
<1>1. InternalRegion(a)' = InternalRegion(a)
  BY DEF InternalRegion
<1>2. \A s \in flist[a] \union (used[a] \ {r}) \union InternalRegion(a) : Disj(r, s)
  BY DisjSymmetric DEF ExclusiveIn, Separate, Apart
<1> QED BY <1>1, <1>2 DEF ExclusiveIn, Separate, Apart

\* Part of what a routine holds is handed out, and it keeps another part or none.
LEMMA HandOut ==
  ASSUME TypeOK, NEW a \in Allocs, ExclusiveIn(a), InHand(a) = {hand},
         NEW r \in Region, Within(r, hand), used'[a] = used[a] \union {r},
         flist'[a] = flist[a], internal'[a] = internal[a],
         NEW s, InHand(a)' \subseteq {s},
         InHand(a)' # {} => s \in Region /\ Within(s, hand) /\ Disj(s, r)
  PROVE  ExclusiveIn(a)'
<1>1. InternalRegion(a)' = InternalRegion(a)
  BY DEF InternalRegion
<1> DEFINE Others == flist[a] \union used[a] \union InternalRegion(a)
<1>2. \A x \in Others : x \in Region /\ Disj(hand, x)
  BY HeldRegions DEF ExclusiveIn, Apart
<1>3. hand \in Region
  BY HeldRegions
<1>4. \A x \in Others : Disj(r, x) /\ Disj(x, r)
  BY <1>2, <1>3, DisjWithin
<1>5. InHand(a)' # {} => \A x \in Others : Disj(s, x)
  BY <1>2, <1>3, DisjWithin
<1>6. Separate(used'[a]) /\ Apart(flist[a], used'[a])
  BY <1>4 DEF ExclusiveIn, Separate, Apart
<1>7. Apart(InternalRegion(a), flist[a] \union used'[a])
  BY <1>4 DEF ExclusiveIn, Apart
<1>8. Apart(InHand(a)', flist[a] \union used'[a] \union InternalRegion(a))
  BY <1>5 DEF Apart
<1> QED BY <1>1, <1>6, <1>7, <1>8 DEF ExclusiveIn, Separate, Apart

\* A pending region of the memory map is handed-out memory until it is taken.
LEMMA PendingFacts ==
  ASSUME IInv, NEW a \in Allocs, NEW i \in pending[a]
  PROVE  /\ RegionAt(a, i) \in Region
         /\ RegionAt(a, i) \in used[a]
         /\ \A j \in pending[a] \ {i} : RegionAt(a, j) # RegionAt(a, i)
BY RegionFacts DEF IInv, TypeOK, PendInv

\* Taking a region keeps the bookkeeping of the others.
LEMMA TakeRegionKeeps ==
  ASSUME IInv, NEW a \in Allocs, NEW i \in pending[a], TakeRegion(a, i),
         UNCHANGED <<mem, op>>
  PROVE  /\ pending' \in [Allocs -> SUBSET (Nat \ {0})]
         /\ used' \in [Allocs -> SUBSET Region]
         /\ ListInv' /\ PendInv'
<1> USE DEF IInv
<1>1. /\ pending' \in [Allocs -> SUBSET (Nat \ {0})]
      /\ used' \in [Allocs -> SUBSET Region]
  BY DEF TypeOK, TakeRegion
<1>2. PendInv'
  <2> SUFFICES ASSUME NEW b \in Allocs, NEW j \in pending'[b]
               PROVE  (j \in DOMAIN mem.regions[b] /\ RegionAt(b, j) \in used[b])'
    BY DEF PendInv
  <2>1. j \in pending[b] /\ (b = a => j # i)
    BY DEF TypeOK, TakeRegion
  <2>2. b = a => RegionAt(b, j) # RegionAt(a, i)
    BY <2>1, PendingFacts
  <2>3. RegionAt(b, j) \in used'[b]
    BY <2>1, <2>2 DEF TypeOK, PendInv, TakeRegion
  <2> QED BY <2>1, <2>3 DEF PendInv, RegionAt
<1>3. ListInv'
  <2> SUFFICES ASSUME NEW e \in op.list
               PROVE  /\ e.fpage \in used'["pm"]
                      /\ \A j \in pending'["pm"] : RegionAt("pm", j)' # e.fpage
                      /\ \A d \in op.list : d.fpage = e.fpage => d = e
    BY DEF ListInv
  <2>1. pending'["pm"] \subseteq pending["pm"]
    BY DEF TypeOK, TakeRegion, Allocs
  <2>2. e.fpage \in used'["pm"]
    BY DEF TypeOK, ListInv, TakeRegion, Allocs
  <2> QED BY <2>1, <2>2 DEF ListInv, RegionAt
<1> QED BY <1>1, <1>2, <1>3

-----------------------------------------------------------------------------
(* One lemma per action                                                    *)

\* Growing a cache: no page has moved when sys$slab_cache_alloc finds no free
\* slab.
LEMMA StepStartGrow ==
  ASSUME IInv, NEW c \in Caches, StartGrow(c)
  PROVE  IInv'
<1> USE DEF IInv
<1>1. TypeOK'
  <2>1. grow \in [Caches -> [stage : Stages, virt : Nat, phys : Nat]]
    BY DEF TypeOK
  <2>2. grow' \in [Caches -> [stage : Stages, virt : Nat, phys : Nat]]
    BY <2>1 DEF Stages, StartGrow
  <2> QED BY <2>2 DEF TypeOK, StartGrow, memory, booting
<1>2. Aligned' /\ HandInv' /\ RetInv' /\ GrowInv' /\ ActiveInv' /\ NeverNull'
  BY DEF Aligned, HandInv, RetInv, GrowInv, ActiveInv, NeverNull, Growing, Caches,
       StartGrow, NeedsSlab, memory
<1>3. ChunkInv' /\ ListInv' /\ PendInv'
  BY DEF ChunkInv, ListInv, PendInv, SizedOp, HasChunk, Chunk, RegionAt, StartGrow, memory,
       booting
<1>4. Exclusive'
  BY DEF Exclusive, ExclusiveIn, InternalRegion, InHand, StartGrow, memory
<1> QED BY <1>1, <1>2, <1>3, <1>4

\* The virtual page of a new pool, taken in the middle of another routine.
LEMMA StepGrowVirt ==
  ASSUME IInv, NEW c \in Caches, GrowVirt(c)
  PROVE  IInv'
<1> USE DEF IInv
<1>0. PICK r \in Sources("vm") :
        /\ AllocInternal("vm", r)
        /\ grow' = [grow EXCEPT ![c].stage = "phys", ![c].virt = r.base]
  BY DEF GrowVirt
<1>a. "vm" \in Allocs /\ r \in Region
  BY SourceFacts DEF Allocs
<1>1. TypeOK'
  <2>1. grow' \in [Caches -> [stage : Stages, virt : Nat, phys : Nat]]
    BY <1>0, <1>a DEF TypeOK, Stages, Region
  <2> QED BY <1>0, <1>a, <2>1, CarveTypes DEF TypeOK, GrowVirt, booting
<1>2. Aligned' /\ HandInv' /\ RetInv' /\ GrowInv' /\ ActiveInv' /\ NeverNull'
  <2>1. pc \in {"node", "split", "lnode", "insert", "new"}
    BY DEF GrowInv, Growing, GrowVirt, Running
  <2>2. \A b \in Allocs : flist'[b] \subseteq flist[b]
    <3>1. CASE internal["vm"].active
      BY <1>0, <3>1 DEF AllocInternal
    <3>2. CASE ~internal["vm"].active
      <4>1. flist' = [flist EXCEPT !["vm"] = @ \ {r}] /\ flist \in [Allocs -> SUBSET Fpage]
        BY <1>0, <3>2 DEF AllocInternal, TypeOK
      <4> QED BY <4>1
    <3> QED BY <3>1, <3>2
  <2>3. ActiveInv'
    BY <1>0, <1>a, <2>1 DEF ActiveInv, AllocInternal, TypeOK, GrowVirt
  <2> QED BY <2>1, <2>2, <2>3 DEF Aligned, HandInv, RetInv, GrowInv, NeverNull,
       EmptyHanded, GrowVirt
<1>3. ChunkInv' /\ ListInv' /\ PendInv'
  BY DEF ChunkInv, ListInv, PendInv, SizedOp, HasChunk, Chunk, RegionAt, GrowVirt,
       AllocInternal, booting
<1>4. Exclusive'
  BY <1>0, <1>a, CarveExclusive DEF GrowVirt
<1> QED BY <1>1, <1>2, <1>3, <1>4

\* The physical page of a new pool.
LEMMA StepGrowPhys ==
  ASSUME IInv, NEW c \in Caches, GrowPhys(c)
  PROVE  IInv'
<1> USE DEF IInv
<1>0. PICK r \in Sources("pm") :
        /\ AllocInternal("pm", r)
        /\ grow' = [grow EXCEPT ![c].stage = "node", ![c].phys = r.base]
  BY DEF GrowPhys
<1>a. "pm" \in Allocs /\ r \in Region
  BY SourceFacts DEF Allocs
<1>1. TypeOK'
  <2>1. grow' \in [Caches -> [stage : Stages, virt : Nat, phys : Nat]]
    BY <1>0, <1>a DEF TypeOK, Stages, Region
  <2> QED BY <1>0, <1>a, <2>1, CarveTypes DEF TypeOK, GrowPhys, booting
<1>2. Aligned' /\ HandInv' /\ RetInv' /\ GrowInv' /\ ActiveInv' /\ NeverNull'
  <2>1. pc \in {"node", "split", "lnode", "insert", "new"}
    BY DEF GrowInv, Growing, GrowPhys, Running
  <2>2. \A b \in Allocs : flist'[b] \subseteq flist[b]
    <3>1. CASE internal["pm"].active
      BY <1>0, <3>1 DEF AllocInternal
    <3>2. CASE ~internal["pm"].active
      <4>1. flist' = [flist EXCEPT !["pm"] = @ \ {r}] /\ flist \in [Allocs -> SUBSET Fpage]
        BY <1>0, <3>2 DEF AllocInternal, TypeOK
      <4> QED BY <4>1
    <3> QED BY <3>1, <3>2
  <2>3. ActiveInv'
    BY <1>0, <1>a, <2>1 DEF ActiveInv, AllocInternal, TypeOK, GrowPhys
  <2> QED BY <2>1, <2>2, <2>3 DEF Aligned, HandInv, RetInv, GrowInv, NeverNull,
       EmptyHanded, GrowPhys
<1>3. ChunkInv' /\ ListInv' /\ PendInv'
  BY DEF ChunkInv, ListInv, PendInv, SizedOp, HasChunk, Chunk, RegionAt, GrowPhys,
       AllocInternal, booting
<1>4. Exclusive'
  BY <1>0, <1>a, CarveExclusive DEF GrowPhys
<1> QED BY <1>1, <1>2, <1>3, <1>4

\* Out of memory: by ActiveInv the internal region is then inactive, so that the
\* code panics instead of returning INVALID_ADDR.
LEMMA StepGrowFails ==
  ASSUME IInv, NEW c \in Caches, NEW a \in Allocs, GrowFails(c, a)
  PROVE  IInv'
<1> USE DEF IInv
<1>1. TypeOK'
  BY DEF TypeOK, PCs, GrowFails, memory, caches, booting
<1>2. Aligned' /\ HandInv' /\ RetInv' /\ GrowInv' /\ ActiveInv' /\ NeverNull'
  <2>1. pc \in {"node", "split", "lnode", "insert", "new"}
    BY DEF GrowInv, Growing, GrowFails, Running
  <2>2. ~internal[a].active
    BY <2>1 DEF GrowFails, Sources, ActiveInv, InternalRegion
  <2> QED BY <2>1, <2>2 DEF Aligned, HandInv, RetInv, GrowInv, ActiveInv, NeverNull,
       Growing, Holding, EmptyHanded, Freeing, Halts, GrowFails, memory, caches
<1>3. ChunkInv' /\ ListInv' /\ PendInv'
  BY DEF ChunkInv, ListInv, PendInv, SizedOp, HasChunk, Freeing, RegionAt, GrowFails,
       memory, booting
<1>4. Exclusive'
  BY DEF Exclusive, ExclusiveIn, InternalRegion, InHand, GrowFails, memory
<1> QED BY <1>1, <1>2, <1>3, <1>4

\* The pool's memsection and its slabs.
LEMMA StepGrowNode ==
  ASSUME IInv, NEW c \in Caches, GrowNode(c)
  PROVE  IInv'
<1> USE DEF IInv
<1>1. TypeOK'
  BY ParamAssumption DEF TypeOK, Caches, NoGrow, Stages, GrowNode, memory, booting
<1>2. Aligned' /\ HandInv' /\ RetInv' /\ GrowInv' /\ ActiveInv' /\ NeverNull'
  BY DEF Aligned, HandInv, RetInv, GrowInv, ActiveInv, NeverNull, Growing, GrowNode, memory
<1>3. ChunkInv' /\ ListInv' /\ PendInv'
  BY DEF ChunkInv, ListInv, PendInv, SizedOp, HasChunk, Chunk, RegionAt, GrowNode, memory,
       booting
<1>4. Exclusive'
  BY DEF Exclusive, ExclusiveIn, InternalRegion, InHand, GrowNode, memory
<1> QED BY <1>1, <1>2, <1>3, <1>4

\* sys$fpage_free_chunk decides whether to flush.
LEMMA StepFree ==
  ASSUME IInv, Free
  PROVE  IInv'
<1> USE DEF IInv
<1>1. TypeOK'
  BY DEF TypeOK, PCs, Free, memory, caches, booting
<1>2. Aligned' /\ HandInv' /\ RetInv' /\ GrowInv' /\ ActiveInv' /\ NeverNull'
  BY DEF Aligned, HandInv, RetInv, GrowInv, ActiveInv, NeverNull, Growing, Holding,
       EmptyHanded, Freeing, Free, At, memory, caches
<1>3. ChunkInv' /\ ListInv' /\ PendInv'
  BY DEF ChunkInv, ListInv, PendInv, SizedOp, HasChunk, Chunk, Freeing, RegionAt, Free, At,
       memory, booting
<1>4. Exclusive'
  BY DEF Exclusive, ExclusiveIn, InternalRegion, InHand, Free, memory
<1> QED BY <1>1, <1>2, <1>3, <1>4

\* The chunk in hand becomes the internal region, which is empty at this point.
LEMMA StepLoadInternal ==
  ASSUME IInv, LoadInternal
  PROVE  IInv'
<1> USE DEF IInv
<1>1. TypeOK'
  BY DEF TypeOK, NoPages, PCs, EndOf, LoadInternal, caches, booting
<1>2. Aligned' /\ HandInv' /\ RetInv' /\ GrowInv' /\ ActiveInv' /\ NeverNull'
  BY DEF Aligned, HandInv, RetInv, GrowInv, ActiveInv, NeverNull, Growing, Holding,
       EmptyHanded, Freeing, LoadInternal, At, caches
<1>3. ChunkInv' /\ ListInv' /\ PendInv'
  BY DEF ChunkInv, ListInv, PendInv, SizedOp, HasChunk, Chunk, Freeing, RegionAt,
       LoadInternal, At, booting
<1>4. Exclusive'
  BY DEF TypeOK, Exclusive, ExclusiveIn, Apart, EndOf, InternalRegion, InHand, RetInv,
       Allocs, NoPages, Region, Fpage, LoadInternal, At, caches, booting
<1> QED BY <1>1, <1>2, <1>3, <1>4

\* The loop test of sys$fpage_clear_internal.
LEMMA StepClearTest ==
  ASSUME IInv, ClearTest
  PROVE  IInv'
<1> USE DEF IInv
<1>1. TypeOK'
  BY DEF TypeOK, PCs, ClearTest, memory, caches, booting
<1>2. Aligned' /\ HandInv' /\ RetInv' /\ GrowInv' /\ ActiveInv' /\ NeverNull'
  BY DEF Aligned, HandInv, RetInv, GrowInv, ActiveInv, NeverNull, Holding, EmptyHanded,
       Freeing, ClearTest, At, memory
<1>3. ChunkInv' /\ ListInv' /\ PendInv'
  BY DEF ChunkInv, ListInv, PendInv, SizedOp, HasChunk, Chunk, Freeing, RegionAt,
       ClearTest, At, memory, booting
<1>4. Exclusive'
  BY DEF Exclusive, ExclusiveIn, InternalRegion, InHand, ClearTest, memory
<1> QED BY <1>1, <1>2, <1>3, <1>4

\* The end of the loop: the region is deactivated, and the routine resumed owns
\* what it owned.
LEMMA StepClearDone ==
  ASSUME IInv, ClearDone
  PROVE  IInv'
<1> USE DEF IInv
<1>1. TypeOK'
  <2>1. internal' \in [Allocs -> [base : Nat, end : Nat, active : BOOLEAN]]
    <3>1. /\ internal \in [Allocs -> [base : Nat, end : Nat, active : BOOLEAN]]
          /\ internal' = [internal EXCEPT ![al].active = FALSE]
      BY DEF TypeOK, ClearDone
    <3> QED BY <3>1
  <2>2. pc' \in PCs
    BY DEF TypeOK, ClearDone, PCs
  <2> QED BY <2>1, <2>2 DEF TypeOK, ClearDone, caches, booting
<1>2. Aligned' /\ HandInv' /\ RetInv' /\ GrowInv' /\ ActiveInv' /\ NeverNull'
  BY DEF TypeOK, Aligned, HandInv, RetInv, GrowInv, ActiveInv, NeverNull, Growing, Holding,
       EmptyHanded, Freeing, Resumes, ClearDone, At, caches
<1>3. ChunkInv' /\ ListInv' /\ PendInv'
  <2>1. ret \in Resumes \union {"above", "scan"} /\ pc \in Freeing
    BY DEF RetInv, ClearDone, At, Freeing
  <2>2. ~SizedOp' /\ (HasChunk' => HasChunk)
    BY <2>1 DEF ClearDone, SizedOp, HasChunk, Freeing, Resumes
  <2> QED BY <2>2 DEF ChunkInv, ListInv, PendInv, Chunk, RegionAt, ClearDone, booting
<1>4. Exclusive'
  <2> SUFFICES ASSUME NEW a \in Allocs PROVE ExclusiveIn(a)'
    BY DEF Exclusive
  <2>1. internal'[a].base = internal[a].base /\ internal'[a].end = internal[a].end
    <3>1. /\ internal \in [Allocs -> [base : Nat, end : Nat, active : BOOLEAN]]
          /\ internal' = [internal EXCEPT ![al].active = FALSE]
      BY DEF TypeOK, ClearDone
    <3> QED BY <3>1
  <2>2. InternalRegion(a)' = InternalRegion(a) /\ InHand(a)' = InHand(a)
    BY <2>1 DEF ClearDone, InternalRegion, InHand
  <2> QED BY <2>2 DEF Exclusive, ExclusiveIn, ClearDone, Separate, Apart
<1> QED BY <1>1, <1>2, <1>3, <1>4

\* The biggest fpage at the base of the region moves to a free list: it is
\* aligned and lies within the region, so that the rest of the region stays apart
\* from it.
LEMMA StepClearNode ==
  ASSUME IInv, ClearNode
  PROVE  IInv'
<1> USE DEF IInv
<1>1. TypeOK'
  BY SizesAssumption DEF TypeOK, Allocs, Caches, PCs, Fpage, ClearNode, booting
<1>2. Aligned' /\ HandInv' /\ RetInv' /\ GrowInv' /\ ActiveInv' /\ NeverNull'
  BY DEF Aligned, HandInv, RetInv, GrowInv, ActiveInv, NeverNull, Growing, Holding,
       EmptyHanded, Freeing, ClearNode, At, IsBiggest, Fits
<1>3. ChunkInv' /\ ListInv' /\ PendInv'
  BY DEF ChunkInv, ListInv, PendInv, SizedOp, HasChunk, Chunk, Freeing, RegionAt,
       ClearNode, At, booting
<1>4. Exclusive'
  <2>0. PICK s \in FpageSizes :
          /\ IsBiggest(s, internal[al].base, internal[al].end)
          /\ flist' = [flist EXCEPT ![al] = @ \union {[base |-> internal[al].base,
                                                       size |-> s]}]
          /\ internal' = [internal EXCEPT ![al].base = @ + s]
    BY DEF ClearNode
  <2> SUFFICES ASSUME NEW a \in Allocs PROVE ExclusiveIn(a)'
    BY DEF Exclusive
  <2>1. InHand(a)' = InHand(a) /\ used'[a] = used[a] /\ ExclusiveIn(a)
    BY DEF ClearNode, InHand, Exclusive
  <2>2. CASE a # al
    <3>1. flist'[a] = flist[a] /\ internal'[a] = internal[a]
      BY <2>0, <2>2 DEF TypeOK
    <3> QED BY <2>1, <3>1, ExclusiveSame
  <2>3. CASE a = al
    <3> DEFINE r == [base |-> internal[a].base, size |-> internal[a].end - internal[a].base]
               f == [base |-> internal[a].base, size |-> s]
               rest == [base |-> internal[a].base + s,
                        size |-> internal[a].end - (internal[a].base + s)]
    <3>1. InternalRegion(a) = {r}
      BY <2>3 DEF ClearNode, InternalRegion
    <3>2. s \in Nat \ {0} /\ internal[a].base + s <= internal[a].end
      BY <2>0, <2>3, SizesAssumption DEF IsBiggest, Fits
    <3>3. r \in Region /\ f \in Region /\ Within(f, r)
      BY <3>2 DEF TypeOK, Region, Within, EndOf
    <3>4. flist'[a] = flist[a] \union {f}
      BY <2>0, <2>3 DEF TypeOK
    <3>5. internal'[a].base = internal[a].base + s /\ internal'[a].end = internal[a].end
      BY <2>0, <2>3 DEF TypeOK
    <3>6. /\ InternalRegion(a)' \subseteq {rest}
          /\ InternalRegion(a)' # {} =>
               rest \in Region /\ Within(rest, r) /\ Disj(rest, f)
      BY <3>2, <3>5 DEF TypeOK, InternalRegion, Region, Within, EndOf, Disj
    <3>7. \A x \in flist[a] \union used[a] \union InHand(a) : x \in Region /\ Disj(r, x)
      BY <2>1, <3>1, HeldRegions, DisjSymmetric DEF ExclusiveIn, Apart
    <3> HIDE DEF r, f, rest
    <3>8. \A x \in flist[a] \union used[a] \union InHand(a) : Disj(f, x) /\ Disj(x, f)
      BY <3>3, <3>7, DisjWithin
    <3>9. InternalRegion(a)' # {} =>
            \A x \in flist[a] \union used[a] \union InHand(a) : Disj(rest, x) /\ Disj(x, rest)
      BY <3>3, <3>6, <3>7, DisjWithin
    <3>10. Separate(flist'[a]) /\ Separate(used[a]) /\ Apart(flist'[a], used[a])
      BY <2>1, <3>4, <3>8 DEF ExclusiveIn, Separate, Apart
    <3>11. Apart(InternalRegion(a)', flist'[a] \union used[a])
      BY <3>4, <3>6, <3>9 DEF Apart
    <3>12. Apart(InHand(a), flist'[a] \union used[a] \union InternalRegion(a)')
      BY <2>1, <3>4, <3>6, <3>8, <3>9 DEF ExclusiveIn, Apart
    <3> QED BY <2>1, <3>10, <3>11, <3>12 DEF ExclusiveIn, Separate, Apart
  <2> QED BY <2>2, <2>3
<1> QED BY <1>1, <1>2, <1>3, <1>4

\* The nil page: nothing but a slab and the control point changes before the
\* kernel is lost.
LEMMA StepClearNil ==
  ASSUME IInv, ClearNil
  PROVE  IInv'
<1> USE DEF IInv
<1>1. TypeOK'
  BY DEF TypeOK, Caches, PCs, ClearNil, memory, booting
<1>2. Aligned' /\ HandInv' /\ RetInv' /\ GrowInv' /\ ActiveInv' /\ NeverNull'
  BY DEF Aligned, HandInv, RetInv, GrowInv, ActiveInv, NeverNull, Holding, EmptyHanded,
       Freeing, Halts, ClearNil, At, memory
<1>3. ChunkInv' /\ ListInv' /\ PendInv'
  BY DEF ChunkInv, ListInv, PendInv, SizedOp, HasChunk, Freeing, RegionAt, ClearNil,
       memory, booting
<1>4. Exclusive'
  BY DEF Exclusive, ExclusiveIn, InternalRegion, InHand, ClearNil, memory
<1> QED BY <1>1, <1>2, <1>3, <1>4

\* An fpage leaves its list for the hands of sys$fpage_alloc.
LEMMA StepAllocPick ==
  ASSUME IInv, AllocPick
  PROVE  IInv'
<1> USE DEF IInv
<1>0. PICK f \in flist[al] : hand' = f /\ flist' = [flist EXCEPT ![al] = @ \ {f}]
  BY DEF AllocPick, Candidates
<1>a. f \in Fpage
  BY DEF TypeOK
<1>b. f \in Region /\ f.size \in FpageSizes /\ f.size > 0
  <2>1. f \in Region
    BY <1>a, FpageIsRegion
  <2>2. f.size \in FpageSizes
    BY <1>a DEF Fpage
  <2>3. f.size > 0
    BY <2>1 DEF Region
  <2> QED BY <2>1, <2>2, <2>3
<1>1. TypeOK'
  BY <1>0, <1>b DEF TypeOK, Caches, PCs, Region, AllocPick, booting
<1>2. Aligned' /\ HandInv' /\ RetInv' /\ GrowInv' /\ ActiveInv' /\ NeverNull'
  BY <1>0, <1>b DEF TypeOK, Aligned, HandInv, RetInv, GrowInv, ActiveInv, NeverNull,
       Growing, Holding, EmptyHanded, Freeing, AllocPick, At
<1>3. ChunkInv' /\ ListInv' /\ PendInv'
  BY DEF ChunkInv, ListInv, PendInv, SizedOp, HasChunk, Chunk, Freeing, RegionAt,
       AllocPick, At, booting
<1>4. Exclusive'
  BY DEF TypeOK, Exclusive, ExclusiveIn, Separate, Apart, Disj, InternalRegion, InHand,
       AllocPick, At, Candidates
<1> QED BY <1>1, <1>2, <1>3, <1>4

\* Nothing on the lists.
LEMMA StepAllocNil ==
  ASSUME IInv, AllocNil
  PROVE  IInv'
<1> USE DEF IInv
<1>1. TypeOK'
  BY DEF TypeOK, PCs, AllocNil, memory, caches, booting
<1>2. Aligned' /\ HandInv' /\ RetInv' /\ GrowInv' /\ ActiveInv' /\ NeverNull'
  BY DEF TypeOK, Aligned, HandInv, RetInv, GrowInv, ActiveInv, NeverNull, Growing, Holding,
       EmptyHanded, Freeing, Halts, AllocNil, At, memory, caches
<1>3. ChunkInv' /\ ListInv' /\ PendInv'
  BY DEF ChunkInv, ListInv, PendInv, SizedOp, HasChunk, Chunk, RegionAt, RetInv, AllocNil,
       At, memory, booting
<1>4. Exclusive'
  BY DEF Exclusive, ExclusiveIn, InternalRegion, InHand, AllocNil, memory
<1> QED BY <1>1, <1>2, <1>3, <1>4

\* The upper half of an fpage goes to a list: by HalfAligned its buddy address is
\* the upper half, which is aligned and disjoint from what is kept.
LEMMA StepSplitHalve ==
  ASSUME IInv, SplitHalve
  PROVE  IInv'
<1> USE DEF IInv
<1>0. PICK h \in FpageSizes :
        /\ hand.size = 2 * h
        /\ hand' = [hand EXCEPT !.size = h]
        /\ flist' = [flist EXCEPT ![al] = @ \union {Buddy(hand')}]
  BY DEF SplitHalve
<1>a. h \in Nat \ {0} /\ hand.base \in Nat /\ hand.base % (2 * h) = 0
  BY <1>0, SizesAssumption DEF TypeOK, Aligned, SplitHalve, At
<1> DEFINE low  == [base |-> hand.base, size |-> h]
           high == [base |-> hand.base + h, size |-> h]
<1>b. /\ hand.base % h = 0
      /\ (hand.base \div h) % 2 = 0
      /\ (hand.base + h) % h = 0
  BY <1>a, HalfAligned
<1>c. hand' = low
  BY <1>0 DEF TypeOK
<1>d. Buddy(low) = high
  BY <1>a, <1>b DEF Buddy
<1>e. flist' = [flist EXCEPT ![al] = @ \union {high}]
  BY <1>0, <1>c, <1>d
<1>f. high \in Fpage /\ low \in [base : Nat, size : Nat]
  BY <1>a DEF Fpage
<1>1. TypeOK'
  BY <1>c, <1>e, <1>f DEF TypeOK, Caches, SplitHalve, booting
<1>2. Aligned' /\ HandInv' /\ RetInv' /\ GrowInv' /\ ActiveInv' /\ NeverNull'
  <2>1. Aligned'
    BY <1>b, <1>c, <1>e DEF Aligned, TypeOK, SplitHalve, At
  <2>2. HandInv'
    BY <1>a, <1>c DEF HandInv, SplitHalve, At, EmptyHanded
  <2> QED BY <2>1, <2>2 DEF RetInv, GrowInv, ActiveInv, NeverNull, Growing, SplitHalve, At
<1>3. ChunkInv' /\ ListInv' /\ PendInv'
  BY DEF ChunkInv, ListInv, PendInv, SizedOp, HasChunk, Chunk, RegionAt, SplitHalve, booting
<1>4. Exclusive'
  <2> SUFFICES ASSUME NEW a \in Allocs PROVE ExclusiveIn(a)'
    BY DEF Exclusive
  <2>1. /\ InternalRegion(a)' = InternalRegion(a)
        /\ used'[a] = used[a] /\ internal'[a] = internal[a] /\ ExclusiveIn(a)
    BY DEF SplitHalve, InternalRegion, Exclusive
  <2>2. CASE a # al
    BY <1>e, <2>1, <2>2, ExclusiveSame DEF TypeOK, InHand, SplitHalve
  <2>3. CASE a = al
    <3>1. /\ hand \in Region /\ low \in Region /\ high \in Region
          /\ Within(low, hand) /\ Within(high, hand) /\ Disj(low, high)
      BY <1>0, <1>a DEF TypeOK, Region, Within, Disj, EndOf
    <3>2. InHand(a) = {hand} /\ InHand(a)' = {low} /\ flist'[a] = flist[a] \union {high}
      BY <1>0, <1>a, <1>c, <1>e, <2>3 DEF InHand, TypeOK, SplitHalve
    <3> DEFINE Others == flist[a] \union used[a] \union InternalRegion(a)
    <3>3. \A x \in Others : x \in Region /\ Disj(hand, x)
      BY <2>1, <3>2, HeldRegions DEF ExclusiveIn, Apart
    <3> HIDE DEF low, high
    <3>4. \A x \in Others : Disj(low, x) /\ Disj(high, x) /\ Disj(x, high)
      BY <3>1, <3>3, DisjWithin
    <3>5. Separate(flist'[a]) /\ Apart(flist'[a], used[a])
      BY <2>1, <3>2, <3>4 DEF ExclusiveIn, Separate, Apart
    <3>6. Apart(InternalRegion(a), flist'[a] \union used[a])
      BY <2>1, <3>2, <3>4 DEF ExclusiveIn, Apart
    <3>7. Apart(InHand(a)', flist'[a] \union used[a] \union InternalRegion(a))
      BY <3>1, <3>2, <3>4 DEF Apart
    <3> QED BY <2>1, <3>5, <3>6, <3>7 DEF ExclusiveIn, Separate, Apart
  <2> QED BY <2>2, <2>3
<1> QED BY <1>1, <1>2, <1>3, <1>4

\* sys$fpage_alloc returns.
LEMMA StepSplitDone ==
  ASSUME IInv, SplitDone
  PROVE  IInv'
<1> USE DEF IInv
<1>1. TypeOK'
  BY DEF TypeOK, SplitDone, memory, caches, booting
<1>2. Aligned' /\ HandInv' /\ RetInv' /\ GrowInv' /\ ActiveInv' /\ NeverNull'
  BY DEF Aligned, HandInv, RetInv, GrowInv, ActiveInv, NeverNull, Growing, Holding,
       EmptyHanded, Freeing, SplitDone, At, memory, caches
<1>3. ChunkInv' /\ ListInv' /\ PendInv'
  BY DEF ChunkInv, ListInv, PendInv, SizedOp, HasChunk, Chunk, RegionAt, RetInv, SplitDone,
       At, memory, booting
<1>4. Exclusive'
  BY DEF Exclusive, ExclusiveIn, InternalRegion, InHand, SplitDone, memory
<1> QED BY <1>1, <1>2, <1>3, <1>4

\* A request.
LEMMA StepCreate ==
  ASSUME IInv, Create
  PROVE  IInv'
<1> USE DEF IInv
<1>0. PICK fl \in Flags, n \in Nat \ {0}, b \in Nat : Call(fl, n, b)
  <2>1. PICK r \in Requests : Call(r.flags, r.size, 0)
    BY DEF Create
  <2>2. r.flags \in Flags /\ r.size \in Nat \ {0}
    BY ParamAssumption DEF Flags
  <2> QED BY <2>1, <2>2
<1>1. TypeOK'
  <2>1. op' = [flags |-> fl, size |-> n, at |-> b, cur |-> 0, want |-> 0,
              list |-> {}, bt |-> 0]
    BY <1>0 DEF Call, NoOp
  <2>2. {} \in PhysList /\ 0 \in 0..BtMax
    BY ParamAssumption DEF PhysList
  <2>3. op' \in [flags : Flags, size : Nat, at : Nat, cur : Nat, want : Nat,
                 list : PhysList, bt : 0..BtMax]
    BY <2>1, <2>2
  <2> QED BY <1>0, <2>3 DEF TypeOK, Call, PCs, Create, memory, caches, booting
<1>2. Aligned' /\ HandInv' /\ RetInv' /\ GrowInv' /\ ActiveInv' /\ NeverNull'
  BY DEF TypeOK, Aligned, HandInv, RetInv, GrowInv, ActiveInv, NeverNull, Holding,
       EmptyHanded, Freeing, Halts, Create, At, Call, memory
<1>3. ChunkInv' /\ ListInv' /\ PendInv'
  <2>1. op'.size > 0 /\ op'.list = {} /\ ~HasChunk'
    BY <1>0 DEF Call, NoOp, HasChunk, Freeing
  <2> QED BY <2>1 DEF ChunkInv, ListInv, PendInv, RegionAt, Create, memory, booting
<1>4. Exclusive'
  BY DEF Exclusive, ExclusiveIn, InternalRegion, InHand, Create, memory
<1> QED BY <1>1, <1>2, <1>3, <1>4

\* A request for a preloaded object.
LEMMA StepCreateInternal ==
  ASSUME IInv, CreateInternal
  PROVE  IInv'
<1> USE DEF IInv
<1>0. PICK fl \in Flags, n \in Nat \ {0}, b \in Nat : Call(fl, n, b)
  <2>1. PICK o \in mem.objects : Call("internal", o.size, o.base)
    BY DEF CreateInternal
  <2>2. o \in Region /\ "internal" \in Flags
    BY MapsAssumption DEF TypeOK, Flags
  <2> QED BY <2>1, <2>2 DEF Region
<1>1. TypeOK'
  <2>1. op' = [flags |-> fl, size |-> n, at |-> b, cur |-> 0, want |-> 0,
              list |-> {}, bt |-> 0]
    BY <1>0 DEF Call, NoOp
  <2>2. {} \in PhysList /\ 0 \in 0..BtMax
    BY ParamAssumption DEF PhysList
  <2>3. op' \in [flags : Flags, size : Nat, at : Nat, cur : Nat, want : Nat,
                 list : PhysList, bt : 0..BtMax]
    BY <2>1, <2>2
  <2> QED BY <1>0, <2>3 DEF TypeOK, Call, PCs, CreateInternal, memory, caches, booting
<1>2. Aligned' /\ HandInv' /\ RetInv' /\ GrowInv' /\ ActiveInv' /\ NeverNull'
  BY DEF TypeOK, Aligned, HandInv, RetInv, GrowInv, ActiveInv, NeverNull, Holding,
       EmptyHanded, Freeing, Halts, CreateInternal, At, Call, memory
<1>3. ChunkInv' /\ ListInv' /\ PendInv'
  <2>1. op'.size > 0 /\ op'.list = {} /\ ~HasChunk'
    BY <1>0 DEF Call, NoOp, HasChunk, Freeing
  <2> QED BY <2>1 DEF ChunkInv, ListInv, PendInv, RegionAt, CreateInternal, memory, booting
<1>4. Exclusive'
  BY DEF Exclusive, ExclusiveIn, InternalRegion, InHand, CreateInternal, memory
<1> QED BY <1>1, <1>2, <1>3, <1>4

\* The memsection node is taken and the virtual chunk asked for.
LEMMA StepNew ==
  ASSUME IInv, New
  PROVE  IInv'
<1> USE DEF IInv
<1>1. TypeOK'
  BY DEF TypeOK, Allocs, Caches, NoPages, PCs, New, CallAlloc, memory, booting
<1>2. Aligned' /\ HandInv' /\ RetInv' /\ GrowInv' /\ ActiveInv' /\ NeverNull'
  BY DEF TypeOK, Aligned, HandInv, RetInv, GrowInv, ActiveInv, NeverNull, Growing, Holding,
       EmptyHanded, Freeing, Halts, NoPages, New, At, CallAlloc, memory
<1>3. ChunkInv' /\ ListInv' /\ PendInv'
  BY DEF TypeOK, ChunkInv, ListInv, PendInv, SizedOp, HasChunk, Freeing, RegionAt, New, At,
       CallAlloc, memory, booting
<1>4. Exclusive'
  BY DEF Exclusive, ExclusiveIn, Apart, InternalRegion, InHand, HandInv, Allocs, NoPages,
       New, At, CallAlloc, memory
<1> QED BY <1>1, <1>2, <1>3, <1>4

\* The largest fpage was too small and goes back.
LEMMA StepChunkShort ==
  ASSUME IInv, ChunkShort
  PROVE  IInv'
<1> USE DEF IInv
<1>1. TypeOK'
  BY DEF TypeOK, Allocs, PCs, ChunkShort, CallFree, memory, caches, booting
<1>2. Aligned' /\ HandInv' /\ RetInv' /\ GrowInv' /\ ActiveInv' /\ NeverNull'
  BY DEF Aligned, HandInv, RetInv, GrowInv, ActiveInv, NeverNull, Growing, Holding,
       EmptyHanded, Resumes, ChunkShort, At, CallFree, memory, caches
<1>3. ChunkInv' /\ ListInv' /\ PendInv'
  BY DEF TypeOK, ChunkInv, ListInv, PendInv, HasChunk, RegionAt, ChunkShort, CallFree,
       memory, booting
<1>4. Exclusive'
  BY DEF Exclusive, ExclusiveIn, InternalRegion, InHand, HandInv, RetInv, Region, Fpage,
       ChunkShort, At, CallFree, memory
<1> QED BY <1>1, <1>2, <1>3, <1>4

\* The first pages of the fpage are handed out and the others freed.
LEMMA StepChunkTrim ==
  ASSUME IInv, ChunkTrim
  PROVE  IInv'
<1> USE DEF IInv
<1>0. /\ al = "vm" /\ op.size \in Nat \ {0} /\ op.size <= hand.size
      /\ hand.base \in Nat /\ hand.size \in Nat \ {0} /\ hand \in Region
  BY DEF ChunkTrim, At, RetInv, ChunkInv, SizedOp, TypeOK, Region
<1> DEFINE first == [base |-> hand.base, size |-> op.size]
           rest  == [base |-> hand.base + op.size, size |-> hand.size - op.size]
<1>a. /\ first \in Region /\ Within(first, hand)
      /\ hand.size > op.size => rest \in Region /\ Within(rest, hand) /\ Disj(rest, first)
  BY <1>0 DEF Region, Within, Disj, EndOf
<1>b. /\ used' = [used EXCEPT !["vm"] = @ \union {first}]
      /\ op' = [op EXCEPT !.at = hand.base, !.cur = hand.base]
      /\ \/ /\ hand.size > op.size /\ hand' = rest /\ al' = "vm"
            /\ pc' = "free" /\ ret' = "back"
         \/ /\ hand.size = op.size /\ hand' = NoPages /\ UNCHANGED <<al, ret>>
            /\ pc' = "back"
  BY <1>0 DEF ChunkTrim, CallFree
<1>1. TypeOK'
  <2>1. used' \in [Allocs -> SUBSET Region]
    BY <1>a, <1>b DEF TypeOK
  <2>2. hand' \in [base : Nat, size : Nat] /\ pc' \in PCs /\ ret' \in PCs /\ al' \in Allocs
    BY <1>0, <1>a, <1>b DEF TypeOK, NoPages, PCs, Allocs
  <2>3. op' \in [flags : Flags, size : Nat, at : Nat, cur : Nat, want : Nat,
                 list : PhysList, bt : 0..BtMax]
    BY <1>0, <1>b DEF TypeOK
  <2> QED BY <2>1, <2>2, <2>3 DEF TypeOK, ChunkTrim, caches, booting
<1>2. Aligned' /\ HandInv' /\ RetInv' /\ GrowInv' /\ ActiveInv' /\ NeverNull'
  BY DEF TypeOK, Aligned, HandInv, RetInv, GrowInv, ActiveInv, NeverNull, Growing, Holding,
       EmptyHanded, Freeing, Resumes, NoPages, ChunkTrim, At, CallFree, caches
<1>3. ChunkInv' /\ ListInv' /\ PendInv'
  <2>1. Chunk' = first /\ op'.list = op.list
    BY <1>b DEF Chunk, TypeOK
  <2>2. first \in used'["vm"] /\ used'["pm"] = used["pm"]
    BY <1>b DEF TypeOK, Allocs
  <2>3. \A i \in pending["vm"] : RegionAt("vm", i) # first
    <3> SUFFICES ASSUME NEW i \in pending["vm"] PROVE RegionAt("vm", i) # first
      OBVIOUS
    <3>1. RegionAt("vm", i) \in used["vm"] /\ RegionAt("vm", i) \in Region
      BY PendingFacts DEF Allocs
    <3>2. Disj(hand, RegionAt("vm", i))
      BY <1>0, <3>1 DEF Exclusive, ExclusiveIn, Apart, InHand, Allocs
    <3> HIDE DEF first
    <3> QED BY <1>0, <1>a, <3>1, <3>2, DisjWithin, DisjDistinct
  <2>4. PendInv'
    BY <1>b DEF PendInv, ChunkTrim, booting, RegionAt, TypeOK
  <2>5. ListInv'
    BY <2>1, <2>2 DEF ListInv, ChunkTrim, booting, RegionAt
  <2>6. ~SizedOp'
    BY <1>b DEF SizedOp
  <2> QED BY <2>1, <2>2, <2>3, <2>4, <2>5, <2>6 DEF ChunkInv, ChunkTrim, booting, RegionAt
<1>4. Exclusive'
  <2> SUFFICES ASSUME NEW a \in Allocs PROVE ExclusiveIn(a)'
    BY DEF Exclusive
  <2>1. flist'[a] = flist[a] /\ internal'[a] = internal[a] /\ ExclusiveIn(a)
    BY DEF ChunkTrim, Exclusive
  <2>2. CASE a = "vm"
    <3>1. used'[a] = used[a] \union {first}
      BY <1>b, <2>2 DEF TypeOK
    <3>2. InHand(a) = {hand} /\ InHand(a)' \subseteq {rest}
      BY <1>0, <1>b, <2>2 DEF InHand, NoPages
    <3>3. InHand(a)' # {} => hand.size > op.size
      BY <1>b DEF InHand, NoPages
    <3> HIDE DEF first, rest
    <3> QED BY <1>a, <2>1, <3>1, <3>2, <3>3, HandOut
  <2>3. CASE a # "vm"
    <3>1. used'[a] = used[a] /\ InHand(a)' = {}
      BY <1>0, <1>b, <2>3 DEF TypeOK, InHand, NoPages
    <3> QED BY <2>1, <3>1, ExclusiveSame
  <2> QED BY <2>2, <2>3
<1> QED BY <1>1, <1>2, <1>3, <1>4

\* Physical pages are asked for, or not.
LEMMA StepBack ==
  ASSUME IInv, Back, op.flags # "fixed"
  PROVE  IInv'
<1> USE DEF IInv
<1>1. TypeOK'
  BY DEF TypeOK, PCs, Back, memory, caches, booting
<1>2. Aligned' /\ HandInv' /\ RetInv' /\ GrowInv' /\ ActiveInv' /\ NeverNull'
  BY DEF TypeOK, Aligned, HandInv, RetInv, GrowInv, ActiveInv, NeverNull, Growing, Holding,
       EmptyHanded, Freeing, Halts, Back, At, memory, caches
<1>3. ChunkInv' /\ ListInv' /\ PendInv'
  <2>1. /\ op.size > 0 /\ Chunk \in used["vm"]
        /\ \A i \in pending["vm"] : RegionAt("vm", i) # Chunk
    BY DEF ChunkInv, HasChunk, Chunk, TypeOK, Region, Allocs, Back, At
  <2> QED BY <2>1 DEF ChunkInv, ListInv, PendInv, Chunk, RegionAt, Back, memory, booting
<1>4. Exclusive'
  BY DEF Exclusive, ExclusiveIn, InternalRegion, InHand, Back, memory
<1> QED BY <1>1, <1>2, <1>3, <1>4

\* The next physical fpage is asked for.
LEMMA StepListNext ==
  ASSUME IInv, ListNext
  PROVE  IInv'
<1> USE DEF IInv
<1>1. TypeOK'
  <2>1. PICK n \in Nat : op' = [op EXCEPT !.want = n]
    BY SizesAssumption DEF ListNext, CallAlloc
  <2>2. op' \in [flags : Flags, size : Nat, at : Nat, cur : Nat, want : Nat,
                 list : PhysList, bt : 0..BtMax]
    BY <2>1 DEF TypeOK
  <2>3. pc' \in PCs /\ ret' \in PCs /\ al' \in Allocs /\ hand' \in [base : Nat, size : Nat]
    BY DEF ListNext, CallAlloc, NoPages, PCs, Allocs
  <2> QED BY <2>2, <2>3 DEF TypeOK, ListNext, memory, caches, booting
<1>2. Aligned' /\ HandInv' /\ RetInv' /\ GrowInv' /\ ActiveInv' /\ NeverNull'
  BY DEF Aligned, HandInv, RetInv, GrowInv, ActiveInv, NeverNull, Growing, Holding,
       Freeing, NoPages, ListNext, At, CallAlloc, memory, caches
<1>3. ChunkInv' /\ ListInv' /\ PendInv'
  BY DEF ChunkInv, ListInv, PendInv, SizedOp, HasChunk, Chunk, RegionAt, ListNext, At,
       CallAlloc, memory, booting
<1>4. Exclusive'
  BY DEF Exclusive, ExclusiveIn, Apart, InternalRegion, InHand, NoPages, ListNext,
       CallAlloc, memory
<1> QED BY <1>1, <1>2, <1>3, <1>4

\* The memsection is completely backed.
LEMMA StepListDone ==
  ASSUME IInv, ListDone, op.flags # "fixed"
  PROVE  IInv'
<1> USE DEF IInv
<1>1. TypeOK'
  BY DEF TypeOK, PCs, ListDone, memory, caches, booting
<1>2. Aligned' /\ HandInv' /\ RetInv' /\ GrowInv' /\ ActiveInv' /\ NeverNull'
  BY DEF TypeOK, Aligned, HandInv, RetInv, GrowInv, ActiveInv, NeverNull, Holding,
       EmptyHanded, Freeing, Halts, ListDone, At, memory
<1>3. ChunkInv' /\ ListInv' /\ PendInv'
  <2>1. /\ op.size > 0 /\ Chunk \in used["vm"]
        /\ \A i \in pending["vm"] : RegionAt("vm", i) # Chunk
    BY DEF ChunkInv, HasChunk, Chunk, TypeOK, Region, Allocs, ListDone, At
  <2> QED BY <2>1 DEF ChunkInv, ListInv, PendInv, Chunk, RegionAt, ListDone, memory, booting
<1>4. Exclusive'
  BY DEF Exclusive, ExclusiveIn, InternalRegion, InHand, ListDone, memory
<1> QED BY <1>1, <1>2, <1>3, <1>4

\* A physical fpage joins the list: it was in hand, so no fpage of the list is
\* equal to it.
LEMMA StepListNode ==
  ASSUME IInv, ListNode
  PROVE  IInv'
<1> USE DEF IInv
<1>0. al = "pm" /\ hand \in Region /\ hand \in Fpage
  BY SizesAssumption DEF ListNode, At, RetInv, Aligned, TypeOK, Region, Fpage
<1>a. InHand("pm") = {hand}
  BY <1>0 DEF InHand, Region
<1>b. used' = [used EXCEPT !["pm"] = @ \union {hand}] /\ hand' = NoPages
  BY DEF ListNode
<1>c. \A u \in used["pm"] : u \in Region /\ u # hand
  BY <1>0, <1>a, HeldRegions, DisjDistinct DEF Exclusive, ExclusiveIn, Apart, Allocs
<1>1. TypeOK'
  <2>1. used' \in [Allocs -> SUBSET Region] /\ slabs' \in [Caches -> Nat]
    BY <1>0, <1>b DEF TypeOK, ListNode, Caches
  <2>2. PICK l : l = op.list \union {[virt |-> op.cur, fpage |-> hand]}
    OBVIOUS
  <2>3. l \in PhysList
    BY <1>0, <2>2 DEF TypeOK, PhysList
  <2>4. PICK n \in Nat : n = op.cur + hand.size
    BY DEF TypeOK
  <2>5. op' = [op EXCEPT !.list = l, !.cur = n]
    BY <2>2, <2>4 DEF ListNode
  <2>6. op' \in [flags : Flags, size : Nat, at : Nat, cur : Nat, want : Nat,
                 list : PhysList, bt : 0..BtMax]
    BY <2>3, <2>5 DEF TypeOK
  <2> QED BY <2>1, <2>6 DEF TypeOK, ListNode, NoPages, PCs, booting
<1>2. Aligned' /\ HandInv' /\ RetInv' /\ GrowInv' /\ ActiveInv' /\ NeverNull'
  BY DEF Aligned, HandInv, RetInv, GrowInv, ActiveInv, NeverNull, Growing, Holding,
       Freeing, NoPages, ListNode, At
<1>3. ChunkInv' /\ ListInv' /\ PendInv'
  <2>1. PendInv'
    BY <1>b DEF PendInv, ListNode, booting, RegionAt, TypeOK
  <2>2. used'["vm"] = used["vm"] /\ used'["pm"] = used["pm"] \union {hand} /\ Chunk' = Chunk
    BY <1>b DEF TypeOK, Allocs, Chunk, ListNode
  <2>3. ChunkInv'
    BY <2>2 DEF ChunkInv, SizedOp, HasChunk, ListNode, At, booting, RegionAt
  <2>4. \A i \in pending["pm"] : RegionAt("pm", i) # hand
    BY <1>c DEF PendInv, Allocs
  <2>5. op'.list = op.list \union {[virt |-> op.cur, fpage |-> hand]}
    BY DEF ListNode, TypeOK
  <2>6. ListInv'
    BY <1>c, <2>2, <2>4, <2>5 DEF ListInv, ListNode, booting, RegionAt
  <2> QED BY <2>1, <2>3, <2>6
<1>4. Exclusive'
  <2> SUFFICES ASSUME NEW a \in Allocs PROVE ExclusiveIn(a)'
    BY DEF Exclusive
  <2>1. /\ flist'[a] = flist[a] /\ internal'[a] = internal[a] /\ ExclusiveIn(a)
        /\ InHand(a)' = {} /\ Within(hand, hand)
    BY <1>0 DEF ListNode, Exclusive, InHand, NoPages, Within, EndOf, Region
  <2>2. CASE a = "pm"
    <3>1. used'[a] = used[a] \union {hand} /\ InHand(a) = {hand}
      BY <1>a, <1>b, <2>2 DEF TypeOK
    <3> QED BY <1>0, <2>1, <3>1, HandOut
  <2>3. CASE a # "pm"
    <3>1. used'[a] = used[a]
      BY <1>b, <2>3 DEF TypeOK
    <3> QED BY <2>1, <3>1, ExclusiveSame
  <2> QED BY <2>2, <2>3
<1> QED BY <1>1, <1>2, <1>3, <1>4

\* An fpage of the list goes back: by ListInv it is handed-out memory, and nobody
\* else's.
LEMMA StepUndoOne ==
  ASSUME IInv, UndoOne
  PROVE  IInv'
<1> USE DEF IInv
<1>0. PICK e \in op.list :
        /\ op' = [op EXCEPT !.list = @ \ {e}]
        /\ used' = [used EXCEPT !["pm"] = @ \ {e.fpage}]
        /\ CallFree("pm", e.fpage, "undone")
  BY DEF UndoOne
<1>a. e.fpage \in used["pm"] /\ e.fpage \in Region
  BY DEF ListInv, TypeOK, Allocs
<1>1. TypeOK'
  BY SizesAssumption DEF TypeOK, Allocs, PCs, Fpage, PhysList, UndoOne, CallFree, caches,
       booting
<1>2. Aligned' /\ HandInv' /\ RetInv' /\ GrowInv' /\ ActiveInv' /\ NeverNull'
  BY <1>0, <1>a DEF Aligned, HandInv, RetInv, GrowInv, ActiveInv, NeverNull, Growing,
       Holding, EmptyHanded, Freeing, Resumes, Region, CallFree, UndoOne, At, caches
<1>3. ChunkInv' /\ ListInv' /\ PendInv'
  BY DEF ChunkInv, ListInv, PendInv, SizedOp, HasChunk, Chunk, RegionAt, UndoOne, At,
       CallFree, booting
<1>4. Exclusive'
  <2> SUFFICES ASSUME NEW a \in Allocs PROVE ExclusiveIn(a)'
    BY DEF Exclusive
  <2>1. flist'[a] = flist[a] /\ internal'[a] = internal[a] /\ ExclusiveIn(a)
    BY DEF UndoOne, Exclusive
  <2>2. CASE a = "pm"
    <3>1. used'[a] = used[a] \ {e.fpage} /\ InHand(a)' \subseteq {e.fpage}
      BY <1>0, <2>2 DEF TypeOK, InHand, CallFree
    <3> QED BY <1>a, <2>1, <2>2, <3>1, TakeBack
  <2>3. CASE a # "pm"
    <3>1. used'[a] = used[a] /\ InHand(a)' = {}
      BY <1>0, <2>3 DEF TypeOK, InHand, CallFree
    <3> QED BY <2>1, <3>1, ExclusiveSame
  <2> QED BY <2>2, <2>3
<1> QED BY <1>1, <1>2, <1>3, <1>4

\* Its node goes back to fp_cache.
LEMMA StepUndoNode ==
  ASSUME IInv, UndoNode
  PROVE  IInv'
<1> USE DEF IInv
<1>1. TypeOK'
  BY DEF TypeOK, Caches, PCs, UndoNode, memory, booting
<1>2. Aligned' /\ HandInv' /\ RetInv' /\ GrowInv' /\ ActiveInv' /\ NeverNull'
  BY DEF TypeOK, Aligned, HandInv, RetInv, GrowInv, ActiveInv, NeverNull, Growing, Holding,
       EmptyHanded, Freeing, Halts, UndoNode, At, memory
<1>3. ChunkInv' /\ ListInv' /\ PendInv'
  BY DEF ChunkInv, ListInv, PendInv, SizedOp, HasChunk, Chunk, RegionAt, UndoNode, At,
       memory, booting
<1>4. Exclusive'
  BY DEF Exclusive, ExclusiveIn, InternalRegion, InHand, UndoNode, memory
<1> QED BY <1>1, <1>2, <1>3, <1>4

\* The virtual chunk goes back: by ChunkInv it is handed-out memory.
LEMMA StepUndoDone ==
  ASSUME IInv, UndoDone, op.flags # "fixed"
  PROVE  IInv'
<1> USE DEF IInv
<1>0. /\ used' = [used EXCEPT !["vm"] = @ \ {Chunk}]
      /\ CallFree("vm", Chunk, "fail")
  BY DEF UndoDone, Chunk
<1>a. Chunk \in used["vm"] /\ Chunk \in Region
  BY DEF ChunkInv, HasChunk, UndoDone, At, TypeOK, Allocs
<1>1. TypeOK'
  BY DEF TypeOK, Allocs, PCs, UndoDone, CallFree, caches, booting
<1>2. Aligned' /\ HandInv' /\ RetInv' /\ GrowInv' /\ ActiveInv' /\ NeverNull'
  BY <1>0, <1>a DEF Aligned, HandInv, RetInv, GrowInv, ActiveInv, NeverNull, Growing,
       Holding, EmptyHanded, Freeing, Resumes, Region, CallFree, UndoDone, At, caches
<1>3. ChunkInv' /\ ListInv' /\ PendInv'
  BY DEF ChunkInv, ListInv, PendInv, SizedOp, HasChunk, Chunk, RegionAt, UndoDone, At,
       CallFree, booting
<1>4. Exclusive'
  <2> SUFFICES ASSUME NEW a \in Allocs PROVE ExclusiveIn(a)'
    BY DEF Exclusive
  <2>1. flist'[a] = flist[a] /\ internal'[a] = internal[a] /\ ExclusiveIn(a)
    BY DEF UndoDone, Exclusive
  <2>2. CASE a = "vm"
    <3>1. used'[a] = used[a] \ {Chunk} /\ InHand(a)' \subseteq {Chunk}
      BY <1>0, <2>2 DEF TypeOK, InHand, CallFree
    <3> QED BY <1>a, <2>1, <2>2, <3>1, TakeBack
  <2>3. CASE a # "vm"
    <3>1. used'[a] = used[a] /\ InHand(a)' = {}
      BY <1>0, <2>3 DEF TypeOK, InHand, CallFree
    <3> QED BY <2>1, <3>1, ExclusiveSame
  <2> QED BY <2>2, <2>3
<1> QED BY <1>1, <1>2, <1>3, <1>4

\* The B+ tree takes a page of its own cache.
LEMMA StepInsertPage ==
  ASSUME IInv, InsertPage
  PROVE  IInv'
<1> USE DEF IInv
<1>1. TypeOK'
  BY ParamAssumption DEF TypeOK, Allocs, Caches, InsertPage, memory, booting
<1>2. Aligned' /\ HandInv' /\ RetInv' /\ GrowInv' /\ ActiveInv' /\ NeverNull'
  BY DEF Aligned, HandInv, RetInv, GrowInv, ActiveInv, NeverNull, Growing, InsertPage,
       memory
<1>3. ChunkInv' /\ ListInv' /\ PendInv'
  BY DEF ChunkInv, ListInv, PendInv, SizedOp, HasChunk, Chunk, RegionAt, InsertPage,
       memory, booting
<1>4. Exclusive'
  BY DEF Exclusive, ExclusiveIn, InternalRegion, InHand, InsertPage, memory
<1> QED BY <1>1, <1>2, <1>3, <1>4

\* The memsection is complete.
LEMMA StepInsertDone ==
  ASSUME IInv, InsertDone
  PROVE  IInv'
<1> USE DEF IInv
<1>1. TypeOK'
  <2>1. op.size \in Nat \ {0}
    BY DEF TypeOK, ChunkInv, SizedOp, InsertDone, At
  <2>2. sections' \subseteq [flags : Flags, base : Nat, size : Nat \ {0}, list : PhysList]
    BY <2>1 DEF TypeOK, InsertDone
  <2>3. op' \in [flags : Flags, size : Nat, at : Nat, cur : Nat, want : Nat,
                 list : PhysList, bt : 0..BtMax]
    BY ParamAssumption DEF InsertDone, NoOp, Flags, PhysList
  <2> QED BY <2>2, <2>3 DEF TypeOK, InsertDone, PCs, memory, caches, booting
<1>2. Aligned' /\ HandInv' /\ RetInv' /\ GrowInv' /\ ActiveInv' /\ NeverNull'
  BY DEF TypeOK, Aligned, HandInv, RetInv, GrowInv, ActiveInv, NeverNull, Growing, Holding,
       EmptyHanded, Freeing, Halts, InsertDone, At, memory, caches
<1>3. ChunkInv' /\ ListInv' /\ PendInv'
  BY DEF ChunkInv, ListInv, PendInv, SizedOp, HasChunk, Freeing, NoOp, RegionAt,
       InsertDone, memory, booting
<1>4. Exclusive'
  BY DEF Exclusive, ExclusiveIn, InternalRegion, InHand, InsertDone, memory
<1> QED BY <1>1, <1>2, <1>3, <1>4

\* The creation failed and its node is freed.
LEMMA StepFail ==
  ASSUME IInv, Fail
  PROVE  IInv'
<1> USE DEF IInv
<1>1. TypeOK'
  BY ParamAssumption DEF TypeOK, Caches, NoOp, PCs, Flags, PhysList, Fail, memory, booting
<1>2. Aligned' /\ HandInv' /\ RetInv' /\ GrowInv' /\ ActiveInv' /\ NeverNull'
  BY DEF TypeOK, Aligned, HandInv, RetInv, GrowInv, ActiveInv, NeverNull, Growing, Holding,
       EmptyHanded, Freeing, Halts, Fail, At, memory
<1>3. ChunkInv' /\ ListInv' /\ PendInv'
  BY DEF ChunkInv, ListInv, PendInv, SizedOp, HasChunk, Freeing, NoOp, RegionAt, Fail,
       memory, booting
<1>4. Exclusive'
  BY DEF Exclusive, ExclusiveIn, InternalRegion, InHand, Fail, memory
<1> QED BY <1>1, <1>2, <1>3, <1>4

\* The first virtual region becomes the internal region of vm_alloc, which is
\* empty.
LEMMA StepBootVm ==
  ASSUME IInv, BootVm
  PROVE  IInv'
<1> USE DEF IInv
<1>0. PICK i \in pending["vm"] :
        /\ TakeRegion("vm", i)
        /\ internal' = [internal EXCEPT !["vm"] =
                          [base |-> RegionAt("vm", i).base, end |-> EndOf(RegionAt("vm", i)),
                           active |-> TRUE]]
  BY DEF BootVm
<1> DEFINE r == RegionAt("vm", i)
<1>a. r \in Region /\ r \in used["vm"] /\ "vm" \in Allocs
  BY PendingFacts DEF Allocs
<1>b. /\ pending' \in [Allocs -> SUBSET (Nat \ {0})]
      /\ used' \in [Allocs -> SUBSET Region]
      /\ ListInv' /\ PendInv'
  BY <1>0, <1>a, TakeRegionKeeps DEF BootVm
<1>c. r.base \in Nat /\ EndOf(r) \in Nat /\ r.base < EndOf(r) /\ r.size = EndOf(r) - r.base
  BY <1>a DEF Region, EndOf
<1>d. internal' = [internal EXCEPT !["vm"] = [base |-> r.base, end |-> EndOf(r),
                                             active |-> TRUE]]
  BY <1>0
<1>e. used' = [used EXCEPT !["vm"] = @ \ {r}]
  BY <1>0 DEF TakeRegion
<1> HIDE DEF r
<1>1. TypeOK'
  <2>1. internal' \in [Allocs -> [base : Nat, end : Nat, active : BOOLEAN]]
    BY <1>c, <1>d DEF TypeOK
  <2> QED BY <1>b, <2>1 DEF TypeOK, BootVm, PCs, caches
<1>2. Aligned' /\ HandInv' /\ RetInv' /\ GrowInv' /\ ActiveInv' /\ NeverNull'
  <2>1. ActiveInv'
    BY <1>c, <1>d DEF ActiveInv, TypeOK, BootVm, At
  <2> QED BY <2>1 DEF Aligned, HandInv, RetInv, GrowInv, NeverNull, Growing, Holding,
       EmptyHanded, Freeing, PCs, Halts, BootVm, At, caches
<1>3. ChunkInv' /\ ListInv' /\ PendInv'
  BY <1>b DEF ChunkInv, SizedOp, HasChunk, Freeing, BootVm
<1>4. Exclusive'
  <2> SUFFICES ASSUME NEW a \in Allocs PROVE ExclusiveIn(a)'
    BY DEF Exclusive
  <2>1. flist'[a] = flist[a] /\ ExclusiveIn(a) /\ InHand(a)' = {}
    BY DEF BootVm, Exclusive, InHand, HandInv, At, EmptyHanded, PCs, Holding, Halts
  <2>2. CASE a = "vm"
    <3>1. used'[a] = used[a] \ {r}
      BY <1>e, <2>2 DEF TypeOK
    <3>2. internal'[a].base = r.base /\ internal'[a].end = EndOf(r)
      BY <1>d, <2>2 DEF TypeOK
    <3>3. InternalRegion(a)' = {r}
      <4>1. [base |-> r.base, size |-> EndOf(r) - r.base] = r
        BY <1>a, <1>c DEF Region
      <4> QED BY <1>c, <3>2, <4>1 DEF InternalRegion
    <3>4. \A s \in flist[a] \union used'[a] : Disj(r, s)
      BY <1>a, <2>1, <2>2, <3>1, DisjSymmetric DEF ExclusiveIn, Separate, Apart
    <3> QED BY <2>1, <3>1, <3>3, <3>4 DEF ExclusiveIn, Separate, Apart
  <2>3. CASE a # "vm"
    <3>1. used'[a] = used[a] /\ internal'[a] = internal[a]
      BY <1>d, <1>e, <2>3 DEF TypeOK
    <3> QED BY <2>1, <3>1, ExclusiveSame
  <2> QED BY <2>2, <2>3
<1> QED BY <1>1, <1>2, <1>3, <1>4

\* The first physical region is freed.
LEMMA StepBootPm ==
  ASSUME IInv, BootPm
  PROVE  IInv'
<1> USE DEF IInv
<1>0. PICK i \in pending["pm"] :
        TakeRegion("pm", i) /\ CallFree("pm", RegionAt("pm", i), "boot_pm_rest")
  BY DEF BootPm
<1> DEFINE r == RegionAt("pm", i)
<1>a. r \in Region /\ r \in used["pm"] /\ "pm" \in Allocs
  BY PendingFacts DEF Allocs
<1>b. /\ pending' \in [Allocs -> SUBSET (Nat \ {0})]
      /\ used' \in [Allocs -> SUBSET Region]
      /\ ListInv' /\ PendInv'
  BY <1>0, <1>a, TakeRegionKeeps DEF BootPm
<1>c. used' = [used EXCEPT !["pm"] = @ \ {r}] /\ CallFree("pm", r, "boot_pm_rest")
  BY <1>0 DEF TakeRegion
<1> HIDE DEF r
<1>1. TypeOK'
  BY <1>a, <1>b, <1>c DEF TypeOK, BootPm, CallFree, PCs, Region, caches
<1>2. Aligned' /\ HandInv' /\ RetInv' /\ GrowInv' /\ ActiveInv' /\ NeverNull'
  BY <1>a, <1>c DEF Aligned, HandInv, RetInv, GrowInv, ActiveInv, NeverNull, Growing,
       Holding, EmptyHanded, Freeing, Resumes, Region, CallFree, BootPm, At, caches
<1>3. ChunkInv' /\ ListInv' /\ PendInv'
  BY <1>b, <1>c DEF ChunkInv, SizedOp, HasChunk, Freeing, CallFree
<1>4. Exclusive'
  <2> SUFFICES ASSUME NEW a \in Allocs PROVE ExclusiveIn(a)'
    BY DEF Exclusive
  <2>1. flist'[a] = flist[a] /\ internal'[a] = internal[a] /\ ExclusiveIn(a)
    BY DEF BootPm, Exclusive
  <2>2. CASE a = "pm"
    <3>1. used'[a] = used[a] \ {r} /\ InHand(a)' \subseteq {r}
      BY <1>c, <2>2 DEF TypeOK, InHand, CallFree
    <3> QED BY <1>a, <2>1, <2>2, <3>1, TakeBack
  <2>3. CASE a # "pm"
    <3>1. used'[a] = used[a] /\ InHand(a)' = {}
      BY <1>c, <2>3 DEF TypeOK, InHand, CallFree
    <3> QED BY <2>1, <3>1, ExclusiveSame
  <2> QED BY <2>2, <2>3
<1> QED BY <1>1, <1>2, <1>3, <1>4

\* sys$bootstrap goes on without a virtual region.
LEMMA StepBootVmNone ==
  ASSUME IInv, BootVmNone
  PROVE  IInv'
<1> USE DEF IInv
<1>1. TypeOK'
  BY DEF TypeOK, PCs, BootVmNone, memory, caches, booting
<1>2. Aligned' /\ HandInv' /\ RetInv' /\ GrowInv' /\ ActiveInv' /\ NeverNull'
  BY DEF Aligned, HandInv, RetInv, GrowInv, ActiveInv, NeverNull, Holding, EmptyHanded,
       Freeing, Growing, PCs, Halts, BootVmNone, At, memory, caches
<1>3. ChunkInv' /\ ListInv' /\ PendInv'
  BY DEF ChunkInv, ListInv, PendInv, SizedOp, HasChunk, Freeing, RegionAt, BootVmNone,
       memory, booting
<1>4. Exclusive'
  BY DEF Exclusive, ExclusiveIn, InternalRegion, InHand, BootVmNone, memory
<1> QED BY <1>1, <1>2, <1>3, <1>4

\* sys$bootstrap refuses the memory map.
LEMMA StepBootPanic ==
  ASSUME IInv, BootPanic
  PROVE  IInv'
<1> USE DEF IInv
<1>1. TypeOK'
  BY DEF TypeOK, PCs, BootPanic, memory, caches, booting
<1>2. Aligned' /\ HandInv' /\ RetInv' /\ GrowInv' /\ ActiveInv' /\ NeverNull'
  BY DEF Aligned, HandInv, RetInv, GrowInv, ActiveInv, NeverNull, Holding, EmptyHanded,
       Freeing, Halts, BootPanic, At, memory
<1>3. ChunkInv' /\ ListInv' /\ PendInv'
  BY DEF ChunkInv, ListInv, PendInv, SizedOp, HasChunk, Freeing, RegionAt, BootPanic,
       memory, booting
<1>4. Exclusive'
  BY DEF Exclusive, ExclusiveIn, InternalRegion, InHand, BootPanic, memory
<1> QED BY <1>1, <1>2, <1>3, <1>4

\* The other physical regions are freed one by one.
LEMMA StepBootRestPm ==
  ASSUME IInv, BootRest("pm", "boot_pm_rest", "boot_vm_clear")
  PROVE  IInv'
<1> USE DEF IInv
<1>z. CASE pending["pm"] = {}
  <2>1. pc = "boot_pm_rest" /\ pc' = "boot_vm_clear" /\ ~Growing
    BY <1>z DEF BootRest, At
  <2>2. TypeOK'
    BY <1>z DEF TypeOK, BootRest, PCs, caches
  <2>3. Aligned' /\ HandInv' /\ RetInv' /\ GrowInv' /\ ActiveInv' /\ NeverNull'
    BY <1>z DEF Aligned, HandInv, RetInv, GrowInv, ActiveInv, NeverNull, Growing, Holding,
         EmptyHanded, Freeing, PCs, Halts, BootRest, At, caches
  <2>4. ChunkInv' /\ ListInv' /\ PendInv'
    BY <1>z DEF ChunkInv, ListInv, PendInv, SizedOp, HasChunk, Freeing, RegionAt, BootRest
  <2>5. Exclusive'
    BY <1>z, ExclusiveSame DEF Exclusive, InHand, BootRest
  <2> QED BY <2>2, <2>3, <2>4, <2>5
<1> SUFFICES ASSUME pending["pm"] # {} PROVE IInv'
  BY <1>z
<1>0. PICK i \in pending["pm"] :
        TakeRegion("pm", i) /\ CallFree("pm", RegionAt("pm", i), "boot_pm_rest")
  BY DEF BootRest
<1> DEFINE r == RegionAt("pm", i)
<1>a. r \in Region /\ r \in used["pm"] /\ "pm" \in Allocs
  BY PendingFacts DEF Allocs
<1>b. /\ pending' \in [Allocs -> SUBSET (Nat \ {0})]
      /\ used' \in [Allocs -> SUBSET Region]
      /\ ListInv' /\ PendInv'
  BY <1>0, <1>a, TakeRegionKeeps DEF BootRest
<1>c. used' = [used EXCEPT !["pm"] = @ \ {r}] /\ CallFree("pm", r, "boot_pm_rest")
  BY <1>0 DEF TakeRegion
<1> HIDE DEF r
<1>1. TypeOK'
  BY <1>a, <1>b, <1>c DEF TypeOK, BootRest, CallFree, PCs, Region, caches
<1>2. Aligned' /\ HandInv' /\ RetInv' /\ GrowInv' /\ ActiveInv' /\ NeverNull'
  BY <1>a, <1>c DEF Aligned, HandInv, RetInv, GrowInv, ActiveInv, NeverNull, Growing,
       Holding, EmptyHanded, Freeing, Resumes, Region, CallFree, BootRest, At, caches
<1>3. ChunkInv' /\ ListInv' /\ PendInv'
  BY <1>b, <1>c DEF ChunkInv, SizedOp, HasChunk, Freeing, CallFree
<1>4. Exclusive'
  <2> SUFFICES ASSUME NEW a \in Allocs PROVE ExclusiveIn(a)'
    BY DEF Exclusive
  <2>1. flist'[a] = flist[a] /\ internal'[a] = internal[a] /\ ExclusiveIn(a)
    BY DEF BootRest, Exclusive
  <2>2. CASE a = "pm"
    <3>1. used'[a] = used[a] \ {r} /\ InHand(a)' \subseteq {r}
      BY <1>c, <2>2 DEF TypeOK, InHand, CallFree
    <3> QED BY <1>a, <2>1, <2>2, <3>1, TakeBack
  <2>3. CASE a # "pm"
    <3>1. used'[a] = used[a] /\ InHand(a)' = {}
      BY <1>c, <2>3 DEF TypeOK, InHand, CallFree
    <3> QED BY <2>1, <3>1, ExclusiveSame
  <2> QED BY <2>2, <2>3
<1> QED BY <1>1, <1>2, <1>3, <1>4

\* sys$fpage_clear_internal is called on vm_alloc.
LEMMA StepBootVmClear ==
  ASSUME IInv, BootVmClear
  PROVE  IInv'
<1> USE DEF IInv
<1>1. TypeOK'
  BY DEF TypeOK, Allocs, PCs, BootVmClear, memory, caches, booting
<1>2. Aligned' /\ HandInv' /\ RetInv' /\ GrowInv' /\ ActiveInv' /\ NeverNull'
  BY DEF TypeOK, Aligned, HandInv, RetInv, GrowInv, ActiveInv, NeverNull, Growing, Holding,
       EmptyHanded, Freeing, Resumes, Halts, BootVmClear, At, memory, caches
<1>3. ChunkInv' /\ ListInv' /\ PendInv'
  BY DEF ChunkInv, ListInv, PendInv, SizedOp, HasChunk, Freeing, RegionAt, BootVmClear,
       memory, booting
<1>4. Exclusive'
  <2> SUFFICES ASSUME NEW a \in Allocs PROVE ExclusiveIn(a)'
    BY DEF Exclusive
  <2>1. InHand(a)' = {}
    BY DEF BootVmClear, At, HandInv, EmptyHanded, PCs, Holding, Halts, InHand
  <2> QED BY <2>1, ExclusiveSame DEF Exclusive, BootVmClear, memory
<1> QED BY <1>1, <1>2, <1>3, <1>4

\* The other virtual regions are freed one by one.
LEMMA StepBootRestVm ==
  ASSUME IInv, BootRest("vm", "boot_vm_rest", "boot_heap")
  PROVE  IInv'
<1> USE DEF IInv
<1>z. CASE pending["vm"] = {}
  <2>1. pc = "boot_vm_rest" /\ pc' = "boot_heap" /\ ~Growing
    BY <1>z DEF BootRest, At
  <2>2. TypeOK'
    BY <1>z DEF TypeOK, BootRest, PCs, caches
  <2>3. Aligned' /\ HandInv' /\ RetInv' /\ GrowInv' /\ ActiveInv' /\ NeverNull'
    BY <1>z DEF Aligned, HandInv, RetInv, GrowInv, ActiveInv, NeverNull, Growing, Holding,
         EmptyHanded, Freeing, PCs, Halts, BootRest, At, caches
  <2>4. ChunkInv' /\ ListInv' /\ PendInv'
    BY <1>z DEF ChunkInv, ListInv, PendInv, SizedOp, HasChunk, Freeing, RegionAt, BootRest
  <2>5. Exclusive'
    BY <1>z, ExclusiveSame DEF Exclusive, InHand, BootRest
  <2> QED BY <2>2, <2>3, <2>4, <2>5
<1> SUFFICES ASSUME pending["vm"] # {} PROVE IInv'
  BY <1>z
<1>0. PICK i \in pending["vm"] :
        TakeRegion("vm", i) /\ CallFree("vm", RegionAt("vm", i), "boot_vm_rest")
  BY DEF BootRest
<1> DEFINE r == RegionAt("vm", i)
<1>a. r \in Region /\ r \in used["vm"] /\ "vm" \in Allocs
  BY PendingFacts DEF Allocs
<1>b. /\ pending' \in [Allocs -> SUBSET (Nat \ {0})]
      /\ used' \in [Allocs -> SUBSET Region]
      /\ ListInv' /\ PendInv'
  BY <1>0, <1>a, TakeRegionKeeps DEF BootRest
<1>c. used' = [used EXCEPT !["vm"] = @ \ {r}] /\ CallFree("vm", r, "boot_vm_rest")
  BY <1>0 DEF TakeRegion
<1> HIDE DEF r
<1>1. TypeOK'
  BY <1>a, <1>b, <1>c DEF TypeOK, BootRest, CallFree, PCs, Region, caches
<1>2. Aligned' /\ HandInv' /\ RetInv' /\ GrowInv' /\ ActiveInv' /\ NeverNull'
  BY <1>a, <1>c DEF Aligned, HandInv, RetInv, GrowInv, ActiveInv, NeverNull, Growing,
       Holding, EmptyHanded, Freeing, Resumes, Region, CallFree, BootRest, At, caches
<1>3. ChunkInv' /\ ListInv' /\ PendInv'
  BY <1>b, <1>c DEF ChunkInv, SizedOp, HasChunk, Freeing, CallFree
<1>4. Exclusive'
  <2> SUFFICES ASSUME NEW a \in Allocs PROVE ExclusiveIn(a)'
    BY DEF Exclusive
  <2>1. flist'[a] = flist[a] /\ internal'[a] = internal[a] /\ ExclusiveIn(a)
    BY DEF BootRest, Exclusive
  <2>2. CASE a = "vm"
    <3>1. used'[a] = used[a] \ {r} /\ InHand(a)' \subseteq {r}
      BY <1>c, <2>2 DEF TypeOK, InHand, CallFree
    <3> QED BY <1>a, <2>1, <2>2, <3>1, TakeBack
  <2>3. CASE a # "vm"
    <3>1. used'[a] = used[a] /\ InHand(a)' = {}
      BY <1>c, <2>3 DEF TypeOK, InHand, CallFree
    <3> QED BY <2>1, <3>1, ExclusiveSame
  <2> QED BY <2>2, <2>3
<1> QED BY <1>1, <1>2, <1>3, <1>4

\* The kernel heap is asked for.
LEMMA StepBootHeap ==
  ASSUME IInv, BootHeap
  PROVE  IInv'
<1> USE DEF IInv
<1>0. PICK fl \in Flags, n \in Nat \ {0}, b \in Nat : Call(fl, n, b)
  BY ParamAssumption DEF BootHeap, Flags
<1>1. TypeOK'
  <2>1. op' = [flags |-> fl, size |-> n, at |-> b, cur |-> 0, want |-> 0,
              list |-> {}, bt |-> 0]
    BY <1>0 DEF Call, NoOp
  <2>2. {} \in PhysList /\ 0 \in 0..BtMax
    BY ParamAssumption DEF PhysList
  <2>3. op' \in [flags : Flags, size : Nat, at : Nat, cur : Nat, want : Nat,
                 list : PhysList, bt : 0..BtMax]
    BY <2>1, <2>2
  <2> QED BY <1>0, <2>3 DEF TypeOK, Call, PCs, BootHeap, memory, caches, booting
<1>2. Aligned' /\ HandInv' /\ RetInv' /\ GrowInv' /\ ActiveInv' /\ NeverNull'
  BY DEF TypeOK, Aligned, HandInv, RetInv, GrowInv, ActiveInv, NeverNull, Holding,
       EmptyHanded, Freeing, Halts, BootHeap, At, Call, memory
<1>3. ChunkInv' /\ ListInv' /\ PendInv'
  <2>1. op'.size > 0 /\ op'.list = {} /\ ~HasChunk'
    BY <1>0 DEF Call, NoOp, HasChunk, Freeing
  <2> QED BY <2>1 DEF ChunkInv, ListInv, PendInv, RegionAt, BootHeap, memory, booting
<1>4. Exclusive'
  BY DEF Exclusive, ExclusiveIn, InternalRegion, InHand, BootHeap, memory
<1> QED BY <1>1, <1>2, <1>3, <1>4

\* sys$pd_init sets its flag.
LEMMA StepPdInit ==
  ASSUME IInv, PdInit
  PROVE  IInv'
<1> USE DEF IInv
<1>1. TypeOK'
  BY DEF TypeOK, PdInit, memory, caches
<1>2. Aligned' /\ HandInv' /\ RetInv' /\ GrowInv' /\ ActiveInv' /\ NeverNull'
  BY DEF Aligned, HandInv, RetInv, GrowInv, ActiveInv, NeverNull, Growing, PdInit, memory,
       caches
<1>3. ChunkInv' /\ ListInv' /\ PendInv'
  BY DEF ChunkInv, ListInv, PendInv, SizedOp, HasChunk, Chunk, RegionAt, PdInit, memory
<1>4. Exclusive'
  BY DEF Exclusive, ExclusiveIn, InternalRegion, InHand, PdInit, memory
<1> QED BY <1>1, <1>2, <1>3, <1>4

\* A step that changes nothing: stuttering, and the kernel after a halt.
LEMMA StepStutter ==
  ASSUME IInv, UNCHANGED vars
  PROVE  IInv'
<1> USE DEF vars, IInv
<1>1. TypeOK'
  BY DEF TypeOK
<1>2. Aligned' /\ HandInv' /\ RetInv' /\ GrowInv' /\ ActiveInv' /\ NeverNull'
  BY DEF Aligned, HandInv, RetInv, GrowInv, Growing, ActiveInv, NeverNull
<1>3. ChunkInv' /\ ListInv' /\ PendInv'
  BY DEF ChunkInv, SizedOp, HasChunk, Chunk, ListInv, PendInv, RegionAt
<1>4. Exclusive'
  BY DEF Exclusive, ExclusiveIn, InternalRegion, InHand
<1> QED BY <1>1, <1>2, <1>3, <1>4

-----------------------------------------------------------------------------
\* A step of the specification, stuttering included, preserves the invariant.
LEMMA NextIInv ==
  ASSUME IInv, AllocStep
  PROVE  IInv'
<1>1. CASE UNCHANGED vars
  BY <1>1, StepStutter
<1>2. CASE op.flags # "fixed" /\ Next
  BY <1>2, StepStartGrow, StepGrowVirt, StepGrowPhys, StepGrowFails, StepGrowNode,
       StepFree, StepLoadInternal, StepClearTest, StepClearDone, StepClearNode,
       StepClearNil, StepAllocPick, StepAllocNil, StepSplitHalve, StepSplitDone,
       StepCreate, StepCreateInternal, StepNew, StepChunkShort, StepChunkTrim, StepBack,
       StepListNext, StepListDone, StepListNode, StepUndoOne, StepUndoNode, StepUndoDone,
       StepInsertPage, StepInsertDone, StepFail, StepBootVm, StepBootPm, StepBootVmNone,
       StepBootPanic, StepBootRestPm, StepBootVmClear, StepBootRestVm, StepBootHeap,
       StepPdInit, StepStutter DEF Next, Halted
<1>3. CASE Callees
  BY <1>3, StepStartGrow, StepGrowVirt, StepGrowPhys, StepGrowFails, StepGrowNode,
       StepFree, StepLoadInternal, StepClearTest, StepClearDone, StepClearNode,
       StepClearNil, StepAllocPick, StepAllocNil, StepSplitHalve, StepSplitDone,
       StepListNext, StepListNode, StepUndoOne, StepUndoNode, StepInsertPage, StepFail,
       StepStutter DEF Callees, Grows, Halted
<1> QED BY <1>1, <1>2, <1>3 DEF AllocStep

\* No memsection at a fixed address is being created.
Plain == op.flags # "fixed"

\* Without sys$elf_loader no memsection has a fixed address.
LEMMA NextPlain ==
  ASSUME TypeOK, op.flags # "fixed", [Next]_vars
  PROVE  op'.flags # "fixed"
<1>1. \A r \in Requests : r.flags # "fixed"
  BY ParamAssumption
<1>2. op \in [flags : Flags, size : Nat, at : Nat, cur : Nat, want : Nat,
              list : PhysList, bt : 0..BtMax]
  BY DEF TypeOK
<1>3. CASE op' = op
  BY <1>3
<1>4. CASE New \/ ListNext
  BY <1>2, <1>4 DEF New, ListNext, CallAlloc
<1>5. CASE ListNode \/ UndoOne \/ ChunkTrim \/ InsertPage
  BY <1>2, <1>5 DEF ListNode, UndoOne, ChunkTrim, InsertPage
<1>6. CASE InsertDone \/ Fail
  BY <1>6 DEF InsertDone, Fail, NoOp
<1>7. CASE Create
  BY <1>1, <1>7 DEF Create, Call, NoOp
<1>8. CASE CreateInternal \/ BootHeap
  BY <1>8 DEF CreateInternal, BootHeap, Call, NoOp
<1>9. CASE [Next]_vars
  BY <1>3, <1>4, <1>5, <1>6, <1>7, <1>8, <1>9 DEF Next, vars, Halted, StartGrow, GrowVirt,
     GrowPhys, GrowFails, GrowNode, Free, LoadInternal, ClearTest, ClearDone, ClearNode,
     ClearNil, AllocPick, AllocNil, SplitHalve, SplitDone, ChunkShort, Back, ListDone,
     UndoNode, UndoDone, BootVm, BootVmNone, BootPm, BootPanic, BootRest, BootVmClear, PdInit
<1> QED BY <1>9

\* The invariant holds in every state of every behaviour.
LEMMA Invariance == Spec => [](IInv /\ Plain)
<1>1. Init => Plain
  BY DEF Init, NoOp, Plain
<1>2. (IInv /\ Plain) /\ [Next]_vars => (IInv /\ Plain)'
  BY NextIInv, NextPlain DEF IInv, AllocStep, Plain
<1> QED BY InitIInv, <1>1, <1>2, PTL DEF Spec

\* The state of the allocators is always well formed; in particular, whatever
\* sys$fpage_clear_internal and a split put on a free list has one of the fpage
\* sizes.
THEOREM TypeCorrect == Spec => []TypeOK
<1>1. IInv => TypeOK
  BY DEF IInv
<1> QED BY <1>1, Invariance, PTL

\* No page is ever in two places: free lists, internal region, local variables of
\* the routine in progress and handed-out memory are disjoint, although a slab
\* cache may grow, and take pages, in the middle of every one of these routines.
THEOREM NoOverlap == Spec => []Exclusive
<1>1. IInv => Exclusive
  BY DEF IInv
<1> QED BY <1>1, Invariance, PTL

\* sys$fpage_alloc_internal never returns INVALID_ADDR, so sys$slab_cache_alloc
\* never returns NULL: every NULL branch of its callers is dead code.
THEOREM SlabNeverNull == Spec => []NeverNull
<1>1. IInv => NeverNull
  BY DEF IInv
<1> QED BY <1>1, Invariance, PTL

\* Every free fpage, and the one a routine is splitting, is aligned to its size,
\* whatever the bounds of the memory regions it was cut from.
THEOREM NaturallyAligned == Spec => []Aligned
<1>1. IInv => Aligned
  BY DEF IInv
<1> QED BY <1>1, Invariance, PTL

-----------------------------------------------------------------------------
(***************************************************************************)
(* The fpage allocators lose no page and every page handed out has one     *)
(* owner; the fpages behind a memsection tile its range; every slab is     *)
(* free or in use.  For every memory map and all sizes.                    *)
(*                                                                         *)
(* None of this is inductive by itself.  PInv adds, to the invariant IInv  *)
(* above,                                                                  *)
(*   - Control: in which states of the interrupted calls the internal      *)
(*     regions, the regions of the map still to be handed over and the     *)
(*     list of the creation in progress can be anything but empty;         *)
(*   - OwnInv: what is handed out is the disjoint union of what sections,  *)
(*     pools and growing caches own, what the creation in hand owns and    *)
(*     what is pending, and ApartInv: growing caches share nothing;        *)
(*   - BackInv: the list that sys$fpage_alloc_list has built so far tiles  *)
(*     the range up to where it is;                                        *)
(*   - SlabInv: the counts of slabs, with the node a call has in hand.     *)
(*                                                                         *)
(* A page is never lost because each step exchanges regions for others     *)
(* with the same pages (Exchange).  That the parts of a list fit together  *)
(* rests on sizes being powers of two: the smaller divides the larger, so  *)
(* what is aligned to the larger is aligned to the smaller.                *)
(***************************************************************************)

\* An inactive internal region is empty, and it is inactive where the next one is loaded.
EmptyInv == /\ \A a \in Allocs : ~internal[a].active => internal[a].base >= internal[a].end
            /\ pc = "load" => ~internal[al].active
            /\ pc = "boot_vm" => ~internal["vm"].active

\* Where regions of the memory map are still to be handed over.
BootInv == pc \notin Halts =>
  /\ pending["pm"] # {} => \/ pc \in {"boot_vm", "boot_pm", "boot_pm_rest"}
                           \/ pc \in Freeing /\ ret = "boot_pm_rest"
  /\ pending["vm"] # {} => \/ pc \in {"boot_vm", "boot_pm", "boot_pm_rest", "boot_vm_clear",
                                      "boot_vm_rest"}
                           \/ pc \in Freeing /\ ret \in {"boot_pm_rest", "boot_vm_rest"}

\* Where the creation in progress has pages on its list, and whose range is not its own.
OpInv == /\ op.list # {} => \/ pc \in {"list", "lnode", "undo", "undone", "insert"} \union Halts
                            \/ pc \in {"alloc", "split"} /\ ret = "lnode"
                            \/ pc \in Freeing /\ ret = "undone"
         /\ op.flags = "internal" => pc \in {"new", "insert"} \union Halts

Control == EmptyInv /\ BootInv /\ OpInv

\* The region of one page.
Page(n) == [base |-> n, size |-> 1]

\* The range of the memsection in progress is its own.
OwnsChunk == HasChunk \/ (pc = "insert" /\ op.flags # "internal")

\* What the memsections, the pools and the pools that are being created own.
SectionRegions(a) == IF a = "vm" THEN {[base |-> s.base, size |-> s.size] :
                                         s \in {t \in sections : t.flags # "internal"}}
                                 ELSE {e.fpage : e \in UNION {s.list : s \in sections}}
Of(a, p)          == Page(IF a = "vm" THEN p.virt ELSE p.phys)
PoolPages(a)      == {Of(a, p) : p \in UNION {pools[c] : c \in Caches}}
Carved(a)         == {c \in Caches : grow[c].stage \in IF a = "vm" THEN {"phys", "node"} ELSE {"node"}}
GrowPages(a)      == {Of(a, grow[c]) : c \in Carved(a)}
Lasting(a)        == SectionRegions(a) \union PoolPages(a) \union GrowPages(a)

\* What is in the way of being handed over.
CallOwns(a) == IF a = "vm" THEN IF OwnsChunk THEN {Chunk} ELSE {}
                           ELSE {e.fpage : e \in op.list}
Pend(a)     == {RegionAt(a, i) : i \in pending[a]}

\* Handed-out memory has one owner.
OwnIn(a) == /\ used[a] = Lasting(a) \union CallOwns(a) \union Pend(a)
            /\ Lasting(a) \intersect (CallOwns(a) \union Pend(a)) = {}
            /\ CallOwns(a) \intersect Pend(a) = {}
OwnInv == pc \notin Halts => \A a \in Allocs : OwnIn(a)

\* The pages of a growing cache are in no pool and belong to one cache.
ApartInv == pc \notin Halts => \A c \in Carved("vm") :
              /\ Of("vm", grow[c]) \notin PoolPages("vm")
              /\ \A d \in Carved("vm") : d # c => grow[d].virt # grow[c].virt

\* Fpages mapped one after another from one address to another.
Over(e, p) == e.virt <= p /\ p < e.virt + e.fpage.size
Tiled(list, from, to) ==
  /\ \A e \in list : e.virt % e.fpage.size = 0 /\ from <= e.virt /\ e.virt + e.fpage.size <= to
  /\ \A p \in from .. to - 1 : \E e \in list : Over(e, p)
  /\ \A d, e \in list : d # e => \/ d.virt + d.fpage.size <= e.virt
                                 \/ e.virt + e.fpage.size <= d.virt

\* sys$fpage_alloc_list is at work, or done; it waits for a page.
Asking  == pc = "lnode" \/ (pc \in {"alloc", "split"} /\ ret = "lnode")
Listing == pc = "list" \/ Asking \/ (pc = "insert" /\ op.flags = "normal")

BackInv ==
  /\ pc = "back" \/ (pc \in Freeing /\ ret = "back") => op.cur = op.at
  /\ Listing => Tiled(op.list, op.at, op.cur) /\ op.at <= op.cur /\ op.cur <= op.at + op.size
  /\ pc = "insert" /\ op.flags = "normal" => op.cur = op.at + op.size
  /\ Asking => op.want \in FpageSizes /\ Fits(op.want, op.cur, op.at + op.size)
  /\ pc = "lnode" => hand.size <= op.want
  /\ \A s \in sections : s.flags = "normal" => Tiled(s.list, s.base, EndOf(s))

\* The call holds the node of a memsection; it holds the node of an fpage it frees.
WithNode == \/ pc \in {"alloc", "split", "chunk", "back", "list", "lnode", "undo", "undone", "insert", "fail"}
            \/ pc \in Freeing /\ ret \in {"fail", "back", "undone"}
Limbo    == pc = "undone" \/ (pc \in Freeing /\ ret = "undone")

\* The fpages that back the memsections, and the fpages on the free lists.
Backing   == UNION {s.list : s \in sections}
FreeNodes == Cardinality(flist["vm"]) + Cardinality(flist["pm"])

\* All of this is finite.
FiniteInv == /\ \A a \in Allocs : IsFiniteSet(flist[a])
             /\ \A c \in Caches : IsFiniteSet(pools[c])
             /\ IsFiniteSet(Backing) /\ IsFiniteSet(op.list) /\ IsFiniteSet(sections)

\* Every slab of fp_cache is free or the node of an fpage ...
FpBalance == slabs["fp"] + FreeNodes + Cardinality(Backing) + Cardinality(op.list)
               + (IF Limbo THEN 1 ELSE 0) = PerPool["fp"] * Cardinality(pools["fp"])

\* ... and every slab of ms_cache is free or the node of a memsection or of a pool.
MsBalance == slabs["ms"] + Cardinality(sections) + Cardinality(pools["fp"]) + Cardinality(pools["bt"])
               + (IF WithNode THEN 1 ELSE 0) = PerPool["ms"] * Cardinality(pools["ms"])

\* A preloaded object becomes a memsection once.
ObjectInv == (pc \in {"new", "insert"} /\ op.flags = "internal") =>
               \A s \in sections : s.flags = "internal" => s.base # op.at

SlabInv == FiniteInv /\ (pc \notin Halts => FpBalance /\ MsBalance) /\ ObjectInv

PInv == Control /\ NothingLost /\ OwnInv /\ ApartInv /\ BackInv /\ SlabInv
-----------------------------------------------------------------------------
\* The states of the calls of sys$fpage_alloc_chunk, sys$fpage_alloc_list,
\* sys$slab_cache_alloc and of the boot sequence in which something is in transit.
LEMMA ControlNext ==
  ASSUME IInv, Control, AllocStep
  PROVE  Control'
<1>0. TypeOK /\ HandInv /\ RetInv /\ GrowInv /\ ActiveInv
  BY DEF IInv
<1> USE <1>0 DEF Control
<1>1. ASSUME NEW c \in Caches, StartGrow(c) PROVE Control'
  <2>1. EmptyInv'
    BY <1>1 DEF EmptyInv, TypeOK, HandInv, RetInv, StartGrow, memory, booting, NeedsSlab
  <2>2. BootInv'
    BY <1>1 DEF BootInv, TypeOK, HandInv, RetInv, Halts, StartGrow, memory, booting
  <2>3. OpInv'
    BY <1>1 DEF OpInv, TypeOK, HandInv, RetInv, Resumes, PhysList, StartGrow, memory
  <2> QED BY <2>1, <2>2, <2>3
<1>2. ASSUME NEW c \in Caches, GrowVirt(c) PROVE Control'
  <2>1. EmptyInv'
    <3>1. PICK r \in Sources("vm") : AllocInternal("vm", r)
      BY <1>2 DEF GrowVirt
    <3>2. r \in Region /\ "vm" \in Allocs
      BY <3>1, SourceFacts DEF Allocs
    <3>3. pc' = pc /\ al' = al /\ pc \notin {"load", "boot_vm"}
      BY <1>2 DEF GrowVirt, GrowInv, Growing, Running
    <3>4. /\ internal \in [Allocs -> [base : Nat, end : Nat, active : BOOLEAN]]
          /\ internal' = [internal EXCEPT !["vm"] = [base |-> r.base + 1, end |-> EndOf(r),
                                                    active |-> r.base + 1 < EndOf(r)]]
      BY <3>1 DEF AllocInternal, TypeOK
    <3>5. r.base + 1 \in Nat /\ EndOf(r) \in Nat
      BY <3>2 DEF Region, EndOf
    <3>6. ASSUME NEW b \in Allocs PROVE ~internal'[b].active => internal'[b].base >= internal'[b].end
      <4>1. CASE b = "vm"
        <5>1. internal'[b] = [base |-> r.base + 1, end |-> EndOf(r), active |-> r.base + 1 < EndOf(r)]
          BY <3>4, <4>1
        <5>2. internal'[b].base = r.base + 1 /\ internal'[b].end = EndOf(r)
          BY <5>1
        <5>3. internal'[b].active = (r.base + 1 < EndOf(r))
          BY <5>1
        <5>4. ASSUME ~internal'[b].active PROVE ~(r.base + 1 < EndOf(r))
          BY <5>3, <5>4, Zenon
        <5> QED BY <3>5, <5>2, <5>4
      <4>2. CASE b # "vm"
        BY <3>4, <4>2 DEF EmptyInv
      <4> QED BY <4>1, <4>2
    <3> QED BY <3>3, <3>6 DEF EmptyInv
  <2>2. BootInv'
    BY <1>2 DEF BootInv, TypeOK, HandInv, RetInv, Halts, GrowVirt, AllocInternal, booting
  <2>3. OpInv'
    BY <1>2 DEF OpInv, TypeOK, HandInv, RetInv, Resumes, PhysList, GrowVirt, AllocInternal
  <2> QED BY <2>1, <2>2, <2>3
<1>3. ASSUME NEW c \in Caches, GrowPhys(c) PROVE Control'
  <2>1. EmptyInv'
    <3>1. PICK r \in Sources("pm") : AllocInternal("pm", r)
      BY <1>3 DEF GrowPhys
    <3>2. r \in Region /\ "pm" \in Allocs
      BY <3>1, SourceFacts DEF Allocs
    <3>3. pc' = pc /\ al' = al /\ pc \notin {"load", "boot_vm"}
      BY <1>3 DEF GrowPhys, GrowInv, Growing, Running
    <3>4. /\ internal \in [Allocs -> [base : Nat, end : Nat, active : BOOLEAN]]
          /\ internal' = [internal EXCEPT !["pm"] = [base |-> r.base + 1, end |-> EndOf(r),
                                                    active |-> r.base + 1 < EndOf(r)]]
      BY <3>1 DEF AllocInternal, TypeOK
    <3>5. r.base + 1 \in Nat /\ EndOf(r) \in Nat
      BY <3>2 DEF Region, EndOf
    <3>6. ASSUME NEW b \in Allocs PROVE ~internal'[b].active => internal'[b].base >= internal'[b].end
      <4>1. CASE b = "pm"
        <5>1. internal'[b] = [base |-> r.base + 1, end |-> EndOf(r), active |-> r.base + 1 < EndOf(r)]
          BY <3>4, <4>1
        <5>2. internal'[b].base = r.base + 1 /\ internal'[b].end = EndOf(r)
          BY <5>1
        <5>3. internal'[b].active = (r.base + 1 < EndOf(r))
          BY <5>1
        <5>4. ASSUME ~internal'[b].active PROVE ~(r.base + 1 < EndOf(r))
          BY <5>3, <5>4, Zenon
        <5> QED BY <3>5, <5>2, <5>4
      <4>2. CASE b # "pm"
        BY <3>4, <4>2 DEF EmptyInv
      <4> QED BY <4>1, <4>2
    <3> QED BY <3>3, <3>6 DEF EmptyInv
  <2>2. BootInv'
    BY <1>3 DEF BootInv, TypeOK, HandInv, RetInv, Halts, GrowPhys, AllocInternal, booting
  <2>3. OpInv'
    BY <1>3 DEF OpInv, TypeOK, HandInv, RetInv, Resumes, PhysList, GrowPhys, AllocInternal
  <2> QED BY <2>1, <2>2, <2>3
<1>4. ASSUME NEW c \in Caches, GrowNode(c) PROVE Control'
  <2>1. EmptyInv'
    BY <1>4 DEF EmptyInv, TypeOK, HandInv, RetInv, GrowNode, memory, booting
  <2>2. BootInv'
    BY <1>4 DEF BootInv, TypeOK, HandInv, RetInv, Halts, GrowNode, memory, booting
  <2>3. OpInv'
    BY <1>4 DEF OpInv, TypeOK, HandInv, RetInv, Resumes, PhysList, GrowNode, memory
  <2> QED BY <2>1, <2>2, <2>3
<1>5. ASSUME NEW c \in Caches, NEW a \in Allocs, GrowFails(c, a) PROVE Control'
  <2>1. EmptyInv'
    BY <1>5 DEF EmptyInv, TypeOK, HandInv, RetInv, GrowFails, memory, booting
  <2>2. BootInv'
    BY <1>5 DEF BootInv, TypeOK, HandInv, RetInv, Halts, GrowFails, memory, booting
  <2>3. OpInv'
    BY <1>5 DEF OpInv, TypeOK, HandInv, RetInv, GrowInv, ActiveInv, Freeing, Halts, Resumes,
       PhysList, GrowFails, memory
  <2> QED BY <2>1, <2>2, <2>3
<1>6. CASE Free
  <2>1. EmptyInv'
    BY <1>6 DEF EmptyInv, TypeOK, HandInv, RetInv, Free, At, memory, booting
  <2>2. BootInv'
    BY <1>6 DEF BootInv, TypeOK, HandInv, RetInv, GrowInv, ActiveInv, Freeing, Resumes,
       Halts, Free, At, memory, booting
  <2>3. OpInv'
    BY <1>6 DEF OpInv, TypeOK, HandInv, RetInv, GrowInv, ActiveInv, Freeing, Halts, Resumes,
       PhysList, Free, At
  <2> QED BY <2>1, <2>2, <2>3
<1>7. CASE LoadInternal
  <2>1. EmptyInv'
    BY <1>7 DEF EmptyInv, TypeOK, HandInv, RetInv, EndOf, NoPages, LoadInternal, At
  <2>2. BootInv'
    BY <1>7 DEF BootInv, TypeOK, HandInv, RetInv, GrowInv, ActiveInv, Freeing, Resumes,
       Halts, LoadInternal, At, booting
  <2>3. OpInv'
    BY <1>7 DEF OpInv, TypeOK, HandInv, RetInv, GrowInv, ActiveInv, Freeing, Halts, Resumes,
       PhysList, LoadInternal, At
  <2> QED BY <2>1, <2>2, <2>3
<1>8. CASE ClearTest
  <2>1. EmptyInv'
    BY <1>8 DEF EmptyInv, TypeOK, HandInv, RetInv, ClearTest, At, memory, booting
  <2>2. BootInv'
    BY <1>8 DEF BootInv, TypeOK, HandInv, RetInv, GrowInv, ActiveInv, Freeing, Resumes,
       Halts, ClearTest, At, memory, booting
  <2>3. OpInv'
    BY <1>8 DEF OpInv, TypeOK, HandInv, RetInv, GrowInv, ActiveInv, Freeing, Halts, Resumes,
       PhysList, ClearTest, At
  <2> QED BY <2>1, <2>2, <2>3
<1>9. CASE ClearDone
  <2>1. EmptyInv'
    <3>1. /\ internal \in [Allocs -> [base : Nat, end : Nat, active : BOOLEAN]]
          /\ internal' = [internal EXCEPT ![al].active = FALSE]
          /\ internal[al].base >= internal[al].end
      BY <1>9 DEF TypeOK, ClearDone
    <3>2. ASSUME NEW b \in Allocs PROVE ~internal'[b].active => internal'[b].base >= internal'[b].end
      BY <3>1 DEF EmptyInv
    <3>3. pc' # "boot_vm" /\ al' = al /\ ~internal'[al].active
      BY <1>9, <3>1 DEF ClearDone, At, RetInv, Freeing, Resumes, TypeOK
    <3> QED BY <3>2, <3>3 DEF EmptyInv
  <2>2. BootInv'
    BY <1>9 DEF BootInv, TypeOK, HandInv, RetInv, GrowInv, ActiveInv, Freeing, Resumes,
       Halts, ClearDone, At, booting
  <2>3. OpInv'
    BY <1>9 DEF OpInv, TypeOK, HandInv, RetInv, GrowInv, ActiveInv, Freeing, Halts, Resumes,
       PhysList, ClearDone, At
  <2> QED BY <2>1, <2>2, <2>3
<1>10. CASE ClearNode
  <2>1. EmptyInv'
    BY <1>10 DEF EmptyInv, TypeOK, HandInv, RetInv, ClearNode, At, booting
  <2>2. BootInv'
    BY <1>10 DEF BootInv, TypeOK, HandInv, RetInv, GrowInv, ActiveInv, Freeing, Resumes,
       Halts, ClearNode, At, booting
  <2>3. OpInv'
    BY <1>10 DEF OpInv, TypeOK, HandInv, RetInv, GrowInv, ActiveInv, Freeing, Halts,
       Resumes, PhysList, ClearNode, At
  <2> QED BY <2>1, <2>2, <2>3
<1>11. CASE ClearNil
  <2>1. EmptyInv'
    BY <1>11 DEF EmptyInv, TypeOK, HandInv, RetInv, ClearNil, At, memory, booting
  <2>2. BootInv'
    BY <1>11 DEF BootInv, TypeOK, HandInv, RetInv, Halts, ClearNil, At, memory
  <2>3. OpInv'
    BY <1>11 DEF OpInv, TypeOK, HandInv, RetInv, GrowInv, ActiveInv, Freeing, Halts,
       Resumes, PhysList, ClearNil, At
  <2> QED BY <2>1, <2>2, <2>3
<1>12. CASE AllocPick
  <2>1. EmptyInv'
    BY <1>12 DEF EmptyInv, TypeOK, HandInv, RetInv, AllocPick, At, booting
  <2>2. BootInv'
    BY <1>12 DEF BootInv, TypeOK, HandInv, RetInv, Halts, AllocPick, At, booting
  <2>3. OpInv'
    BY <1>12 DEF OpInv, TypeOK, HandInv, RetInv, GrowInv, ActiveInv, Freeing, Halts,
       Resumes, PhysList, AllocPick, At
  <2> QED BY <2>1, <2>2, <2>3
<1>13. CASE AllocNil
  <2>1. EmptyInv'
    BY <1>13 DEF EmptyInv, TypeOK, HandInv, RetInv, AllocNil, At, memory, booting
  <2>2. BootInv'
    BY <1>13 DEF BootInv, TypeOK, HandInv, RetInv, Halts, AllocNil, At, memory, booting
  <2>3. OpInv'
    BY <1>13 DEF OpInv, TypeOK, HandInv, RetInv, GrowInv, ActiveInv, Freeing, Halts,
       Resumes, PhysList, AllocNil, At
  <2> QED BY <2>1, <2>2, <2>3
<1>14. CASE SplitHalve
  <2>1. EmptyInv'
    BY <1>14 DEF EmptyInv, TypeOK, HandInv, RetInv, SplitHalve, At, booting
  <2>2. BootInv'
    BY <1>14 DEF BootInv, TypeOK, HandInv, RetInv, Halts, SplitHalve, At, booting
  <2>3. OpInv'
    BY <1>14 DEF OpInv, TypeOK, HandInv, RetInv, Resumes, PhysList, SplitHalve, At
  <2> QED BY <2>1, <2>2, <2>3
<1>15. CASE SplitDone
  <2>1. EmptyInv'
    BY <1>15 DEF EmptyInv, TypeOK, HandInv, RetInv, SplitDone, At, memory, booting
  <2>2. BootInv'
    BY <1>15 DEF BootInv, TypeOK, HandInv, RetInv, Halts, SplitDone, At, memory, booting
  <2>3. OpInv'
    BY <1>15 DEF OpInv, TypeOK, HandInv, RetInv, GrowInv, ActiveInv, Freeing, Halts,
       Resumes, PhysList, SplitDone, At
  <2> QED BY <2>1, <2>2, <2>3
<1>16. CASE Create
  <2>1. EmptyInv'
    BY <1>16 DEF EmptyInv, TypeOK, HandInv, RetInv, Create, At, memory, booting, Call, NoOp
  <2>2. BootInv'
    BY <1>16 DEF BootInv, TypeOK, HandInv, RetInv, GrowInv, ActiveInv, Freeing, Resumes,
       Halts, Create, At, memory, booting, Call, NoOp
  <2>3. OpInv'
    BY <1>16 DEF OpInv, TypeOK, HandInv, RetInv, Resumes, PhysList, Create, At, memory,
       booting, Call, NoOp
  <2> QED BY <2>1, <2>2, <2>3
<1>17. CASE CreateInternal
  <2>1. EmptyInv'
    BY <1>17 DEF EmptyInv, TypeOK, HandInv, RetInv, CreateInternal, At, memory, booting,
       Call, NoOp
  <2>2. BootInv'
    BY <1>17 DEF BootInv, TypeOK, HandInv, RetInv, GrowInv, ActiveInv, Freeing, Resumes,
       Halts, CreateInternal, At, memory, booting, Call, NoOp
  <2>3. OpInv'
    BY <1>17 DEF OpInv, TypeOK, HandInv, RetInv, Resumes, PhysList, CreateInternal, At,
       memory, booting, Call, NoOp
  <2> QED BY <2>1, <2>2, <2>3
<1>18. CASE New
  <2>1. EmptyInv'
    BY <1>18 DEF EmptyInv, TypeOK, HandInv, RetInv, NoPages, New, At, memory, booting,
       CallAlloc
  <2>2. BootInv'
    BY <1>18 DEF BootInv, TypeOK, HandInv, RetInv, GrowInv, ActiveInv, Freeing, Resumes,
       Halts, New, At, memory, booting, CallAlloc
  <2>3. OpInv'
    BY <1>18 DEF OpInv, TypeOK, HandInv, RetInv, GrowInv, ActiveInv, Freeing, Halts,
       Resumes, PhysList, New, At, memory, booting, CallAlloc
  <2> QED BY <2>1, <2>2, <2>3
<1>19. CASE ChunkShort
  <2>1. EmptyInv'
    BY <1>19 DEF EmptyInv, TypeOK, HandInv, RetInv, ChunkShort, At, memory, booting,
       CallFree
  <2>2. BootInv'
    BY <1>19 DEF BootInv, TypeOK, HandInv, RetInv, GrowInv, ActiveInv, Freeing, Resumes,
       Halts, ChunkShort, At, memory, booting, CallFree
  <2>3. OpInv'
    BY <1>19 DEF OpInv, TypeOK, HandInv, RetInv, GrowInv, ActiveInv, Freeing, Halts,
       Resumes, PhysList, ChunkShort, At
  <2> QED BY <2>1, <2>2, <2>3
<1>20. CASE ChunkTrim
  <2>1. EmptyInv'
    BY <1>20 DEF EmptyInv, TypeOK, HandInv, RetInv, NoPages, ChunkTrim, At, booting,
       CallFree
  <2>2. BootInv'
    BY <1>20 DEF BootInv, TypeOK, HandInv, RetInv, GrowInv, ActiveInv, Freeing, Resumes,
       Halts, ChunkTrim, At, booting
  <2>3. OpInv'
    BY <1>20 DEF OpInv, TypeOK, HandInv, RetInv, GrowInv, ActiveInv, Freeing, Halts,
       Resumes, PhysList, ChunkTrim, At
  <2> QED BY <2>1, <2>2, <2>3
<1>21. CASE Back
  <2>1. EmptyInv'
    BY <1>21 DEF EmptyInv, TypeOK, HandInv, RetInv, Back, At, memory, booting
  <2>2. BootInv'
    BY <1>21 DEF BootInv, TypeOK, HandInv, RetInv, GrowInv, ActiveInv, Freeing, Resumes,
       Halts, Back, At, memory, booting
  <2>3. OpInv'
    BY <1>21 DEF OpInv, TypeOK, HandInv, RetInv, Resumes, PhysList, Back, At
  <2> QED BY <2>1, <2>2, <2>3
<1>22. CASE ListNext
  <2>1. EmptyInv'
    BY <1>22 DEF EmptyInv, TypeOK, HandInv, RetInv, NoPages, ListNext, At, memory, booting,
       CallAlloc
  <2>2. BootInv'
    BY <1>22 DEF BootInv, TypeOK, HandInv, RetInv, GrowInv, ActiveInv, Freeing, Resumes,
       Halts, ListNext, At, memory, booting, CallAlloc
  <2>3. OpInv'
    BY <1>22 DEF OpInv, TypeOK, HandInv, RetInv, GrowInv, ActiveInv, Freeing, Halts,
       Resumes, PhysList, ListNext, At, memory, booting, CallAlloc
  <2> QED BY <2>1, <2>2, <2>3
<1>23. CASE ListDone
  <2>1. EmptyInv'
    BY <1>23 DEF EmptyInv, TypeOK, HandInv, RetInv, ListDone, At, memory, booting
  <2>2. BootInv'
    BY <1>23 DEF BootInv, TypeOK, HandInv, RetInv, GrowInv, ActiveInv, Freeing, Resumes,
       Halts, ListDone, At, memory, booting
  <2>3. OpInv'
    BY <1>23 DEF OpInv, TypeOK, HandInv, RetInv, Resumes, PhysList, ListDone, At
  <2> QED BY <2>1, <2>2, <2>3
<1>24. CASE ListNode
  <2>1. EmptyInv'
    BY <1>24 DEF EmptyInv, TypeOK, HandInv, RetInv, NoPages, ListNode, At, booting
  <2>2. BootInv'
    BY <1>24 DEF BootInv, TypeOK, HandInv, RetInv, GrowInv, ActiveInv, Freeing, Resumes,
       Halts, ListNode, At, booting
  <2>3. OpInv'
    BY <1>24 DEF OpInv, TypeOK, HandInv, RetInv, GrowInv, ActiveInv, Freeing, Halts,
       Resumes, PhysList, ListNode, At
  <2> QED BY <2>1, <2>2, <2>3
<1>25. CASE UndoOne
  <2>1. EmptyInv'
    BY <1>25 DEF EmptyInv, TypeOK, HandInv, RetInv, UndoOne, At, booting, CallFree
  <2>2. BootInv'
    BY <1>25 DEF BootInv, TypeOK, HandInv, RetInv, GrowInv, ActiveInv, Freeing, Resumes,
       Halts, UndoOne, At, booting
  <2>3. OpInv'
    BY <1>25 DEF OpInv, TypeOK, HandInv, RetInv, GrowInv, ActiveInv, Freeing, Halts,
       Resumes, PhysList, UndoOne, At, booting, CallFree
  <2> QED BY <2>1, <2>2, <2>3
<1>26. CASE UndoNode
  <2>1. EmptyInv'
    BY <1>26 DEF EmptyInv, TypeOK, HandInv, RetInv, UndoNode, At, memory, booting
  <2>2. BootInv'
    BY <1>26 DEF BootInv, TypeOK, HandInv, RetInv, GrowInv, ActiveInv, Freeing, Resumes,
       Halts, UndoNode, At, memory, booting
  <2>3. OpInv'
    BY <1>26 DEF OpInv, TypeOK, HandInv, RetInv, GrowInv, ActiveInv, Freeing, Halts,
       Resumes, PhysList, UndoNode, At
  <2> QED BY <2>1, <2>2, <2>3
<1>27. CASE UndoDone
  <2>1. EmptyInv'
    BY <1>27 DEF EmptyInv, TypeOK, HandInv, RetInv, UndoDone, At, booting, CallFree
  <2>2. BootInv'
    BY <1>27 DEF BootInv, TypeOK, HandInv, RetInv, GrowInv, ActiveInv, Freeing, Resumes,
       Halts, UndoDone, At, booting
  <2>3. OpInv'
    BY <1>27 DEF OpInv, TypeOK, HandInv, RetInv, GrowInv, ActiveInv, Freeing, Halts,
       Resumes, PhysList, UndoDone, At
  <2> QED BY <2>1, <2>2, <2>3
<1>28. CASE InsertPage
  <2>1. EmptyInv'
    BY <1>28 DEF EmptyInv, TypeOK, HandInv, RetInv, InsertPage, At, memory, booting
  <2>2. BootInv'
    BY <1>28 DEF BootInv, TypeOK, HandInv, RetInv, Halts, InsertPage, At, memory, booting
  <2>3. OpInv'
    BY <1>28 DEF OpInv, TypeOK, HandInv, RetInv, Resumes, PhysList, InsertPage, At
  <2> QED BY <2>1, <2>2, <2>3
<1>29. CASE InsertDone
  <2>1. EmptyInv'
    BY <1>29 DEF EmptyInv, TypeOK, HandInv, RetInv, InsertDone, At, memory, booting
  <2>2. BootInv'
    BY <1>29 DEF BootInv, TypeOK, HandInv, RetInv, GrowInv, ActiveInv, Freeing, Resumes,
       Halts, InsertDone, At, memory, booting, NoOp
  <2>3. OpInv'
    BY <1>29 DEF OpInv, TypeOK, HandInv, RetInv, Resumes, PhysList, InsertDone, At, memory,
       booting, NoOp
  <2> QED BY <2>1, <2>2, <2>3
<1>30. CASE Fail
  <2>1. EmptyInv'
    BY <1>30 DEF EmptyInv, TypeOK, HandInv, RetInv, Fail, At, memory, booting
  <2>2. BootInv'
    BY <1>30 DEF BootInv, TypeOK, HandInv, RetInv, GrowInv, ActiveInv, Freeing, Resumes,
       Halts, Fail, At, memory, booting, NoOp
  <2>3. OpInv'
    BY <1>30 DEF OpInv, TypeOK, HandInv, RetInv, Resumes, PhysList, Fail, At, memory,
       booting, NoOp
  <2> QED BY <2>1, <2>2, <2>3
<1>31. CASE BootVm
  <2>1. EmptyInv'
    BY <1>31 DEF EmptyInv, TypeOK, HandInv, RetInv, EndOf, BootVm, At, TakeRegion
  <2>2. BootInv'
    BY <1>31 DEF BootInv, TypeOK, HandInv, RetInv, Halts, BootVm, At, TakeRegion
  <2>3. OpInv'
    BY <1>31 DEF OpInv, TypeOK, HandInv, RetInv, GrowInv, ActiveInv, Freeing, Halts,
       Resumes, PhysList, BootVm, At
  <2> QED BY <2>1, <2>2, <2>3
<1>32. CASE BootVmNone
  <2>1. EmptyInv'
    BY <1>32 DEF EmptyInv, TypeOK, HandInv, RetInv, BootVmNone, At, memory, booting
  <2>2. BootInv'
    BY <1>32 DEF BootInv, TypeOK, HandInv, RetInv, Halts, BootVmNone, At, memory
  <2>3. OpInv'
    BY <1>32 DEF OpInv, TypeOK, HandInv, RetInv, GrowInv, ActiveInv, Freeing, Halts,
       Resumes, PhysList, BootVmNone, At
  <2> QED BY <2>1, <2>2, <2>3
<1>33. CASE BootPm
  <2>1. EmptyInv'
    BY <1>33 DEF EmptyInv, TypeOK, HandInv, RetInv, BootPm, At, TakeRegion, CallFree
  <2>2. BootInv'
    BY <1>33 DEF BootInv, TypeOK, HandInv, RetInv, GrowInv, ActiveInv, Freeing, Resumes,
       Halts, BootPm, At, TakeRegion, CallFree
  <2>3. OpInv'
    BY <1>33 DEF OpInv, TypeOK, HandInv, RetInv, GrowInv, ActiveInv, Freeing, Halts,
       Resumes, PhysList, BootPm, At
  <2> QED BY <2>1, <2>2, <2>3
<1>34. CASE BootPanic
  <2>1. EmptyInv'
    BY <1>34 DEF EmptyInv, TypeOK, HandInv, RetInv, BootPanic, At, memory, booting
  <2>2. BootInv'
    BY <1>34 DEF BootInv, TypeOK, HandInv, RetInv, Halts, BootPanic, At, memory
  <2>3. OpInv'
    BY <1>34 DEF OpInv, TypeOK, HandInv, RetInv, GrowInv, ActiveInv, Freeing, Halts,
       Resumes, PhysList, BootPanic, At
  <2> QED BY <2>1, <2>2, <2>3
<1>35. CASE BootRest("pm", "boot_pm_rest", "boot_vm_clear")
  <2>1. EmptyInv'
    BY <1>35 DEF EmptyInv, TypeOK, HandInv, RetInv, BootRest, At, TakeRegion, CallFree
  <2>2. BootInv'
    BY <1>35 DEF BootInv, TypeOK, HandInv, RetInv, GrowInv, ActiveInv, Freeing, Resumes,
       Halts, BootRest, At, TakeRegion, CallFree
  <2>3. OpInv'
    BY <1>35 DEF OpInv, TypeOK, HandInv, RetInv, GrowInv, ActiveInv, Freeing, Halts,
       Resumes, PhysList, BootRest, At
  <2> QED BY <2>1, <2>2, <2>3
<1>36. CASE BootVmClear
  <2>1. EmptyInv'
    BY <1>36 DEF EmptyInv, TypeOK, HandInv, RetInv, BootVmClear, At, memory, booting
  <2>2. BootInv'
    BY <1>36 DEF BootInv, TypeOK, HandInv, RetInv, GrowInv, ActiveInv, Freeing, Resumes,
       Halts, BootVmClear, At, memory, booting
  <2>3. OpInv'
    BY <1>36 DEF OpInv, TypeOK, HandInv, RetInv, GrowInv, ActiveInv, Freeing, Halts,
       Resumes, PhysList, BootVmClear, At
  <2> QED BY <2>1, <2>2, <2>3
<1>37. CASE BootRest("vm", "boot_vm_rest", "boot_heap")
  <2>1. EmptyInv'
    BY <1>37 DEF EmptyInv, TypeOK, HandInv, RetInv, BootRest, At, TakeRegion, CallFree
  <2>2. BootInv'
    <3>1. CASE pending["vm"] = {}
      BY <1>37, <3>1 DEF BootInv, BootRest, At, Halts, Freeing
    <3>2. CASE pending["vm"] # {}
      BY <1>37, <3>2 DEF BootInv, BootRest, At, TakeRegion, CallFree, Freeing, Halts,
         TypeOK, Allocs
    <3> QED BY <3>1, <3>2
  <2>3. OpInv'
    BY <1>37 DEF OpInv, TypeOK, HandInv, RetInv, GrowInv, ActiveInv, Freeing, Halts,
       Resumes, PhysList, BootRest, At
  <2> QED BY <2>1, <2>2, <2>3
<1>38. CASE BootHeap
  <2>1. EmptyInv'
    BY <1>38 DEF EmptyInv, TypeOK, HandInv, RetInv, BootHeap, At, memory, booting, Call,
       NoOp
  <2>2. BootInv'
    BY <1>38 DEF BootInv, TypeOK, HandInv, RetInv, GrowInv, ActiveInv, Freeing, Resumes,
       Halts, BootHeap, At, memory, booting, Call, NoOp
  <2>3. OpInv'
    BY <1>38 DEF OpInv, TypeOK, HandInv, RetInv, Resumes, PhysList, BootHeap, At, memory,
       booting, Call, NoOp
  <2> QED BY <2>1, <2>2, <2>3
<1>39. CASE PdInit
  <2>1. EmptyInv'
    BY <1>39 DEF EmptyInv, TypeOK, HandInv, RetInv, PdInit, At, memory
  <2>2. BootInv'
    BY <1>39 DEF BootInv, TypeOK, HandInv, RetInv, Halts, PdInit, At, memory
  <2>3. OpInv'
    BY <1>39 DEF OpInv, TypeOK, HandInv, RetInv, Resumes, PhysList, PdInit, At
  <2> QED BY <2>1, <2>2, <2>3
<1>40. CASE UNCHANGED vars
  <2>1. EmptyInv'
    BY <1>40 DEF EmptyInv, TypeOK, HandInv, RetInv, vars
  <2>2. BootInv'
    BY <1>40 DEF BootInv, TypeOK, HandInv, RetInv, Halts, vars
  <2>3. OpInv'
    BY <1>40 DEF OpInv, TypeOK, HandInv, RetInv, Resumes, PhysList, vars
  <2> QED BY <2>1, <2>2, <2>3
<1> QED BY <1>1, <1>2, <1>3, <1>4, <1>5, <1>6, <1>7, <1>8, <1>9, <1>10, <1>11, <1>12, <1>13,
           <1>14, <1>15, <1>16, <1>17, <1>18, <1>19, <1>20, <1>21, <1>22, <1>23, <1>24,
           <1>25, <1>26, <1>27, <1>28, <1>29, <1>30, <1>31, <1>32, <1>33, <1>34, <1>35,
           <1>36, <1>37, <1>38, <1>39, <1>40 DEF AllocStep, Next, Callees, Grows, Halted
-----------------------------------------------------------------------------
(***************************************************************************)
(* No page is lost                                                         *)
(***************************************************************************)

\* All that an allocator answers for.
Held(a) == flist[a] \union used[a] \union InternalRegion(a) \union InHand(a)

\* The pages of two sets of regions are those of both.
LEMMA PagesJoin ==
  ASSUME NEW R, NEW S
  PROVE  Pages(R \union S) = Pages(R) \union Pages(S)
BY DEF Pages

\* A region cut in two has the same pages: the buddies of sys$fpage_alloc, the chunk and
\* the rest of sys$fpage_alloc_chunk.
LEMMA PagesCut ==
  ASSUME NEW r \in Region, NEW s \in Region, NEW t \in Region,
         s.base = r.base, t.base = EndOf(s), EndOf(t) = EndOf(r)
  PROVE  Pages({r}) = Pages({s, t})
<1>1. \A x : x \in r.base .. EndOf(r) - 1 <=> x \in s.base .. EndOf(s) - 1 \/ x \in t.base .. EndOf(t) - 1
  BY DEF Region, EndOf
<1>2. \A x : x \in Pages({r}) <=> x \in r.base .. EndOf(r) - 1
  BY DEF Pages
<1>3. \A x : x \in Pages({s, t}) <=> x \in s.base .. EndOf(s) - 1 \/ x \in t.base .. EndOf(t) - 1
  BY DEF Pages
<1> QED BY <1>1, <1>2, <1>3

\* Pages of one allocator are exchanged for others that cover the same memory.
LEMMA Exchange ==
  ASSUME NEW a \in Allocs, NEW C, NEW X, NEW Y,
         Held(a) = C \union X, Held(a)' = C \union Y, Pages(X) = Pages(Y)
  PROVE  Pages(Held(a)') = Pages(Held(a))
<1>1. Pages(C \union X) = Pages(C) \union Pages(X)
  BY PagesJoin
<1>2. Pages(C \union Y) = Pages(C) \union Pages(Y)
  BY PagesJoin
<1> QED BY <1>1, <1>2

\* Nothing moves.
LEMMA HeldSame ==
  ASSUME NEW a \in Allocs, flist'[a] = flist[a], used'[a] = used[a],
         InternalRegion(a)' = InternalRegion(a), InHand(a)' = InHand(a)
  PROVE  Held(a)' = Held(a)
BY DEF Held

\* If each allocator answers for the same pages as before, none is lost.
LEMMA KeptNothingLost ==
  ASSUME NothingLost, mem' = mem, \A a \in Allocs : Pages(Held(a)') = Pages(Held(a))
  PROVE  NothingLost'
<1>1. \A a \in Allocs : Pages(Held(a)') = Pages({RegionAt(a, i) : i \in DOMAIN mem.regions[a]})
  BY DEF NothingLost, Held
<1>2. \A a \in Allocs : Pages({RegionAt(a, i) : i \in DOMAIN mem.regions[a]})'
                        = Pages({RegionAt(a, i) : i \in DOMAIN mem.regions[a]})
  BY DEF RegionAt, Pages
<1>3. \A a \in Allocs : Pages(Held(a))' = Pages(Held(a)')
  BY DEF Pages
<1> QED BY <1>1, <1>2, <1>3 DEF NothingLost, Held

\* None is lost where nothing is moved.
LEMMA SameNothingLost ==
  ASSUME NothingLost, mem' = mem, flist' = flist, used' = used, internal' = internal,
         \A a \in Allocs : InHand(a)' = InHand(a)
  PROVE  NothingLost'
<1>1. \A a \in Allocs : Held(a)' = Held(a)
  BY HeldSame DEF InternalRegion
<1> QED BY <1>1, KeptNothingLost

\* sys$fpage_alloc_internal takes a page off a region: the region is exchanged for its
\* first page and the rest of it.
LEMMA CarveKept ==
  ASSUME IInv, EmptyInv, NEW a \in Allocs, NEW r \in Sources(a), AllocInternal(a, r),
         UNCHANGED <<hand, al>>, NEW b \in Allocs
  PROVE  Pages(Held(b)') = Pages(Held(b))
<1>0. TypeOK /\ InHand(b)' = InHand(b)
  BY DEF IInv, InHand
<1>1. CASE b # a
  <2>1. flist'[b] = flist[b] /\ used'[b] = used[b] /\ internal'[b] = internal[b]
    BY <1>0, <1>1 DEF TypeOK, AllocInternal
  <2> QED BY <1>0, <2>1, HeldSame DEF InternalRegion
<1>2. CASE b = a
  <2> DEFINE page == [base |-> r.base, size |-> 1]
             rest == [base |-> r.base + 1, size |-> r.size - 1]
             C    == (flist[a] \ {r}) \union used[a] \union InHand(a)
  <2>1. r \in Region /\ page \in Region
    BY SourceFacts DEF Region
  <2>2. used'[a] = used[a] \union {page}
    BY <1>0 DEF TypeOK, AllocInternal
  <2>3. internal'[a].base = r.base + 1 /\ internal'[a].end = EndOf(r)
    BY <1>0 DEF TypeOK, AllocInternal
  <2>4. InternalRegion(a)' = IF r.size > 1 THEN {rest} ELSE {}
    <3>1. internal'[a].base < internal'[a].end <=> r.size > 1
      BY <2>1, <2>3 DEF EndOf, Region
    <3>2. [base |-> internal'[a].base, size |-> internal'[a].end - internal'[a].base] = rest
      BY <2>1, <2>3 DEF EndOf, Region
    <3> HIDE DEF rest
    <3> QED BY <3>1, <3>2 DEF InternalRegion
  <2>5. Held(a) = C \union {r} /\ flist'[a] = flist[a] \ {r}
    <3>1. CASE internal[a].active
      <4>1. InternalRegion(a) = {r}
        BY <3>1 DEF Sources, InternalRegion
      <4>2. r \notin flist[a] /\ flist'[a] = flist[a]
        BY <2>1, <3>1, SourceFacts, DisjDistinct DEF AllocInternal
      <4> QED BY <4>1, <4>2 DEF Held
    <3>2. CASE ~internal[a].active
      <4>1. InternalRegion(a) = {}
        BY <1>0, <3>2 DEF EmptyInv, InternalRegion, TypeOK
      <4>2. r \in flist[a] /\ flist'[a] = flist[a] \ {r}
        BY <1>0, <3>2, SourceFacts DEF AllocInternal, TypeOK
      <4> QED BY <4>1, <4>2 DEF Held
    <3> QED BY <3>1, <3>2
  <2> DEFINE Y == {page} \union (IF r.size > 1 THEN {rest} ELSE {})
  <2>6. Held(a)' = C \union Y
    BY <1>0, <1>2, <2>2, <2>4, <2>5 DEF Held
  <2>7. Pages({r}) = Pages(Y)
    <3>1. CASE r.size > 1
      <4>1. /\ rest \in Region /\ rest.base = EndOf(page) /\ EndOf(rest) = EndOf(r)
            /\ page.base = r.base
        BY <2>1, <3>1 DEF Region, EndOf
      <4>2. Y = {page, rest}
        BY <3>1
      <4> QED BY <2>1, <4>1, <4>2, PagesCut
    <3>2. CASE ~(r.size > 1)
      <4>1. page = r
        BY <2>1, <3>2 DEF Region
      <4> QED BY <3>2, <4>1
    <3> QED BY <3>1, <3>2
  <2> HIDE DEF C, Y, page, rest
  <2> QED BY <1>2, <2>5, <2>6, <2>7, Exchange
<1> QED BY <1>1, <1>2

\* sys$fpage_clear_internal puts a piece of the internal region on a free list.
LEMMA ClearNodeKept ==
  ASSUME IInv, ClearNode
  PROVE  NothingLost => NothingLost'
<1>0. TypeOK
  BY DEF IInv
<1>1. PICK s \in FpageSizes :
        /\ IsBiggest(s, internal[al].base, internal[al].end)
        /\ flist' = [flist EXCEPT ![al] = @ \union {[base |-> internal[al].base,
                                                     size |-> s]}]
        /\ internal' = [internal EXCEPT ![al].base = @ + s]
  BY DEF ClearNode
<1>2. used' = used /\ mem' = mem /\ \A a \in Allocs : InHand(a)' = InHand(a)
  BY DEF ClearNode, InHand, booting
<1>3. ASSUME NEW a \in Allocs, a # al PROVE Pages(Held(a)') = Pages(Held(a))
  <2>1. flist'[a] = flist[a] /\ internal'[a] = internal[a]
    BY <1>0, <1>1, <1>3 DEF TypeOK
  <2> QED BY <1>2, <2>1, HeldSame DEF InternalRegion
<1>4. ASSUME NEW a \in Allocs, a = al PROVE Pages(Held(a)') = Pages(Held(a))
  <2> DEFINE r == [base |-> internal[a].base, size |-> internal[a].end - internal[a].base]
             f == [base |-> internal[a].base, size |-> s]
             rest == [base |-> internal[a].base + s,
                      size |-> internal[a].end - (internal[a].base + s)]
             C == flist[a] \union used[a] \union InHand(a)
             Y == {f} \union (IF internal[a].base + s < internal[a].end THEN {rest} ELSE {})
  <2>0. a \in Allocs /\ internal[a].base \in Nat /\ internal[a].end \in Nat
    BY <1>0 DEF TypeOK
  <2>1. InternalRegion(a) = {r}
    BY <1>4 DEF ClearNode, InternalRegion
  <2>2. s \in Nat \ {0} /\ internal[a].base + s <= internal[a].end
    BY <1>1, <1>4, SizesAssumption DEF IsBiggest, Fits
  <2>3. r \in Region /\ f \in Region
    BY <2>0, <2>2 DEF Region
  <2>4. flist'[a] = flist[a] \union {f}
    BY <1>0, <1>1, <1>4 DEF TypeOK
  <2>5. internal'[a].base = internal[a].base + s /\ internal'[a].end = internal[a].end
    BY <1>0, <1>1, <1>4 DEF TypeOK
  <2>6. InternalRegion(a)' = IF internal[a].base + s < internal[a].end THEN {rest} ELSE {}
    BY <2>5 DEF InternalRegion
  <2>7. Held(a) = C \union {r}
    BY <2>1 DEF Held
  <2>8. Held(a)' = C \union Y
    BY <1>2, <2>4, <2>6 DEF Held
  <2>9. Pages({r}) = Pages(Y)
    <3>1. CASE internal[a].base + s < internal[a].end
      <4>1. /\ rest \in Region /\ rest.base = EndOf(f) /\ EndOf(rest) = EndOf(r)
            /\ f.base = r.base
        BY <2>0, <2>2, <3>1 DEF Region, EndOf
      <4>2. Y = {f, rest}
        BY <3>1
      <4> QED BY <2>3, <4>1, <4>2, PagesCut
    <3>2. CASE ~(internal[a].base + s < internal[a].end)
      <4>1. f = r
        BY <2>0, <2>2, <3>2
      <4> QED BY <3>2, <4>1
    <3> QED BY <3>1, <3>2
  <2> HIDE DEF C, Y, r, f, rest
  <2> QED BY <2>0, <2>7, <2>8, <2>9, Exchange
<1>5. \A a \in Allocs : Pages(Held(a)') = Pages(Held(a))
  BY <1>3, <1>4
<1> QED BY <1>2, <1>5, KeptNothingLost


\* Halving an fpage in sys$fpage_alloc puts its buddy on the free list and keeps the other
\* half in hand.
LEMMA SplitHalveKept ==
  ASSUME IInv, SplitHalve
  PROVE  NothingLost => NothingLost'
<1>0. TypeOK /\ Aligned
  BY DEF IInv
<1>1. PICK h \in FpageSizes :
        /\ hand.size = 2 * h
        /\ hand' = [hand EXCEPT !.size = h]
        /\ flist' = [flist EXCEPT ![al] = @ \union {Buddy(hand')}]
  BY DEF SplitHalve
<1> DEFINE low  == [base |-> hand.base, size |-> h]
           high == [base |-> hand.base + h, size |-> h]
<1>2. h \in Nat \ {0} /\ hand.base \in Nat /\ hand.base % (2 * h) = 0
  BY <1>0, <1>1, SizesAssumption DEF TypeOK, Aligned, SplitHalve, At
<1>3. hand' = low
  BY <1>0, <1>1 DEF TypeOK
<1>4. Buddy(low) = high
  BY <1>2, HalfAligned DEF Buddy
<1>5. flist' = [flist EXCEPT ![al] = @ \union {high}]
  BY <1>1, <1>3, <1>4
<1>6. used' = used /\ internal' = internal /\ mem' = mem /\ al' = al
  BY DEF SplitHalve, booting
<1>7. ASSUME NEW a \in Allocs, a # al PROVE Pages(Held(a)') = Pages(Held(a))
  <2>1. flist'[a] = flist[a]
    BY <1>0, <1>5, <1>7 DEF TypeOK
  <2>2. InHand(a)' = InHand(a)
    BY <1>6, <1>7 DEF InHand
  <2> QED BY <1>6, <2>1, <2>2, HeldSame DEF InternalRegion
<1>8. ASSUME NEW a \in Allocs, a = al PROVE Pages(Held(a)') = Pages(Held(a))
  <2>1. hand \in Region /\ low \in Region /\ high \in Region
    BY <1>0, <1>1, <1>2 DEF TypeOK, Region
  <2>2. low.base = hand.base /\ high.base = EndOf(low) /\ EndOf(high) = EndOf(hand)
    BY <1>1, <1>2 DEF EndOf
  <2>3. InHand(a) = {hand} /\ InHand(a)' = {low}
    BY <1>1, <1>2, <1>3, <1>6, <1>8 DEF InHand
  <2>4. flist'[a] = flist[a] \union {high}
    BY <1>0, <1>5, <1>8 DEF TypeOK
  <2> HIDE DEF low, high
  <2> DEFINE C == flist[a] \union used[a] \union InternalRegion(a)
  <2>5. Held(a) = C \union {hand}
    BY <2>3 DEF Held
  <2>6. Held(a)' = C \union {low, high}
    BY <1>6, <2>3, <2>4 DEF Held, InternalRegion
  <2>7. Pages({hand}) = Pages({low, high})
    BY <2>1, <2>2, PagesCut
  <2> HIDE DEF C
  <2> QED BY <2>5, <2>6, <2>7, Exchange
<1>9. \A a \in Allocs : Pages(Held(a)') = Pages(Held(a))
  BY <1>7, <1>8
<1> QED BY <1>6, <1>9, KeptNothingLost

\* sys$fpage_alloc_chunk keeps the pages it was asked for and goes on with what is behind
\* them.
LEMMA ChunkTrimKept ==
  ASSUME IInv, ChunkTrim
  PROVE  NothingLost => NothingLost'
<1> DEFINE chunk == [base |-> hand.base, size |-> op.size]
           rest  == [base |-> hand.base + op.size, size |-> hand.size - op.size]
<1>0. /\ TypeOK /\ al = "vm" /\ op.size \in Nat \ {0} /\ hand.size \in Nat \ {0}
      /\ hand.base \in Nat
      /\ hand.size >= op.size
  BY DEF IInv, RetInv, ChunkInv, SizedOp, HandInv, Holding, ChunkTrim, At, TypeOK
<1>1. /\ used' = [used EXCEPT !["vm"] = @ \union {chunk}] /\ flist' = flist
      /\ internal' = internal
      /\ mem' = mem
  BY DEF ChunkTrim, booting
<1>2. al' = "vm" /\ hand' = IF hand.size > op.size THEN rest ELSE NoPages
  BY <1>0 DEF ChunkTrim, CallFree
<1>3. Pages(Held("pm")') = Pages(Held("pm"))
  <2>1. InHand("pm")' = InHand("pm") /\ used'["pm"] = used["pm"]
    BY <1>0, <1>1, <1>2 DEF InHand, TypeOK, Allocs
  <2> QED BY <1>1, <2>1, HeldSame DEF InternalRegion, Allocs
<1>4. Pages(Held("vm")') = Pages(Held("vm"))
  <2> DEFINE C == flist["vm"] \union used["vm"] \union InternalRegion("vm")
             Y == {chunk} \union (IF hand.size > op.size THEN {rest} ELSE {})
  <2>1. InHand("vm") = {hand} /\ InHand("vm")' = IF hand.size > op.size THEN {rest} ELSE {}
    <3>1. hand.size > op.size => hand.size - op.size > 0
      BY <1>0
    <3>2. hand.size > 0
      BY <1>0
    <3>3. CASE hand.size > op.size
      BY <1>0, <1>2, <3>1, <3>2, <3>3 DEF InHand
    <3>4. CASE ~(hand.size > op.size)
      BY <1>0, <1>2, <3>2, <3>4 DEF InHand, NoPages
    <3> QED BY <3>3, <3>4
  <2>2. used'["vm"] = used["vm"] \union {chunk}
    BY <1>0, <1>1 DEF TypeOK, Allocs
  <2>3. hand \in Region /\ chunk \in Region
    BY <1>0 DEF TypeOK, Region
  <2>4. Held("vm") = C \union {hand}
    BY <2>1 DEF Held
  <2>5. Held("vm")' = C \union Y
    BY <1>1, <2>1, <2>2 DEF Held, InternalRegion
  <2>6. Pages({hand}) = Pages(Y)
    <3>1. CASE hand.size > op.size
      <4>1. rest \in Region /\ rest.base = EndOf(chunk) /\ EndOf(rest) = EndOf(hand)
        BY <1>0, <3>1 DEF Region, EndOf
      <4>2. Y = {chunk, rest}
        BY <3>1
      <4> QED BY <2>3, <4>1, <4>2, PagesCut
    <3>2. CASE ~(hand.size > op.size)
      <4>1. chunk = hand
        <5>1. op.size = hand.size
          BY <1>0, <3>2
        <5>2. hand = [base |-> hand.base, size |-> hand.size]
          BY <1>0 DEF TypeOK
        <5> QED BY <5>1, <5>2
      <4> QED BY <3>2, <4>1
    <3> QED BY <3>1, <3>2
  <2> HIDE DEF C, Y
  <2> QED BY <2>4, <2>5, <2>6, Exchange DEF Allocs
<1>5. \A a \in Allocs : Pages(Held(a)') = Pages(Held(a))
  BY <1>3, <1>4 DEF Allocs
<1> QED BY <1>1, <1>5, KeptNothingLost

\* A region moves from one holder to another: taken from a free list, put on the list of a
\* creation, given back, loaded as the internal region, taken over at boot.
LEMMA MoveKept ==
  ASSUME IInv, Control, NothingLost,
         \/ AllocPick \/ ListNode \/ UndoOne \/ (UndoDone /\ op.flags # "fixed") \/ LoadInternal
         \/ BootVm \/ BootPm \/ BootRest("pm", "boot_pm_rest", "boot_vm_clear")
         \/ BootRest("vm", "boot_vm_rest", "boot_heap")
  PROVE  NothingLost'
<1> USE DEF IInv
<1>0. /\ TypeOK
      /\ pc \in {"alloc", "undo", "boot_vm", "boot_pm", "boot_pm_rest", "boot_vm_rest"} =>
           \A a \in Allocs : InHand(a) = {}
  <2>1. pc \in {"alloc", "undo", "boot_vm", "boot_pm", "boot_pm_rest", "boot_vm_rest"} => hand.size = 0
    BY DEF HandInv, EmptyHanded, Holding, Halts, PCs
  <2> QED BY <2>1 DEF InHand
<1> SUFFICES mem' = mem /\ \A a \in Allocs : Held(a)' = Held(a)
  BY KeptNothingLost
<1>1. CASE AllocPick
  <2>1. PICK f \in flist[al] : hand' = f /\ flist' = [flist EXCEPT ![al] = @ \ {f}]
    BY <1>1 DEF AllocPick, Candidates
  <2>2. f.size > 0
    BY <1>0, <2>1, FpageIsRegion DEF TypeOK, Region
  <2>3. used' = used /\ internal' = internal /\ al' = al /\ mem' = mem /\ pc = "alloc"
    BY <1>1 DEF AllocPick, booting, At
  <2>4. ASSUME NEW a \in Allocs PROVE Held(a)' = Held(a)
    <3>1. CASE a = al
      <4>1. /\ InHand(a)' = {f} /\ InHand(a) = {} /\ flist'[a] = flist[a] \ {f}
            /\ f \in flist[a]
        BY <1>0, <2>1, <2>2, <2>3, <3>1 DEF InHand, TypeOK
      <4> QED BY <2>3, <4>1 DEF Held, InternalRegion
    <3>2. CASE a # al
      <4>1. InHand(a)' = InHand(a) /\ flist'[a] = flist[a]
        BY <1>0, <2>1, <2>3, <3>2 DEF InHand, TypeOK
      <4> QED BY <2>3, <4>1 DEF Held, InternalRegion
    <3> QED BY <3>1, <3>2
  <2> QED BY <2>3, <2>4
<1>2. CASE ListNode
  <2>1. al = "pm" /\ al' = "pm" /\ hand.size > 0 /\ hand' = NoPages /\ mem' = mem
        /\ flist' = flist /\ internal' = internal
        /\ used' = [used EXCEPT !["pm"] = @ \union {hand}]
    BY <1>2 DEF ListNode, At, RetInv, HandInv, Holding, booting
  <2>2. Held("vm")' = Held("vm")
    BY <1>0, <2>1 DEF Held, InternalRegion, InHand, TypeOK, Allocs
  <2>3. Held("pm")' = Held("pm")
    <3>1. /\ InHand("pm")' = {} /\ InHand("pm") = {hand}
          /\ used'["pm"] = used["pm"] \union {hand}
      BY <1>0, <2>1 DEF InHand, NoPages, TypeOK, Allocs
    <3> QED BY <2>1, <3>1 DEF Held, InternalRegion
  <2> QED BY <2>1, <2>2, <2>3 DEF Allocs
<1>3. ASSUME NEW a \in Allocs, NEW r \in used[a], used' = [used EXCEPT ![a] = @ \ {r}],
             flist' = flist, internal' = internal, hand' = r, al' = a, mem' = mem, hand.size = 0
      PROVE  mem' = mem /\ \A b \in Allocs : Held(b)' = Held(b)
  <2>1. r.size > 0
    BY <1>0 DEF TypeOK, Region
  <2>2. ASSUME NEW b \in Allocs PROVE Held(b)' = Held(b)
    <3>1. CASE b = a
      <4>1. InHand(b)' = {r} /\ InHand(b) = {} /\ used'[b] = used[b] \ {r} /\ r \in used[b]
        BY <1>0, <1>3, <2>1, <3>1 DEF InHand, TypeOK
      <4> QED BY <1>3, <4>1 DEF Held, InternalRegion
    <3>2. CASE b # a
      <4>1. InHand(b)' = {} /\ InHand(b) = {} /\ used'[b] = used[b]
        BY <1>0, <1>3, <3>2 DEF InHand, TypeOK
      <4> QED BY <1>3, <4>1 DEF Held, InternalRegion
    <3> QED BY <3>1, <3>2
  <2> QED BY <1>3, <2>2
<1>e. pc \in {"alloc", "undo", "boot_vm", "boot_pm", "boot_pm_rest", "boot_vm_rest"} => hand.size = 0
  BY DEF HandInv, EmptyHanded, Holding, Halts, PCs
<1>4. CASE UndoOne
  <2>1. PICK e \in op.list : used' = [used EXCEPT !["pm"] = @ \ {e.fpage}] /\ CallFree("pm", e.fpage, "undone")
    BY <1>4 DEF UndoOne
  <2>2. e.fpage \in used["pm"] /\ "pm" \in Allocs
    BY DEF ListInv, Allocs
  <2>3. flist' = flist /\ internal' = internal /\ mem' = mem /\ hand.size = 0
    BY <1>4, <1>e DEF UndoOne, At, booting
  <2> QED BY <1>3, <2>1, <2>2, <2>3 DEF CallFree
<1>5. CASE UndoDone /\ op.flags # "fixed"
  <2>1. used' = [used EXCEPT !["vm"] = @ \ {Chunk}] /\ CallFree("vm", Chunk, "fail")
    BY <1>5 DEF UndoDone, Chunk
  <2>2. Chunk \in used["vm"] /\ "vm" \in Allocs
    BY <1>5 DEF ChunkInv, HasChunk, UndoDone, At, Allocs
  <2>3. flist' = flist /\ internal' = internal /\ mem' = mem /\ hand.size = 0
    BY <1>5, <1>e DEF UndoDone, At, booting
  <2> QED BY <1>3, <2>1, <2>2, <2>3 DEF CallFree
<1>6. ASSUME NEW a \in Allocs, NEW i \in pending[a], TakeRegion(a, i), NEW l,
             CallFree(a, RegionAt(a, i), l), flist' = flist, internal' = internal, mem' = mem,
             hand.size = 0
      PROVE  mem' = mem /\ \A b \in Allocs : Held(b)' = Held(b)
  <2>1. RegionAt(a, i) \in used[a]
    BY <1>6, PendingFacts
  <2> QED BY <1>3, <1>6, <2>1 DEF TakeRegion, CallFree
<1>7. CASE BootPm
  <2>1. PICK i \in pending["pm"] : TakeRegion("pm", i) /\ CallFree("pm", RegionAt("pm", i), "boot_pm_rest")
    BY <1>7 DEF BootPm
  <2> QED BY <1>6, <1>7, <1>e, <2>1 DEF BootPm, At, Allocs
<1>8. CASE BootRest("pm", "boot_pm_rest", "boot_vm_clear")
  <2>1. CASE pending["pm"] = {}
    BY <1>8, <2>1 DEF BootRest, Held, InternalRegion, InHand
  <2>2. CASE pending["pm"] # {}
    <3>1. PICK i \in pending["pm"] : TakeRegion("pm", i) /\ CallFree("pm", RegionAt("pm", i), "boot_pm_rest")
      BY <1>8, <2>2 DEF BootRest
    <3> QED BY <1>6, <1>8, <1>e, <3>1 DEF BootRest, At, Allocs
  <2> QED BY <2>1, <2>2
<1>9. CASE BootRest("vm", "boot_vm_rest", "boot_heap")
  <2>1. CASE pending["vm"] = {}
    BY <1>9, <2>1 DEF BootRest, Held, InternalRegion, InHand
  <2>2. CASE pending["vm"] # {}
    <3>1. PICK i \in pending["vm"] : TakeRegion("vm", i) /\ CallFree("vm", RegionAt("vm", i), "boot_vm_rest")
      BY <1>9, <2>2 DEF BootRest
    <3> QED BY <1>6, <1>9, <1>e, <3>1 DEF BootRest, At, Allocs
  <2> QED BY <2>1, <2>2
<1>10. CASE LoadInternal
  <2>1. /\ used' = used /\ flist' = flist /\ mem' = mem /\ al' = al /\ hand' = NoPages
        /\ internal' = [internal EXCEPT ![al] = [base |-> hand.base, end |-> EndOf(hand), active |-> TRUE]]
        /\ hand.size > 0 /\ internal[al].base >= internal[al].end
    BY <1>0, <1>10 DEF LoadInternal, At, HandInv, Holding, Control, EmptyInv, booting,
       TypeOK
  <2>2. ASSUME NEW a \in Allocs, a = al PROVE Held(a)' = Held(a)
    <3>1. InHand(a) = {hand} /\ InHand(a)' = {}
      BY <2>1, <2>2 DEF InHand, NoPages
    <3>2. internal'[a].base = hand.base /\ internal'[a].end = EndOf(hand)
      BY <1>0, <2>1, <2>2 DEF TypeOK
    <3>3. InternalRegion(a) = {}
      BY <1>0, <2>1, <2>2 DEF InternalRegion, TypeOK
    <3>4. InternalRegion(a)' = {hand}
      <4>1. /\ hand.base \in Nat /\ hand.size \in Nat
            /\ hand = [base |-> hand.base, size |-> hand.size]
        BY <1>0 DEF TypeOK
      <4>2. hand.base < EndOf(hand) /\ EndOf(hand) - hand.base = hand.size
        BY <2>1, <4>1 DEF EndOf
      <4> QED BY <3>2, <4>1, <4>2 DEF InternalRegion
    <3> QED BY <2>1, <3>1, <3>3, <3>4 DEF Held
  <2>3. ASSUME NEW a \in Allocs, a # al PROVE Held(a)' = Held(a)
    <3>1. InHand(a)' = InHand(a) /\ internal'[a] = internal[a]
      BY <1>0, <2>1, <2>3 DEF InHand, TypeOK
    <3> QED BY <2>1, <3>1 DEF Held, InternalRegion
  <2> QED BY <2>1, <2>2, <2>3
<1>11. CASE BootVm
  <2>1. PICK i \in pending["vm"] :
          /\ TakeRegion("vm", i)
          /\ internal' = [internal EXCEPT !["vm"] =
                            [base |-> RegionAt("vm", i).base, end |-> EndOf(RegionAt("vm", i)),
                             active |-> TRUE]]
    BY <1>11 DEF BootVm
  <2> DEFINE r == RegionAt("vm", i)
  <2>2. r \in Region /\ r \in used["vm"]
    BY PendingFacts DEF Allocs
  <2>3. /\ used' = [used EXCEPT !["vm"] = @ \ {r}] /\ flist' = flist /\ al' = al
        /\ hand' = hand /\ mem' = mem
        /\ hand.size = 0
    BY <1>11, <1>e, <2>1 DEF BootVm, TakeRegion, At
  <2>4. internal["vm"].base >= internal["vm"].end
    BY <1>11 DEF BootVm, At, Control, EmptyInv, Allocs
  <2>5. Held("pm")' = Held("pm")
    BY <1>0, <2>1, <2>3 DEF Held, InternalRegion, InHand, TypeOK, Allocs
  <2>6. Held("vm")' = Held("vm")
    <3>1. /\ internal'["vm"].base = r.base /\ internal'["vm"].end = EndOf(r)
          /\ used'["vm"] = used["vm"] \ {r}
      BY <1>0, <2>1, <2>3 DEF TypeOK, Allocs
    <3>2. /\ r = [base |-> r.base, size |-> r.size] /\ r.base < EndOf(r)
          /\ EndOf(r) - r.base = r.size
      BY <2>2 DEF Region, EndOf
    <3> HIDE DEF r
    <3>3. InternalRegion("vm")' = {r}
      BY <3>1, <3>2 DEF InternalRegion
    <3>4. InternalRegion("vm") = {} /\ InHand("vm")' = InHand("vm")
      BY <1>0, <2>3, <2>4 DEF InternalRegion, InHand, TypeOK, Allocs
    <3> QED BY <2>2, <2>3, <3>1, <3>3, <3>4 DEF Held
  <2> QED BY <2>3, <2>5, <2>6 DEF Allocs
<1> QED BY <1>1, <1>2, <1>4, <1>5, <1>7, <1>8, <1>9, <1>10, <1>11

\* No step of the allocators loses a page.
LEMMA NothingLostNext ==
  ASSUME IInv, Control, NothingLost, AllocStep
  PROVE  NothingLost'
<1>0. TypeOK /\ HandInv /\ RetInv
  BY DEF IInv
<1>1. ASSUME NEW c \in Caches, StartGrow(c) PROVE NothingLost'
  BY <1>0, <1>1, SameNothingLost DEF InHand, StartGrow, memory, booting
<1>2. ASSUME NEW c \in Caches, GrowNode(c) PROVE NothingLost'
  BY <1>0, <1>2, SameNothingLost DEF InHand, GrowNode, memory, booting
<1>3. ASSUME NEW c \in Caches, NEW a \in Allocs, GrowFails(c, a) PROVE NothingLost'
  BY <1>0, <1>3, SameNothingLost DEF InHand, GrowFails, memory, booting
<1>4. CASE Free
  BY <1>0, <1>4, SameNothingLost DEF InHand, Free, memory, booting
<1>5. CASE ClearTest
  BY <1>0, <1>5, SameNothingLost DEF InHand, ClearTest, memory, booting
<1>6. CASE ClearNil
  BY <1>0, <1>6, SameNothingLost DEF InHand, ClearNil, memory, booting
<1>7. CASE AllocNil
  BY <1>0, <1>7, SameNothingLost DEF InHand, AllocNil, memory, booting
<1>8. CASE SplitDone
  BY <1>0, <1>8, SameNothingLost DEF InHand, SplitDone, memory, booting
<1>9. CASE Create
  BY <1>0, <1>9, SameNothingLost DEF InHand, Create, Call, memory, booting
<1>10. CASE CreateInternal
  BY <1>0, <1>10, SameNothingLost DEF InHand, CreateInternal, Call, memory, booting
<1>11. CASE New
  BY <1>0, <1>11, SameNothingLost DEF InHand, New, CallAlloc, At, HandInv, EmptyHanded, PCs,
     Holding, Halts, NoPages, memory, booting
<1>12. CASE ChunkShort
  BY <1>0, <1>12, SameNothingLost DEF InHand, ChunkShort, CallFree, At, RetInv, memory,
     booting
<1>13. CASE Back
  BY <1>0, <1>13, SameNothingLost DEF InHand, Back, memory, booting
<1>14. CASE ListNext
  BY <1>0, <1>14, SameNothingLost DEF InHand, ListNext, CallAlloc, At, HandInv, EmptyHanded,
     PCs, Holding, Halts, NoPages, memory, booting
<1>15. CASE ListDone
  BY <1>0, <1>15, SameNothingLost DEF InHand, ListDone, memory, booting
<1>16. CASE UndoNode
  BY <1>0, <1>16, SameNothingLost DEF InHand, UndoNode, memory, booting
<1>17. CASE InsertPage
  BY <1>0, <1>17, SameNothingLost DEF InHand, InsertPage, memory, booting
<1>18. CASE InsertDone
  BY <1>0, <1>18, SameNothingLost DEF InHand, InsertDone, memory, booting
<1>19. CASE Fail
  BY <1>0, <1>19, SameNothingLost DEF InHand, Fail, memory, booting
<1>20. CASE BootVmNone
  BY <1>0, <1>20, SameNothingLost DEF InHand, BootVmNone, memory, booting
<1>21. CASE BootPanic
  BY <1>0, <1>21, SameNothingLost DEF InHand, BootPanic, memory, booting
<1>22. CASE BootVmClear
  BY <1>0, <1>22, SameNothingLost DEF InHand, BootVmClear, At, HandInv, EmptyHanded, PCs,
     Holding, Halts, memory, booting
<1>23. CASE BootHeap
  BY <1>0, <1>23, SameNothingLost DEF InHand, BootHeap, Call, memory, booting
<1>24. CASE PdInit
  BY <1>0, <1>24, SameNothingLost DEF InHand, PdInit, memory, booting
<1>25. CASE UNCHANGED vars
  BY <1>0, <1>25, SameNothingLost DEF InHand, vars
<1>26. CASE ClearDone
  <2>1. flist' = flist /\ used' = used /\ hand' = hand /\ al' = al /\ mem' = mem
        /\ internal' = [internal EXCEPT ![al].active = FALSE]
        /\ internal \in [Allocs -> [base : Nat, end : Nat, active : BOOLEAN]]
    BY <1>0, <1>26 DEF ClearDone, TypeOK, booting
  <2>2. \A a \in Allocs : internal'[a].base = internal[a].base /\ internal'[a].end = internal[a].end
    BY <2>1
  <2>3. \A a \in Allocs : Held(a)' = Held(a)
    BY <2>1, <2>2 DEF Held, InternalRegion, InHand
  <2> QED BY <2>1, <2>3, KeptNothingLost
<1>27. ASSUME NEW c \in Caches, GrowVirt(c) \/ GrowPhys(c) PROVE NothingLost'
  <2>1. PICK a \in Allocs : \E r \in Sources(a) : AllocInternal(a, r)
    BY <1>27 DEF GrowVirt, GrowPhys, Allocs
  <2>2. mem' = mem /\ hand' = hand /\ al' = al
    BY <1>27 DEF GrowVirt, GrowPhys, booting
  <2>3. \A b \in Allocs : Pages(Held(b)') = Pages(Held(b))
    BY <2>1, <2>2, CarveKept DEF Control
  <2> QED BY <2>2, <2>3, KeptNothingLost
<1> QED BY <1>1, <1>2, <1>3, <1>4, <1>5, <1>6, <1>7, <1>8, <1>9, <1>10, <1>11, <1>12, <1>13,
           <1>14, <1>15, <1>16, <1>17, <1>18, <1>19, <1>20, <1>21, <1>22, <1>23, <1>24,
           <1>25, <1>26, <1>27, ClearNodeKept, SplitHalveKept, ChunkTrimKept, MoveKept
        DEF AllocStep, Next, Callees, Grows, Halted
-----------------------------------------------------------------------------
(***************************************************************************)
(* Who owns what is handed out                                             *)
(***************************************************************************)

\* Ownership is the same if all of its parts are.
LEMMA OwnSame ==
  ASSUME NEW a \in Allocs, OwnIn(a), used'[a] = used[a], Lasting(a)' = Lasting(a),
         CallOwns(a)' = CallOwns(a), Pend(a)' = Pend(a)
  PROVE  OwnIn(a)'
BY DEF OwnIn

\* A region that was not handed out gets an owner that keeps it ...
LEMMA OwnLasting ==
  ASSUME NEW a \in Allocs, OwnIn(a), NEW x, x \notin used[a], used'[a] = used[a] \union {x},
         Lasting(a)' = Lasting(a) \union {x}, CallOwns(a)' = CallOwns(a), Pend(a)' = Pend(a)
  PROVE  OwnIn(a)'
BY DEF OwnIn

\* ... or belongs to the creation in progress.
LEMMA OwnCall ==
  ASSUME NEW a \in Allocs, OwnIn(a), NEW x, x \notin used[a], used'[a] = used[a] \union {x},
         Lasting(a)' = Lasting(a), CallOwns(a)' = CallOwns(a) \union {x}, Pend(a)' = Pend(a)
  PROVE  OwnIn(a)'
BY DEF OwnIn

\* The creation gives a region back.
LEMMA OwnBack ==
  ASSUME NEW a \in Allocs, OwnIn(a), NEW x \in CallOwns(a), used'[a] = used[a] \ {x},
         Lasting(a)' = Lasting(a), CallOwns(a)' = CallOwns(a) \ {x}, Pend(a)' = Pend(a)
  PROVE  OwnIn(a)'
BY DEF OwnIn

\* A region of the map is taken over.
LEMMA OwnTaken ==
  ASSUME NEW a \in Allocs, OwnIn(a), NEW x \in Pend(a), used'[a] = used[a] \ {x},
         Lasting(a)' = Lasting(a), CallOwns(a)' = CallOwns(a), Pend(a)' = Pend(a) \ {x}
  PROVE  OwnIn(a)'
BY DEF OwnIn

\* Whatever is disjoint from handed-out memory is not handed out.
LEMMA FreshRegion ==
  ASSUME TypeOK, NEW a \in Allocs, NEW x \in Region, \A s \in used[a] : Disj(x, s)
  PROVE  x \notin used[a]
<1>1. used[a] \subseteq Region
  BY DEF TypeOK
<1> QED BY <1>1, DisjDistinct

\* Memsections and pools that stay as they are own what they did.
LEMMA LastingSame ==
  ASSUME NEW a \in Allocs, sections' = sections, pools' = pools, grow' = grow
  PROVE  Lasting(a)' = Lasting(a)
BY DEF Lasting, SectionRegions, PoolPages, GrowPages, Carved, Of, Page

\* What is left of the memory map stays what it was.
LEMMA PendSame ==
  ASSUME NEW a \in Allocs, pending' = pending, mem' = mem
  PROVE  Pend(a)' = Pend(a)
BY DEF Pend, RegionAt

\* The creation in progress owns what it did.
LEMMA CallOwnsSame ==
  ASSUME OwnsChunk' <=> OwnsChunk, OwnsChunk => op'.at = op.at /\ op'.size = op.size,
         op'.list = op.list
  PROVE  \A a \in Allocs : CallOwns(a)' = CallOwns(a)
BY DEF CallOwns, Chunk

\* A step that neither hands out memory nor takes it back.
LEMMA QuietOwn ==
  ASSUME OwnInv, pc \notin Halts, used' = used, sections' = sections, pools' = pools, grow' = grow,
         pending' = pending, mem' = mem,
         OwnsChunk' <=> OwnsChunk, OwnsChunk => op'.at = op.at /\ op'.size = op.size,
         op'.list = op.list
  PROVE  OwnInv'
<1>1. \A a \in Allocs : CallOwns(a)' = CallOwns(a)
  BY CallOwnsSame
<1>2. \A a \in Allocs : OwnIn(a)'
  BY <1>1, OwnSame, LastingSame, PendSame DEF OwnInv
<1> QED BY <1>2 DEF OwnInv


\* The steps that neither hand out memory nor take it back.
LEMMA QuietStep ==
  ASSUME IInv, Control, OwnInv, pc \notin Halts,
         \/ Free \/ LoadInternal \/ ClearTest \/ ClearDone \/ ClearNode \/ AllocPick \/ AllocNil
         \/ SplitHalve \/ SplitDone \/ Create \/ CreateInternal \/ New \/ ChunkShort \/ Back
         \/ ListNext \/ ListDone \/ UndoNode \/ InsertPage \/ Fail \/ BootVmNone \/ BootVmClear
         \/ BootHeap \/ PdInit \/ UNCHANGED vars
  PROVE  OwnInv'
<1>0. TypeOK /\ RetInv /\ OpInv /\ ChunkInv
  BY DEF IInv, Control
<1>1. CASE Free
  <2>1. used' = used /\ sections' = sections /\ pools' = pools /\ grow' = grow
        /\ pending' = pending /\ mem' = mem
    BY <1>1 DEF Free, At, memory, caches, booting
  <2>2. /\ OwnsChunk' <=> OwnsChunk
        /\ OwnsChunk => op'.at = op.at /\ op'.size = op.size
    BY <1>0, <1>1 DEF OwnsChunk, HasChunk, Freeing, Resumes, Free, At, memory, caches
  <2>3. op'.list = op.list
    BY <1>0, <1>1 DEF Free, At, memory, caches
  <2> QED BY <2>1, <2>2, <2>3, QuietOwn
<1>2. CASE LoadInternal
  <2>1. used' = used /\ sections' = sections /\ pools' = pools /\ grow' = grow
        /\ pending' = pending /\ mem' = mem
    BY <1>2 DEF LoadInternal, At, memory, caches, booting
  <2>2. /\ OwnsChunk' <=> OwnsChunk
        /\ OwnsChunk => op'.at = op.at /\ op'.size = op.size
    BY <1>0, <1>2 DEF OwnsChunk, HasChunk, Freeing, Resumes, LoadInternal, At, caches,
       booting
  <2>3. op'.list = op.list
    BY <1>0, <1>2 DEF LoadInternal, At, caches, booting
  <2> QED BY <2>1, <2>2, <2>3, QuietOwn
<1>3. CASE ClearTest
  <2>1. used' = used /\ sections' = sections /\ pools' = pools /\ grow' = grow
        /\ pending' = pending /\ mem' = mem
    BY <1>3 DEF ClearTest, At, memory, caches, booting
  <2>2. /\ OwnsChunk' <=> OwnsChunk
        /\ OwnsChunk => op'.at = op.at /\ op'.size = op.size
    BY <1>0, <1>3 DEF OwnsChunk, HasChunk, Freeing, Resumes, ClearTest, At, memory, caches
  <2>3. op'.list = op.list
    BY <1>0, <1>3 DEF ClearTest, At, memory, caches
  <2> QED BY <2>1, <2>2, <2>3, QuietOwn
<1>4. CASE ClearDone
  <2>1. used' = used /\ sections' = sections /\ pools' = pools /\ grow' = grow
        /\ pending' = pending /\ mem' = mem
    BY <1>4 DEF ClearDone, At, memory, caches, booting
  <2>2. /\ OwnsChunk' <=> OwnsChunk
        /\ OwnsChunk => op'.at = op.at /\ op'.size = op.size
    BY <1>0, <1>4 DEF OwnsChunk, HasChunk, Freeing, Resumes, RetInv, OpInv, Halts, TypeOK,
       ClearDone, At, caches, booting
  <2>3. op'.list = op.list
    BY <1>0, <1>4 DEF ClearDone, At, caches, booting
  <2> QED BY <2>1, <2>2, <2>3, QuietOwn
<1>5. CASE ClearNode
  <2>1. used' = used /\ sections' = sections /\ pools' = pools /\ grow' = grow
        /\ pending' = pending /\ mem' = mem
    BY <1>5 DEF ClearNode, At, memory, caches, booting
  <2>2. /\ OwnsChunk' <=> OwnsChunk
        /\ OwnsChunk => op'.at = op.at /\ op'.size = op.size
    BY <1>0, <1>5 DEF OwnsChunk, HasChunk, Freeing, Resumes, ClearNode, At, booting
  <2>3. op'.list = op.list
    BY <1>0, <1>5 DEF ClearNode, At, booting
  <2> QED BY <2>1, <2>2, <2>3, QuietOwn
<1>6. CASE AllocPick
  <2>1. used' = used /\ sections' = sections /\ pools' = pools /\ grow' = grow
        /\ pending' = pending /\ mem' = mem
    BY <1>6 DEF AllocPick, At, memory, caches, booting
  <2>2. /\ OwnsChunk' <=> OwnsChunk
        /\ OwnsChunk => op'.at = op.at /\ op'.size = op.size
    BY <1>0, <1>6 DEF OwnsChunk, HasChunk, Freeing, Resumes, AllocPick, At, booting
  <2>3. op'.list = op.list
    BY <1>0, <1>6 DEF AllocPick, At, booting
  <2> QED BY <2>1, <2>2, <2>3, QuietOwn
<1>7. CASE AllocNil
  <2>1. used' = used /\ sections' = sections /\ pools' = pools /\ grow' = grow
        /\ pending' = pending /\ mem' = mem
    BY <1>7 DEF AllocNil, At, memory, caches, booting
  <2>2. /\ OwnsChunk' <=> OwnsChunk
        /\ OwnsChunk => op'.at = op.at /\ op'.size = op.size
    BY <1>0, <1>7 DEF OwnsChunk, HasChunk, Freeing, Resumes, RetInv, OpInv, Halts, TypeOK,
       AllocNil, At, memory, caches
  <2>3. op'.list = op.list
    BY <1>0, <1>7 DEF AllocNil, At, memory, caches
  <2> QED BY <2>1, <2>2, <2>3, QuietOwn
<1>8. CASE SplitHalve
  <2>1. used' = used /\ sections' = sections /\ pools' = pools /\ grow' = grow
        /\ pending' = pending /\ mem' = mem
    BY <1>8 DEF SplitHalve, At, memory, caches, booting
  <2>2. /\ OwnsChunk' <=> OwnsChunk
        /\ OwnsChunk => op'.at = op.at /\ op'.size = op.size
    BY <1>0, <1>8 DEF OwnsChunk, HasChunk, Freeing, Resumes, SplitHalve, At, booting
  <2>3. op'.list = op.list
    BY <1>0, <1>8 DEF SplitHalve, At, booting
  <2> QED BY <2>1, <2>2, <2>3, QuietOwn
<1>9. CASE SplitDone
  <2>1. used' = used /\ sections' = sections /\ pools' = pools /\ grow' = grow
        /\ pending' = pending /\ mem' = mem
    BY <1>9 DEF SplitDone, At, memory, caches, booting
  <2>2. /\ OwnsChunk' <=> OwnsChunk
        /\ OwnsChunk => op'.at = op.at /\ op'.size = op.size
    BY <1>0, <1>9 DEF OwnsChunk, HasChunk, Freeing, Resumes, RetInv, OpInv, Halts, TypeOK,
       SplitDone, At, memory, caches
  <2>3. op'.list = op.list
    BY <1>0, <1>9 DEF SplitDone, At, memory, caches
  <2> QED BY <2>1, <2>2, <2>3, QuietOwn
<1>10. CASE Create
  <2>1. used' = used /\ sections' = sections /\ pools' = pools /\ grow' = grow
        /\ pending' = pending /\ mem' = mem
    BY <1>10 DEF Create, At, memory, caches, booting, Call, NoOp
  <2>2. /\ OwnsChunk' <=> OwnsChunk
        /\ OwnsChunk => op'.at = op.at /\ op'.size = op.size
    BY <1>0, <1>10 DEF OwnsChunk, HasChunk, Freeing, Resumes, RetInv, OpInv, Halts, TypeOK,
       Create, At, memory, caches, booting, Call, NoOp
  <2>3. op'.list = op.list
    BY <1>0, <1>10 DEF OpInv, Freeing, Halts, TypeOK, Create, At, memory, caches, booting,
       Call, NoOp
  <2> QED BY <2>1, <2>2, <2>3, QuietOwn
<1>11. CASE CreateInternal
  <2>1. used' = used /\ sections' = sections /\ pools' = pools /\ grow' = grow
        /\ pending' = pending /\ mem' = mem
    BY <1>11 DEF CreateInternal, At, memory, caches, booting, Call, NoOp
  <2>2. /\ OwnsChunk' <=> OwnsChunk
        /\ OwnsChunk => op'.at = op.at /\ op'.size = op.size
    BY <1>0, <1>11 DEF OwnsChunk, HasChunk, Freeing, Resumes, RetInv, OpInv, Halts, TypeOK,
       CreateInternal, At, memory, caches, booting, Call, NoOp
  <2>3. op'.list = op.list
    BY <1>0, <1>11 DEF OpInv, Freeing, Halts, TypeOK, CreateInternal, At, memory, caches,
       booting, Call, NoOp
  <2> QED BY <2>1, <2>2, <2>3, QuietOwn
<1>12. CASE New
  <2>1. used' = used /\ sections' = sections /\ pools' = pools /\ grow' = grow
        /\ pending' = pending /\ mem' = mem
    BY <1>12 DEF New, At, memory, booting
  <2>2. /\ OwnsChunk' <=> OwnsChunk
        /\ OwnsChunk => op'.at = op.at /\ op'.size = op.size
    BY <1>0, <1>12 DEF OwnsChunk, HasChunk, Freeing, Resumes, New, At, memory, booting,
       CallAlloc
  <2>3. op'.list = op.list
    BY <1>0, <1>12 DEF Freeing, Halts, TypeOK, New, At, memory, booting, CallAlloc
  <2> QED BY <2>1, <2>2, <2>3, QuietOwn
<1>13. CASE ChunkShort
  <2>1. used' = used /\ sections' = sections /\ pools' = pools /\ grow' = grow
        /\ pending' = pending /\ mem' = mem
    BY <1>13 DEF ChunkShort, At, memory, caches, booting, CallFree
  <2>2. /\ OwnsChunk' <=> OwnsChunk
        /\ OwnsChunk => op'.at = op.at /\ op'.size = op.size
    BY <1>0, <1>13 DEF OwnsChunk, HasChunk, Freeing, Resumes, ChunkShort, At, memory,
       caches, booting, CallFree
  <2>3. op'.list = op.list
    BY <1>0, <1>13 DEF ChunkShort, At, memory, caches
  <2> QED BY <2>1, <2>2, <2>3, QuietOwn
<1>14. CASE Back
  <2>1. used' = used /\ sections' = sections /\ pools' = pools /\ grow' = grow
        /\ pending' = pending /\ mem' = mem
    BY <1>14 DEF Back, At, memory, caches, booting
  <2>2. /\ OwnsChunk' <=> OwnsChunk
        /\ OwnsChunk => op'.at = op.at /\ op'.size = op.size
    BY <1>0, <1>14 DEF OwnsChunk, HasChunk, Freeing, Resumes, RetInv, OpInv, Halts, TypeOK,
       Back, At, memory, caches
  <2>3. op'.list = op.list
    BY <1>0, <1>14 DEF Back, At, memory, caches
  <2> QED BY <2>1, <2>2, <2>3, QuietOwn
<1>15. CASE ListNext
  <2>1. used' = used /\ sections' = sections /\ pools' = pools /\ grow' = grow
        /\ pending' = pending /\ mem' = mem
    BY <1>15 DEF ListNext, At, memory, caches, booting, CallAlloc
  <2>2. /\ OwnsChunk' <=> OwnsChunk
        /\ OwnsChunk => op'.at = op.at /\ op'.size = op.size
    BY <1>0, <1>15 DEF OwnsChunk, HasChunk, Freeing, Resumes, ListNext, At, memory, caches,
       booting, CallAlloc
  <2>3. op'.list = op.list
    BY <1>0, <1>15 DEF ListNext, At, memory, caches, booting, CallAlloc
  <2> QED BY <2>1, <2>2, <2>3, QuietOwn
<1>16. CASE ListDone
  <2>1. used' = used /\ sections' = sections /\ pools' = pools /\ grow' = grow
        /\ pending' = pending /\ mem' = mem
    BY <1>16 DEF ListDone, At, memory, caches, booting
  <2>2. /\ OwnsChunk' <=> OwnsChunk
        /\ OwnsChunk => op'.at = op.at /\ op'.size = op.size
    BY <1>0, <1>16 DEF OwnsChunk, HasChunk, Freeing, Resumes, RetInv, OpInv, Halts, TypeOK,
       ListDone, At, memory, caches
  <2>3. op'.list = op.list
    BY <1>0, <1>16 DEF ListDone, At, memory, caches
  <2> QED BY <2>1, <2>2, <2>3, QuietOwn
<1>17. CASE UndoNode
  <2>1. used' = used /\ sections' = sections /\ pools' = pools /\ grow' = grow
        /\ pending' = pending /\ mem' = mem
    BY <1>17 DEF UndoNode, At, memory, caches, booting
  <2>2. /\ OwnsChunk' <=> OwnsChunk
        /\ OwnsChunk => op'.at = op.at /\ op'.size = op.size
    BY <1>0, <1>17 DEF OwnsChunk, HasChunk, Freeing, Resumes, UndoNode, At, memory, booting
  <2>3. op'.list = op.list
    BY <1>0, <1>17 DEF UndoNode, At, memory, booting
  <2> QED BY <2>1, <2>2, <2>3, QuietOwn
<1>18. CASE InsertPage
  <2>1. used' = used /\ sections' = sections /\ pools' = pools /\ grow' = grow
        /\ pending' = pending /\ mem' = mem
    BY <1>18 DEF InsertPage, At, memory, caches, booting
  <2>2. /\ OwnsChunk' <=> OwnsChunk
        /\ OwnsChunk => op'.at = op.at /\ op'.size = op.size
    BY <1>0, <1>18 DEF OwnsChunk, HasChunk, Freeing, Resumes, InsertPage, At, memory,
       booting
  <2>3. op'.list = op.list
    BY <1>0, <1>18 DEF InsertPage, At, memory, booting
  <2> QED BY <2>1, <2>2, <2>3, QuietOwn
<1>19. CASE Fail
  <2>1. used' = used /\ sections' = sections /\ pools' = pools /\ grow' = grow
        /\ pending' = pending /\ mem' = mem
    BY <1>19 DEF Fail, At, memory, booting
  <2>2. /\ OwnsChunk' <=> OwnsChunk
        /\ OwnsChunk => op'.at = op.at /\ op'.size = op.size
    BY <1>0, <1>19 DEF OwnsChunk, HasChunk, Freeing, Resumes, Fail, At, memory, booting
  <2>3. op'.list = op.list
    BY <1>0, <1>19 DEF OpInv, Freeing, Halts, TypeOK, Fail, At, memory, booting, NoOp
  <2> QED BY <2>1, <2>2, <2>3, QuietOwn
<1>20. CASE BootVmNone
  <2>1. used' = used /\ sections' = sections /\ pools' = pools /\ grow' = grow
        /\ pending' = pending /\ mem' = mem
    BY <1>20 DEF BootVmNone, At, memory, caches, booting
  <2>2. /\ OwnsChunk' <=> OwnsChunk
        /\ OwnsChunk => op'.at = op.at /\ op'.size = op.size
    BY <1>0, <1>20 DEF OwnsChunk, HasChunk, Freeing, Resumes, BootVmNone, At, memory, caches
  <2>3. op'.list = op.list
    BY <1>0, <1>20 DEF BootVmNone, At, memory, caches
  <2> QED BY <2>1, <2>2, <2>3, QuietOwn
<1>21. CASE BootVmClear
  <2>1. used' = used /\ sections' = sections /\ pools' = pools /\ grow' = grow
        /\ pending' = pending /\ mem' = mem
    BY <1>21 DEF BootVmClear, At, memory, caches, booting
  <2>2. /\ OwnsChunk' <=> OwnsChunk
        /\ OwnsChunk => op'.at = op.at /\ op'.size = op.size
    BY <1>0, <1>21 DEF OwnsChunk, HasChunk, Freeing, Resumes, BootVmClear, At, memory,
       caches
  <2>3. op'.list = op.list
    BY <1>0, <1>21 DEF BootVmClear, At, memory, caches
  <2> QED BY <2>1, <2>2, <2>3, QuietOwn
<1>22. CASE BootHeap
  <2>1. used' = used /\ sections' = sections /\ pools' = pools /\ grow' = grow
        /\ pending' = pending /\ mem' = mem
    BY <1>22 DEF BootHeap, At, memory, caches, booting, Call, NoOp
  <2>2. /\ OwnsChunk' <=> OwnsChunk
        /\ OwnsChunk => op'.at = op.at /\ op'.size = op.size
    BY <1>0, <1>22 DEF OwnsChunk, HasChunk, Freeing, Resumes, BootHeap, At, memory, caches,
       booting, Call, NoOp
  <2>3. op'.list = op.list
    BY <1>0, <1>22 DEF OpInv, Freeing, Halts, TypeOK, BootHeap, At, memory, caches, booting,
       Call, NoOp
  <2> QED BY <2>1, <2>2, <2>3, QuietOwn
<1>23. CASE PdInit
  <2>1. used' = used /\ sections' = sections /\ pools' = pools /\ grow' = grow
        /\ pending' = pending /\ mem' = mem
    BY <1>23 DEF PdInit, At, memory, caches, booting
  <2>2. /\ OwnsChunk' <=> OwnsChunk
        /\ OwnsChunk => op'.at = op.at /\ op'.size = op.size
    BY <1>0, <1>23 DEF OwnsChunk, HasChunk, Freeing, Resumes, PdInit, At, memory, caches
  <2>3. op'.list = op.list
    BY <1>0, <1>23 DEF PdInit, At, memory, caches
  <2> QED BY <2>1, <2>2, <2>3, QuietOwn
<1>24. CASE UNCHANGED vars
  <2>1. used' = used /\ sections' = sections /\ pools' = pools /\ grow' = grow
        /\ pending' = pending /\ mem' = mem
    BY <1>24 DEF vars
  <2>2. /\ OwnsChunk' <=> OwnsChunk
        /\ OwnsChunk => op'.at = op.at /\ op'.size = op.size
    BY <1>0, <1>24 DEF OwnsChunk, HasChunk, Freeing, Resumes, vars
  <2>3. op'.list = op.list
    BY <1>0, <1>24 DEF OpInv, Freeing, Halts, TypeOK, vars
  <2> QED BY <2>1, <2>2, <2>3, QuietOwn
<1> QED BY <1>1, <1>2, <1>3, <1>4, <1>5, <1>6, <1>7, <1>8, <1>9, <1>10, <1>11, <1>12, <1>13,
           <1>14, <1>15, <1>16, <1>17, <1>18, <1>19, <1>20, <1>21, <1>22, <1>23, <1>24

\* The virtual page of a new pool belongs to the pool from the start.
LEMMA OwnGrowVirt ==
  ASSUME IInv, OwnInv, NEW c \in Caches, GrowVirt(c)
  PROVE  OwnInv'
<1>0. TypeOK /\ pc \notin Halts
  BY DEF IInv, GrowVirt, Running
<1>1. PICK r \in Sources("vm") :
        /\ AllocInternal("vm", r)
        /\ grow' = [grow EXCEPT ![c].stage = "phys", ![c].virt = r.base]
  BY DEF GrowVirt
<1>2. /\ sections' = sections /\ pools' = pools /\ pending' = pending /\ mem' = mem
      /\ op' = op /\ pc' = pc /\ ret' = ret
      /\ used' = [used EXCEPT !["vm"] = @ \union {Page(r.base)}]
      /\ grow[c].stage = "virt"
  BY <1>1 DEF GrowVirt, AllocInternal, booting, Page
<1>3. \A a \in Allocs : /\ CallOwns(a)' = CallOwns(a)
                        /\ Pend(a)' = Pend(a)
                        /\ SectionRegions(a)' = SectionRegions(a)
                        /\ PoolPages(a)' = PoolPages(a)
  BY <1>2 DEF CallOwns, OwnsChunk, HasChunk, Chunk, Pend, RegionAt, SectionRegions,
     PoolPages
<1>4. /\ grow \in [Caches -> [stage : Stages, virt : Nat, phys : Nat]]
      /\ grow'[c].stage = "phys" /\ grow'[c].virt = r.base
      /\ grow'[c].phys = grow[c].phys
      /\ \A d \in Caches : d # c => grow'[d] = grow[d]
  BY <1>0, <1>1 DEF TypeOK
<1>5. OwnIn("vm")'
  <2>1. Carved("vm")' = Carved("vm") \union {c} /\ c \notin Carved("vm")
    BY <1>2, <1>4 DEF Carved
  <2>2. \A d \in Carved("vm") : Of("vm", grow'[d]) = Of("vm", grow[d])
    BY <1>4, <2>1 DEF Carved
  <2>3. Of("vm", grow'[c]) = Page(r.base)
    BY <1>4 DEF Of
  <2>4. GrowPages("vm")' = GrowPages("vm") \union {Page(r.base)}
    <3>1. GrowPages("vm")' = {Of("vm", grow'[d]) : d \in Carved("vm")'}
      BY DEF GrowPages, Of, Page
    <3> QED BY <2>1, <2>2, <2>3, <3>1 DEF GrowPages
  <2>5. Lasting("vm")' = Lasting("vm") \union {Page(r.base)}
    BY <1>3, <2>4 DEF Lasting, Allocs
  <2>6. used'["vm"] = used["vm"] \union {Page(r.base)}
    BY <1>0, <1>2 DEF TypeOK, Allocs
  <2>7. Page(r.base) \notin used["vm"]
    <3>1. /\ r \in Region /\ Page(r.base) \in Region /\ Within(Page(r.base), r)
          /\ \A s \in used["vm"] : s \in Region /\ Disj(r, s)
      BY <1>0, SourceFacts, HeldRegions DEF Allocs, Page, Region, Within, EndOf
    <3>2. \A s \in used["vm"] : Disj(Page(r.base), s)
      BY <3>1, DisjWithin
    <3> QED BY <1>0, <3>1, <3>2, FreshRegion DEF Allocs
  <2> QED BY <1>0, <1>3, <2>5, <2>6, <2>7, OwnLasting DEF OwnInv, Allocs
<1>6. OwnIn("pm")'
  <2>1. used'["pm"] = used["pm"]
    BY <1>0, <1>2 DEF TypeOK, Allocs
  <2>2. Carved("pm")' = Carved("pm")
    BY <1>2, <1>4 DEF Carved
  <2>3. \A d \in Carved("pm") : Of("pm", grow'[d]) = Of("pm", grow[d])
    BY <1>4 DEF Carved, Of
  <2>4. GrowPages("pm")' = GrowPages("pm")
    <3>1. GrowPages("pm")' = {Of("pm", grow'[d]) : d \in Carved("pm")'}
      BY DEF GrowPages, Of, Page
    <3> QED BY <2>2, <2>3, <3>1 DEF GrowPages
  <2>5. Lasting("pm")' = Lasting("pm")
    BY <1>3, <2>4 DEF Lasting, Allocs
  <2> QED BY <1>0, <1>3, <2>1, <2>5, OwnSame DEF OwnInv, Allocs
<1> QED BY <1>5, <1>6 DEF OwnInv, Allocs


\* The physical page of a new pool belongs to the pool from the start.
LEMMA OwnGrowPhys ==
  ASSUME IInv, OwnInv, NEW c \in Caches, GrowPhys(c)
  PROVE  OwnInv'
<1>0. TypeOK /\ pc \notin Halts
  BY DEF IInv, GrowPhys, Running
<1>1. PICK r \in Sources("pm") :
        /\ AllocInternal("pm", r)
        /\ grow' = [grow EXCEPT ![c].stage = "node", ![c].phys = r.base]
  BY DEF GrowPhys
<1>2. /\ sections' = sections /\ pools' = pools /\ pending' = pending /\ mem' = mem
      /\ op' = op /\ pc' = pc /\ ret' = ret
      /\ used' = [used EXCEPT !["pm"] = @ \union {Page(r.base)}]
      /\ grow[c].stage = "phys"
  BY <1>1 DEF GrowPhys, AllocInternal, booting, Page
<1>3. \A a \in Allocs : /\ CallOwns(a)' = CallOwns(a)
                        /\ Pend(a)' = Pend(a)
                        /\ SectionRegions(a)' = SectionRegions(a)
                        /\ PoolPages(a)' = PoolPages(a)
  BY <1>2 DEF CallOwns, OwnsChunk, HasChunk, Chunk, Pend, RegionAt, SectionRegions,
     PoolPages
<1>4. /\ grow \in [Caches -> [stage : Stages, virt : Nat, phys : Nat]]
      /\ grow'[c].stage = "node" /\ grow'[c].phys = r.base
      /\ grow'[c].virt = grow[c].virt
      /\ \A d \in Caches : d # c => grow'[d] = grow[d]
  BY <1>0, <1>1 DEF TypeOK
<1>5. OwnIn("pm")'
  <2>1. Carved("pm")' = Carved("pm") \union {c} /\ c \notin Carved("pm")
    BY <1>2, <1>4 DEF Carved
  <2>2. \A d \in Carved("pm") : Of("pm", grow'[d]) = Of("pm", grow[d])
    BY <1>4, <2>1 DEF Carved
  <2>3. Of("pm", grow'[c]) = Page(r.base)
    BY <1>4 DEF Of
  <2>4. GrowPages("pm")' = GrowPages("pm") \union {Page(r.base)}
    <3>1. GrowPages("pm")' = {Of("pm", grow'[d]) : d \in Carved("pm")'}
      BY DEF GrowPages, Of, Page
    <3> QED BY <2>1, <2>2, <2>3, <3>1 DEF GrowPages
  <2>5. Lasting("pm")' = Lasting("pm") \union {Page(r.base)}
    BY <1>3, <2>4 DEF Lasting, Allocs
  <2>6. used'["pm"] = used["pm"] \union {Page(r.base)}
    BY <1>0, <1>2 DEF TypeOK, Allocs
  <2>7. Page(r.base) \notin used["pm"]
    <3>1. /\ r \in Region /\ Page(r.base) \in Region /\ Within(Page(r.base), r)
          /\ \A s \in used["pm"] : s \in Region /\ Disj(r, s)
      BY <1>0, SourceFacts, HeldRegions DEF Allocs, Page, Region, Within, EndOf
    <3>2. \A s \in used["pm"] : Disj(Page(r.base), s)
      BY <3>1, DisjWithin
    <3> QED BY <1>0, <3>1, <3>2, FreshRegion DEF Allocs
  <2> QED BY <1>0, <1>3, <2>5, <2>6, <2>7, OwnLasting DEF OwnInv, Allocs
<1>6. OwnIn("vm")'
  <2>1. used'["vm"] = used["vm"]
    BY <1>0, <1>2 DEF TypeOK, Allocs
  <2>2. Carved("vm")' = Carved("vm")
    BY <1>2, <1>4 DEF Carved
  <2>3. \A d \in Carved("vm") : Of("vm", grow'[d]) = Of("vm", grow[d])
    BY <1>4 DEF Carved, Of
  <2>4. GrowPages("vm")' = GrowPages("vm")
    <3>1. GrowPages("vm")' = {Of("vm", grow'[d]) : d \in Carved("vm")'}
      BY DEF GrowPages, Of, Page
    <3> QED BY <2>2, <2>3, <3>1 DEF GrowPages
  <2>5. Lasting("vm")' = Lasting("vm")
    BY <1>3, <2>4 DEF Lasting, Allocs
  <2> QED BY <1>0, <1>3, <2>1, <2>5, OwnSame DEF OwnInv, Allocs
<1> QED BY <1>5, <1>6 DEF OwnInv, Allocs


\* A growth that begins owns no page yet.
LEMMA OwnStartGrow ==
  ASSUME IInv, OwnInv, NEW c \in Caches, StartGrow(c)
  PROVE  OwnInv'
<1> SUFFICES ASSUME pc \notin Halts PROVE OwnInv'
  BY DEF OwnInv, StartGrow
<1>1. /\ grow \in [Caches -> [stage : Stages, virt : Nat, phys : Nat]]
      /\ grow[c].stage = "none" /\ grow' = [grow EXCEPT ![c].stage = "virt"]
  BY DEF IInv, TypeOK, StartGrow
<1>2. /\ /\ used' = used /\ sections' = sections /\ pools' = pools /\ pending' = pending
      /\ mem' = mem
      /\ op' = op /\ pc' = pc /\ ret' = ret
  BY DEF StartGrow, memory, booting
<1>3. ASSUME NEW a \in Allocs PROVE OwnIn(a)'
  <2>1. Carved(a)' = Carved(a) /\ c \notin Carved(a)
    BY <1>1 DEF Carved
  <2>2. \A d \in Carved(a) : grow'[d] = grow[d]
    BY <1>1, <2>1 DEF Carved
  <2>3. GrowPages(a)' = GrowPages(a)
    <3>1. GrowPages(a)' = {Of(a, grow'[d]) : d \in Carved(a)'}
      BY DEF GrowPages, Of, Page
    <3> QED BY <2>1, <2>2, <3>1 DEF GrowPages
  <2>4. Lasting(a)' = Lasting(a) /\ Pend(a)' = Pend(a) /\ CallOwns(a)' = CallOwns(a)
    BY <1>2, <2>3 DEF Lasting, SectionRegions, PoolPages, Of, Page, Pend, RegionAt,
       CallOwns,
         OwnsChunk, HasChunk, Chunk
  <2> QED BY <1>2, <2>4, OwnSame DEF OwnInv
<1> QED BY <1>3 DEF OwnInv

\* The pool takes over the pages carved for it.
LEMMA OwnGrowNode ==
  ASSUME IInv, OwnInv, NEW c \in Caches, GrowNode(c)
  PROVE  OwnInv'
<1>0. pc \notin Halts
  BY DEF GrowNode, Running
<1> DEFINE new == [virt |-> grow[c].virt, phys |-> grow[c].phys]
<1>1. /\ grow \in [Caches -> [stage : Stages, virt : Nat, phys : Nat]]
      /\ pools \in [Caches -> SUBSET [virt : Nat, phys : Nat]]
      /\ grow[c].stage = "node" /\ grow' = [grow EXCEPT ![c] = NoGrow]
      /\ pools' = [pools EXCEPT ![c] = @ \union {new}]
  BY DEF IInv, TypeOK, GrowNode
<1>2. /\ used' = used /\ sections' = sections /\ pending' = pending /\ mem' = mem
      /\ op' = op /\ pc' = pc /\ ret' = ret
  BY DEF GrowNode, memory, booting
<1>3. ASSUME NEW a \in Allocs PROVE OwnIn(a)'
  <2>1. Carved(a)' = Carved(a) \ {c} /\ c \in Carved(a)
    BY <1>1 DEF Carved, NoGrow
  <2>2. \A d \in Carved(a)' : grow'[d] = grow[d]
    BY <1>1, <2>1 DEF Carved
  <2>3. GrowPages(a)' \union {Of(a, grow[c])} = GrowPages(a)
    <3>1. GrowPages(a)' = {Of(a, grow'[d]) : d \in Carved(a)'}
      BY DEF GrowPages, Of, Page
    <3> QED BY <2>1, <2>2, <3>1 DEF GrowPages
  <2>4. Of(a, new) = Of(a, grow[c])
    BY DEF Of
  <2> DEFINE P == UNION {pools[d] : d \in Caches}
             Q == UNION {pools'[d] : d \in Caches}
  <2>5. Q = P \union {new}
    <3>1. pools'[c] = pools[c] \union {new} /\ \A d \in Caches : d # c => pools'[d] = pools[d]
      BY <1>1
    <3>2. /\ \A x : x \in P <=> \E d \in Caches : x \in pools[d]
          /\ \A x : x \in Q <=> \E d \in Caches : x \in pools'[d]
      OBVIOUS
    <3> HIDE DEF new, P, Q
    <3>3. \A x : x \in Q <=> x \in P \/ x = new
      BY <3>1, <3>2
    <3> QED BY <3>3
  <2>6. PoolPages(a)' = PoolPages(a) \union {Of(a, grow[c])}
    <3>1. PoolPages(a)' = {Of(a, p) : p \in Q} /\ PoolPages(a) = {Of(a, p) : p \in P}
      BY DEF PoolPages, Of, Page
    <3> HIDE DEF new, P, Q
    <3> QED BY <2>4, <2>5, <3>1
  <2>7. SectionRegions(a)' = SectionRegions(a)
    BY <1>2 DEF SectionRegions
  <2>8. Lasting(a)' = Lasting(a)
    BY <2>3, <2>6, <2>7 DEF Lasting
  <2>9. Pend(a)' = Pend(a) /\ CallOwns(a)' = CallOwns(a)
    BY <1>2 DEF Pend, RegionAt, CallOwns, OwnsChunk, HasChunk, Chunk
  <2> QED BY <1>0, <1>2, <2>8, <2>9, OwnSame DEF OwnInv
<1> QED BY <1>3 DEF OwnInv

\* The range of a memsection is taken from the fpage found for it.
LEMMA OwnChunkTrim ==
  ASSUME IInv, Control, OwnInv, ChunkTrim
  PROVE  OwnInv'
<1>0. /\ /\ TypeOK /\ al = "vm" /\ op.size \in Nat \ {0} /\ hand.size \in Nat \ {0}
      /\ hand.base \in Nat
      /\ hand.size >= op.size /\ pc = "chunk" /\ pc \notin Halts /\ op.list = {}
  BY DEF IInv, RetInv, ChunkInv, SizedOp, HandInv, Holding, ChunkTrim, At, TypeOK, Halts,
     Control,
       OpInv, Freeing
<1> DEFINE chunk == [base |-> hand.base, size |-> op.size]
<1>1. /\ used' = [used EXCEPT !["vm"] = @ \union {chunk}]
      /\ op' = [op EXCEPT !.at = hand.base, !.cur = hand.base]
      /\ sections' = sections /\ pools' = pools /\ grow' = grow /\ pending' = pending
      /\ mem' = mem
  BY DEF ChunkTrim, caches, booting
<1>2. op'.at = hand.base /\ op'.size = op.size /\ op'.list = op.list
  BY <1>0, <1>1 DEF TypeOK
<1>3. OwnsChunk' /\ ~OwnsChunk
  BY <1>0 DEF OwnsChunk, HasChunk, Freeing, ChunkTrim, CallFree
<1>4. \A a \in Allocs : Lasting(a)' = Lasting(a) /\ Pend(a)' = Pend(a)
  BY <1>1, LastingSame, PendSame
<1>5. OwnIn("pm")'
  <2>1. used'["pm"] = used["pm"] /\ CallOwns("pm")' = CallOwns("pm")
    BY <1>0, <1>1, <1>2 DEF TypeOK, Allocs, CallOwns
  <2> QED BY <1>0, <1>4, <2>1, OwnSame DEF OwnInv, Allocs
<1>6. OwnIn("vm")'
  <2>1. used'["vm"] = used["vm"] \union {chunk}
    BY <1>0, <1>1 DEF TypeOK, Allocs
  <2>2. CallOwns("vm") = {} /\ CallOwns("vm")' = {chunk}
    BY <1>2, <1>3 DEF CallOwns, Chunk
  <2>3. chunk \notin used["vm"]
    <3>1. hand \in Region /\ chunk \in Region /\ Within(chunk, hand)
      BY <1>0 DEF TypeOK, Region, Within, EndOf
    <3>2. \A s \in used["vm"] : s \in Region /\ Disj(hand, s)
      BY <1>0, HeldRegions DEF IInv, Exclusive, ExclusiveIn, Apart, InHand, Allocs
    <3> HIDE DEF chunk
    <3>3. \A s \in used["vm"] : Disj(chunk, s)
      BY <3>1, <3>2, DisjWithin
    <3> QED BY <1>0, <3>1, <3>3, FreshRegion DEF Allocs
  <2> HIDE DEF chunk
  <2> QED BY <1>0, <1>4, <2>1, <2>2, <2>3, OwnCall DEF OwnInv, Allocs
<1> QED BY <1>5, <1>6 DEF OwnInv, Allocs

\* A physical fpage is put on the list of the memsection.
LEMMA OwnListNode ==
  ASSUME IInv, OwnInv, ListNode
  PROVE  OwnInv'
<1>0. TypeOK /\ al = "pm" /\ hand.size > 0 /\ pc = "lnode" /\ pc \notin Halts
  BY DEF IInv, RetInv, HandInv, Holding, ListNode, At, Halts
<1> DEFINE e == [virt |-> op.cur, fpage |-> hand]
<1>1. /\ used' = [used EXCEPT !["pm"] = @ \union {hand}]
      /\ op' = [op EXCEPT !.list = @ \union {e}, !.cur = @ + hand.size]
      /\ sections' = sections /\ pools' = pools /\ grow' = grow /\ pending' = pending
      /\ mem' = mem
      /\ pc' = "list"
  BY DEF ListNode, booting
<1>2. op'.at = op.at /\ op'.size = op.size /\ op'.list = op.list \union {e}
  BY <1>0, <1>1 DEF TypeOK
<1>3. OwnsChunk' /\ OwnsChunk
  BY <1>0, <1>1 DEF OwnsChunk, HasChunk
<1>4. \A a \in Allocs : Lasting(a)' = Lasting(a) /\ Pend(a)' = Pend(a)
  BY <1>1, LastingSame, PendSame
<1>5. OwnIn("vm")'
  <2>1. used'["vm"] = used["vm"] /\ CallOwns("vm")' = CallOwns("vm")
    BY <1>0, <1>1, <1>2, <1>3 DEF TypeOK, Allocs, CallOwns, Chunk
  <2> QED BY <1>0, <1>4, <2>1, OwnSame DEF OwnInv, Allocs
<1>6. OwnIn("pm")'
  <2>1. used'["pm"] = used["pm"] \union {hand}
    BY <1>0, <1>1 DEF TypeOK, Allocs
  <2>2. CallOwns("pm")' = CallOwns("pm") \union {hand}
    <3>1. e.fpage = hand
      OBVIOUS
    <3> HIDE DEF e
    <3> QED BY <1>2, <3>1 DEF CallOwns
  <2>3. hand \notin used["pm"]
    <3>1. hand \in Region
      BY <1>0 DEF TypeOK, Region
    <3>2. \A s \in used["pm"] : Disj(hand, s)
      BY <1>0, HeldRegions DEF IInv, Exclusive, ExclusiveIn, Apart, InHand, Allocs
    <3> QED BY <1>0, <3>1, <3>2, FreshRegion DEF Allocs
  <2> QED BY <1>0, <1>4, <2>1, <2>2, <2>3, OwnCall DEF OwnInv, Allocs
<1> QED BY <1>5, <1>6 DEF OwnInv, Allocs

\* The fpages of the list are given back one by one ...
LEMMA OwnUndoOne ==
  ASSUME IInv, OwnInv, UndoOne
  PROVE  OwnInv'
<1>0. TypeOK /\ ListInv /\ pc = "undo" /\ pc \notin Halts
  BY DEF IInv, UndoOne, At, Halts
<1>1. PICK e \in op.list : /\ op' = [op EXCEPT !.list = @ \ {e}]
                           /\ used' = [used EXCEPT !["pm"] = @ \ {e.fpage}]
                           /\ CallFree("pm", e.fpage, "undone")
  BY DEF UndoOne
<1>2. /\ op'.at = op.at /\ op'.size = op.size /\ op'.list = op.list \ {e}
      /\ sections' = sections /\ pools' = pools /\ grow' = grow /\ pending' = pending
      /\ mem' = mem
  BY <1>0, <1>1 DEF TypeOK, UndoOne, caches, booting
<1>3. OwnsChunk' /\ OwnsChunk
  BY <1>0, <1>1 DEF OwnsChunk, HasChunk, CallFree, Freeing
<1>4. \A a \in Allocs : Lasting(a)' = Lasting(a) /\ Pend(a)' = Pend(a)
  BY <1>2, LastingSame, PendSame
<1>5. OwnIn("vm")'
  <2>1. used'["vm"] = used["vm"] /\ CallOwns("vm")' = CallOwns("vm")
    BY <1>0, <1>1, <1>2, <1>3 DEF TypeOK, Allocs, CallOwns, Chunk
  <2> QED BY <1>0, <1>4, <2>1, OwnSame DEF OwnInv, Allocs
<1>6. OwnIn("pm")'
  <2>1. used'["pm"] = used["pm"] \ {e.fpage}
    BY <1>0, <1>1 DEF TypeOK, Allocs
  <2>2. e.fpage \in CallOwns("pm") /\ CallOwns("pm")' = CallOwns("pm") \ {e.fpage}
    BY <1>0, <1>2 DEF CallOwns, ListInv
  <2> QED BY <1>0, <1>4, <2>1, <2>2, OwnBack DEF OwnInv, Allocs
<1> QED BY <1>5, <1>6 DEF OwnInv, Allocs

\* ... and then the range.
LEMMA OwnUndoDone ==
  ASSUME IInv, OwnInv, UndoDone
  PROVE  OwnInv'
<1>0. TypeOK /\ pc = "undo" /\ pc \notin Halts
  BY DEF IInv, UndoDone, At, Halts
<1>1. /\ /\ used' = [used EXCEPT !["vm"] = @ \ {Chunk}] /\ pc' = "free" /\ ret' = "fail"
      /\ op' = op
      /\ sections' = sections /\ pools' = pools /\ grow' = grow /\ pending' = pending
      /\ mem' = mem
  BY DEF UndoDone, Chunk, CallFree, caches, booting
<1>2. OwnsChunk /\ ~OwnsChunk'
  BY <1>0, <1>1 DEF OwnsChunk, HasChunk, Freeing
<1>3. \A a \in Allocs : Lasting(a)' = Lasting(a) /\ Pend(a)' = Pend(a)
  BY <1>1, LastingSame, PendSame
<1>4. OwnIn("pm")'
  <2>1. used'["pm"] = used["pm"] /\ CallOwns("pm")' = CallOwns("pm")
    BY <1>0, <1>1 DEF TypeOK, Allocs, CallOwns
  <2> QED BY <1>0, <1>3, <2>1, OwnSame DEF OwnInv, Allocs
<1>5. OwnIn("vm")'
  <2>1. used'["vm"] = used["vm"] \ {Chunk}
    BY <1>0, <1>1 DEF TypeOK, Allocs
  <2>2. CallOwns("vm") = {Chunk} /\ CallOwns("vm")' = {}
    BY <1>2 DEF CallOwns
  <2> QED BY <1>0, <1>3, <2>1, <2>2, OwnBack DEF OwnInv, Allocs
<1> QED BY <1>4, <1>5 DEF OwnInv, Allocs

\* The memsection takes over what the creation owned.
LEMMA OwnInsertDone ==
  ASSUME IInv, OwnInv, InsertDone
  PROVE  OwnInv'
<1>0. TypeOK /\ pc = "insert" /\ pc \notin Halts
  BY DEF IInv, InsertDone, At, Halts
<1> DEFINE new == [flags |-> op.flags, base |-> op.at, size |-> op.size, list |-> op.list]
<1>1. /\ sections' = sections \union {new} /\ op' = NoOp /\ pc' = "idle"
      /\ used' = used /\ pools' = pools /\ grow' = grow /\ pending' = pending /\ mem' = mem
  BY DEF InsertDone, memory, caches, booting
<1>2. \A a \in Allocs : Pend(a)' = Pend(a) /\ GrowPages(a)' = GrowPages(a) /\ PoolPages(a)' = PoolPages(a)
  BY <1>1, PendSame DEF GrowPages, PoolPages, Carved, Of, Page
<1>3. \A a \in Allocs : CallOwns(a)' = {}
  BY <1>1 DEF CallOwns, NoOp, OwnsChunk, HasChunk, Freeing
<1>4. \A a \in Allocs : SectionRegions(a)' = SectionRegions(a) \union CallOwns(a)
  <2>1. SectionRegions("vm")' = SectionRegions("vm") \union CallOwns("vm")
    <3>1. new.flags = op.flags /\ new.base = op.at /\ new.size = op.size
      OBVIOUS
    <3> HIDE DEF new
    <3>2. CASE op.flags = "internal"
      <4>1. {t \in sections' : t.flags # "internal"} = {t \in sections : t.flags # "internal"}
        BY <1>1, <3>1, <3>2
      <4>2. CallOwns("vm") = {}
        BY <1>0, <3>2 DEF CallOwns, OwnsChunk, HasChunk, Freeing
      <4> QED BY <4>1, <4>2 DEF SectionRegions
    <3>3. CASE op.flags # "internal"
      <4>1. {t \in sections' : t.flags # "internal"} = {t \in sections : t.flags # "internal"} \union {new}
        BY <1>1, <3>1, <3>3
      <4>2. CallOwns("vm") = {[base |-> new.base, size |-> new.size]}
        BY <1>0, <3>1, <3>3 DEF CallOwns, OwnsChunk, Chunk
      <4> QED BY <4>1, <4>2 DEF SectionRegions
    <3> QED BY <3>2, <3>3
  <2>2. SectionRegions("pm")' = SectionRegions("pm") \union CallOwns("pm")
    <3>1. new.list = op.list
      OBVIOUS
    <3> HIDE DEF new
    <3> DEFINE L == UNION {s.list : s \in sections}
               M == UNION {s.list : s \in sections'}
    <3>2. /\ \A x : x \in L <=> \E s \in sections : x \in s.list
          /\ \A x : x \in M <=> \E s \in sections' : x \in s.list
      OBVIOUS
    <3>3. /\ SectionRegions("pm")' = {e.fpage : e \in M}
          /\ SectionRegions("pm") = {e.fpage : e \in L}
          /\ CallOwns("pm") = {e.fpage : e \in op.list}
      BY DEF SectionRegions, CallOwns
    <3> HIDE DEF L, M
    <3>4. \A x : x \in M <=> x \in L \/ x \in op.list
      BY <1>1, <3>1, <3>2
    <3>5. M = L \union op.list
      BY <3>4
    <3> QED BY <3>3, <3>5
  <2> QED BY <2>1, <2>2 DEF Allocs
<1>5. \A a \in Allocs : Lasting(a)' = Lasting(a) \union CallOwns(a)
  BY <1>2, <1>4 DEF Lasting
<1>6. \A a \in Allocs : OwnIn(a)'
  BY <1>0, <1>1, <1>2, <1>3, <1>5 DEF OwnInv, OwnIn
<1> QED BY <1>6 DEF OwnInv

\* A region of the memory map is handed over.
LEMMA OwnTake ==
  ASSUME IInv, OwnInv, pc \notin Halts, NEW a \in Allocs, NEW i \in pending[a], TakeRegion(a, i),
         sections' = sections, pools' = pools, grow' = grow, mem' = mem, op' = op,
         ~OwnsChunk, ~OwnsChunk'
  PROVE  OwnInv'
<1>0. TypeOK
  BY DEF IInv
<1>1. \A b \in Allocs : Lasting(b)' = Lasting(b) /\ CallOwns(b)' = CallOwns(b)
  BY LastingSame, CallOwnsSame
<1>2. ASSUME NEW b \in Allocs, b # a PROVE OwnIn(b)'
  <2>1. used'[b] = used[b] /\ pending'[b] = pending[b]
    BY <1>0, <1>2 DEF TypeOK, TakeRegion
  <2>2. Pend(b)' = Pend(b)
    BY <2>1 DEF Pend, RegionAt
  <2> QED BY <1>1, <2>1, <2>2, OwnSame DEF OwnInv
<1>3. OwnIn(a)'
  <2>1. used'[a] = used[a] \ {RegionAt(a, i)} /\ pending'[a] = pending[a] \ {i}
    BY <1>0 DEF TypeOK, TakeRegion
  <2>2. \A j \in pending[a] \ {i} : RegionAt(a, j) # RegionAt(a, i)
    BY PendingFacts
  <2>3. Pend(a)' = {RegionAt(a, j) : j \in pending[a] \ {i}}
    BY <2>1 DEF Pend, RegionAt
  <2>4. Pend(a)' = Pend(a) \ {RegionAt(a, i)} /\ RegionAt(a, i) \in Pend(a)
    BY <2>2, <2>3 DEF Pend
  <2> QED BY <1>1, <2>1, <2>4, OwnTaken DEF OwnInv
<1> QED BY <1>2, <1>3 DEF OwnInv

\* The boot sequence takes over a region of the memory map: it is pending no more.
LEMMA OwnBoot ==
  ASSUME IInv, OwnInv,
         \/ BootVm \/ BootPm \/ BootRest("pm", "boot_pm_rest", "boot_vm_clear")
         \/ BootRest("vm", "boot_vm_rest", "boot_heap")
  PROVE  OwnInv'
<1>0. /\ pc \in {"boot_vm", "boot_pm", "boot_pm_rest", "boot_vm_rest"} /\ pc \notin Halts
      /\ ~OwnsChunk
  BY DEF BootVm, BootPm, BootRest, At, Halts, OwnsChunk, HasChunk, Freeing
<1>1. sections' = sections /\ pools' = pools /\ grow' = grow /\ mem' = mem /\ op' = op
  BY DEF BootVm, BootPm, BootRest, caches
<1>2. ~OwnsChunk'
  BY DEF BootVm, BootPm, BootRest, CallFree, OwnsChunk, HasChunk, Freeing
<1>3. CASE \E a \in Allocs : \E i \in pending[a] : TakeRegion(a, i)
  BY <1>0, <1>1, <1>2, <1>3, OwnTake
<1>4. CASE ~\E a \in Allocs : \E i \in pending[a] : TakeRegion(a, i)
  <2>1. used' = used /\ pending' = pending
    BY <1>4 DEF BootVm, BootPm, BootRest, Allocs
  <2> QED BY <1>0, <1>1, <1>2, <2>1, QuietOwn
<1> QED BY <1>3, <1>4

\* Every step keeps the owners of handed-out memory apart.
LEMMA OwnNext ==
  ASSUME IInv, Control, OwnInv, [Next]_vars
  PROVE  OwnInv'
<1>1. CASE pc' \in Halts
  BY <1>1 DEF OwnInv
<1>2. CASE pc' \notin Halts
  <2>1. pc \notin Halts
    <3>1. ASSUME NEW c \in Caches, StartGrow(c) PROVE pc' = pc
      BY <3>1 DEF StartGrow
    <3> QED BY <1>2, <3>1 DEF Halts, Next, Halted, vars, GrowVirt, GrowPhys, GrowNode,
               GrowFails, Running,
         Free, LoadInternal, ClearTest, ClearDone, ClearNode, ClearNil, AllocPick, AllocNil, SplitHalve,
         SplitDone, Create, CreateInternal, New, ChunkShort, ChunkTrim, Back, ListNext, ListDone,
         ListNode, UndoOne, UndoNode, UndoDone, InsertPage, InsertDone, Fail, BootVm, BootVmNone,
         BootPm, BootPanic, BootRest, BootVmClear, BootHeap, PdInit, At
  <2>2. ASSUME NEW c \in Caches, \E a \in Allocs : GrowFails(c, a) PROVE FALSE
    BY <1>2, <2>2 DEF GrowFails, Halts
  <2>3. ~ClearNil /\ ~BootPanic
    BY <1>2 DEF ClearNil, BootPanic, Halts
  <2> QED BY <2>1, <2>2, <2>3, QuietStep, OwnGrowVirt, OwnGrowPhys, OwnStartGrow,
             OwnGrowNode, OwnChunkTrim,
        OwnListNode, OwnUndoOne, OwnUndoDone, OwnInsertDone, OwnBoot DEF Next, Halted
<1> QED BY <1>1, <1>2

-----------------------------------------------------------------------------
(***************************************************************************)
(* The backing of a memsection                                             *)
(***************************************************************************)

\* The sizes are powers of two: a smaller one divides a bigger one.
LEMMA SizesDivide ==
  ASSUME NEW h \in FpageSizes, NEW s \in FpageSizes, h <= s
  PROVE  \E k \in Nat : s = k * h
<1> DEFINE T == {n \in FpageSizes : \E g \in FpageSizes : g <= n /\ ~\E k \in Nat : n = k * g}
<1>1. FpageSizes \subseteq Nat \ {0} /\ T \subseteq Nat
  BY SizesAssumption
<1>2. ASSUME T # {} PROVE FALSE
  <2>1. PICK m \in T : \A k \in T : m <= k
    BY <1>1, <1>2, Least
  <2>2. PICK g \in FpageSizes : g <= m /\ ~\E k \in Nat : m = k * g
    BY <2>1
  <2>3. m # 1
    <3>1. m = 1 => g = 1
      BY <1>1, <2>1, <2>2
    <3> QED BY <2>2, <3>1
  <2>4. PICK half \in FpageSizes : m = 2 * half
    BY <2>1, <2>3, SizesAssumption
  <2>5. half \notin T /\ half \in Nat \ {0} /\ g \in Nat \ {0}
    <3>1. half \in Nat \ {0} /\ g \in Nat \ {0} /\ m \in Nat
      BY <1>1, <2>1, <2>2, <2>4
    <3>2. half < m
      BY <2>4, <3>1
    <3> HIDE DEF T
    <3> QED BY <2>1, <3>1, <3>2
  <2>6. \A f \in FpageSizes : f <= half => \E k \in Nat : half = k * f
    BY <2>5
  <2>7. CASE g <= half
    <3>1. PICK k \in Nat : half = k * g
      BY <2>6, <2>7
    <3>2. 2 * k \in Nat /\ m = (2 * k) * g
      BY <2>4, <2>5, <3>1
    <3> QED BY <2>2, <3>2
  <2>8. CASE ~(g <= half)
    <3>1. g # 1
      BY <2>5, <2>8
    <3>2. PICK f \in FpageSizes : g = 2 * f
      BY <2>2, <3>1, SizesAssumption
    <3>3. f \in Nat \ {0} /\ f <= half
      BY <1>1, <2>2, <2>4, <2>5, <3>2
    <3>4. PICK k \in Nat : half = k * f
      BY <2>6, <3>3
    <3>5. m = k * g
      BY <2>4, <2>5, <3>2, <3>3, <3>4
    <3> QED BY <2>2, <3>5
  <2> QED BY <2>7, <2>8
<1> QED BY <1>2

\* What is aligned to a size is aligned to the smaller ones.
LEMMA SmallerAligned ==
  ASSUME NEW h \in FpageSizes, NEW s \in FpageSizes, h <= s, NEW b \in Nat, b % s = 0
  PROVE  b % h = 0
<1>1. h \in Nat \ {0} /\ s \in Nat \ {0}
  BY SizesAssumption
<1>2. PICK k \in Nat : s = k * h
  BY SizesDivide
<1>3. PICK q \in Nat : b = s * q
  <2> DEFINE q == b \div s
  <2>1. q \in Nat /\ b = (s * q) + (b % s)
    BY <1>1, DivMod
  <2> HIDE DEF q
  <2>2. s * q \in Nat
    BY <1>1, <2>1
  <2>3. b = s * q
    BY <2>1, <2>2
  <2> QED BY <2>1, <2>3
<1>4. k * q \in Nat /\ b = h * (k * q)
  BY <1>1, <1>2, <1>3
<1> QED BY <1>1, <1>4, Multiple

\* A size below the double of another one is not above it.
LEMMA NoSizeBetween ==
  ASSUME NEW h \in FpageSizes, NEW s \in FpageSizes, h < 2 * s
  PROVE  h <= s
<1>1. h \in Nat \ {0} /\ s \in Nat \ {0}
  BY SizesAssumption
<1>2. ASSUME s < h PROVE FALSE
  <2>1. PICK k \in Nat : h = k * s
    BY <1>1, <1>2, SizesDivide
  <2>2. k # 0 /\ k # 1
    BY <1>1, <1>2, <2>1
  <2>3. k >= 2
    BY <2>2
  <2>4. k * s >= 2 * s
    BY <1>1, <2>3
  <2> QED BY <1>1, <2>1, <2>4
<1> QED BY <1>1, <1>2

\* The next fpage goes where the last one ended.
LEMMA TiledAppend ==
  ASSUME NEW list \in PhysList, NEW from \in Nat, NEW to \in Nat, from <= to, Tiled(list, from, to),
         NEW e \in [virt : Nat, fpage : Fpage], e.virt = to, e.virt % e.fpage.size = 0
  PROVE  Tiled(list \union {e}, from, to + e.fpage.size)
<1>1. e.fpage.size \in Nat \ {0} /\ \A d \in list : d.virt \in Nat /\ d.fpage.size \in Nat \ {0}
  BY SizesAssumption DEF PhysList, Fpage
<1>2. \A d \in list : from <= d.virt /\ d.virt + d.fpage.size <= to /\ d.virt % d.fpage.size = 0
  BY DEF Tiled
<1>3. \A d \in list \union {e} : /\ d.virt % d.fpage.size = 0
                                 /\ from <= d.virt
                                 /\ d.virt + d.fpage.size <= to + e.fpage.size
  BY <1>1, <1>2
<1>4. ASSUME NEW p \in from .. (to + e.fpage.size) - 1 PROVE \E d \in list \union {e} : Over(d, p)
  <2>1. CASE p < to
    <3>1. p \in from .. to - 1
      BY <1>1, <2>1
    <3> QED BY <3>1 DEF Tiled
  <2>2. CASE ~(p < to)
    <3>1. Over(e, p)
      BY <1>1, <2>2 DEF Over
    <3> QED BY <3>1
  <2> QED BY <2>1, <2>2
<1>5. \A c, d \in list \union {e} : c # d => \/ c.virt + c.fpage.size <= d.virt
                                             \/ d.virt + d.fpage.size <= c.virt
  BY <1>1, <1>2 DEF Tiled
<1> QED BY <1>3, <1>4, <1>5 DEF Tiled

\* Every step keeps the fpages of a list, and those behind each memsection, side by side:
\* sys$fpage_alloc_list asks for no more than fits and aligned, and takes what comes, of
\* that size or smaller.
LEMMA BackNext ==
  ASSUME IInv, Control, BackInv, [Next]_vars
  PROVE  BackInv'
<1>0. TypeOK /\ RetInv /\ OpInv /\ GrowInv
  BY DEF IInv, Control
<1>1. ASSUME NEW c \in Caches, StartGrow(c) PROVE BackInv'
  BY <1>0, <1>1 DEF BackInv, Listing, Asking, Freeing, TypeOK, StartGrow, memory, booting
<1>2. ASSUME NEW c \in Caches, GrowVirt(c) PROVE BackInv'
  BY <1>0, <1>2 DEF BackInv, Listing, Asking, Freeing, TypeOK, GrowVirt, AllocInternal,
     booting
<1>3. ASSUME NEW c \in Caches, GrowPhys(c) PROVE BackInv'
  BY <1>0, <1>3 DEF BackInv, Listing, Asking, Freeing, TypeOK, GrowPhys, AllocInternal,
     booting
<1>4. ASSUME NEW c \in Caches, GrowNode(c) PROVE BackInv'
  BY <1>0, <1>4 DEF BackInv, Listing, Asking, Freeing, TypeOK, GrowNode, memory, booting
<1>5. ASSUME NEW c \in Caches, NEW a \in Allocs, GrowFails(c, a) PROVE BackInv'
  BY <1>0, <1>5 DEF BackInv, Listing, Asking, Freeing, TypeOK, GrowFails, memory, booting
<1>6. CASE Free
  BY <1>0, <1>6 DEF BackInv, Listing, Asking, Freeing, TypeOK, Free, At, memory
<1>7. CASE LoadInternal
  BY <1>0, <1>7 DEF BackInv, Listing, Asking, Freeing, TypeOK, LoadInternal, At, booting
<1>8. CASE ClearTest
  BY <1>0, <1>8 DEF BackInv, Listing, Asking, Freeing, TypeOK, ClearTest, At, memory
<1>9. CASE ClearDone
  BY <1>0, <1>9 DEF BackInv, Listing, Asking, Freeing, Resumes, RetInv, GrowInv, Halts,
     TypeOK, ClearDone, At, booting
<1>10. CASE ClearNode
  BY <1>0, <1>10 DEF BackInv, Listing, Asking, Freeing, TypeOK, ClearNode, At, booting
<1>11. CASE ClearNil
  BY <1>0, <1>11 DEF BackInv, Listing, Asking, Freeing, TypeOK, ClearNil, At, memory
<1>12. CASE AllocPick
  BY <1>0, <1>12 DEF BackInv, Listing, Asking, Freeing, TypeOK, AllocPick, At, booting
<1>13. CASE AllocNil
  BY <1>0, <1>13 DEF BackInv, Listing, Asking, Freeing, TypeOK, AllocNil, At, memory
<1>14. CASE SplitHalve
  BY <1>0, <1>14 DEF BackInv, Listing, Asking, Freeing, TypeOK, SplitHalve, At, booting
<1>15. CASE Create
  BY <1>0, <1>15 DEF BackInv, Listing, Asking, Freeing, TypeOK, Create, At, memory, booting,
     Call, NoOp
<1>16. CASE CreateInternal
  BY <1>0, <1>16 DEF BackInv, Listing, Asking, Freeing, TypeOK, CreateInternal, At, memory,
     booting, Call, NoOp
<1>17. CASE New
  BY <1>0, <1>17 DEF BackInv, Listing, Asking, Freeing, TypeOK, New, At, memory, booting,
     CallAlloc
<1>18. CASE ChunkShort
  BY <1>0, <1>18 DEF BackInv, Listing, Asking, Freeing, TypeOK, ChunkShort, At, memory,
     booting, CallFree
<1>19. CASE ChunkTrim
  BY <1>0, <1>19 DEF BackInv, Listing, Asking, Freeing, TypeOK, ChunkTrim, At, booting,
     CallFree
<1>20. CASE UndoOne
  BY <1>0, <1>20 DEF BackInv, Listing, Asking, Freeing, TypeOK, UndoOne, At, booting,
     CallFree
<1>21. CASE UndoNode
  BY <1>0, <1>21 DEF BackInv, Listing, Asking, Freeing, TypeOK, UndoNode, At, memory
<1>22. CASE UndoDone
  BY <1>0, <1>22 DEF BackInv, Listing, Asking, Freeing, TypeOK, UndoDone, At, booting,
     CallFree
<1>23. CASE InsertPage
  BY <1>0, <1>23 DEF BackInv, Listing, Asking, Freeing, TypeOK, InsertPage, At, memory
<1>24. CASE Fail
  BY <1>0, <1>24 DEF BackInv, Listing, Asking, Freeing, TypeOK, Fail, At, memory
<1>25. CASE BootVm
  BY <1>0, <1>25 DEF BackInv, Listing, Asking, Freeing, TypeOK, BootVm, At, TakeRegion
<1>26. CASE BootVmNone
  BY <1>0, <1>26 DEF BackInv, Listing, Asking, Freeing, TypeOK, BootVmNone, At, memory
<1>27. CASE BootPm
  BY <1>0, <1>27 DEF BackInv, Listing, Asking, Freeing, TypeOK, BootPm, At, TakeRegion,
     CallFree
<1>28. CASE BootPanic
  BY <1>0, <1>28 DEF BackInv, Listing, Asking, Freeing, TypeOK, BootPanic, At, memory
<1>29. CASE BootRest("pm", "boot_pm_rest", "boot_vm_clear")
  BY <1>0, <1>29 DEF BackInv, Listing, Asking, Freeing, TypeOK, BootRest, At, TakeRegion,
     CallFree
<1>30. CASE BootVmClear
  BY <1>0, <1>30 DEF BackInv, Listing, Asking, Freeing, TypeOK, BootVmClear, At, memory
<1>31. CASE BootRest("vm", "boot_vm_rest", "boot_heap")
  BY <1>0, <1>31 DEF BackInv, Listing, Asking, Freeing, TypeOK, BootRest, At, TakeRegion,
     CallFree
<1>32. CASE BootHeap
  BY <1>0, <1>32 DEF BackInv, Listing, Asking, Freeing, TypeOK, BootHeap, At, memory,
     booting, Call, NoOp
<1>33. CASE PdInit
  BY <1>0, <1>33 DEF BackInv, Listing, Asking, Freeing, TypeOK, PdInit, At, memory
<1>34. CASE UNCHANGED vars
  BY <1>0, <1>34 DEF BackInv, Listing, Asking, Freeing, TypeOK, vars
<1>40. CASE SplitDone
  <2>1. /\ pc = "split" /\ pc' = ret /\ UNCHANGED <<op, hand, ret, sections>>
        /\ 2 * op.want > hand.size /\ hand.size \in FpageSizes
    BY <1>40 DEF SplitDone, At, IInv, Aligned
  <2>2. pc' = "lnode" => op.want \in FpageSizes
    BY <2>1 DEF BackInv, Asking
  <2>3. pc' = "lnode" => hand'.size <= op'.want
    BY <2>1, <2>2, NoSizeBetween, SizesAssumption
  <2> QED BY <1>0, <2>1, <2>3 DEF BackInv, Listing, Asking, Freeing, RetInv
<1>41. CASE Back
  <2>1. /\ /\ pc = "back" /\ UNCHANGED <<op, hand, ret, sections>> /\ op.cur = op.at
        /\ op.list = {}
        /\ pc' = IF op.flags = "normal" THEN "list" ELSE "insert"
    BY <1>0, <1>41 DEF Back, At, OpInv, BackInv, Freeing, Halts
  <2>2. op.at \in Nat /\ op.size \in Nat /\ op.cur \in Nat
    BY <1>0 DEF TypeOK
  <2>3. Tiled({}, op.at, op.at)
    BY <2>2 DEF Tiled
  <2>4. op.at <= op.cur /\ op.cur <= op.at + op.size
    BY <2>1, <2>2
  <2> QED BY <2>1, <2>3, <2>4 DEF BackInv, Listing, Asking, Freeing
<1>42. CASE ListNext
  <2>1. PICK s \in FpageSizes : /\ IsBiggest(s, op.cur, op.at + op.size)
                                /\ op' = [op EXCEPT !.want = s]
                                /\ pc' = "alloc" /\ ret' = "lnode"
    BY <1>42 DEF ListNext, CallAlloc
  <2>2. /\ /\ op'.want = s /\ op'.cur = op.cur /\ op'.at = op.at /\ op'.size = op.size
        /\ op'.list = op.list
        /\ sections' = sections /\ pc = "list"
    BY <1>0, <1>42, <2>1 DEF TypeOK, ListNext, At
  <2>3. Fits(s, op.cur, op.at + op.size)
    BY <2>1 DEF IsBiggest
  <2>4. Tiled(op.list, op.at, op.cur) /\ op.at <= op.cur /\ op.cur <= op.at + op.size
    BY <2>2 DEF BackInv, Listing
  <2> QED BY <2>1, <2>2, <2>3, <2>4 DEF BackInv, Listing, Asking, Freeing
<1>43. CASE ListDone
  <2>1. /\ pc = "list" /\ pc' = "insert" /\ UNCHANGED <<op, hand, ret, sections>>
        /\ op.cur >= op.at + op.size
    BY <1>43 DEF ListDone, At
  <2>2. Tiled(op.list, op.at, op.cur) /\ op.at <= op.cur /\ op.cur <= op.at + op.size
    BY <2>1 DEF BackInv, Listing
  <2>3. op.cur = op.at + op.size
    <3>1. op.at \in Nat /\ op.size \in Nat /\ op.cur \in Nat
      BY <1>0 DEF TypeOK
    <3> QED BY <2>1, <2>2, <3>1
  <2> QED BY <2>1, <2>2, <2>3 DEF BackInv, Listing, Asking, Freeing
<1>44. CASE ListNode
  <2> DEFINE e == [virt |-> op.cur, fpage |-> hand]
  <2>1. /\ pc = "lnode" /\ pc' = "list" /\ sections' = sections
        /\ op' = [op EXCEPT !.list = @ \union {e}, !.cur = @ + hand.size]
    BY <1>44 DEF ListNode, At
  <2>2. /\ op'.list = op.list \union {e} /\ op'.cur = op.cur + hand.size /\ op'.at = op.at
        /\ op'.size = op.size
    BY <1>0, <2>1 DEF TypeOK
  <2>3. /\ Tiled(op.list, op.at, op.cur) /\ op.at <= op.cur
        /\ op.want \in FpageSizes /\ Fits(op.want, op.cur, op.at + op.size)
        /\ hand.size <= op.want
    BY <2>1 DEF BackInv, Listing, Asking
  <2>4. /\ op.list \in PhysList /\ op.at \in Nat /\ op.cur \in Nat /\ op.size \in Nat
        /\ hand.size \in FpageSizes /\ hand \in [base : Nat, size : Nat]
    BY <1>0, <2>1 DEF TypeOK, IInv, Aligned
  <2>5. hand.size \in Nat \ {0} /\ op.want \in Nat
    BY <2>3, <2>4, SizesAssumption
  <2>6. op.cur % hand.size = 0
    BY <2>3, <2>4, SmallerAligned DEF Fits
  <2>7. e \in [virt : Nat, fpage : Fpage] /\ e.virt = op.cur /\ e.fpage = hand
    BY <2>4 DEF Fpage
  <2> HIDE DEF e
  <2>8. Tiled(op.list \union {e}, op.at, op.cur + hand.size)
    BY <2>3, <2>4, <2>6, <2>7, TiledAppend
  <2>9. op.at <= op.cur + hand.size /\ op.cur + hand.size <= op.at + op.size
    BY <2>3, <2>4, <2>5 DEF Fits
  <2> QED BY <2>1, <2>2, <2>8, <2>9 DEF BackInv, Listing, Asking, Freeing
<1>45. CASE InsertDone
  <2> DEFINE new == [flags |-> op.flags, base |-> op.at, size |-> op.size, list |-> op.list]
  <2>1. pc = "insert" /\ pc' = "idle" /\ sections' = sections \union {new}
    BY <1>45 DEF InsertDone, At
  <2>2. op.flags = "normal" => Tiled(op.list, op.at, op.at + op.size)
    BY <2>1 DEF BackInv, Listing
  <2>3. new.flags = "normal" => Tiled(new.list, new.base, EndOf(new))
    BY <2>2 DEF EndOf
  <2> HIDE DEF new
  <2> QED BY <2>1, <2>3 DEF BackInv, Listing, Asking, Freeing
<1> QED BY <1>1, <1>2, <1>3, <1>4, <1>5, <1>6, <1>7, <1>8, <1>9, <1>10, <1>11, <1>12, <1>13,
           <1>14, <1>15, <1>16, <1>17, <1>18, <1>19, <1>20, <1>21, <1>22, <1>23, <1>24,
           <1>25, <1>26, <1>27, <1>28, <1>29, <1>30, <1>31, <1>32, <1>33, <1>34, <1>40,
           <1>41, <1>42, <1>43, <1>44, <1>45 DEF Next, Halted
-----------------------------------------------------------------------------
(***************************************************************************)
(* Counting slabs                                                          *)
(***************************************************************************)

\* The page carved for a pool was not handed out.
LEMMA SourceFresh ==
  ASSUME IInv, NEW a \in Allocs, NEW r \in Sources(a)
  PROVE  Page(r.base) \notin used[a]
<1>1. TypeOK
  BY DEF IInv
<1>2. /\ r \in Region /\ Page(r.base) \in Region /\ Within(Page(r.base), r)
      /\ \A s \in used[a] : s \in Region /\ Disj(r, s)
  BY <1>1, SourceFacts, HeldRegions DEF Page, Region, Within, EndOf
<1>3. \A s \in used[a] : Disj(Page(r.base), s)
  BY <1>2, DisjWithin
<1> QED BY <1>1, <1>2, <1>3, FreshRegion


\* The pages of growing caches stay apart.
LEMMA ApartNext ==
  ASSUME IInv, OwnInv, ApartInv, [Next]_vars
  PROVE  ApartInv'
<1>0. TypeOK /\ grow \in [Caches -> [stage : Stages, virt : Nat, phys : Nat]]
  BY DEF IInv, TypeOK
<1>a. ASSUME pc \in Halts, pc' \notin Halts PROVE FALSE
  <2>1. ASSUME NEW c \in Caches, StartGrow(c) PROVE FALSE
    BY <1>a, <2>1 DEF StartGrow
  <2> QED BY <1>a, <2>1 DEF Halts, Next, Halted, vars, GrowVirt, GrowPhys, GrowNode,
             GrowFails, Running,
       Free, LoadInternal, ClearTest, ClearDone, ClearNode, ClearNil, AllocPick, AllocNil, SplitHalve,
       SplitDone, Create, CreateInternal, New, ChunkShort, ChunkTrim, Back, ListNext, ListDone,
       ListNode, UndoOne, UndoNode, UndoDone, InsertPage, InsertDone, Fail, BootVm, BootVmNone,
       BootPm, BootPanic, BootRest, BootVmClear, BootHeap, PdInit, At
<1> SUFFICES ASSUME pc \notin Halts, pc' \notin Halts PROVE ApartInv'
  BY <1>a DEF ApartInv
<1>b. \A c \in Carved("vm") : /\ Of("vm", grow[c]) \notin PoolPages("vm")
                              /\ \A d \in Carved("vm") : d # c => grow[d].virt # grow[c].virt
  BY DEF ApartInv
<1>1. CASE grow' = grow /\ pools' = pools
  BY <1>1, <1>b DEF ApartInv, Carved, Of, Page, PoolPages
<1>2. ASSUME NEW c \in Caches, StartGrow(c) PROVE ApartInv'
  <2>1. /\ pools' = pools /\ grow[c].stage = "none"
        /\ grow' = [grow EXCEPT ![c].stage = "virt"]
    BY <1>2 DEF StartGrow
  <2>2. Carved("vm")' = Carved("vm") /\ \A d \in Carved("vm") : grow'[d] = grow[d]
    BY <1>0, <2>1 DEF Carved
  <2>3. PoolPages("vm")' = PoolPages("vm")
    BY <2>1 DEF PoolPages, Of, Page
  <2>4. \A d \in Carved("vm") : Of("vm", grow[d])' = Of("vm", grow[d])
    BY <2>2 DEF Of, Page
  <2> QED BY <1>b, <2>2, <2>3, <2>4 DEF ApartInv
<1>3. ASSUME NEW c \in Caches, GrowVirt(c) PROVE ApartInv'
  <2>1. PICK r \in Sources("vm") : grow' = [grow EXCEPT ![c].stage = "phys", ![c].virt = r.base]
    BY <1>3 DEF GrowVirt
  <2>2. /\ grow'[c].stage = "phys" /\ grow'[c].virt = r.base
        /\ \A d \in Caches : d # c => grow'[d] = grow[d]
        /\ pools' = pools /\ grow[c].stage = "virt"
    BY <1>0, <1>3, <2>1 DEF GrowVirt
  <2>3. Carved("vm")' = Carved("vm") \union {c} /\ c \notin Carved("vm")
    BY <2>2 DEF Carved
  <2>4. PoolPages("vm")' = PoolPages("vm")
    BY <2>2 DEF PoolPages, Of, Page
  <2>5. Page(r.base) \notin used["vm"]
    BY <1>0, SourceFresh DEF Allocs
  <2>6. Page(r.base) \notin PoolPages("vm") /\ Page(r.base) \notin GrowPages("vm")
    BY <2>5 DEF OwnInv, OwnIn, Lasting, Allocs
  <2>7. \A d \in Carved("vm") : Of("vm", grow[d]) \in GrowPages("vm") /\ Of("vm", grow[d]) = Page(grow[d].virt)
    BY DEF GrowPages, Of
  <2>8. \A d \in Carved("vm") : grow[d].virt # r.base /\ grow'[d] = grow[d]
    BY <2>2, <2>3, <2>6, <2>7 DEF Carved
  <2>9. \A d \in Carved("vm") \union {c} : Of("vm", grow'[d]) = IF d = c THEN Page(r.base) ELSE Of("vm", grow[d])
    BY <2>2, <2>3, <2>8 DEF Of, Page
  <2> QED BY <1>b, <2>2, <2>3, <2>4, <2>6, <2>8, <2>9 DEF ApartInv
<1>4. ASSUME NEW c \in Caches, GrowPhys(c) PROVE ApartInv'
  <2>1. PICK n : grow' = [grow EXCEPT ![c].stage = "node", ![c].phys = n]
    BY <1>4 DEF GrowPhys
  <2>2. /\ grow'[c].stage = "node" /\ grow'[c].virt = grow[c].virt
        /\ \A d \in Caches : d # c => grow'[d] = grow[d]
        /\ pools' = pools /\ grow[c].stage = "phys"
    BY <1>0, <1>4, <2>1 DEF GrowPhys
  <2>3. Carved("vm")' = Carved("vm") /\ \A d \in Carved("vm") : grow'[d].virt = grow[d].virt
    BY <2>2 DEF Carved
  <2>4. PoolPages("vm")' = PoolPages("vm")
    BY <2>2 DEF PoolPages, Of, Page
  <2>5. \A d \in Carved("vm") : Of("vm", grow[d])' = Of("vm", grow[d])
    BY <2>3 DEF Of, Page
  <2> QED BY <1>b, <2>3, <2>4, <2>5 DEF ApartInv
<1>5. ASSUME NEW c \in Caches, GrowNode(c) PROVE ApartInv'
  <2> DEFINE new == [virt |-> grow[c].virt, phys |-> grow[c].phys]
  <2>1. /\ grow' = [grow EXCEPT ![c] = NoGrow] /\ grow[c].stage = "node"
        /\ pools' = [pools EXCEPT ![c] = @ \union {new}]
        /\ pools \in [Caches -> SUBSET [virt : Nat, phys : Nat]]
    BY <1>0, <1>5 DEF GrowNode, TypeOK
  <2>2. Carved("vm")' = Carved("vm") \ {c} /\ c \in Carved("vm")
        /\ \A d \in Carved("vm") \ {c} : grow'[d] = grow[d]
    BY <1>0, <2>1 DEF Carved, NoGrow
  <2>3. Of("vm", new) = Page(grow[c].virt)
    BY DEF Of
  <2>4. ASSUME NEW x \in PoolPages("vm")' PROVE x \in PoolPages("vm") \/ x = Page(grow[c].virt)
    <3>1. PICK d \in Caches : \E p \in pools'[d] : x = Of("vm", p)
      BY <2>4 DEF PoolPages, Of, Page
    <3>2. PICK p \in pools'[d] : x = Of("vm", p)
      BY <3>1
    <3>3. p \in pools[d] \/ p = new
      <4> HIDE DEF new
      <4> QED BY <2>1, <3>2
    <3> QED BY <2>3, <3>2, <3>3 DEF PoolPages
  <2>5. \A d \in Carved("vm") \ {c} : /\ Of("vm", grow[d])' = Of("vm", grow[d])
                                      /\ Of("vm", grow[d]) = Page(grow[d].virt)
    BY <2>2 DEF Of, Page
  <2>6. \A d \in Carved("vm") \ {c} : Page(grow[d].virt) # Page(grow[c].virt)
    <3>1. \A d \in Carved("vm") \ {c} : grow[d].virt # grow[c].virt
      BY <1>b, <2>2
    <3>2. \A m, n : Page(m) = Page(n) => m = n
      BY DEF Page
    <3> QED BY <3>1, <3>2
  <2>7. \A d \in Carved("vm")' : /\ Of("vm", grow[d])' \notin PoolPages("vm")'
                                 /\ \A k \in Carved("vm")' : k # d => grow'[k].virt # grow'[d].virt
    BY <1>b, <2>2, <2>4, <2>5, <2>6
  <2> QED BY <2>7 DEF ApartInv
<1>6. CASE vars' = vars
  BY <1>1, <1>6 DEF vars
<1> QED BY <1>1, <1>2, <1>3, <1>4, <1>5, <1>6 DEF Next, Halted, vars, GrowFails, caches,
       Free, LoadInternal, ClearTest, ClearDone, ClearNode, ClearNil, AllocPick, AllocNil, SplitHalve,
       SplitDone, Create, CreateInternal, New, ChunkShort, ChunkTrim, Back, ListNext, ListDone,
       ListNode, UndoOne, UndoNode, UndoDone, InsertPage, InsertDone, Fail, BootVm, BootVmNone,
       BootPm, BootPanic, BootRest, BootVmClear, BootHeap, PdInit


\* The counts are natural numbers.
LEMMA CountsNat ==
  ASSUME TypeOK, FiniteInv
  PROVE  /\ \A a \in Allocs : Cardinality(flist[a]) \in Nat
         /\ \A c \in Caches : Cardinality(pools[c]) \in Nat /\ slabs[c] \in Nat
                              /\ PerPool[c] \in Nat \ {0}
         /\ FreeNodes \in Nat /\ Cardinality(Backing) \in Nat
         /\ Cardinality(op.list) \in Nat /\ Cardinality(sections) \in Nat
<1>1. /\ \A a \in Allocs : Cardinality(flist[a]) \in Nat
      /\ \A c \in Caches : Cardinality(pools[c]) \in Nat
      /\ Cardinality(Backing) \in Nat
      /\ Cardinality(op.list) \in Nat /\ Cardinality(sections) \in Nat
  BY FS_CardinalityType DEF FiniteInv
<1>2. "vm" \in Allocs /\ "pm" \in Allocs
  BY DEF Allocs
<1>3. FreeNodes \in Nat
  BY <1>1, <1>2 DEF FreeNodes
<1>4. \A c \in Caches : slabs[c] \in Nat /\ PerPool[c] \in Nat \ {0}
  BY ParamAssumption DEF TypeOK
<1> QED BY <1>1, <1>3, <1>4

\* Putting an fpage on a list, or taking one off, changes the number of nodes by one.
LEMMA FlistAdd ==
  ASSUME TypeOK, FiniteInv, NEW a \in Allocs, NEW f, f \notin flist[a],
         flist' = [flist EXCEPT ![a] = @ \union {f}]
  PROVE  (\A b \in Allocs : IsFiniteSet(flist'[b])) /\ FreeNodes' = FreeNodes + 1
<1>1. flist'[a] = flist[a] \union {f} /\ \A b \in Allocs : b # a => flist'[b] = flist[b]
  BY DEF TypeOK
<1>2. IsFiniteSet(flist'[a]) /\ Cardinality(flist'[a]) = Cardinality(flist[a]) + 1
  BY <1>1, FS_AddElement DEF FiniteInv
<1>3. \A b \in Allocs : IsFiniteSet(flist'[b])
  BY <1>1, <1>2 DEF FiniteInv
<1>4. \A b \in Allocs : Cardinality(flist[b]) \in Nat /\ Cardinality(flist'[b]) \in Nat
  BY <1>3, CountsNat, FS_CardinalityType
<1>5. ASSUME a = "vm" PROVE FreeNodes' = FreeNodes + 1
  <2>1. flist'["pm"] = flist["pm"] /\ "pm" \in Allocs
    BY <1>1, <1>5 DEF Allocs
  <2>2. /\ Cardinality(flist["vm"]) \in Nat /\ Cardinality(flist["pm"]) \in Nat
        /\ Cardinality(flist'["vm"]) \in Nat /\ Cardinality(flist'["pm"]) \in Nat
    BY <1>4 DEF Allocs
  <2>3. Cardinality(flist'["vm"]) = Cardinality(flist["vm"]) + 1
    BY <1>2, <1>5
  <2> QED BY <2>1, <2>2, <2>3 DEF FreeNodes
<1>6. ASSUME a = "pm" PROVE FreeNodes' = FreeNodes + 1
  <2>1. flist'["vm"] = flist["vm"] /\ "vm" \in Allocs
    BY <1>1, <1>6 DEF Allocs
  <2>2. /\ Cardinality(flist["vm"]) \in Nat /\ Cardinality(flist["pm"]) \in Nat
        /\ Cardinality(flist'["vm"]) \in Nat /\ Cardinality(flist'["pm"]) \in Nat
    BY <1>4 DEF Allocs
  <2>3. Cardinality(flist'["pm"]) = Cardinality(flist["pm"]) + 1
    BY <1>2, <1>6
  <2> QED BY <2>1, <2>2, <2>3 DEF FreeNodes
<1> QED BY <1>3, <1>5, <1>6 DEF Allocs

\* An fpage taken off a free list: its node is one less on it.
LEMMA FlistDrop ==
  ASSUME TypeOK, FiniteInv, NEW a \in Allocs, NEW f \in flist[a],
         flist' = [flist EXCEPT ![a] = @ \ {f}]
  PROVE  (\A b \in Allocs : IsFiniteSet(flist'[b])) /\ FreeNodes = FreeNodes' + 1 /\ FreeNodes' \in Nat
<1>1. flist'[a] = flist[a] \ {f} /\ \A b \in Allocs : b # a => flist'[b] = flist[b]
  BY DEF TypeOK
<1>2. IsFiniteSet(flist'[a]) /\ Cardinality(flist'[a]) = Cardinality(flist[a]) - 1
  BY <1>1, FS_RemoveElement DEF FiniteInv
<1>3. \A b \in Allocs : IsFiniteSet(flist'[b])
  BY <1>1, <1>2 DEF FiniteInv
<1>4. \A b \in Allocs : Cardinality(flist[b]) \in Nat /\ Cardinality(flist'[b]) \in Nat
  BY <1>3, CountsNat, FS_CardinalityType
<1>5. ASSUME a = "vm" PROVE FreeNodes = FreeNodes' + 1 /\ FreeNodes' \in Nat
  <2>1. flist'["pm"] = flist["pm"] /\ "pm" \in Allocs
    BY <1>1, <1>5 DEF Allocs
  <2>2. /\ Cardinality(flist["vm"]) \in Nat /\ Cardinality(flist["pm"]) \in Nat
        /\ Cardinality(flist'["vm"]) \in Nat /\ Cardinality(flist'["pm"]) \in Nat
    BY <1>4 DEF Allocs
  <2>3. Cardinality(flist'["vm"]) = Cardinality(flist["vm"]) - 1
    BY <1>2, <1>5
  <2> QED BY <2>1, <2>2, <2>3 DEF FreeNodes
<1>6. ASSUME a = "pm" PROVE FreeNodes = FreeNodes' + 1 /\ FreeNodes' \in Nat
  <2>1. flist'["vm"] = flist["vm"] /\ "vm" \in Allocs
    BY <1>1, <1>6 DEF Allocs
  <2>2. /\ Cardinality(flist["vm"]) \in Nat /\ Cardinality(flist["pm"]) \in Nat
        /\ Cardinality(flist'["vm"]) \in Nat /\ Cardinality(flist'["pm"]) \in Nat
    BY <1>4 DEF Allocs
  <2>3. Cardinality(flist'["pm"]) = Cardinality(flist["pm"]) - 1
    BY <1>2, <1>6
  <2> QED BY <2>1, <2>2, <2>3 DEF FreeNodes
<1> QED BY <1>3, <1>5, <1>6 DEF Allocs

\* A halt lasts.
LEMMA HaltsStay ==
  ASSUME [Next]_vars, pc' \notin Halts
  PROVE  pc \notin Halts
<1> SUFFICES ASSUME pc \in Halts PROVE FALSE
  OBVIOUS
<1>1. ASSUME NEW c \in Caches, StartGrow(c) PROVE FALSE
  BY <1>1 DEF StartGrow
<1> QED BY <1>1 DEF Halts, Next, Halted, vars, GrowVirt, GrowPhys, GrowNode, GrowFails,
           Running,
       Free, LoadInternal, ClearTest, ClearDone, ClearNode, ClearNil, AllocPick, AllocNil, SplitHalve,
       SplitDone, Create, CreateInternal, New, ChunkShort, ChunkTrim, Back, ListNext, ListDone,
       ListNode, UndoOne, UndoNode, UndoDone, InsertPage, InsertDone, Fail, BootVm, BootVmNone,
       BootPm, BootPanic, BootRest, BootVmClear, BootHeap, PdInit, At

\* A step that moves no node.
LEMMA QuietSlabs ==
  ASSUME FiniteInv, pc \notin Halts => FpBalance /\ MsBalance, pc' \notin Halts => pc \notin Halts,
         flist' = flist, sections' = sections, pools' = pools, op'.list = op.list,
         pc' \notin Halts => /\ slabs'["fp"] = slabs["fp"] /\ slabs'["ms"] = slabs["ms"]
                             /\ (Limbo' <=> Limbo) /\ (WithNode' <=> WithNode)
  PROVE  FiniteInv' /\ (pc' \notin Halts => FpBalance' /\ MsBalance')
<1>1. FiniteInv'
  BY DEF FiniteInv, Backing
<1>2. ASSUME pc' \notin Halts PROVE FpBalance'
  BY <1>2 DEF FpBalance, FreeNodes, Backing
<1>3. ASSUME pc' \notin Halts PROVE MsBalance'
  BY <1>3 DEF MsBalance
<1> QED BY <1>1, <1>2, <1>3

\* A step that moves nodes of fp_cache only, between the lists and the free slabs.
LEMMA ListSlabs ==
  ASSUME TypeOK, TypeOK', FiniteInv, FpBalance, MsBalance,
         \A a \in Allocs : IsFiniteSet(flist'[a]), sections' = sections, pools' = pools,
         op'.list = op.list, slabs'["ms"] = slabs["ms"],
         slabs'["fp"] + FreeNodes' = slabs["fp"] + FreeNodes,
         Limbo' <=> Limbo, WithNode' <=> WithNode
  PROVE  FiniteInv' /\ FpBalance' /\ MsBalance'
<1>1. FiniteInv'
  BY DEF FiniteInv, Backing
<1>2. /\ /\ slabs["fp"] \in Nat /\ slabs'["fp"] \in Nat /\ FreeNodes \in Nat
      /\ FreeNodes' \in Nat
      /\ Cardinality(Backing) \in Nat /\ Cardinality(op.list) \in Nat
  <2>1. /\ slabs["fp"] \in Nat /\ FreeNodes \in Nat /\ Cardinality(Backing) \in Nat
        /\ Cardinality(op.list) \in Nat
    BY CountsNat DEF Caches
  <2>2. \A b \in Allocs : Cardinality(flist'[b]) \in Nat
    BY FS_CardinalityType
  <2>3. FreeNodes' \in Nat
    BY <2>2 DEF FreeNodes, Allocs
  <2> QED BY <2>1, <2>3 DEF TypeOK, Caches
<1>3. FpBalance'
  <2>1. /\ Backing' = Backing /\ op'.list = op.list /\ pools'["fp"] = pools["fp"]
        /\ (IF Limbo' THEN 1 ELSE 0) = (IF Limbo THEN 1 ELSE 0)
    BY DEF Backing
  <2> QED BY <1>2, <2>1 DEF FpBalance
<1>4. MsBalance'
  BY DEF MsBalance
<1> QED BY <1>1, <1>3, <1>4

\* sys$fpage_alloc_internal gives back the node of the fpage it takes a page from.
LEMMA CarveSlabs ==
  ASSUME IInv, TypeOK', FiniteInv, FpBalance, MsBalance, NEW a \in Allocs, NEW r \in Sources(a), AllocInternal(a, r),
         UNCHANGED <<pools, pc, ret, op, sections>>
  PROVE  FiniteInv' /\ FpBalance' /\ MsBalance'
<1>0. TypeOK /\ slabs \in [Caches -> Nat] /\ FreeNodes \in Nat
  BY CountsNat DEF IInv, TypeOK
<1>1. (Limbo' <=> Limbo) /\ (WithNode' <=> WithNode) /\ op'.list = op.list
  BY DEF Limbo, WithNode
<1>2. CASE internal[a].active
  <2>1. flist' = flist /\ slabs' = slabs
    BY <1>2 DEF AllocInternal
  <2>2. (\A b \in Allocs : IsFiniteSet(flist'[b])) /\ FreeNodes' = FreeNodes
    BY <2>1 DEF FiniteInv, FreeNodes
  <2> QED BY <1>0, <1>1, <2>1, <2>2, ListSlabs
<1>3. CASE ~internal[a].active
  <2>1. /\ flist' = [flist EXCEPT ![a] = @ \ {r}] /\ slabs' = [slabs EXCEPT !["fp"] = @ + 1]
        /\ r \in flist[a]
    BY <1>3 DEF AllocInternal, Sources, Smallest
  <2>2. (\A b \in Allocs : IsFiniteSet(flist'[b])) /\ FreeNodes = FreeNodes' + 1 /\ FreeNodes' \in Nat
    BY <1>0, <2>1, FlistDrop
  <2>3. slabs'["fp"] = slabs["fp"] + 1 /\ slabs'["ms"] = slabs["ms"] /\ slabs["fp"] \in Nat
    BY <1>0, <2>1 DEF Caches
  <2>4. slabs'["fp"] + FreeNodes' = slabs["fp"] + FreeNodes
    BY <2>2, <2>3
  <2> QED BY <1>0, <1>1, <2>2, <2>3, <2>4, ListSlabs
<1> QED BY <1>2, <1>3


\* The routines of sys_alloc.c take a slab for each fpage they put on a list and
\* give one back for each fpage they take off.
LEMMA MoveSlabs ==
  ASSUME IInv, IInv', FiniteInv, FpBalance, MsBalance, ClearNode \/ AllocPick \/ SplitHalve
  PROVE  FiniteInv' /\ FpBalance' /\ MsBalance'
<1>0. TypeOK /\ TypeOK' /\ slabs \in [Caches -> Nat] /\ FreeNodes \in Nat /\ al \in Allocs
  BY CountsNat DEF IInv, TypeOK
<1>1. CASE AllocPick
  <2>1. PICK f \in flist[al] : flist' = [flist EXCEPT ![al] = @ \ {f}]
    BY <1>1 DEF AllocPick, Candidates
  <2>2. /\ slabs' = [slabs EXCEPT !["fp"] = @ + 1] /\ pc = "alloc" /\ pc' = "split"
        /\ UNCHANGED <<pools, ret, op, sections>>
    BY <1>1 DEF AllocPick, At
  <2>3. (\A b \in Allocs : IsFiniteSet(flist'[b])) /\ FreeNodes = FreeNodes' + 1 /\ FreeNodes' \in Nat
    BY <1>0, <2>1, FlistDrop
  <2>4. slabs'["fp"] = slabs["fp"] + 1 /\ slabs'["ms"] = slabs["ms"] /\ slabs["fp"] \in Nat
    BY <1>0, <2>2 DEF Caches
  <2>5. slabs'["fp"] + FreeNodes' = slabs["fp"] + FreeNodes
    BY <2>3, <2>4
  <2>6. (Limbo' <=> Limbo) /\ (WithNode' <=> WithNode) /\ op'.list = op.list
    BY <2>2 DEF Limbo, WithNode, Freeing
  <2> QED BY <1>0, <2>2, <2>3, <2>4, <2>5, <2>6, ListSlabs
<1>2. CASE ClearNode
  <2>1. PICK s \in FpageSizes :
          /\ IsBiggest(s, internal[al].base, internal[al].end)
          /\ flist' = [flist EXCEPT ![al] = @ \union {[base |-> internal[al].base, size |-> s]}]
    BY <1>2 DEF ClearNode
  <2> DEFINE f == [base |-> internal[al].base, size |-> s]
  <2>2. /\ /\ slabs' = [slabs EXCEPT !["fp"] = @ - 1] /\ slabs["fp"] > 0 /\ pc = "node"
        /\ pc' = "clear"
        /\ UNCHANGED <<pools, ret, op, sections>> /\ internal[al].base < internal[al].end
    BY <1>2 DEF ClearNode, At
  <2>3. f \notin flist[al]
    <3> DEFINE r == [base |-> internal[al].base, size |-> internal[al].end - internal[al].base]
    <3>1. /\ internal[al].base \in Nat /\ internal[al].end \in Nat /\ s \in Nat \ {0}
          /\ internal[al].base + s <= internal[al].end
      BY <1>0, <2>1, SizesAssumption DEF TypeOK, IsBiggest, Fits
    <3>2. r \in InternalRegion(al) /\ r \in Region /\ f \in Region /\ Within(f, r)
      BY <2>2, <3>1 DEF InternalRegion, Region, Within, EndOf
    <3>3. \A g \in flist[al] : Disj(r, g) /\ g \in Region
      BY <1>0, <3>2, HeldRegions DEF IInv, Exclusive, ExclusiveIn, Apart
    <3> HIDE DEF f, r
    <3>4. \A g \in flist[al] : Disj(f, g)
      BY <3>2, <3>3, DisjWithin
    <3> QED BY <3>2, <3>3, <3>4, DisjDistinct
  <2> HIDE DEF f
  <2>4. (\A b \in Allocs : IsFiniteSet(flist'[b])) /\ FreeNodes' = FreeNodes + 1
    <3>1. flist' = [flist EXCEPT ![al] = @ \union {f}]
      BY <2>1 DEF f
    <3> QED BY <1>0, <2>3, <3>1, FlistAdd
  <2>5. slabs'["fp"] = slabs["fp"] - 1 /\ slabs'["ms"] = slabs["ms"] /\ slabs["fp"] \in Nat
    BY <1>0, <2>2 DEF Caches
  <2>6. slabs'["fp"] + FreeNodes' = slabs["fp"] + FreeNodes
    BY <1>0, <2>4, <2>5
  <2>7. (Limbo' <=> Limbo) /\ (WithNode' <=> WithNode) /\ op'.list = op.list
    BY <2>2 DEF Limbo, WithNode, Freeing
  <2> QED BY <1>0, <2>2, <2>4, <2>5, <2>6, <2>7, ListSlabs
<1>3. CASE SplitHalve
  <2>1. PICK h \in FpageSizes : hand.size = 2 * h /\ hand' = [hand EXCEPT !.size = h]
                                /\ flist' = [flist EXCEPT ![al] = @ \union {Buddy(hand')}]
    BY <1>3 DEF SplitHalve
  <2>2. /\ /\ slabs' = [slabs EXCEPT !["fp"] = @ - 1] /\ slabs["fp"] > 0 /\ pc = "split"
        /\ pc' = pc
        /\ UNCHANGED <<pools, ret, op, sections>>
    BY <1>3 DEF SplitHalve, At
  <2>3. Buddy(hand') \notin flist[al]
    <3>1. /\ /\ hand \in [base : Nat, size : Nat] /\ h \in Nat \ {0}
          /\ hand.base % hand.size = 0
          /\ InHand(al) = {hand} /\ hand \in Region
      BY <1>0, <2>1, <2>2, SizesAssumption DEF TypeOK, IInv, Aligned, InHand, Region
    <3>2. (hand.base \div h) % 2 = 0
      BY <2>1, <3>1, HalfAligned
    <3>3. Buddy(hand') = [base |-> hand.base + h, size |-> h]
      <4>1. hand' = [base |-> hand.base, size |-> h]
        BY <2>1, <3>1
      <4> QED BY <3>2, <4>1 DEF Buddy
    <3>4. Buddy(hand') \in Region /\ Within(Buddy(hand'), hand)
      BY <2>1, <3>1, <3>3 DEF Region, Within, EndOf
    <3>5. \A g \in flist[al] : Disj(hand, g) /\ g \in Region
      BY <1>0, <3>1, HeldRegions DEF IInv, Exclusive, ExclusiveIn, Apart
    <3>6. \A g \in flist[al] : Disj(Buddy(hand'), g)
      BY <3>1, <3>4, <3>5, DisjWithin
    <3> QED BY <3>4, <3>5, <3>6, DisjDistinct
  <2>4. (\A b \in Allocs : IsFiniteSet(flist'[b])) /\ FreeNodes' = FreeNodes + 1
    BY <1>0, <2>1, <2>3, FlistAdd
  <2>5. slabs'["fp"] = slabs["fp"] - 1 /\ slabs'["ms"] = slabs["ms"] /\ slabs["fp"] \in Nat
    BY <1>0, <2>2 DEF Caches
  <2>6. slabs'["fp"] + FreeNodes' = slabs["fp"] + FreeNodes
    BY <1>0, <2>4, <2>5
  <2>7. (Limbo' <=> Limbo) /\ (WithNode' <=> WithNode) /\ op'.list = op.list
    BY <2>2 DEF Limbo, WithNode, Freeing
  <2> QED BY <1>0, <2>2, <2>4, <2>5, <2>6, <2>7, ListSlabs
<1> QED BY <1>1, <1>2, <1>3

\* The node of a memsection is taken by sys$memsection_new and given back when its
\* setup fails.
LEMMA NodeSlabs ==
  ASSUME IInv, OpInv, FiniteInv, FpBalance, MsBalance, New \/ Fail
  PROVE  FiniteInv' /\ (pc' \notin Halts => FpBalance' /\ MsBalance')
<1>0. TypeOK /\ slabs \in [Caches -> Nat]
  BY DEF IInv, TypeOK
<1>1. /\ /\ slabs["ms"] \in Nat /\ Cardinality(sections) \in Nat
      /\ Cardinality(pools["fp"]) \in Nat
      /\ Cardinality(pools["bt"]) \in Nat
  BY <1>0, CountsNat DEF Caches
<1>2. flist' = flist /\ pools' = pools /\ sections' = sections
  BY DEF New, Fail, memory
<1>3. slabs'["fp"] = slabs["fp"]
  BY <1>0 DEF New, Fail, Caches
<1>4. op'.list = op.list /\ ~Limbo /\ ~Limbo'
  <2>1. CASE New
    BY <1>0, <2>1 DEF New, CallAlloc, TypeOK, At, Limbo, Freeing
  <2>2. CASE Fail
    <3>1. pc = "fail" /\ op' = NoOp /\ pc' \in {"panic", "idle"}
      BY <2>2 DEF Fail, At
    <3>2. op.list = {} /\ op'.list = {}
      BY <3>1 DEF OpInv, Freeing, Halts, NoOp
    <3> QED BY <3>1, <3>2 DEF Limbo, Freeing
  <2> QED BY <2>1, <2>2
<1>5. FiniteInv'
  BY <1>2, <1>4 DEF FiniteInv, Backing
<1>6. FpBalance'
  BY <1>2, <1>3, <1>4 DEF FpBalance, FreeNodes, Backing
<1>7. CASE New
  <2>1. slabs'["ms"] = slabs["ms"] - 1
    BY <1>0, <1>7 DEF New, Caches
  <2>2. ~WithNode /\ WithNode'
    BY <1>7 DEF New, At, CallAlloc, WithNode, Freeing
  <2> QED BY <1>1, <1>2, <1>5, <1>6, <2>1, <2>2 DEF MsBalance
<1>8. CASE Fail
  <2>1. slabs'["ms"] = slabs["ms"] + 1
    BY <1>0, <1>8 DEF Fail, Caches
  <2>2. WithNode /\ (pc' \notin Halts => ~WithNode')
    BY <1>8 DEF Fail, At, WithNode, Freeing, Halts
  <2> QED BY <1>1, <1>2, <1>5, <1>6, <2>1, <2>2 DEF MsBalance
<1> QED BY <1>7, <1>8


\* sys$fpage_alloc_list takes a node for each fpage; the failure path gives the
\* fpage back first and then its node.
LEMMA BackingSlabs ==
  ASSUME IInv, OwnInv, FiniteInv, FpBalance, MsBalance, ListNode \/ UndoOne \/ UndoNode
  PROVE  FiniteInv' /\ FpBalance' /\ MsBalance'
<1>0. TypeOK /\ slabs \in [Caches -> Nat]
  BY DEF IInv, TypeOK
<1>1. /\ slabs["fp"] \in Nat /\ FreeNodes \in Nat /\ Cardinality(Backing) \in Nat
      /\ Cardinality(op.list) \in Nat /\ IsFiniteSet(op.list)
  BY <1>0, CountsNat DEF Caches, FiniteInv
<1>2. flist' = flist /\ pools' = pools /\ sections' = sections
  BY DEF ListNode, UndoOne, UndoNode, memory, caches
<1>3. FreeNodes' = FreeNodes /\ Backing' = Backing
  BY <1>2 DEF FreeNodes, Backing
<1>4. slabs'["ms"] = slabs["ms"]
  BY <1>0 DEF ListNode, UndoOne, UndoNode, caches, Caches
<1>5. WithNode /\ WithNode'
  BY DEF ListNode, UndoOne, UndoNode, At, CallFree, WithNode, Freeing
<1>6. MsBalance'
  BY <1>2, <1>4, <1>5 DEF MsBalance
<1>7. CASE ListNode
  <2> DEFINE e == [virt |-> op.cur, fpage |-> hand]
  <2>1. op'.list = op.list \union {e} /\ slabs'["fp"] = slabs["fp"] - 1
        /\ pc = "lnode" /\ pc' = "list"
    BY <1>0, <1>7 DEF ListNode, At, TypeOK, Caches
  <2>2. e \notin op.list
    <3>1. InHand("pm") = {hand} /\ hand \in Region
      BY <1>0, <2>1 DEF IInv, RetInv, HandInv, Holding, InHand, TypeOK, Region
    <3>2. \A s \in used["pm"] : Disj(hand, s) /\ s \in Region
      BY <1>0, <3>1, HeldRegions DEF IInv, Exclusive, ExclusiveIn, Apart, Allocs
    <3>3. hand \notin used["pm"]
      BY <3>1, <3>2, DisjDistinct
    <3>4. \A d \in op.list : d.fpage \in used["pm"]
      BY DEF IInv, ListInv
    <3>5. e.fpage = hand
      OBVIOUS
    <3> HIDE DEF e
    <3> QED BY <3>3, <3>4, <3>5
  <2> HIDE DEF e
  <2>3. IsFiniteSet(op'.list) /\ Cardinality(op'.list) = Cardinality(op.list) + 1
    <3>1. /\ IsFiniteSet(op.list \union {e})
          /\ Cardinality(op.list \union {e}) = Cardinality(op.list) + 1
      BY <1>1, <2>2, FS_AddElement
    <3> QED BY <2>1, <3>1
  <2>4. ~Limbo /\ ~Limbo'
    BY <2>1 DEF Limbo, Freeing
  <2>5. FiniteInv'
    BY <1>2, <1>3, <2>3 DEF FiniteInv
  <2>6. FpBalance'
    <3>1. slabs'["fp"] = slabs["fp"] - 1 /\ Cardinality(op'.list) = Cardinality(op.list) + 1
      BY <2>1, <2>3
    <3> QED BY <1>1, <1>2, <1>3, <2>4, <3>1 DEF FpBalance
  <2> QED BY <1>6, <2>5, <2>6
<1>8. CASE UndoOne
  <2>1. PICK e \in op.list : op' = [op EXCEPT !.list = @ \ {e}]
    BY <1>8 DEF UndoOne
  <2>2. op'.list = op.list \ {e} /\ slabs' = slabs /\ ~Limbo /\ Limbo'
    BY <1>0, <1>8, <2>1 DEF UndoOne, TypeOK, At, CallFree, caches, Limbo, Freeing
  <2>3. IsFiniteSet(op'.list) /\ Cardinality(op'.list) = Cardinality(op.list) - 1
    BY <1>1, <2>2, FS_RemoveElement
  <2>4. FiniteInv'
    BY <1>2, <1>3, <2>3 DEF FiniteInv
  <2>5. FpBalance'
    BY <1>1, <1>2, <1>3, <2>2, <2>3 DEF FpBalance
  <2> QED BY <1>6, <2>4, <2>5
<1>9. CASE UndoNode
  <2>1. op' = op /\ slabs'["fp"] = slabs["fp"] + 1 /\ Limbo /\ ~Limbo'
    BY <1>0, <1>9 DEF UndoNode, At, Caches, Limbo, Freeing
  <2>2. FiniteInv'
    BY <1>2, <1>3, <2>1 DEF FiniteInv
  <2>3. FpBalance'
    BY <1>1, <1>2, <1>3, <2>1 DEF FpBalance
  <2> QED BY <1>6, <2>2, <2>3
<1> QED BY <1>7, <1>8, <1>9

\* The fpages of the list, which back nothing yet, and its node become the new
\* memsection's.
LEMMA InsertSlabs ==
  ASSUME IInv, OwnInv, FiniteInv, FpBalance, MsBalance, ObjectInv, InsertDone
  PROVE  FiniteInv' /\ FpBalance' /\ MsBalance'
<1> DEFINE new == [flags |-> op.flags, base |-> op.at, size |-> op.size, list |-> op.list]
<1>0. TypeOK /\ pc = "insert" /\ pc' = "idle" /\ pc \notin Halts
  BY DEF IInv, InsertDone, At, Halts
<1>1. /\ sections' = sections \union {new} /\ op' = NoOp
      /\ flist' = flist /\ pools' = pools /\ slabs' = slabs
  BY DEF InsertDone, memory, caches
<1>2. new.list = op.list /\ new.flags = op.flags /\ new.base = op.at /\ new.size = op.size
  OBVIOUS
<1>3. OwnIn("vm") /\ OwnIn("pm")
  BY <1>0 DEF OwnInv, Allocs
<1>4. new \notin sections
  <2>1. CASE op.flags = "internal"
    BY <1>0, <1>2, <2>1 DEF ObjectInv
  <2>2. CASE op.flags # "internal"
    <3>1. Chunk \in CallOwns("vm")
      BY <1>0, <2>2 DEF CallOwns, OwnsChunk
    <3>2. new \in sections => Chunk \in SectionRegions("vm")
      BY <1>2, <2>2 DEF SectionRegions, Chunk
    <3> QED BY <1>3, <3>1, <3>2 DEF OwnIn, Lasting
  <2> QED BY <2>1, <2>2
<1> HIDE DEF new
<1>5. Backing' = Backing \union op.list
  BY <1>1, <1>2 DEF Backing
<1>6. Backing \intersect op.list = {}
  <2> SUFFICES ASSUME NEW e \in op.list, e \in Backing PROVE FALSE
    OBVIOUS
  <2>1. e.fpage \in CallOwns("pm") /\ e.fpage \in SectionRegions("pm")
    BY DEF CallOwns, SectionRegions, Backing
  <2> QED BY <1>3, <2>1 DEF OwnIn, Lasting
<1>7. op'.list = {}
  BY <1>1 DEF NoOp
<1>8. IsFiniteSet(Backing) /\ IsFiniteSet(op.list) /\ IsFiniteSet(sections)
  BY DEF FiniteInv
<1>9. /\ IsFiniteSet(Backing')
      /\ Cardinality(Backing') = Cardinality(Backing) + Cardinality(op.list) - Cardinality({})
  BY <1>5, <1>6, <1>8, FS_Union
<1>10. IsFiniteSet(sections') /\ Cardinality(sections') = Cardinality(sections) + 1
  BY <1>1, <1>4, <1>8, FS_AddElement
<1>11. IsFiniteSet({}) /\ Cardinality({}) = 0
  BY FS_EmptySet
<1>12. FiniteInv'
  BY <1>1, <1>7, <1>9, <1>10, <1>11 DEF FiniteInv
<1>13. /\ /\ slabs["fp"] \in Nat /\ slabs["ms"] \in Nat /\ FreeNodes \in Nat
       /\ Cardinality(Backing) \in Nat
       /\ Cardinality(op.list) \in Nat /\ Cardinality(sections) \in Nat
       /\ Cardinality(pools["fp"]) \in Nat /\ Cardinality(pools["bt"]) \in Nat
  BY <1>0, CountsNat DEF Caches
<1>14. FreeNodes' = FreeNodes
  BY <1>1 DEF FreeNodes
<1>15. ~Limbo /\ ~Limbo' /\ WithNode /\ ~WithNode'
  BY <1>0 DEF Limbo, WithNode, Freeing
<1>16. FpBalance'
  BY <1>1, <1>7, <1>9, <1>11, <1>13, <1>14, <1>15 DEF FpBalance
<1>17. MsBalance'
  BY <1>1, <1>10, <1>13, <1>15 DEF MsBalance
<1> QED BY <1>12, <1>16, <1>17

\* A new pool holds PerPool slabs, and its own node is a slab of ms_cache unless it
\* is a pool of ms_cache.
LEMMA PoolSlabs ==
  ASSUME IInv, ApartInv, FiniteInv, FpBalance, MsBalance, NEW c \in Caches, GrowNode(c)
  PROVE  FiniteInv' /\ FpBalance' /\ MsBalance'
<1> DEFINE new == [virt |-> grow[c].virt, phys |-> grow[c].phys]
<1>0. TypeOK /\ pc \notin Halts /\ c \in Carved("vm")
  BY DEF IInv, GrowNode, Running, Carved
<1>1. /\ flist' = flist /\ UNCHANGED <<pc, ret, op, sections>>
      /\ pools' = [pools EXCEPT ![c] = @ \union {new}]
      /\ slabs' = [d \in Caches |-> slabs[d] + (IF d = c THEN PerPool[c] ELSE 0)
                                    - (IF d = "ms" /\ c # "ms" THEN 1 ELSE 0)]
      /\ pools \in [Caches -> SUBSET [virt : Nat, phys : Nat]]
  BY <1>0 DEF GrowNode, memory, TypeOK
<1>2. new \notin pools[c]
  <2>1. Of("vm", new) = Of("vm", grow[c])
    BY DEF Of, Page
  <2>2. Of("vm", grow[c]) \notin PoolPages("vm")
    BY <1>0 DEF ApartInv
  <2> HIDE DEF new
  <2> QED BY <2>1, <2>2 DEF PoolPages
<1> HIDE DEF new
<1>3. pools'[c] = pools[c] \union {new} /\ \A d \in Caches : d # c => pools'[d] = pools[d]
  BY <1>1
<1>4. IsFiniteSet(pools'[c]) /\ Cardinality(pools'[c]) = Cardinality(pools[c]) + 1
  BY <1>2, <1>3, FS_AddElement DEF FiniteInv
<1>5. FiniteInv'
  BY <1>1, <1>3, <1>4 DEF FiniteInv, Backing
<1>6. /\ \A d \in Caches : slabs[d] \in Nat /\ PerPool[d] \in Nat /\ Cardinality(pools[d]) \in Nat
      /\ Cardinality(sections) \in Nat
      /\ FreeNodes \in Nat /\ Cardinality(Backing) \in Nat /\ Cardinality(op.list) \in Nat
  BY <1>0, CountsNat
<1>7. /\ FreeNodes' = FreeNodes /\ Backing' = Backing /\ (Limbo' <=> Limbo) /\ (WithNode' <=> WithNode)
      /\ op' = op /\ sections' = sections
  BY <1>1 DEF FreeNodes, Backing, Limbo, WithNode
<1>8. \A p, n \in Nat : p * (n + 1) = p * n + p
  OBVIOUS
<1>9. PerPool[c] * Cardinality(pools'[c]) = PerPool[c] * Cardinality(pools[c]) + PerPool[c]
  BY <1>4, <1>6, <1>8
<1>10. \A d \in Caches : PerPool[d] * Cardinality(pools[d]) \in Nat
  BY <1>6
<1>11. "fp" \in Caches /\ "ms" \in Caches /\ "bt" \in Caches
  BY DEF Caches
<1> DEFINE P(d)  == PerPool[d] * Cardinality(pools[d])
           Q(d)  == PerPool[d] * Cardinality(pools[d])'
           l     == IF Limbo THEN 1 ELSE 0
           w     == IF WithNode THEN 1 ELSE 0
<1>12. /\ Q(c) = P(c) + PerPool[c] /\ \A d \in Caches : P(d) \in Nat /\ (d # c => Q(d) = P(d))
       /\ l \in Nat /\ w \in Nat
  BY <1>3, <1>9, <1>10
<1>13. slabs["fp"] + FreeNodes + Cardinality(Backing) + Cardinality(op.list) + l = P("fp")
  BY DEF FpBalance
<1>14. slabs["ms"] + Cardinality(sections) + Cardinality(pools["fp"]) + Cardinality(pools["bt"]) + w = P("ms")
  BY DEF MsBalance
<1>15. FpBalance' <=> slabs'["fp"] + FreeNodes + Cardinality(Backing) + Cardinality(op.list) + l = Q("fp")
  BY <1>7 DEF FpBalance
<1>16. MsBalance' <=> slabs'["ms"] + Cardinality(sections) + Cardinality(pools'["fp"])
                        + Cardinality(pools'["bt"]) + w = Q("ms")
  BY <1>7 DEF MsBalance
<1> HIDE DEF P, Q, l, w
<1>17. FpBalance'
  <2>1. slabs'["fp"] = slabs["fp"] + IF c = "fp" THEN PerPool[c] ELSE 0
    BY <1>1, <1>6, <1>11
  <2>2. CASE c = "fp"
    BY <1>6, <1>11, <1>12, <1>13, <1>15, <2>1, <2>2
  <2>3. CASE c # "fp"
    BY <1>6, <1>11, <1>12, <1>13, <1>15, <2>1, <2>3
  <2> QED BY <2>2, <2>3
<1>18. MsBalance'
  <2>1. slabs'["ms"] = IF c = "ms" THEN slabs["ms"] + PerPool[c] ELSE slabs["ms"] - 1
    BY <1>1, <1>6, <1>11
  <2>2. CASE c = "ms"
    <3>1. /\ pools'["fp"] = pools["fp"] /\ pools'["bt"] = pools["bt"]
          /\ Q("ms") = P("ms") + PerPool["ms"]
      BY <1>3, <1>11, <1>12, <2>2
    <3> QED BY <1>6, <1>11, <1>12, <1>14, <1>16, <2>1, <2>2, <3>1
  <2>3. CASE c # "ms"
    <3>1. Q("ms") = P("ms")
      BY <1>11, <1>12, <2>3
    <3>2. Cardinality(pools'["fp"]) + Cardinality(pools'["bt"])
            = Cardinality(pools["fp"]) + Cardinality(pools["bt"]) + 1
      <4>1. CASE c = "fp"
        <5>1. pools'["bt"] = pools["bt"]
          BY <1>3, <1>11, <4>1
        <5> QED BY <1>4, <1>6, <1>11, <4>1, <5>1
      <4>2. CASE c = "bt"
        <5>1. pools'["fp"] = pools["fp"]
          BY <1>3, <1>11, <4>2
        <5> QED BY <1>4, <1>6, <1>11, <4>2, <5>1
      <4> QED BY <2>3, <4>1, <4>2 DEF Caches
    <3>3. Cardinality(pools'["fp"]) \in Nat /\ Cardinality(pools'["bt"]) \in Nat
      BY <1>5, <1>11, FS_CardinalityType DEF FiniteInv
    <3> QED BY <1>6, <1>11, <1>12, <1>14, <1>16, <2>1, <2>3, <3>1, <3>2, <3>3
  <2> QED BY <2>2, <2>3
<1> QED BY <1>5, <1>17, <1>18


\* A preloaded object is created once.
LEMMA ObjectNext ==
  ASSUME IInv, OpInv, ObjectInv, [Next]_vars
  PROVE  ObjectInv'
<1> SUFFICES ASSUME pc' \in {"new", "insert"}, op'.flags = "internal"
             PROVE  \A s \in sections' : s.flags = "internal" => s.base # op'.at
  BY DEF ObjectInv
<1>0. TypeOK /\ RetInv
  BY DEF IInv
<1>1. CASE pc \in {"new", "insert"} /\ op'.flags = op.flags /\ op'.at = op.at /\ sections' = sections
  BY <1>1 DEF ObjectInv
<1>2. CASE CreateInternal
  <2>1. PICK o \in mem.objects : /\ ~\E s \in sections : s.flags = "internal" /\ s.base = o.base
                                 /\ op' = [NoOp EXCEPT !.flags = "internal", !.size = o.size, !.at = o.base]
    BY <1>2 DEF CreateInternal, Call
  <2>2. op'.at = o.base /\ sections' = sections
    BY <1>2, <2>1 DEF NoOp, CreateInternal
  <2> QED BY <2>1, <2>2
<1>3. CASE Create
  <2>1. PICK r \in Requests : op' = [NoOp EXCEPT !.flags = r.flags, !.size = r.size, !.at = 0]
    BY <1>3 DEF Create, Call
  <2>2. op'.flags = r.flags /\ r.flags # "internal"
    BY <2>1, ParamAssumption DEF NoOp
  <2> QED BY <2>2
<1>4. CASE BootHeap
  BY <1>4 DEF BootHeap, Call, NoOp
<1>5. CASE InsertPage
  BY <1>0, <1>1, <1>5 DEF InsertPage, At, TypeOK
<1>6. CASE New
  BY <1>0, <1>1, <1>6 DEF New, At, TypeOK, CallAlloc
<1>7. CASE Back \/ ListDone
  <2>1. pc \in {"back", "list"} /\ op' = op
    BY <1>7 DEF Back, ListDone, At
  <2> QED BY <2>1 DEF OpInv, Halts
<1>8. ASSUME NEW c \in Caches, StartGrow(c) \/ GrowVirt(c) \/ GrowPhys(c) \/ GrowNode(c)
      PROVE  \A s \in sections' : s.flags = "internal" => s.base # op'.at
  BY <1>1, <1>8 DEF StartGrow, GrowVirt, GrowPhys, GrowNode
<1>9. CASE vars' = vars
  BY <1>1, <1>9 DEF vars
<1>10. CASE ClearDone \/ SplitDone
  BY <1>0, <1>10 DEF ClearDone, SplitDone, At, RetInv, Freeing, Resumes
<1>11. CASE PdInit
  BY <1>11 DEF PdInit, At
<1>12. CASE Free \/ LoadInternal \/ ClearTest \/ ClearNode \/ ClearNil \/ AllocPick \/ AllocNil
            \/ SplitHalve \/ ChunkShort \/ ChunkTrim \/ ListNext \/ ListNode \/ UndoOne \/ UndoNode
            \/ UndoDone \/ InsertDone \/ Fail
  BY <1>12 DEF Free, LoadInternal, ClearTest, ClearNode, ClearNil, AllocPick, AllocNil,
     SplitHalve,
       ChunkShort, ChunkTrim, ListNext, ListNode, UndoOne, UndoNode, UndoDone, InsertDone, Fail,
       CallFree, CallAlloc, At
<1>13. CASE \/ BootVm \/ BootVmNone \/ BootPm \/ BootPanic \/ BootVmClear
            \/ BootRest("pm", "boot_pm_rest", "boot_vm_clear")
            \/ BootRest("vm", "boot_vm_rest", "boot_heap")
  BY <1>13 DEF BootVm, BootVmNone, BootPm, BootPanic, BootVmClear, BootRest, CallFree, At
<1>14. ASSUME NEW c \in Caches, NEW a \in Allocs, GrowFails(c, a) PROVE FALSE
  BY <1>14 DEF GrowFails
<1> QED BY <1>2, <1>3, <1>4, <1>5, <1>6, <1>7, <1>8, <1>9, <1>10, <1>11, <1>12, <1>13, <1>14
        DEF Next, Halted

\* Slabs are conserved.
LEMMA SlabNext ==
  ASSUME IInv, IInv', Control, OwnInv, ApartInv, SlabInv, [Next]_vars
  PROVE  SlabInv'
<1> DEFINE Balanced == pc \notin Halts => FpBalance /\ MsBalance
<1>0. /\ /\ TypeOK /\ TypeOK' /\ RetInv /\ OpInv /\ FiniteInv /\ Balanced /\ ObjectInv
      /\ GrowInv
      /\ pc' \notin Halts => pc \notin Halts
  BY HaltsStay DEF IInv, Control, SlabInv
<1> SUFFICES FiniteInv' /\ Balanced'
  <2>1. ObjectInv'
    BY <1>0, ObjectNext
  <2> QED BY <2>1 DEF SlabInv
<1>1. ASSUME /\ flist' = flist /\ sections' = sections /\ pools' = pools /\ op'.list = op.list
             /\ pc' \notin Halts => /\ slabs'["fp"] = slabs["fp"] /\ slabs'["ms"] = slabs["ms"]
                                    /\ (Limbo' <=> Limbo) /\ (WithNode' <=> WithNode)
      PROVE  FiniteInv' /\ Balanced'
  BY <1>0, <1>1, QuietSlabs
<1>2. ASSUME FiniteInv' /\ FpBalance' /\ MsBalance' PROVE FiniteInv' /\ Balanced'
  BY <1>2
<1>3. ASSUME NEW c \in Caches, StartGrow(c) PROVE FiniteInv' /\ Balanced'
  BY <1>1, <1>3 DEF StartGrow, memory, Limbo, WithNode
<1>4. ASSUME NEW c \in Caches, GrowVirt(c) PROVE FiniteInv' /\ Balanced'
  <2>1. PICK r \in Sources("vm") : AllocInternal("vm", r)
    BY <1>4 DEF GrowVirt
  <2>2. UNCHANGED <<pools, pc, ret, op, sections>> /\ pc \notin Halts
    BY <1>4 DEF GrowVirt, Running
  <2> QED BY <1>0, <2>1, <2>2, CarveSlabs DEF Allocs
<1>5. ASSUME NEW c \in Caches, GrowPhys(c) PROVE FiniteInv' /\ Balanced'
  <2>1. PICK r \in Sources("pm") : AllocInternal("pm", r)
    BY <1>5 DEF GrowPhys
  <2>2. UNCHANGED <<pools, pc, ret, op, sections>> /\ pc \notin Halts
    BY <1>5 DEF GrowPhys, Running
  <2> QED BY <1>0, <2>1, <2>2, CarveSlabs DEF Allocs
<1>6. ASSUME NEW c \in Caches, GrowNode(c) PROVE FiniteInv' /\ Balanced'
  BY <1>0, <1>6, PoolSlabs DEF GrowNode, Running
<1>7. ASSUME NEW c \in Caches, NEW a \in Allocs, GrowFails(c, a) PROVE FiniteInv' /\ Balanced'
  <2>1. /\ pc' \in Halts /\ flist' = flist /\ sections' = sections /\ pools' = pools
        /\ op' = op
    BY <1>7 DEF GrowFails, memory, caches, Halts
  <2> QED BY <1>1, <2>1
<1>8. CASE ClearNode \/ AllocPick \/ SplitHalve
  <2>1. pc \notin Halts
    BY <1>8 DEF ClearNode, AllocPick, SplitHalve, At, Halts
  <2> QED BY <1>0, <1>8, <2>1, MoveSlabs
<1>9. CASE New \/ Fail
  <2>1. pc \notin Halts
    BY <1>9 DEF New, Fail, At, Halts
  <2> QED BY <1>0, <1>9, <2>1, NodeSlabs
<1>10. CASE ListNode \/ UndoOne \/ UndoNode
  <2>1. pc \notin Halts
    BY <1>10 DEF ListNode, UndoOne, UndoNode, At, Halts
  <2> QED BY <1>0, <1>10, <2>1, BackingSlabs
<1>11. CASE InsertDone
  <2>1. pc \notin Halts
    BY <1>11 DEF InsertDone, At, Halts
  <2> QED BY <1>0, <1>11, <2>1, InsertSlabs
<1>12. CASE Create \/ CreateInternal \/ BootHeap
  <2>1. /\ pc \in {"idle", "boot_heap"} /\ pc' = "new" /\ flist' = flist
        /\ sections' = sections
        /\ pools' = pools /\ slabs' = slabs
    BY <1>12 DEF Create, CreateInternal, BootHeap, At, Call, memory, caches
  <2>2. op.list = {}
    BY <1>0, <2>1 DEF OpInv, Freeing, Halts
  <2>3. op'.list = {}
    BY <1>12 DEF Create, CreateInternal, BootHeap, Call, NoOp
  <2>4. (Limbo' <=> Limbo) /\ (WithNode' <=> WithNode)
    BY <2>1 DEF Limbo, WithNode, Freeing
  <2> QED BY <1>1, <2>1, <2>2, <2>3, <2>4
<1>13. CASE ClearNil \/ BootPanic
  <2>1. /\ pc' \in Halts /\ flist' = flist /\ sections' = sections /\ pools' = pools
        /\ op' = op
    BY <1>13 DEF ClearNil, BootPanic, memory, caches, Halts
  <2> QED BY <1>1, <2>1
<1>14. CASE vars' = vars
  BY <1>1, <1>14 DEF vars, Limbo, WithNode
<1>15. CASE InsertPage
  <2>1. /\ flist' = flist /\ sections' = sections /\ pools' = pools /\ op'.list = op.list
        /\ slabs'["fp"] = slabs["fp"] /\ slabs'["ms"] = slabs["ms"] /\ pc' = pc
        /\ ret' = ret
    BY <1>0, <1>15 DEF InsertPage, memory, TypeOK, Caches
  <2> QED BY <1>1, <2>1 DEF Limbo, WithNode
<1>16. CASE New \/ ListNext \/ ChunkTrim
  <2>1. CASE ListNext
    BY <1>0, <1>1, <2>1 DEF ListNext, CallAlloc, At, memory, caches, TypeOK, Limbo,
       WithNode, Freeing
  <2>2. CASE ChunkTrim
    BY <1>0, <1>1, <2>2 DEF ChunkTrim, CallFree, At, caches, TypeOK, Limbo, WithNode,
       Freeing
  <2> QED BY <1>9, <1>16, <2>1, <2>2

<1>17. CASE Free
  BY <1>0, <1>1, <1>17 DEF Free, At, memory, caches, Limbo, WithNode, Freeing, RetInv
<1>18. CASE LoadInternal
  BY <1>0, <1>1, <1>18 DEF LoadInternal, At, caches, Limbo, WithNode, Freeing, RetInv,
     Resumes
<1>19. CASE ClearTest
  BY <1>0, <1>1, <1>19 DEF ClearTest, At, memory, caches, Limbo, WithNode, Freeing, RetInv
<1>20. CASE ClearDone
  BY <1>0, <1>1, <1>20 DEF ClearDone, At, caches, Limbo, WithNode, Freeing, RetInv, Resumes
<1>21. CASE AllocNil
  BY <1>0, <1>1, <1>21 DEF AllocNil, At, memory, caches, Limbo, WithNode, Freeing, RetInv
<1>22. CASE SplitDone
  BY <1>0, <1>1, <1>22 DEF SplitDone, At, memory, caches, Limbo, WithNode, Freeing, RetInv
<1>23. CASE ChunkShort
  BY <1>0, <1>1, <1>23 DEF ChunkShort, At, memory, caches, CallFree, Limbo, WithNode,
     Freeing
<1>24. CASE Back
  BY <1>0, <1>1, <1>24 DEF Back, At, memory, caches, Limbo, WithNode, Freeing, RetInv
<1>25. CASE ListDone
  BY <1>0, <1>1, <1>25 DEF ListDone, At, memory, caches, Limbo, WithNode, Freeing, RetInv
<1>26. CASE UndoDone
  BY <1>0, <1>1, <1>26 DEF UndoDone, At, caches, CallFree, Limbo, WithNode, Freeing, RetInv
<1>27. CASE BootVm
  BY <1>0, <1>1, <1>27 DEF BootVm, At, caches, Limbo, WithNode, Freeing, RetInv, Resumes
<1>28. CASE BootVmNone
  BY <1>0, <1>1, <1>28 DEF BootVmNone, At, memory, caches, Limbo, WithNode, Freeing, RetInv
<1>29. CASE BootPm
  BY <1>0, <1>1, <1>29 DEF BootPm, At, caches, CallFree, Limbo, WithNode, Freeing, RetInv
<1>30. CASE BootRest("pm", "boot_pm_rest", "boot_vm_clear")
  BY <1>0, <1>1, <1>30 DEF BootRest, At, caches, CallFree, Limbo, WithNode, Freeing, RetInv
<1>31. CASE BootRest("vm", "boot_vm_rest", "boot_heap")
  BY <1>0, <1>1, <1>31 DEF BootRest, At, caches, CallFree, Limbo, WithNode, Freeing, RetInv
<1>32. CASE BootVmClear
  BY <1>0, <1>1, <1>32 DEF BootVmClear, At, memory, caches, Limbo, WithNode, Freeing, RetInv
<1>33. CASE PdInit
  BY <1>0, <1>1, <1>33 DEF PdInit, At, memory, caches, Limbo, WithNode, Freeing, RetInv
<1> QED BY <1>3, <1>4, <1>5, <1>6, <1>7, <1>8, <1>9, <1>10, <1>11, <1>12, <1>13, <1>14,
           <1>15, <1>16, <1>17, <1>18, <1>19, <1>20, <1>21, <1>22, <1>23, <1>24, <1>25,
           <1>26, <1>27, <1>28, <1>29, <1>30, <1>31, <1>32, <1>33
        DEF Next, Halted

-----------------------------------------------------------------------------
(***************************************************************************)
(* The theorems *)
(***************************************************************************)

\* At boot everything is pending and nothing is owned.
LEMMA InitPInv == Init => PInv
<1> SUFFICES ASSUME Init PROVE PInv
  OBVIOUS
<1>0. IInv /\ TypeOK
  BY InitIInv DEF IInv
<1> USE DEF Init
<1>1. Control
  BY DEF Control, EmptyInv, BootInv, OpInv, NoOp, Freeing, Halts, Allocs
<1>2. NothingLost
  <2> SUFFICES ASSUME NEW a \in Allocs
               PROVE  flist[a] \union used[a] \union InternalRegion(a) \union InHand(a)
                        = {RegionAt(a, i) : i \in DOMAIN mem.regions[a]}
    BY DEF NothingLost
  <2> QED BY DEF InternalRegion, InHand, NoPages
<1>3. OwnInv
  <2> SUFFICES ASSUME NEW a \in Allocs PROVE OwnIn(a)
    BY DEF OwnInv
  <2>1. Lasting(a) = {}
    BY DEF Lasting, SectionRegions, PoolPages, GrowPages, Carved, NoGrow
  <2>2. CallOwns(a) = {}
    BY DEF CallOwns, OwnsChunk, HasChunk, Freeing, NoOp
  <2>3. used[a] = Pend(a)
    BY DEF Pend
  <2> QED BY <2>1, <2>2, <2>3 DEF OwnIn
<1>4. ApartInv
  BY DEF ApartInv, Carved, NoGrow
<1>5. BackInv
  BY DEF BackInv, Listing, Asking, Freeing
<1>6. SlabInv
  <2>1. IsFiniteSet({}) /\ Cardinality({}) = 0
    BY FS_EmptySet
  <2>2. Backing = {} /\ op.list = {} /\ ~Limbo /\ ~WithNode
    BY DEF Backing, NoOp, Limbo, WithNode, Freeing
  <2>3. FiniteInv
    BY <2>1, <2>2 DEF FiniteInv
  <2>4. \A c \in Caches : PerPool[c] * 0 = 0
    BY ParamAssumption
  <2>5. FpBalance
    BY <2>1, <2>2, <2>4 DEF FpBalance, FreeNodes, Allocs, Caches
  <2>6. MsBalance
    BY <2>1, <2>2, <2>4 DEF MsBalance, Caches
  <2> QED BY <2>3, <2>5, <2>6 DEF SlabInv, ObjectInv
<1> QED BY <1>1, <1>2, <1>3, <1>4, <1>5, <1>6 DEF PInv

\* Both invariants hold in every reachable state of the allocators and the caches.
LEMMA OwnersInvariance == Spec => [](IInv /\ PInv)
<1>1. Init => IInv /\ PInv
  BY InitIInv, InitPInv
<1>2. IInv /\ PInv /\ Plain /\ [Next]_vars => PInv'
  <2> SUFFICES ASSUME IInv, PInv, Plain, [Next]_vars PROVE PInv'
    OBVIOUS
  <2>1. AllocStep /\ IInv'
    BY NextIInv DEF AllocStep, Plain
  <2>2. /\ Control /\ NothingLost /\ OwnInv /\ ApartInv /\ BackInv /\ SlabInv
    BY DEF PInv
  <2>3. Control' /\ NothingLost' /\ OwnInv'
    BY <2>1, <2>2, ControlNext, NothingLostNext, OwnNext
  <2>4. ApartInv' /\ BackInv'
    BY <2>2, ApartNext, BackNext
  <2>5. SlabInv'
    BY <2>1, <2>2, SlabNext
  <2> QED BY <2>3, <2>4, <2>5 DEF PInv
<1> QED BY <1>1, <1>2, Invariance, PTL DEF Spec

\* In every reachable state each page of the memory map is in one of the places the
\* allocators answer for: no interleaving of sys$fpage_alloc_chunk, sys$fpage_alloc_list,
\* sys$fpage_free_chunk and the carving of pages by sys$fpage_alloc_internal in the middle
\* of them, and no failure and undoing of sys$pd_create_memsection, loses one.
THEOREM NoPageLost == Spec => []NothingLost
<1>1. PInv => NothingLost
  BY DEF PInv
<1> QED BY <1>1, OwnersInvariance, PTL

\* Between calls, whatever was handed out belongs to a memsection or to a slab pool: the
\* error paths of sys$pd_create_memsection and sys$fpage_alloc_list leave nothing behind.
THEOREM NoOrphansLeft == Spec => []NoOrphan
<1>1. IInv /\ PInv => NoOrphan
  <2> SUFFICES ASSUME IInv, PInv, pc = "idle" PROVE NoOrphan
    BY DEF NoOrphan
  <2>1. ~Growing /\ Control /\ OwnInv /\ pc \notin Halts
    BY DEF IInv, GrowInv, PInv, Halts
  <2>2. \A a \in Allocs : GrowPages(a) = {}
    BY <2>1 DEF Growing, GrowPages, Carved
  <2>3. op.list = {} /\ ~OwnsChunk /\ pending["vm"] = {} /\ pending["pm"] = {}
    BY <2>1 DEF Control, OpInv, BootInv, OwnsChunk, HasChunk, Freeing
  <2>4. \A a \in Allocs : CallOwns(a) = {} /\ Pend(a) = {}
    BY <2>3 DEF CallOwns, Pend, Allocs
  <2>5. \A a \in Allocs : used[a] = SectionRegions(a) \union PoolPages(a)
    BY <2>1, <2>2, <2>4 DEF OwnInv, OwnIn, Lasting
  <2>6. used["vm"] = SectionRegions("vm") \union PoolPages("vm")
        /\ used["pm"] = SectionRegions("pm") \union PoolPages("pm")
    BY <2>5 DEF Allocs
  <2>7. /\ PoolPages("vm") = {[base |-> p.virt, size |-> 1] : p \in UNION {pools[c] : c \in Caches}}
        /\ PoolPages("pm") = {[base |-> p.phys, size |-> 1] : p \in UNION {pools[c] : c \in Caches}}
    BY DEF PoolPages, Of, Page
  <2> QED BY <2>6, <2>7 DEF NoOrphan, SectionRegions
<1> QED BY <1>1, OwnersInvariance, PTL

\* The fpages that back a memsection cover its range once, in whatever sizes the free
\* lists had them (sys$fpage_alloc_list).
THEOREM BackingTiles == Spec => []Backed
<1>1. IInv /\ PInv => Backed
  <2> SUFFICES ASSUME IInv, PInv, NEW s \in sections, s.flags = "normal"
               PROVE  /\ \A e \in s.list : e.virt % e.fpage.size = 0
                      /\ \A p \in s.base .. EndOf(s) - 1 :
                           Cardinality({e \in s.list : e.virt <= p /\ p < e.virt + e.fpage.size}) = 1
                      /\ \A e \in s.list : s.base <= e.virt /\ e.virt + e.fpage.size <= EndOf(s)
    BY DEF Backed
  <2>1. Tiled(s.list, s.base, EndOf(s))
    BY DEF PInv, BackInv
  <2>2. /\ s.base \in Nat /\ EndOf(s) \in Nat
        /\ \A e \in s.list : e.virt \in Nat /\ e.fpage.size \in Nat \ {0}
    <3>1. s \in [flags : Flags, base : Nat, size : Nat \ {0}, list : PhysList]
      BY DEF IInv, TypeOK
    <3>2. s.base \in Nat /\ s.size \in Nat /\ s.list \in PhysList
      BY <3>1
    <3>3. \A e \in s.list : e \in [virt : Nat, fpage : Fpage]
      BY <3>2 DEF PhysList
    <3>4. \A e \in s.list : e.virt \in Nat /\ e.fpage.size \in Nat \ {0}
      BY <3>3, SizesAssumption DEF Fpage
    <3> QED BY <3>2, <3>4 DEF EndOf
  <2>3. ASSUME NEW p \in s.base .. EndOf(s) - 1
        PROVE  Cardinality({e \in s.list : e.virt <= p /\ p < e.virt + e.fpage.size}) = 1
    <3>1. PICK e \in s.list : Over(e, p)
      BY <2>1 DEF Tiled
    <3>2. \A d \in s.list : d # e => ~Over(d, p)
      BY <2>1, <2>2, <3>1 DEF Tiled, Over
    <3>3. {d \in s.list : d.virt <= p /\ p < d.virt + d.fpage.size} = {e}
      BY <3>1, <3>2 DEF Over
    <3> QED BY <3>3, FS_Singleton
  <2> QED BY <2>1, <2>3 DEF Tiled
<1> QED BY <1>1, OwnersInvariance, PTL

\* Between calls every slab of fp_cache is free or the node of one fpage, and every slab
\* of ms_cache is free or the node of one memsection or pool: no error path leaks a node
\* or returns one twice.
THEOREM SlabsAlwaysBalance == Spec => []SlabsBalance
<1>1. IInv /\ PInv => SlabsBalance
  <2> SUFFICES ASSUME IInv, PInv, pc = "idle"
               PROVE  /\ slabs["fp"] + Cardinality(flist["vm"]) + Cardinality(flist["pm"])
                           + Cardinality(Backing) = PerPool["fp"] * Cardinality(pools["fp"])
                      /\ slabs["ms"] + Cardinality(sections) + Cardinality(pools["fp"])
                           + Cardinality(pools["bt"]) = PerPool["ms"] * Cardinality(pools["ms"])
    BY DEF SlabsBalance, Backing
  <2>1. TypeOK /\ FiniteInv /\ FpBalance /\ MsBalance /\ OpInv
    BY DEF IInv, PInv, SlabInv, Control, Halts
  <2>2. op.list = {} /\ ~Limbo /\ ~WithNode
    BY <2>1 DEF OpInv, Limbo, WithNode, Freeing, Halts
  <2>3. Cardinality(op.list) = 0
    BY <2>2, FS_EmptySet
  <2>4. /\ slabs["fp"] \in Nat /\ slabs["ms"] \in Nat /\ Cardinality(Backing) \in Nat
        /\ Cardinality(sections) \in Nat /\ Cardinality(pools["fp"]) \in Nat
        /\ Cardinality(pools["bt"]) \in Nat
        /\ Cardinality(flist["vm"]) \in Nat /\ Cardinality(flist["pm"]) \in Nat
    BY <2>1, CountsNat DEF Caches, Allocs
  <2> QED BY <2>1, <2>2, <2>3, <2>4 DEF FpBalance, MsBalance, FreeNodes
<1> QED BY <1>1, OwnersInvariance, PTL

-----------------------------------------------------------------------------
(***************************************************************************)
(* The walk of sys$fpage_remove_chunk                                      *)
(*                                                                         *)
(* The loop frees pages between reading a node ahead and following it, and *)
(* freeing may grow fp_cache, which carves a page from the smallest fpage of*)
(* the very lists that are walked.  The node ahead survives because it is  *)
(* never that fpage.  The conjuncts of WInv say why:                       *)
(*   - AheadInv: while an fpage is cut up, either fp_cache has a slab, since*)
(*     the node of the fpage taken was freed first, or a smaller page has  *)
(*     been put on the lists by then;                                      *)
(*   - TwinInv: two fpages of one size are larger than the internal region,*)
(*     so that what is flushed from it is smaller than the node ahead (a   *)
(*     split keeps this: HalfInv);                                         *)
(*   - FlushInv, CacheInv, ReturnInv: where the region is flushed, which   *)
(*     cache grows where and where the routines return to;                 *)
(*   - WalkInv: the node ahead is on the list that is walked.              *)
(* WalkTypes is all it needs of the types: the theorem holds whatever the  *)
(* segments overlap, also where the lists are no longer disjoint.          *)
(***************************************************************************)

IntPages == [base : Int, size : Int]

\* What the walk needs of the types: they hold whatever the segments overlap.
WalkTypes ==
  /\ mem \in MemInfos
  /\ \A a \in Allocs : pending[a] \subseteq DOMAIN mem.regions[a]
  /\ flist \in [Allocs -> SUBSET [base : Int, size : FpageSizes]]
  /\ internal \in [Allocs -> [base : Int, end : Int, active : BOOLEAN]]
  /\ slabs \in [Caches -> Nat]
  /\ grow \in [Caches -> [stage : Stages, virt : Int, phys : Int]]
  /\ al \in Allocs
  /\ hand \in IntPages
  /\ op \in [flags : Flags, size : Int, at : Int, cur : Int, want : Int,
             list : SUBSET [virt : Int, fpage : IntPages], bt : Int]
  /\ scan \in [size : Nat, node : IntPages, tmp : IntPages, seen : SUBSET IntPages, fpage : IntPages]

\* Which cache grows where: ms_cache for a new memsection or inside one of the others.
CacheInv ==
  /\ grow["bt"].stage # "none" => pc \in {"insert"} \union Halts
  /\ grow["fp"].stage # "none" => pc \in {"node", "lnode", "split"} \union Halts
  /\ grow["ms"].stage # "none" => \/ pc \in {"new"} \union Halts
                                  \/ grow["fp"].stage = "node"
                                  \/ grow["bt"].stage = "node"

\* Where the fpage routines return to.
ReturnInv ==
  /\ ret \in {"idle", "fail", "back", "undone", "boot_pm_rest", "boot_vm_rest", "chunk",
              "lnode", "above", "scan"}
  /\ pc \in {"alloc", "split"} => ret \in {"chunk", "lnode"}
  /\ pc \in Freeing => ret \notin {"chunk", "lnode"}

\* The pages of the internal region of vm_alloc, and where it is being flushed.
Room     == internal["vm"].end - internal["vm"].base
Flushing == pc \in {"load", "clear", "node"} /\ al = "vm"

\* Two fpages of a size are bigger than the internal region, since that was carved from
\* the smallest.
TwinInv ==
  pc \notin Halts /\ ~Flushing =>
    \A p, q \in flist["vm"] : p # q /\ p.size = q.size => p.size > Room

\* A split makes no second fpage of a size.
HalfInv ==
  pc = "split" /\ al = "vm" => \A p \in flist["vm"] : ~(op.want <= p.size /\ p.size < hand.size)

\* The region is there when fp_cache begins to grow for one of its pages.
FlushInv ==
  /\ ~internal["vm"].active => internal["vm"].base >= internal["vm"].end
  /\ pc = "boot_vm" => flist["vm"] = {}
  /\ (pc = "node" /\ al = "vm" /\ grow["fp"].stage = "virt") => internal["vm"].active
  /\ (pc = "node" /\ al = "vm" /\ grow["fp"].stage = "none" /\ slabs["fp"] = 0) => internal["vm"].active

\* The points at which the walk cuts an fpage up, the latter ones with node already moved on.
Cutting  == pc \in {"below", "above"} \/ (pc \in Freeing /\ ret = "above")
Resuming == pc \in Freeing /\ ret = "scan"

\* The node the walk goes on with.
Ahead == IF Cutting THEN scan.tmp ELSE scan.node

WalkInv ==
  pc = "scan" \/ Cutting \/ Resuming =>
    /\ op.flags = "fixed"
    /\ pc \in Freeing => al = "vm"
    /\ Ahead = NoPages \/ (Ahead \in flist["vm"] /\ Ahead.size = scan.size)
    /\ Cutting => scan.fpage.size = scan.size /\ scan.size > 0 /\ Touches(scan.fpage)

\* Either fp_cache will not grow before another page is on the lists, or there is a page
\* smaller than those of the list that is walked.
Ready == \/ slabs["fp"] > 0 /\ grow["fp"].stage = "none"
         \/ grow["fp"].stage = "node" /\ grow["ms"].stage \in {"phys", "node"}
         \/ grow["fp"].stage = "node" /\ grow["ms"].stage = "none" /\ slabs["ms"] > 0

AheadInv ==
  (Cutting \/ Resuming) /\ Ahead # NoPages =>
    /\ Room < scan.size
    /\ pc \in Freeing => hand.size < scan.size
    /\ Ready \/ \E p \in flist["vm"] : p.size < scan.size

WInv == WalkTypes /\ CacheInv /\ ReturnInv /\ TwinInv /\ HalfInv /\ FlushInv /\ WalkInv /\ AheadInv
-----------------------------------------------------------------------------
(***************************************************************************)
(* Types                                                                   *)
(***************************************************************************)

\* What sys$fpage_alloc_internal carves from.
LEMMA SourcePages ==
  ASSUME WalkTypes, NEW a \in Allocs, NEW r \in Sources(a)
  PROVE  /\ r \in IntPages /\ r.size > 0
         /\ internal[a].active => /\ r.base = internal[a].base /\ EndOf(r) = internal[a].end
         /\ ~internal[a].active => r \in flist[a] /\ \A f \in flist[a] : r.size <= f.size
<1>1. CASE internal[a].active
  <2>1. r \in InternalRegion(a)
    BY <1>1 DEF Sources
  <2> QED BY <1>1, <2>1 DEF InternalRegion, WalkTypes, EndOf, IntPages
<1>2. CASE ~internal[a].active
  <2>1. r \in flist[a] /\ \A f \in flist[a] : r.size <= f.size
    BY <1>2 DEF Sources, Smallest
  <2> QED BY <1>2, <2>1, SizesAssumption DEF WalkTypes, IntPages
<1> QED BY <1>1, <1>2

\* Carving a page keeps the types.
LEMMA CarveWalkTypes ==
  ASSUME WalkTypes, NEW a \in Allocs, NEW r \in Sources(a), AllocInternal(a, r)
  PROVE  /\ flist' \in [Allocs -> SUBSET [base : Int, size : FpageSizes]]
         /\ internal' \in [Allocs -> [base : Int, end : Int, active : BOOLEAN]]
         /\ slabs' \in [Caches -> Nat]
<1>1. r \in IntPages
  BY SourcePages
<1>2. internal' \in [Allocs -> [base : Int, end : Int, active : BOOLEAN]]
  <2>1. r.base + 1 \in Int /\ EndOf(r) \in Int /\ (r.base + 1 < EndOf(r)) \in BOOLEAN
    BY <1>1 DEF IntPages, EndOf
  <2> QED BY <2>1 DEF AllocInternal, WalkTypes
<1>3. flist' \in [Allocs -> SUBSET [base : Int, size : FpageSizes]]
  BY DEF AllocInternal, WalkTypes
<1>4. slabs' \in [Caches -> Nat]
  BY DEF AllocInternal, WalkTypes, Caches
<1> QED BY <1>2, <1>3, <1>4

\* The steps of a growing cache keep the types.
LEMMA GrowWalkTypes ==
  ASSUME WalkTypes, UNCHANGED scan, NEW c \in Caches,
         \/ StartGrow(c) \/ GrowVirt(c) \/ GrowPhys(c) \/ GrowNode(c)
         \/ \E a \in Allocs : GrowFails(c, a)
  PROVE  WalkTypes'
<1>1. CASE StartGrow(c)
  <2>1. grow' \in [Caches -> [stage : Stages, virt : Int, phys : Int]]
    BY <1>1 DEF StartGrow, WalkTypes, Stages
  <2> QED BY <1>1, <2>1 DEF StartGrow, WalkTypes, memory, booting
<1>2. CASE GrowVirt(c)
  <2>1. PICK r \in Sources("vm") : /\ AllocInternal("vm", r)
                                   /\ grow' = [grow EXCEPT ![c].stage = "phys", ![c].virt = r.base]
    BY <1>2 DEF GrowVirt
  <2>2. "vm" \in Allocs /\ r.base \in Int
    BY SourcePages DEF Allocs, IntPages
  <2>3. grow' \in [Caches -> [stage : Stages, virt : Int, phys : Int]]
    <3>1. grow \in [Caches -> [stage : Stages, virt : Int, phys : Int]]
      BY DEF WalkTypes
    <3>2. "phys" \in Stages /\ "node" \in Stages
      BY DEF Stages
    <3> QED BY <2>1, <2>2, <3>1, <3>2
  <2> QED BY <1>2, <2>1, <2>2, <2>3, CarveWalkTypes DEF GrowVirt, WalkTypes, booting
<1>3. CASE GrowPhys(c)
  <2>1. PICK r \in Sources("pm") : /\ AllocInternal("pm", r)
                                   /\ grow' = [grow EXCEPT ![c].stage = "node", ![c].phys = r.base]
    BY <1>3 DEF GrowPhys
  <2>2. "pm" \in Allocs /\ r.base \in Int
    BY SourcePages DEF Allocs, IntPages
  <2>3. grow' \in [Caches -> [stage : Stages, virt : Int, phys : Int]]
    <3>1. grow \in [Caches -> [stage : Stages, virt : Int, phys : Int]]
      BY DEF WalkTypes
    <3>2. "phys" \in Stages /\ "node" \in Stages
      BY DEF Stages
    <3> QED BY <2>1, <2>2, <3>1, <3>2
  <2> QED BY <1>3, <2>1, <2>2, <2>3, CarveWalkTypes DEF GrowPhys, WalkTypes, booting
<1>4. CASE GrowNode(c)
  <2>1. grow' \in [Caches -> [stage : Stages, virt : Int, phys : Int]]
    BY <1>4 DEF GrowNode, WalkTypes, Stages, NoGrow
  <2>2. slabs' \in [Caches -> Nat]
    BY <1>4, ParamAssumption DEF GrowNode, WalkTypes, Caches
  <2> QED BY <1>4, <2>1, <2>2 DEF GrowNode, WalkTypes, memory, booting
<1>5. CASE \E a \in Allocs : GrowFails(c, a)
  BY <1>5 DEF GrowFails, WalkTypes, memory, caches, booting
<1> QED BY <1>1, <1>2, <1>3, <1>4, <1>5

\* The steps of the fpage routines keep the types.
LEMMA FpageWalkTypes ==
  ASSUME WalkTypes, UNCHANGED scan,
         \/ Free \/ LoadInternal \/ ClearTest \/ ClearDone \/ ClearNode \/ ClearNil
         \/ AllocPick \/ AllocNil \/ SplitHalve \/ SplitDone
  PROVE  WalkTypes'
<1>1. CASE Free \/ ClearTest \/ AllocNil \/ SplitDone
  BY <1>1 DEF Free, ClearTest, AllocNil, SplitDone, WalkTypes, memory, caches, booting
<1>2. CASE LoadInternal
  <2>1. internal' \in [Allocs -> [base : Int, end : Int, active : BOOLEAN]]
    BY <1>2 DEF LoadInternal, WalkTypes, EndOf, IntPages
  <2>2. hand' \in IntPages
    BY <1>2 DEF LoadInternal, NoPages, IntPages
  <2> QED BY <1>2, <2>1, <2>2 DEF LoadInternal, WalkTypes, caches, booting
<1>3. CASE ClearDone
  <2>1. internal' \in [Allocs -> [base : Int, end : Int, active : BOOLEAN]]
    BY <1>3 DEF ClearDone, WalkTypes
  <2> QED BY <1>3, <2>1 DEF ClearDone, WalkTypes, caches, booting
<1>4. CASE ClearNode
  <2>1. PICK s \in FpageSizes :
          /\ flist' = [flist EXCEPT ![al] = @ \union {[base |-> internal[al].base, size |-> s]}]
          /\ internal' = [internal EXCEPT ![al].base = @ + s]
    BY <1>4 DEF ClearNode
  <2>2. s \in Int /\ internal[al].base \in Int
    BY SizesAssumption DEF WalkTypes
  <2>3. internal' \in [Allocs -> [base : Int, end : Int, active : BOOLEAN]]
    BY <2>1, <2>2 DEF WalkTypes
  <2>4. flist' \in [Allocs -> SUBSET [base : Int, size : FpageSizes]]
    BY <2>1, <2>2 DEF WalkTypes
  <2>5. slabs' \in [Caches -> Nat]
    BY <1>4 DEF ClearNode, WalkTypes, Caches
  <2> QED BY <1>4, <2>3, <2>4, <2>5 DEF ClearNode, WalkTypes, booting
<1>5. CASE ClearNil
  <2>1. slabs' \in [Caches -> Nat]
    BY <1>5 DEF ClearNil, WalkTypes, Caches
  <2> QED BY <1>5, <2>1 DEF ClearNil, WalkTypes, memory, booting
<1>6. CASE AllocPick
  <2>1. PICK f \in flist[al] : hand' = f /\ flist' = [flist EXCEPT ![al] = @ \ {f}]
    BY <1>6 DEF AllocPick, Candidates
  <2>2. hand' \in IntPages
    <3>1. f \in [base : Int, size : FpageSizes] /\ \A s \in FpageSizes : s \in Int
      BY <2>1, SizesAssumption DEF WalkTypes
    <3> QED BY <2>1, <3>1 DEF IntPages
  <2>3. flist' \in [Allocs -> SUBSET [base : Int, size : FpageSizes]]
    BY <2>1 DEF WalkTypes
  <2>4. slabs' \in [Caches -> Nat]
    BY <1>6 DEF AllocPick, WalkTypes, Caches
  <2> QED BY <1>6, <2>2, <2>3, <2>4 DEF AllocPick, WalkTypes, booting
<1>7. CASE SplitHalve
  <2>1. PICK h \in FpageSizes : /\ hand.size = 2 * h
                                /\ hand' = [hand EXCEPT !.size = h]
                                /\ flist' = [flist EXCEPT ![al] = @ \union {Buddy(hand')}]
    BY <1>7 DEF SplitHalve
  <2>2. hand' = [base |-> hand.base, size |-> h] /\ h \in Nat \ {0} /\ hand.base \in Int
    BY <2>1, SizesAssumption DEF WalkTypes, IntPages
  <2> DEFINE b == IF (hand.base \div h) % 2 = 0 THEN hand.base + h ELSE hand.base - h
  <2>3. b \in Int /\ Buddy(hand') = [base |-> b, size |-> h]
    BY <2>2 DEF Buddy
  <2> HIDE DEF b
  <2>4. flist' \in [Allocs -> SUBSET [base : Int, size : FpageSizes]]
    BY <2>1, <2>3 DEF WalkTypes
  <2>5. slabs' \in [Caches -> Nat]
    BY <1>7 DEF SplitHalve, WalkTypes, Caches
  <2>6. hand' \in IntPages
    BY <2>2 DEF IntPages
  <2> QED BY <1>7, <2>4, <2>5, <2>6 DEF SplitHalve, WalkTypes, booting
<1> QED BY <1>1, <1>2, <1>3, <1>4, <1>5, <1>6, <1>7

\* The pages of a region of the memory map.
LEMMA MapPages ==
  ASSUME WalkTypes, NEW a \in Allocs, NEW i \in pending[a]
  PROVE  RegionAt(a, i) \in IntPages /\ EndOf(RegionAt(a, i)) \in Int
<1>1. RegionAt(a, i) \in Region
  BY RegionFacts DEF WalkTypes
<1> QED BY <1>1 DEF Region, IntPages, EndOf

\* The steps that begin a memsection keep the types.
LEMMA CallWalkTypes ==
  ASSUME WalkTypes, UNCHANGED scan,
         Create \/ CreateInternal \/ BootHeap \/ CreateFixed
  PROVE  WalkTypes'
<1>1. \E fl \in Flags, n \in Int, b \in Int : Call(fl, n, b)
  <2>1. CASE Create
    <3>1. PICK r \in Requests : Call(r.flags, r.size, 0)
      BY <2>1 DEF Create
    <3>2. r.flags \in Flags /\ r.size \in Int
      BY ParamAssumption DEF Flags
    <3> QED BY <3>1, <3>2
  <2>2. CASE CreateInternal
    <3>1. PICK o \in mem.objects : Call("internal", o.size, o.base)
      BY <2>2 DEF CreateInternal
    <3>2. o \in Region
      BY MapsAssumption DEF WalkTypes
    <3> QED BY <3>1, <3>2 DEF Region, Flags
  <2>3. CASE BootHeap
    BY <2>3, ParamAssumption DEF BootHeap, Flags
  <2>4. CASE CreateFixed
    <3>1. PICK r \in FixedRequests : Call("fixed", r.size, r.base)
      BY <2>4 DEF CreateFixed
    <3> QED BY <3>1, FixedAssumption DEF Region, Flags
  <2> QED BY <2>1, <2>2, <2>3, <2>4
<1>2. op' \in [flags : Flags, size : Int, at : Int, cur : Int, want : Int,
               list : SUBSET [virt : Int, fpage : IntPages], bt : Int]
  <2>1. PICK fl \in Flags, n \in Int, b \in Int : Call(fl, n, b)
    BY <1>1
  <2>2. op' = [flags |-> fl, size |-> n, at |-> b, cur |-> 0, want |-> 0, list |-> {}, bt |-> 0]
    BY <2>1 DEF Call, NoOp
  <2> QED BY <2>2
<1>3. UNCHANGED <<memory, caches, booting, al, hand>>
  BY DEF Create, CreateInternal, BootHeap, CreateFixed
<1> QED BY <1>2, <1>3 DEF WalkTypes, memory, caches, booting

\* The other steps of a creation keep the types.
LEMMA OpWalkTypes ==
  ASSUME WalkTypes, UNCHANGED scan,
         \/ New \/ NewFixed \/ ChunkShort \/ ChunkTrim \/ Back \/ ListNext \/ ListDone
         \/ ListNode \/ UndoOne \/ UndoNode \/ UndoDone \/ InsertPage \/ InsertDone \/ Fail
         \/ BackFixed \/ FixedDone \/ FixedUndone
  PROVE  WalkTypes'
<1> DEFINE OpType == [flags : Flags, size : Int, at : Int, cur : Int, want : Int,
                      list : SUBSET [virt : Int, fpage : IntPages], bt : Int]
<1>0. /\ op \in OpType /\ hand \in IntPages /\ slabs \in [Caches -> Nat]
      /\ mem \in MemInfos /\ al \in Allocs
  BY DEF WalkTypes
<1>1. CASE New \/ ListNext
  <2>1. \E n \in Int : op' = op \/ op' = [op EXCEPT !.want = n]
    BY <1>0, <1>1, SizesAssumption DEF New, ListNext, CallAlloc
  <2>2. op' \in OpType
    BY <1>0, <2>1
  <2>3. al' \in Allocs /\ hand' \in IntPages
    BY <1>0, <1>1 DEF New, ListNext, CallAlloc, NoPages, IntPages, Allocs
  <2>4. slabs' \in [Caches -> Nat]
    BY <1>0, <1>1 DEF New, ListNext, caches, Caches
  <2> QED BY <1>1, <2>2, <2>3, <2>4 DEF New, ListNext, WalkTypes, memory, caches, booting
<1>2. CASE NewFixed \/ UndoNode
  <2>1. slabs' \in [Caches -> Nat]
    BY <1>0, <1>2 DEF NewFixed, UndoNode, Caches
  <2> QED BY <1>2, <2>1 DEF NewFixed, UndoNode, WalkTypes, memory, booting
<1>3. CASE ChunkShort
  BY <1>3 DEF ChunkShort, CallFree, WalkTypes, Allocs, memory, caches, booting
<1>4. CASE ChunkTrim
  <2>1. op' \in OpType
    BY <1>0, <1>4 DEF ChunkTrim, IntPages
  <2>2. hand' \in IntPages /\ al' \in Allocs
    BY <1>0, <1>4 DEF ChunkTrim, CallFree, NoPages, IntPages, Allocs
  <2> QED BY <1>4, <2>1, <2>2 DEF ChunkTrim, WalkTypes, caches, booting
<1>5. CASE Back \/ ListDone
  BY <1>5 DEF Back, ListDone, WalkTypes, memory, caches, booting
<1>6. CASE ListNode
  <2>1. op' \in OpType
    <3>1. /\ op' = [op EXCEPT !.list = @ \union {[virt |-> op.cur, fpage |-> hand]},
                             !.cur = @ + hand.size]
          /\ hand.size \in Int /\ op.cur \in Int
      BY <1>0, <1>6 DEF ListNode, IntPages
    <3>2. /\ op.list \union {[virt |-> op.cur, fpage |-> hand]}
               \in SUBSET [virt : Int, fpage : IntPages]
          /\ op.cur + hand.size \in Int
      BY <1>0, <3>1
    <3> QED BY <1>0, <3>1, <3>2
  <2>2. hand' \in IntPages
    BY <1>6 DEF ListNode, NoPages, IntPages
  <2>3. slabs' \in [Caches -> Nat]
    BY <1>0, <1>6 DEF ListNode, Caches
  <2> QED BY <1>6, <2>1, <2>2, <2>3 DEF ListNode, WalkTypes, booting
<1>7. CASE UndoOne
  <2>1. op' \in OpType
    BY <1>0, <1>7 DEF UndoOne
  <2>2. hand' \in IntPages /\ al' \in Allocs
    BY <1>0, <1>7 DEF UndoOne, CallFree, Allocs
  <2> QED BY <1>7, <2>1, <2>2 DEF UndoOne, WalkTypes, caches, booting
<1>8. CASE UndoDone \/ FixedUndone
  <2>1. hand' \in IntPages /\ al' \in Allocs
    BY <1>0, <1>8 DEF UndoDone, FixedUndone, CallFree, Segment, IntPages, Allocs
  <2> QED BY <1>8, <2>1 DEF UndoDone, FixedUndone, WalkTypes, caches, booting
<1>9. CASE InsertPage
  <2>1. op' \in OpType
    BY <1>0, <1>9 DEF InsertPage
  <2>2. slabs' \in [Caches -> Nat]
    BY <1>0, <1>9 DEF InsertPage, Caches
  <2> QED BY <1>9, <2>1, <2>2 DEF InsertPage, WalkTypes, memory, booting
<1>10. CASE InsertDone \/ FixedDone \/ Fail
  <2>1. op' \in OpType
    BY <1>10 DEF InsertDone, FixedDone, Fail, NoOp, Flags
  <2>2. slabs' \in [Caches -> Nat]
    BY <1>0, <1>10 DEF InsertDone, FixedDone, Fail, caches, Caches
  <2> QED BY <1>10, <2>1, <2>2 DEF InsertDone, FixedDone, Fail, WalkTypes, memory, caches,
             booting
<1>11. CASE BackFixed
  <2>1. op' \in OpType
    BY <1>0, <1>11 DEF BackFixed
  <2> QED BY <1>11, <2>1 DEF BackFixed, WalkTypes, memory, caches, booting
<1> QED BY <1>1, <1>2, <1>3, <1>4, <1>5, <1>6, <1>7, <1>8, <1>9, <1>10, <1>11

\* The steps of sys$bootstrap keep the types.
LEMMA BootWalkTypes ==
  ASSUME WalkTypes, UNCHANGED scan,
         \/ BootVm \/ BootVmNone \/ BootPm \/ BootPanic
         \/ BootRest("pm", "boot_pm_rest", "boot_vm_clear") \/ BootVmClear
         \/ BootRest("vm", "boot_vm_rest", "boot_heap") \/ PdInit
  PROVE  WalkTypes'
<1>1. CASE BootVmNone \/ BootPanic \/ BootVmClear \/ PdInit
  BY <1>1 DEF BootVmNone, BootPanic, BootVmClear, PdInit, WalkTypes, Allocs, memory, caches,
     booting
<1>2. ASSUME NEW a \in Allocs, NEW i \in pending[a], TakeRegion(a, i), mem' = mem
      PROVE  \A b \in Allocs : pending'[b] \subseteq DOMAIN mem'.regions[b]
  BY <1>2 DEF TakeRegion, WalkTypes
<1>3. ASSUME NEW a \in Allocs, NEW i \in pending[a], TakeRegion(a, i), NEW l,
             CallFree(a, RegionAt(a, i), l),
             UNCHANGED <<mem, vms_pd_initialized, flist, internal, caches, op, sections>>
      PROVE  WalkTypes'
  <2>1. hand' \in IntPages /\ al' \in Allocs
    BY <1>3, MapPages DEF CallFree
  <2> QED BY <1>2, <1>3, <2>1 DEF WalkTypes, caches
<1>4. CASE BootVm
  <2>1. PICK i \in pending["vm"] :
          /\ TakeRegion("vm", i)
          /\ internal' = [internal EXCEPT !["vm"] =
                            [base |-> RegionAt("vm", i).base, end |-> EndOf(RegionAt("vm", i)),
                             active |-> TRUE]]
    BY <1>4 DEF BootVm
  <2>2. /\ "vm" \in Allocs /\ RegionAt("vm", i).base \in Int
        /\ EndOf(RegionAt("vm", i)) \in Int
    BY MapPages DEF Allocs, IntPages
  <2>3. internal' \in [Allocs -> [base : Int, end : Int, active : BOOLEAN]]
    BY <2>1, <2>2 DEF WalkTypes
  <2> QED BY <1>2, <1>4, <2>1, <2>2, <2>3 DEF BootVm, WalkTypes, caches
<1>5. CASE BootPm
  <2>1. PICK i \in pending["pm"] : TakeRegion("pm", i) /\ CallFree("pm", RegionAt("pm", i), "boot_pm_rest")
    BY <1>5 DEF BootPm
  <2> QED BY <1>3, <1>5, <2>1 DEF BootPm, Allocs
<1>6. ASSUME NEW a \in Allocs, NEW l, NEW d, BootRest(a, l, d) PROVE WalkTypes'
  <2>1. CASE pending[a] = {}
    BY <1>6, <2>1 DEF BootRest, WalkTypes, caches
  <2>2. CASE pending[a] # {}
    <3>1. PICK i \in pending[a] : TakeRegion(a, i) /\ CallFree(a, RegionAt(a, i), l)
      BY <1>6, <2>2 DEF BootRest
    <3> QED BY <1>3, <1>6, <3>1 DEF BootRest
  <2> QED BY <2>1, <2>2
<1> QED BY <1>1, <1>4, <1>5, <1>6 DEF Allocs

\* The steps of the walk keep the types.
LEMMA ScanWalkTypes ==
  ASSUME WalkTypes,
         \/ InsertedFixed \/ ScanList \/ ScanDone \/ ScanKeep \/ ScanTake
         \/ ExtraBelow \/ ExtraAbove
  PROVE  WalkTypes'
<1> DEFINE ScanType == [size : Nat, node : IntPages, tmp : IntPages, seen : SUBSET IntPages,
                        fpage : IntPages]
<1>0. /\ scan \in ScanType /\ NoPages \in IntPages /\ hand \in IntPages /\ al \in Allocs
      /\ \A f \in flist["vm"] : f \in IntPages
      /\ op.at \in Int /\ op.size \in Int /\ "vm" \in Allocs
  <2>1. \A f \in flist["vm"] : f \in [base : Int, size : FpageSizes]
    BY DEF WalkTypes, Allocs
  <2>2. \A s \in FpageSizes : s \in Int
    BY SizesAssumption
  <2> QED BY <2>1, <2>2 DEF WalkTypes, NoPages, IntPages, Allocs
<1>1. \A s, S : \A f \in NextNodes(Behind(s, S)) : f \in IntPages
  BY <1>0 DEF NextNodes, Behind
<1>2. CASE InsertedFixed
  <2>1. scan' \in ScanType
    BY <1>0, <1>2 DEF InsertedFixed, NoScan
  <2> QED BY <1>2, <2>1 DEF InsertedFixed, WalkTypes, memory, caches, booting
<1>3. CASE ScanList
  <2>1. PICK s \in FpageSizes, f \in IntPages : scan' = [NoScan EXCEPT !.size = s, !.node = f]
    BY <1>1, <1>3 DEF ScanList
  <2>2. scan' \in ScanType
    BY <1>0, <2>1, SizesAssumption DEF NoScan
  <2> QED BY <1>3, <2>2 DEF ScanList, WalkTypes, vars
<1>4. CASE ScanDone
  BY <1>4 DEF ScanDone, WalkTypes, memory, caches, booting, fixed
<1>5. CASE ScanKeep
  <2>1. PICK f \in IntPages : scan' = [scan EXCEPT !.node = f, !.seen = @ \union {scan.node}]
    BY <1>1, <1>5 DEF ScanKeep, Tmp
  <2>2. scan' \in ScanType
    BY <1>0, <2>1
  <2> QED BY <1>5, <2>2 DEF ScanKeep, WalkTypes, vars
<1>6. CASE ScanTake
  <2>1. PICK f \in IntPages :
          scan' = [scan EXCEPT !.tmp = f, !.seen = @ \union {scan.node}, !.fpage = scan.node]
    BY <1>1, <1>6 DEF ScanTake, Tmp
  <2>2. scan' \in ScanType
    BY <1>0, <2>1
  <2>3. flist' \in [Allocs -> SUBSET [base : Int, size : FpageSizes]]
    BY <1>6 DEF ScanTake, WalkTypes
  <2>4. slabs' \in [Caches -> Nat]
    <3>1. slabs' = [slabs EXCEPT !["fp"] = @ + 1] /\ slabs \in [Caches -> Nat]
      BY <1>6 DEF ScanTake, WalkTypes
    <3> QED BY <3>1 DEF Caches
  <2> QED BY <1>6, <2>2, <2>3, <2>4 DEF ScanTake, WalkTypes, booting
<1>7. CASE ExtraBelow
  <2>1. hand' \in IntPages /\ al' \in Allocs
    BY <1>0, <1>7 DEF ExtraBelow, CallFree, IntPages
  <2> QED BY <1>7, <2>1 DEF ExtraBelow, WalkTypes, caches, booting, fixed
<1>8. CASE ExtraAbove
  <2>1. hand' \in IntPages /\ al' \in Allocs
    BY <1>0, <1>8 DEF ExtraAbove, CallFree, Above, EndOf, IntPages
  <2>2. scan' \in ScanType
    BY <1>0, <1>8 DEF ExtraAbove
  <2> QED BY <1>8, <2>1, <2>2 DEF ExtraAbove, WalkTypes, caches, booting
<1> QED BY <1>2, <1>3, <1>4, <1>5, <1>6, <1>7, <1>8

-----------------------------------------------------------------------------
(***************************************************************************)
(* The node ahead                                                          *)
(***************************************************************************)

\* A step between the fpage routines changes nothing the walk depends on.
LEMMA CalmKeeps ==
  ASSUME WInv, ~Growing, flist' = flist, internal' = internal, grow' = grow,
         pc \notin {"load", "clear", "node"} \union Halts,
         pc' \notin {"split", "node", "scan", "below", "above", "boot_vm", "load"},
         pc' \in Freeing => ret' \notin {"above", "scan", "chunk", "lnode"},
         pc' = "alloc" => ret' \in {"chunk", "lnode"},
         ret' \in {"idle", "fail", "back", "undone", "boot_pm_rest", "boot_vm_rest", "chunk",
                   "lnode", "above", "scan"}
  PROVE  /\ CacheInv' /\ ReturnInv' /\ TwinInv' /\ HalfInv' /\ FlushInv' /\ WalkInv' /\ AheadInv'
<1>1. CacheInv'
  BY DEF CacheInv, Growing, Caches
<1>2. ReturnInv'
  BY DEF ReturnInv
<1>3. TwinInv'
  BY DEF WInv, TwinInv, Room, Flushing
<1>4. HalfInv' /\ FlushInv'
  BY DEF WInv, HalfInv, FlushInv
<1>5. ~(pc' = "scan" \/ Cutting' \/ Resuming')
  BY DEF Cutting, Resuming, Freeing
<1>6. WalkInv' /\ AheadInv'
  BY <1>5 DEF WalkInv, AheadInv
<1> QED BY <1>1, <1>2, <1>3, <1>4, <1>6

\* The steps of a creation and of the boot that call no fpage routine or begin one.
LEMMA CalmSteps ==
  ASSUME WInv,
         \/ Create \/ CreateInternal \/ BootHeap \/ CreateFixed
         \/ New \/ NewFixed \/ ChunkShort \/ ChunkTrim \/ Back \/ ListNext \/ ListDone
         \/ ListNode \/ UndoOne \/ UndoNode \/ UndoDone \/ InsertPage \/ InsertDone \/ Fail
         \/ BackFixed \/ FixedDone \/ FixedUndone \/ AllocNil \/ ScanDone
         \/ BootVmNone \/ BootPm \/ BootPanic \/ PdInit \/ BootVmClear
         \/ BootRest("pm", "boot_pm_rest", "boot_vm_clear")
         \/ BootRest("vm", "boot_vm_rest", "boot_heap")
  PROVE  /\ CacheInv' /\ ReturnInv' /\ TwinInv' /\ HalfInv' /\ FlushInv' /\ WalkInv' /\ AheadInv'
<1> DEFINE Calm == /\ ~Growing /\ flist' = flist /\ internal' = internal /\ grow' = grow
                   /\ pc \notin {"load", "clear", "node"} \union Halts
                   /\ pc' \notin {"split", "node", "scan", "below", "above", "boot_vm", "load"}
                   /\ pc' \in Freeing => ret' \notin {"above", "scan", "chunk", "lnode"}
                   /\ pc' = "alloc" => ret' \in {"chunk", "lnode"}
                   /\ ret' \in {"idle", "fail", "back", "undone", "boot_pm_rest",
                                "boot_vm_rest", "chunk", "lnode", "above", "scan"}
<1> SUFFICES Calm
  BY CalmKeeps
<1>0. ReturnInv
  BY DEF WInv
<1> USE <1>0 DEF At, Halts, Freeing, ReturnInv, memory, caches
<1>1. CASE Create \/ CreateInternal \/ BootHeap \/ CreateFixed
  BY <1>1 DEF Create, CreateInternal, BootHeap, CreateFixed, Call
<1>2. CASE New \/ ListNext
  BY <1>2 DEF New, ListNext, CallAlloc
<1>3. CASE NewFixed \/ InsertPage \/ UndoNode \/ Fail
  BY <1>3 DEF NewFixed, InsertPage, UndoNode, Fail
<1>4. CASE ChunkShort \/ UndoOne \/ UndoDone \/ FixedUndone
  BY <1>4 DEF ChunkShort, UndoOne, UndoDone, FixedUndone, CallFree
<1>5. CASE ChunkTrim
  BY <1>5 DEF ChunkTrim, CallFree
<1>6. CASE Back \/ ListDone \/ ListNode \/ InsertDone \/ BackFixed \/ FixedDone \/ AllocNil \/ ScanDone
  BY <1>6 DEF Back, ListDone, ListNode, InsertDone, BackFixed, FixedDone, AllocNil, ScanDone
<1>7. CASE BootVmNone \/ BootPanic \/ PdInit \/ BootVmClear
  BY <1>7 DEF BootVmNone, BootPanic, PdInit, BootVmClear
<1>8. CASE BootPm
  BY <1>8 DEF BootPm, CallFree
<1>9. CASE \/ BootRest("pm", "boot_pm_rest", "boot_vm_clear")
           \/ BootRest("vm", "boot_vm_rest", "boot_heap")
  BY <1>9 DEF BootRest, CallFree
<1> QED BY <1>1, <1>2, <1>3, <1>4, <1>5, <1>6, <1>7, <1>8, <1>9

\* The first virtual region becomes the internal region before there is a list.
LEMMA BootVmKeeps ==
  ASSUME WInv, BootVm
  PROVE  /\ CacheInv' /\ ReturnInv' /\ TwinInv' /\ HalfInv' /\ FlushInv' /\ WalkInv' /\ AheadInv'
<1>1. /\ flist' = flist /\ flist["vm"] = {} /\ pc' = "boot_pm" /\ grow' = grow /\ ret' = ret
      /\ ~Growing
  BY DEF WInv, FlushInv, BootVm, At, caches
<1>2. internal'["vm"].active
  BY DEF WInv, WalkTypes, BootVm, Allocs
<1>3. CacheInv' /\ ReturnInv'
  BY <1>1 DEF CacheInv, ReturnInv, WInv, Growing, Caches, Freeing
<1>4. TwinInv' /\ HalfInv' /\ FlushInv'
  BY <1>1, <1>2 DEF TwinInv, HalfInv, FlushInv
<1>5. ~(pc' = "scan" \/ Cutting' \/ Resuming')
  BY <1>1 DEF Cutting, Resuming, Freeing
<1>6. WalkInv' /\ AheadInv'
  BY <1>5 DEF WalkInv, AheadInv
<1> QED BY <1>3, <1>4, <1>6

\* Nodes of the list that is walked.
LEMMA NodesAhead ==
  ASSUME NEW s, NEW S, NEW f \in NextNodes(Behind(s, S))
  PROVE  f = NoPages \/ (f \in flist["vm"] /\ f.size = s /\ f \notin S)
BY DEF NextNodes, Behind

\* The loop goes on to another node: nothing but scan changes, or the loop begins.
LEMMA ScanKeeps ==
  ASSUME WInv, WalkTypes', InsertedFixed \/ ScanList \/ ScanKeep
  PROVE  /\ CacheInv' /\ ReturnInv' /\ TwinInv' /\ HalfInv' /\ FlushInv' /\ WalkInv' /\ AheadInv'
<1>1. /\ flist' = flist /\ internal' = internal /\ grow' = grow /\ ret' = ret /\ al' = al
      /\ ~Growing /\ pc' = "scan" /\ pc \in {"insert", "scan"} /\ op' = op
      /\ op.flags = "fixed"
  BY DEF WInv, WalkInv, InsertedFixed, ScanList, ScanKeep, At, memory, caches, vars
<1>2. CacheInv' /\ ReturnInv'
  BY <1>1 DEF CacheInv, ReturnInv, WInv, Growing, Caches, Freeing
<1>3. TwinInv' /\ HalfInv' /\ FlushInv'
  BY <1>1 DEF WInv, TwinInv, HalfInv, FlushInv, Room, Flushing, Halts
<1>4. ~Cutting' /\ ~Resuming' /\ pc' \notin Freeing
  BY <1>1 DEF Cutting, Resuming, Freeing
<1>5. scan'.node = NoPages \/ (scan'.node \in flist["vm"] /\ scan'.node.size = scan'.size)
  <2>1. CASE InsertedFixed
    BY <2>1 DEF InsertedFixed, NoScan
  <2>2. CASE ScanList
    <3>0. PICK s \in FpageSizes : \E f \in NextNodes(Behind(s, {})) :
            scan' = [NoScan EXCEPT !.size = s, !.node = f]
      BY <2>2 DEF ScanList
    <3>1. PICK f \in NextNodes(Behind(s, {})) : scan' = [NoScan EXCEPT !.size = s, !.node = f]
      BY <3>0
    <3>2. scan'.node = f /\ scan'.size = s
      BY <3>1 DEF NoScan
    <3> QED BY <3>1, <3>2, NodesAhead
  <2>3. CASE ScanKeep
    <3>1. PICK f \in NextNodes(Behind(scan.size, scan.seen \union {scan.node})) :
            scan' = [scan EXCEPT !.node = f, !.seen = @ \union {scan.node}]
      BY <2>3 DEF ScanKeep, Tmp
    <3>2. scan'.node = f /\ scan'.size = scan.size
      BY <3>1 DEF WInv, WalkTypes
    <3> QED BY <3>1, <3>2, NodesAhead
  <2> QED BY <2>1, <2>2, <2>3
<1>6. WalkInv'
  BY <1>1, <1>4, <1>5 DEF WalkInv, Ahead
<1>7. AheadInv'
  BY <1>4 DEF AheadInv
<1> QED BY <1>2, <1>3, <1>6, <1>7

\* An fpage is taken off the list, and its node is there for the first of its parts.
LEMMA ScanTakeKeeps ==
  ASSUME WInv, WalkTypes', ScanTake
  PROVE  /\ CacheInv' /\ ReturnInv' /\ TwinInv' /\ HalfInv' /\ FlushInv' /\ WalkInv' /\ AheadInv'
<1>1. /\ internal' = internal /\ grow' = grow /\ ret' = ret /\ al' = al /\ op' = op
      /\ ~Growing /\ pc = "scan" /\ pc' = "below" /\ op.flags = "fixed"
      /\ scan.node \in flist["vm"] /\ Touches(scan.node)
  BY DEF WInv, WalkInv, ScanTake, At
<1>2. /\ flist'["vm"] = flist["vm"] \ {scan.node} /\ slabs'["fp"] = slabs["fp"] + 1
      /\ slabs["fp"] \in Nat
  <2>1. /\ flist' = [flist EXCEPT !["vm"] = @ \ {scan.node}]
        /\ slabs' = [slabs EXCEPT !["fp"] = @ + 1]
    BY DEF ScanTake
  <2> QED BY <2>1 DEF WInv, WalkTypes, Allocs, Caches
<1>3. scan.node # NoPages /\ scan.node.size \in Nat \ {0}
  <2>1. scan.node \in [base : Int, size : FpageSizes]
    BY <1>1 DEF WInv, WalkTypes, Allocs
  <2>2. scan.node.size \in Nat \ {0} /\ NoPages.size = 0
    BY <2>1, SizesAssumption DEF NoPages
  <2> QED BY <2>2
<1>4. scan.node.size = scan.size
  BY <1>1, <1>3 DEF WInv, WalkInv, Ahead, Cutting, Freeing
<1>5. PICK f \in NextNodes(Behind(scan.size, scan.seen \union {scan.node})) :
        scan' = [scan EXCEPT !.tmp = f, !.seen = @ \union {scan.node}, !.fpage = scan.node]
  BY DEF ScanTake, Tmp
<1>6. /\ scan'.tmp = f /\ scan'.size = scan.size /\ scan'.fpage = scan.node
      /\ f = NoPages \/ (f \in flist["vm"] /\ f # scan.node /\ f.size = scan.size)
  BY <1>5, NodesAhead DEF WInv, WalkTypes
<1>7. CacheInv' /\ ReturnInv'
  BY <1>1 DEF CacheInv, ReturnInv, WInv, Growing, Caches, Freeing
<1>8. TwinInv' /\ HalfInv' /\ FlushInv'
  BY <1>1, <1>2 DEF WInv, TwinInv, HalfInv, FlushInv, Room, Flushing, Halts
<1>9. Cutting' /\ Ahead' = f /\ pc' \notin Freeing
  BY <1>1, <1>6 DEF Cutting, Ahead, Freeing
<1>10. WalkInv'
  <2>2. Touches(scan.fpage)'
    BY <1>1, <1>6 DEF Touches, Segment, Disj, EndOf
  <2> QED BY <1>1, <1>2, <1>3, <1>4, <1>6, <1>9, <2>2 DEF WalkInv
<1>11. AheadInv'
  <2>1. f # NoPages => Room < scan.size
    BY <1>1, <1>4, <1>6 DEF WInv, TwinInv, Flushing, Halts
  <2>2. Room' = Room /\ Ready'
    BY <1>1, <1>2 DEF Room, Ready, Growing, Caches
  <2> QED BY <1>6, <1>9, <2>1, <2>2 DEF AheadInv
<1> QED BY <1>7, <1>8, <1>10, <1>11

\* What sticks out of the fpage is smaller than the fpage.
LEMMA ExtraKeeps ==
  ASSUME WInv, WalkTypes', ExtraBelow \/ ExtraAbove
  PROVE  /\ CacheInv' /\ ReturnInv' /\ TwinInv' /\ HalfInv' /\ FlushInv' /\ WalkInv' /\ AheadInv'
<1>1. /\ /\ flist' = flist /\ internal' = internal /\ grow' = grow /\ slabs' = slabs
      /\ op' = op
      /\ ~Growing /\ pc \in {"below", "above"} /\ pc' \in {"free", "above", "scan"}
      /\ pc' = "free" => al' = "vm" /\ ret' \in {"above", "scan"}
      /\ pc' # "free" => ret' = ret
  BY DEF ExtraBelow, ExtraAbove, At, caches, CallFree
<1>2. /\ /\ op.flags = "fixed" /\ scan.fpage.size = scan.size /\ Touches(scan.fpage)
      /\ scan.size > 0
      /\ scan.tmp = NoPages \/ (scan.tmp \in flist["vm"] /\ scan.tmp.size = scan.size)
  BY <1>1 DEF WInv, WalkInv, Ahead, Cutting, Freeing
<1>3. /\ scan'.size = scan.size
      /\ pc = "below" => scan' = scan /\ pc' \in {"free", "above"}
      /\ pc = "below" /\ pc' = "free" => ret' = "above"
      /\ pc = "above" => scan'.node = scan.tmp /\ pc' \in {"free", "scan"}
      /\ pc = "above" /\ pc' = "free" => ret' = "scan"
  BY DEF ExtraBelow, ExtraAbove, At, CallFree, WInv, WalkTypes, fixed
<1>4. /\ pc = "below" => (Cutting' /\ ~Resuming' /\ Ahead' = scan.tmp)
      /\ pc = "above" => (~Cutting' /\ Ahead' = scan.tmp)
  BY <1>1, <1>3 DEF Cutting, Resuming, Ahead, Freeing
<1>5. CacheInv' /\ ReturnInv'
  BY <1>1 DEF CacheInv, ReturnInv, WInv, Growing, Caches, Freeing
<1>6. TwinInv' /\ HalfInv' /\ FlushInv'
  BY <1>1 DEF WInv, TwinInv, HalfInv, FlushInv, Room, Flushing, Halts
<1>7. WalkInv'
  <2>1. pc = "below" => Touches(scan.fpage)'
    BY <1>1, <1>2, <1>3 DEF Touches, Segment, Disj, EndOf
  <2> QED BY <1>1, <1>2, <1>3, <1>4, <2>1 DEF WalkInv, Freeing
<1>8. pc' = "free" => hand'.size < scan.size
  <2>1. /\ /\ scan.fpage.base \in Int /\ scan.fpage.size \in Int /\ op.at \in Int
        /\ op.size \in Int
        /\ scan.size \in Int
    BY DEF WInv, WalkTypes, IntPages
  <2>2. scan.fpage.base + scan.fpage.size > op.at /\ op.at + op.size > scan.fpage.base
    BY <1>2, <2>1 DEF Touches, Disj, Segment, EndOf
  <2>3. ASSUME pc' = "free"
        PROVE  \/ hand'.size = op.at - scan.fpage.base
               \/ hand'.size = scan.fpage.base + scan.fpage.size - (op.at + op.size)
    <3>1. CASE ExtraBelow
      <4>1. hand' = [base |-> scan.fpage.base, size |-> op.at - scan.fpage.base]
        BY <2>3, <3>1 DEF ExtraBelow, CallFree
      <4> QED BY <4>1
    <3>2. CASE ExtraAbove
      <4>1. hand' = Above
        BY <2>3, <3>2 DEF ExtraAbove, CallFree
      <4>2. Above.size = EndOf(scan.fpage) - (op.at + op.size)
        BY DEF Above
      <4>3. EndOf(scan.fpage) = scan.fpage.base + scan.fpage.size
        BY DEF EndOf
      <4> QED BY <2>1, <4>1, <4>2, <4>3
    <3> QED BY <3>1, <3>2
  <2> QED BY <1>2, <2>1, <2>2, <2>3
<1>9. AheadInv'
  <2>1. scan.tmp # NoPages => Room < scan.size /\ (Ready \/ \E p \in flist["vm"] : p.size < scan.size)
    BY <1>1 DEF WInv, AheadInv, Cutting, Ahead
  <2>2. Room' = Room /\ (Ready' <=> Ready)
    BY <1>1 DEF Room, Ready
  <2>3. pc' \in Freeing => pc' = "free"
    BY <1>1 DEF Freeing
  <2> QED BY <1>1, <1>3, <1>4, <1>8, <2>1, <2>2, <2>3 DEF AheadInv
<1> QED BY <1>5, <1>6, <1>7, <1>9

\* The flush of the internal region begins, or the pages to be freed become it.
LEMMA FreeKeeps ==
  ASSUME WInv, UNCHANGED scan, Free \/ ClearTest \/ LoadInternal
  PROVE  /\ CacheInv' /\ ReturnInv' /\ TwinInv' /\ HalfInv' /\ FlushInv' /\ WalkInv' /\ AheadInv'
<1>1. /\ /\ flist' = flist /\ grow' = grow /\ slabs' = slabs /\ op' = op /\ ret' = ret
      /\ al' = al
      /\ ~Growing /\ pc \in {"free", "clear", "load"} /\ pc' \in {"load", "clear", "node"}
      /\ pc' = "load" => pc = "free"
  BY DEF Free, ClearTest, LoadInternal, At, memory, caches
<1>2. WalkTypes
  BY DEF WInv
<1>3. \/ internal' = internal /\ hand' = hand
      \/ /\ al # "vm" /\ internal'["vm"] = internal["vm"] /\ hand' = NoPages
      \/ /\ al = "vm" /\ internal'["vm"].active /\ Room' = hand.size /\ hand' = NoPages
  <2>1. CASE Free \/ ClearTest
    BY <2>1 DEF Free, ClearTest, memory
  <2>2. CASE LoadInternal
    <3>1. /\ internal' = [internal EXCEPT ![al] = [base |-> hand.base, end |-> EndOf(hand),
                                                   active |-> TRUE]]
          /\ hand' = NoPages /\ hand.base \in Int /\ hand.size \in Int
      BY <1>2, <2>2 DEF LoadInternal, WalkTypes, IntPages
    <3>2. CASE al = "vm"
      <4>1. /\ internal'["vm"].active /\ internal'["vm"].base = hand.base
            /\ internal'["vm"].end = EndOf(hand)
        BY <1>2, <3>1, <3>2 DEF WalkTypes
      <4> QED BY <3>1, <3>2, <4>1 DEF Room, EndOf
    <3>3. CASE al # "vm"
      BY <1>2, <3>1, <3>3 DEF WalkTypes, Allocs
    <3> QED BY <3>2, <3>3
  <2> QED BY <2>1, <2>2
<1>4. CacheInv' /\ ReturnInv'
  BY <1>1 DEF CacheInv, ReturnInv, WInv, Growing, Caches, Freeing
<1>5. TwinInv'
  <2>1. CASE al = "vm"
    BY <1>1, <2>1 DEF TwinInv, Flushing
  <2>2. CASE al # "vm"
    BY <1>1, <1>3, <2>2 DEF WInv, TwinInv, Room, Flushing, Halts
  <2> QED BY <2>1, <2>2
<1>6. HalfInv'
  BY <1>1 DEF HalfInv
<1>7. FlushInv'
  <2>1. /\ ~internal'["vm"].active => internal'["vm"].base >= internal'["vm"].end
        /\ pc' # "boot_vm"
    BY <1>1, <1>3 DEF WInv, FlushInv
  <2>2. pc' = "node" /\ al' = "vm" => internal'["vm"].active
    <3>1. ASSUME pc' = "node" PROVE ClearTest
      BY <3>1 DEF Free, LoadInternal
    <3>2. ASSUME ClearTest, al = "vm" PROVE internal["vm"].active /\ internal' = internal
      BY <1>2, <3>2 DEF WInv, FlushInv, ClearTest, WalkTypes, Allocs, memory
    <3> QED BY <1>1, <3>1, <3>2
  <2> QED BY <2>1, <2>2 DEF FlushInv
<1>8. /\ Cutting' <=> Cutting
      /\ Resuming' <=> Resuming
      /\ pc \in Freeing /\ pc' \in Freeing /\ pc' # "scan" /\ pc # "scan" /\ Ahead' = Ahead
  BY <1>1 DEF Cutting, Resuming, Ahead, Freeing
<1>9. WalkInv'
  BY <1>1, <1>8 DEF WInv, WalkInv, Touches, Segment
<1>10. AheadInv'
  <2>1. ASSUME Cutting \/ Resuming, Ahead # NoPages
        PROVE  Room < scan.size /\ hand.size < scan.size /\ al = "vm"
    BY <1>8, <2>1 DEF WInv, WalkInv, AheadInv
  <2>2. ASSUME Cutting \/ Resuming, Ahead # NoPages
        PROVE  scan.size \in Nat /\ scan.size > 0
    <3>1. Ahead \in flist["vm"] /\ Ahead.size = scan.size
      BY <1>8, <2>2 DEF WInv, WalkInv
    <3> QED BY <1>2, <3>1, SizesAssumption DEF WalkTypes, Allocs
  <2>3. ASSUME Cutting \/ Resuming, Ahead # NoPages
        PROVE  Room' < scan.size /\ hand'.size < scan.size
    BY <1>3, <2>1, <2>2, <2>3 DEF Room, NoPages
  <2>4. Ready' <=> Ready
    BY <1>1 DEF Ready
  <2> QED BY <1>1, <1>8, <2>3, <2>4 DEF WInv, AheadInv
<1> QED BY <1>4, <1>5, <1>6, <1>7, <1>9, <1>10

\* The flush is over: the region is empty.
LEMMA ClearDoneKeeps ==
  ASSUME WInv, UNCHANGED scan, ClearDone
  PROVE  /\ CacheInv' /\ ReturnInv' /\ TwinInv' /\ HalfInv' /\ FlushInv' /\ WalkInv' /\ AheadInv'
<1>1. /\ /\ flist' = flist /\ grow' = grow /\ slabs' = slabs /\ op' = op /\ ret' = ret
      /\ al' = al
      /\ hand' = hand /\ ~Growing /\ pc = "clear" /\ pc' \in {"load", ret}
  BY DEF ClearDone, At, caches
<1>2. WalkTypes /\ ReturnInv
  BY DEF WInv
<1>3. /\ /\ internal'["vm"].base = internal["vm"].base
      /\ internal'["vm"].end = internal["vm"].end
      /\ ~internal'["vm"].active => internal'["vm"].base >= internal'["vm"].end
      /\ al = "vm" => internal["vm"].base >= internal["vm"].end
  <2>1. /\ internal' = [internal EXCEPT ![al].active = FALSE]
        /\ internal[al].base >= internal[al].end
    BY DEF ClearDone
  <2> QED BY <1>2, <2>1 DEF WalkTypes, Allocs, WInv, FlushInv
<1>4. pc' \in {"load", "idle", "fail", "back", "undone", "boot_pm_rest", "boot_vm_rest", "above", "scan"}
  BY <1>1, <1>2 DEF ReturnInv, Freeing
<1>5. CacheInv' /\ ReturnInv'
  BY <1>1, <1>2, <1>4 DEF CacheInv, ReturnInv, Growing, Caches, Freeing
<1>6. TwinInv'
  <2>1. CASE al = "vm"
    <3>1. Room' <= 0
      BY <1>2, <1>3, <2>1 DEF Room, WalkTypes, Allocs
    <3>2. \A p \in flist["vm"] : p \in [base : Int, size : FpageSizes]
      BY <1>2 DEF WalkTypes, Allocs
    <3>3. \A p \in flist["vm"] : p.size \in Nat \ {0}
      BY <3>2, SizesAssumption
    <3>4. Room' \in Int
      BY <1>2, <1>3 DEF WalkTypes, Allocs, Room
    <3>5. \A p \in flist["vm"] : p.size > Room'
      BY <3>1, <3>3, <3>4
    <3> QED BY <1>1, <3>5 DEF TwinInv
  <2>2. CASE al # "vm"
    BY <1>1, <1>3, <2>2 DEF WInv, TwinInv, Room, Flushing, Halts
  <2> QED BY <2>1, <2>2
<1>7. HalfInv' /\ FlushInv'
  BY <1>3, <1>4 DEF HalfInv, FlushInv
<1>8. /\ pc \in Freeing
      /\ Cutting' => Cutting
      /\ Resuming' => Resuming
      /\ pc' = "scan" => Resuming
      /\ pc' = "scan" \/ Cutting' \/ Resuming' => Ahead' = Ahead
  BY <1>1, <1>4 DEF Cutting, Resuming, Ahead, Freeing
<1>9. WalkInv'
  BY <1>1, <1>8 DEF WInv, WalkInv, Touches, Segment
<1>10. AheadInv'
  <2>1. Room' = Room /\ (Ready' <=> Ready)
    BY <1>1, <1>3 DEF Room, Ready
  <2> QED BY <1>1, <1>8, <2>1 DEF WInv, AheadInv
<1> QED BY <1>5, <1>6, <1>7, <1>9, <1>10

\* A piece of the internal region goes to the lists: it is smaller than the fpage cut up.
LEMMA ClearNodeKeeps ==
  ASSUME WInv, UNCHANGED scan, ClearNode
  PROVE  /\ CacheInv' /\ ReturnInv' /\ TwinInv' /\ HalfInv' /\ FlushInv' /\ WalkInv' /\ AheadInv'
<1>1. /\ grow' = grow /\ op' = op /\ ret' = ret /\ al' = al
      /\ hand' = hand /\ ~Growing /\ pc = "node" /\ pc' = "clear"
  BY DEF ClearNode, At
<1>2. WalkTypes
  BY DEF WInv
<1>3. PICK s \in FpageSizes :
        /\ IsBiggest(s, internal[al].base, internal[al].end)
        /\ flist' = [flist EXCEPT ![al] = @ \union {[base |-> internal[al].base, size |-> s]}]
        /\ internal' = [internal EXCEPT ![al].base = @ + s]
  BY DEF ClearNode
<1>4. s \in Nat \ {0} /\ internal[al].base + s <= internal[al].end
  BY <1>3, SizesAssumption DEF IsBiggest, Fits
<1>5. /\ al # "vm" => flist'["vm"] = flist["vm"] /\ internal'["vm"] = internal["vm"]
      /\ al = "vm" => /\ flist'["vm"] = flist["vm"] \union {[base |-> internal["vm"].base, size |-> s]}
                      /\ internal'["vm"].base = internal["vm"].base + s
                      /\ internal'["vm"].end = internal["vm"].end
                      /\ internal'["vm"].active = internal["vm"].active
  BY <1>2, <1>3 DEF WalkTypes, Allocs
<1>6. CacheInv' /\ ReturnInv'
  BY <1>1 DEF WInv, CacheInv, ReturnInv, Growing, Caches, Freeing
<1>7. TwinInv'
  BY <1>1, <1>5 DEF WInv, TwinInv, Room, Flushing, Halts
<1>8. HalfInv'
  BY <1>1 DEF HalfInv
<1>9. FlushInv'
  <2>1. ~internal'["vm"].active => internal'["vm"].base >= internal'["vm"].end
    <3>1. internal["vm"].base \in Int /\ internal["vm"].end \in Int
      BY <1>2 DEF WalkTypes, Allocs
    <3>2. internal'["vm"].active = internal["vm"].active
      BY <1>2, <1>5 DEF WalkTypes
    <3>3. ~internal["vm"].active => internal["vm"].base >= internal["vm"].end
      BY DEF WInv, FlushInv
    <3>4. /\ internal'["vm"].base >= internal["vm"].base
          /\ internal'["vm"].end = internal["vm"].end
          /\ internal'["vm"].base \in Int
      BY <1>2, <1>4, <1>5, <3>1 DEF WalkTypes
    <3>5. ASSUME ~internal'["vm"].active PROVE internal["vm"].base >= internal["vm"].end
      BY <3>2, <3>3, <3>5, Zenon
    <3> QED BY <3>1, <3>4, <3>5
  <2> QED BY <1>1, <2>1 DEF FlushInv
<1>10. /\ Cutting' <=> Cutting
       /\ Resuming' <=> Resuming
       /\ pc \in Freeing /\ pc' \in Freeing /\ pc' # "scan" /\ pc # "scan" /\ Ahead' = Ahead
  BY <1>1 DEF Cutting, Resuming, Ahead, Freeing
<1>11. flist["vm"] \subseteq flist'["vm"]
  BY <1>2, <1>5 DEF WalkTypes
<1>12. WalkInv'
  BY <1>1, <1>10, <1>11 DEF WInv, WalkInv, Touches, Segment
<1>13. AheadInv'
  <2>1. ASSUME Cutting \/ Resuming, Ahead # NoPages
        PROVE  /\ Room < scan.size /\ hand.size < scan.size /\ al = "vm"
    BY <1>10, <2>1 DEF WInv, WalkInv, AheadInv
  <2>2. ASSUME al = "vm", Room < scan.size
        PROVE  Room' < scan.size /\ \E p \in flist'["vm"] : p.size < scan.size
    <3>1. internal["vm"].base \in Int /\ internal["vm"].end \in Int /\ scan.size \in Int
      BY <1>2 DEF WalkTypes, Allocs
    <3>2. Room' = Room - s /\ s <= Room
      BY <1>4, <1>5, <2>2, <3>1 DEF Room
    <3>3. Room' < scan.size /\ s < scan.size
      BY <1>4, <2>2, <3>1, <3>2 DEF Room
    <3>4. [base |-> internal["vm"].base, size |-> s] \in flist'["vm"]
      BY <1>5, <2>2
    <3> QED BY <3>3, <3>4
  <2> QED BY <1>1, <1>10, <2>1, <2>2 DEF AheadInv
<1> QED BY <1>6, <1>7, <1>8, <1>9, <1>12, <1>13

\* A step into a halt.
LEMMA HaltKeeps ==
  ASSUME WInv, pc' \in Halts, flist' = flist, internal' = internal, grow' = grow, ret' = ret
  PROVE  /\ CacheInv' /\ ReturnInv' /\ TwinInv' /\ HalfInv' /\ FlushInv' /\ WalkInv' /\ AheadInv'
<1>1. CacheInv' /\ ReturnInv' /\ TwinInv' /\ HalfInv'
  BY DEF WInv, CacheInv, ReturnInv, TwinInv, HalfInv, Halts, Freeing
<1>2. FlushInv'
  BY DEF WInv, FlushInv, Halts
<1>3. ~(pc' = "scan" \/ Cutting' \/ Resuming')
  BY DEF Cutting, Resuming, Freeing, Halts
<1>4. WalkInv' /\ AheadInv'
  BY <1>3 DEF WalkInv, AheadInv
<1> QED BY <1>1, <1>2, <1>4

\* A cache that grows during a walk is fp_cache, or ms_cache inside it, for a page of
\* vm_alloc.
LEMMA GrowsForWalk ==
  ASSUME WInv, NEW c \in Caches, grow[c].stage # "none", pc \notin Halts,
         pc = "scan" \/ Cutting \/ Resuming
  PROVE  /\ pc = "node" /\ al = "vm" /\ c \in {"fp", "ms"}
         /\ c = "ms" => grow["fp"].stage = "node"
<1>1. pc \in {"scan", "below", "above", "free", "load", "clear", "node"}
  BY DEF Cutting, Resuming, Freeing
<1>2. grow["bt"].stage = "none"
  BY <1>1 DEF WInv, CacheInv
<1>3. c # "bt"
  BY <1>2
<1>4. grow["fp"].stage # "none" => pc = "node"
  BY <1>1 DEF WInv, CacheInv
<1>5. c = "ms" => grow["fp"].stage = "node"
  BY <1>1, <1>2 DEF WInv, CacheInv
<1>6. pc = "node"
  BY <1>3, <1>4, <1>5 DEF Caches
<1>7. al = "vm"
  BY <1>6 DEF WInv, WalkInv, Freeing
<1> QED BY <1>3, <1>5, <1>6, <1>7 DEF Caches

\* A cache begins to grow: with a page ahead there is a smaller one to carve from.
LEMMA StartGrowKeeps ==
  ASSUME WInv, UNCHANGED scan, NEW c \in Caches, StartGrow(c)
  PROVE  /\ CacheInv' /\ ReturnInv' /\ TwinInv' /\ HalfInv' /\ FlushInv' /\ WalkInv' /\ AheadInv'
<1>1. /\ flist' = flist /\ internal' = internal /\ slabs' = slabs /\ op' = op /\ ret' = ret
      /\ al' = al /\ hand' = hand /\ pc' = pc /\ NeedsSlab(c) /\ slabs[c] = 0
      /\ grow[c].stage = "none"
  BY DEF StartGrow, memory
<1>2. /\ grow'[c].stage = "virt"
      /\ \A d \in Caches : d # c => grow'[d] = grow[d]
  BY DEF StartGrow, WInv, WalkTypes
<1>3. CacheInv'
  <2>1. CASE c = "bt"
    BY <1>1, <1>2, <2>1 DEF WInv, CacheInv, NeedsSlab, Caches
  <2>2. CASE c = "fp"
    BY <1>1, <1>2, <2>2 DEF WInv, CacheInv, NeedsSlab, Caches
  <2>3. CASE c = "ms"
    BY <1>1, <1>2, <2>3 DEF WInv, CacheInv, NeedsSlab, Caches
  <2> QED BY <2>1, <2>2, <2>3 DEF Caches
<1>4. ReturnInv' /\ HalfInv'
  BY <1>1 DEF WInv, ReturnInv, HalfInv
<1>5. TwinInv'
  BY <1>1 DEF WInv, TwinInv, Room, Flushing
<1>6. FlushInv'
  <2>1. c = "fp" \/ grow'["fp"] = grow["fp"]
    BY <1>2 DEF Caches
  <2> QED BY <1>1, <1>2, <2>1 DEF WInv, FlushInv
<1>7. /\ Cutting' <=> Cutting
      /\ Resuming' <=> Resuming
      /\ Ahead' = Ahead
  BY <1>1 DEF Cutting, Resuming, Ahead
<1>8. WalkInv'
  BY <1>1, <1>7 DEF WInv, WalkInv, Touches, Segment
<1>9. AheadInv'
  <2>1. Room' = Room
    BY <1>1 DEF Room
  <2>2. ASSUME Ready, c # "bt" PROVE Ready'
    BY <1>1, <1>2, <2>2 DEF Ready, Caches
  <2>3. c = "bt" => ~(Cutting \/ Resuming)
    BY <1>1 DEF NeedsSlab, Cutting, Resuming, Freeing
  <2> QED BY <1>1, <1>7, <2>1, <2>2, <2>3 DEF WInv, AheadInv
<1> QED BY <1>3, <1>4, <1>5, <1>6, <1>8, <1>9

\* What is left when a page is carved for a slab pool: the internal region is smaller than
\* it was, or than every fpage.
LEMMA CarveRoom ==
  ASSUME WInv, NEW r \in Sources("vm"), AllocInternal("vm", r)
  PROVE  /\ Room' = r.size - 1 /\ r.size \in Int /\ r.size > 0
         /\ ~internal'["vm"].active => internal'["vm"].base >= internal'["vm"].end
         /\ internal["vm"].active => flist'["vm"] = flist["vm"] /\ r.size = Room
         /\ ~internal["vm"].active => /\ flist'["vm"] = flist["vm"] \ {r}
                                      /\ \A f \in flist["vm"] : r.size <= f.size
<1>1. WalkTypes /\ "vm" \in Allocs
  BY DEF WInv, Allocs
<1>2. /\ r \in IntPages /\ r.size > 0
      /\ internal["vm"].active => r.base = internal["vm"].base /\ EndOf(r) = internal["vm"].end
      /\ ~internal["vm"].active => r \in flist["vm"] /\ \A f \in flist["vm"] : r.size <= f.size
  BY <1>1, SourcePages
<1>3. r.base \in Int /\ r.size \in Int
  BY <1>2 DEF IntPages
<1>4. internal'["vm"] = [base |-> r.base + 1, end |-> EndOf(r), active |-> r.base + 1 < EndOf(r)]
  <2>1. internal' = [internal EXCEPT !["vm"] = [base |-> r.base + 1, end |-> EndOf(r),
                                                active |-> r.base + 1 < EndOf(r)]]
    BY DEF AllocInternal
  <2> QED BY <1>1, <2>1 DEF WalkTypes
<1>5. /\ internal'["vm"].base = r.base + 1 /\ internal'["vm"].end = r.base + r.size
      /\ internal'["vm"].active = (r.base + 1 < r.base + r.size)
  <2>1. /\ internal'["vm"].base = r.base + 1 /\ internal'["vm"].end = EndOf(r)
        /\ internal'["vm"].active = (r.base + 1 < EndOf(r))
    <3>1. PICK B : B = (r.base + 1 < EndOf(r))
      BY Zenon
    <3>2. internal'["vm"] = [base |-> r.base + 1, end |-> EndOf(r), active |-> B]
      BY <1>4, <3>1, Zenon
    <3>3. /\ internal'["vm"].base = r.base + 1 /\ internal'["vm"].end = EndOf(r)
          /\ internal'["vm"].active = B
      BY <3>2
    <3> QED BY <3>1, <3>3, Zenon
  <2> QED BY <2>1, Zenon DEF EndOf
<1>6. Room' = r.size - 1
  BY <1>3, <1>5 DEF Room
<1>7. ASSUME ~internal'["vm"].active PROVE internal'["vm"].base >= internal'["vm"].end
  <2>1. ~(r.base + 1 < r.base + r.size)
    BY <1>5, <1>7, Zenon
  <2> QED BY <1>3, <1>5, <2>1
<1>8. internal["vm"].active => flist'["vm"] = flist["vm"] /\ r.size = Room
  <2>1. ASSUME internal["vm"].active PROVE flist'["vm"] = flist["vm"]
    BY <2>1 DEF AllocInternal
  <2>2. ASSUME internal["vm"].active PROVE r.size = Room
    BY <1>2, <1>3, <2>2 DEF Room, EndOf
  <2> QED BY <2>1, <2>2
<1>9. ~internal["vm"].active => flist'["vm"] = flist["vm"] \ {r}
  BY <1>1 DEF AllocInternal, WalkTypes
<1> QED BY <1>2, <1>3, <1>6, <1>7, <1>8, <1>9

\* A page of vm_alloc is carved for a pool.  It never is the one ahead: fp_cache takes its
\* page from the region being flushed, ms_cache from that or from a smaller fpage.
LEMMA GrowVirtKeeps ==
  ASSUME WInv, UNCHANGED scan, NEW c \in Caches, GrowVirt(c)
  PROVE  /\ CacheInv' /\ ReturnInv' /\ TwinInv' /\ HalfInv' /\ FlushInv' /\ WalkInv' /\ AheadInv'
<1>1. /\ op' = op /\ ret' = ret /\ al' = al /\ hand' = hand /\ pc' = pc /\ pc \notin Halts
      /\ grow[c].stage = "virt"
  BY DEF GrowVirt, Running
<1>2. PICK r \in Sources("vm") : /\ AllocInternal("vm", r)
                                 /\ grow' = [grow EXCEPT ![c].stage = "phys", ![c].virt = r.base]
  BY DEF GrowVirt
<1>3. /\ grow'[c].stage = "phys"
      /\ \A d \in Caches : d # c => grow'[d] = grow[d]
  BY <1>2 DEF WInv, WalkTypes
<1>4. /\ Room' = r.size - 1 /\ r.size \in Int /\ r.size > 0
      /\ ~internal'["vm"].active => internal'["vm"].base >= internal'["vm"].end
      /\ internal["vm"].active => flist'["vm"] = flist["vm"] /\ r.size = Room
      /\ ~internal["vm"].active => /\ flist'["vm"] = flist["vm"] \ {r}
                                   /\ \A f \in flist["vm"] : r.size <= f.size
  BY <1>2, CarveRoom
<1>5. flist'["vm"] \subseteq flist["vm"] /\ \A f \in flist["vm"] : f.size \in Nat
  <2>1. \A f \in flist["vm"] : f \in [base : Int, size : FpageSizes]
    BY DEF WInv, WalkTypes, Allocs
  <2> QED BY <1>4, <2>1, SizesAssumption
<1>6. CacheInv'
  <2>1. \A d \in Caches : grow'[d].stage # "none" <=> grow[d].stage # "none"
    BY <1>1, <1>3
  <2>2. \A d \in Caches : grow[d].stage = "node" => grow'[d].stage = "node"
    BY <1>1, <1>3
  <2> QED BY <1>1, <2>1, <2>2 DEF WInv, CacheInv, Caches
<1>7. ReturnInv' /\ HalfInv'
  BY <1>1, <1>5 DEF WInv, ReturnInv, HalfInv
<1>8. TwinInv'
  <2>1. CASE internal["vm"].active
    <3>1. Room' < Room /\ Room \in Int /\ Room' \in Int /\ flist'["vm"] = flist["vm"]
      BY <1>4, <2>1
    <3>2. pc \notin Halts /\ ~Flushing =>
            \A p, q \in flist["vm"] : p # q /\ p.size = q.size => p.size > Room'
      BY <1>5, <3>1 DEF WInv, TwinInv
    <3> QED BY <1>1, <3>1, <3>2 DEF TwinInv, Flushing
  <2>2. CASE ~internal["vm"].active
    <3>1. \A f \in flist["vm"] : f.size > Room'
      BY <1>4, <1>5, <2>2
    <3> QED BY <1>5, <3>1 DEF TwinInv
  <2> QED BY <2>1, <2>2
<1>9. FlushInv'
  <2>1. pc' = "boot_vm" => flist'["vm"] = {}
    BY <1>1, <1>5 DEF WInv, FlushInv
  <2>2. pc = "node" => grow'["fp"].stage \notin {"none", "virt"}
    <3>1. ASSUME pc = "node", c # "fp" PROVE grow["fp"].stage = "node"
      BY <1>1, <3>1 DEF WInv, CacheInv, Caches, Halts
    <3> QED BY <1>3, <3>1 DEF Caches
  <2> QED BY <1>1, <1>4, <2>1, <2>2 DEF FlushInv
<1>10. /\ Cutting' <=> Cutting
       /\ Resuming' <=> Resuming
       /\ Ahead' = Ahead
  BY <1>1 DEF Cutting, Resuming, Ahead
<1>11. ASSUME pc = "scan" \/ Cutting \/ Resuming
       PROVE  /\ pc = "node" /\ al = "vm" /\ (Cutting \/ Resuming)
              /\ c = "ms" => grow["fp"].stage = "node"
              /\ c \in {"fp", "ms"}
              /\ c = "fp" => internal["vm"].active
  <2>1. pc = "node" /\ al = "vm" /\ c \in {"fp", "ms"} /\ (c = "ms" => grow["fp"].stage = "node")
    BY <1>1, <1>11, GrowsForWalk
  <2>2. c = "fp" => internal["vm"].active
    BY <1>1, <2>1 DEF WInv, FlushInv
  <2> QED BY <1>11, <2>1, <2>2
<1>12. ASSUME pc = "scan" \/ Cutting \/ Resuming, Ahead # NoPages
       PROVE  /\ Ahead \in flist'["vm"] /\ Room' < scan.size
              /\ Ready' \/ \E p \in flist'["vm"] : p.size < scan.size
  <2>1. /\ Ahead \in flist["vm"] /\ Ahead.size = scan.size /\ Room < scan.size
        /\ Ready \/ \E p \in flist["vm"] : p.size < scan.size
    BY <1>11, <1>12 DEF WInv, WalkInv, AheadInv
  <2>2. ~Ready
    BY <1>1, <1>11, <1>12 DEF Ready
  <2>3. PICK p \in flist["vm"] : p.size < scan.size
    BY <2>1, <2>2
  <2>4. scan.size \in Int
    BY <1>5, <2>1
  <2>5. CASE internal["vm"].active
    <3>1. Room' < scan.size
      BY <1>4, <2>1, <2>4, <2>5
    <3> QED BY <1>4, <2>1, <2>3, <2>5, <3>1
  <2>6. CASE ~internal["vm"].active
    <3>1. r.size < scan.size
      BY <1>4, <1>5, <2>3, <2>4, <2>6
    <3>2. Ahead # r /\ Room' < scan.size
      BY <1>4, <2>1, <2>4, <3>1
    <3>3. c = "ms" /\ grow["fp"].stage = "node"
      BY <1>11, <1>12, <2>6
    <3>4. Ready'
      BY <1>3, <3>3 DEF Ready, Caches
    <3> QED BY <1>4, <2>1, <2>6, <3>2, <3>4
  <2> QED BY <2>5, <2>6
<1>13. WalkInv'
  BY <1>1, <1>10, <1>12 DEF WInv, WalkInv, Touches, Segment
<1>14. AheadInv'
  BY <1>1, <1>10, <1>12 DEF WInv, AheadInv
<1> QED BY <1>6, <1>7, <1>8, <1>9, <1>13, <1>14

\* A page of pm_alloc is carved: vm_alloc is as it was.
LEMMA GrowPhysKeeps ==
  ASSUME WInv, UNCHANGED scan, NEW c \in Caches, GrowPhys(c)
  PROVE  /\ CacheInv' /\ ReturnInv' /\ TwinInv' /\ HalfInv' /\ FlushInv' /\ WalkInv' /\ AheadInv'
<1>1. /\ op' = op /\ ret' = ret /\ al' = al /\ hand' = hand /\ pc' = pc /\ pc \notin Halts
      /\ grow[c].stage = "phys"
  BY DEF GrowPhys, Running
<1>2. PICK r \in Sources("pm") : /\ AllocInternal("pm", r)
                                 /\ grow' = [grow EXCEPT ![c].stage = "node", ![c].phys = r.base]
  BY DEF GrowPhys
<1>3. /\ grow'[c].stage = "node"
      /\ \A d \in Caches : d # c => grow'[d] = grow[d]
  BY <1>2 DEF WInv, WalkTypes
<1>4. flist'["vm"] = flist["vm"] /\ internal'["vm"] = internal["vm"]
  BY <1>2 DEF AllocInternal, WInv, WalkTypes, Allocs
<1>5. /\ slabs["fp"] \in Nat /\ slabs'["fp"] \in Nat /\ slabs'["fp"] >= slabs["fp"]
      /\ slabs'["ms"] = slabs["ms"]
  <2>1. slabs' = slabs \/ slabs' = [slabs EXCEPT !["fp"] = @ + 1]
    BY <1>2 DEF AllocInternal
  <2>2. slabs \in [Caches -> Nat]
    BY DEF WInv, WalkTypes
  <2> QED BY <2>1, <2>2 DEF Caches
<1>6. CacheInv'
  <2>1. \A d \in Caches : grow'[d].stage # "none" <=> grow[d].stage # "none"
    BY <1>1, <1>3
  <2>2. \A d \in Caches : grow[d].stage = "node" => grow'[d].stage = "node"
    BY <1>1, <1>3
  <2> QED BY <1>1, <2>1, <2>2 DEF WInv, CacheInv, Caches
<1>7. ReturnInv' /\ HalfInv'
  BY <1>1, <1>4 DEF WInv, ReturnInv, HalfInv
<1>8. TwinInv'
  BY <1>1, <1>4 DEF WInv, TwinInv, Room, Flushing
<1>9. FlushInv'
  <2>1. grow'["fp"].stage \in {"none", "virt"} => grow'["fp"] = grow["fp"]
    BY <1>3 DEF Caches
  <2>2. slabs'["fp"] = 0 => slabs["fp"] = 0
    BY <1>5
  <2> QED BY <1>1, <1>4, <2>1, <2>2 DEF WInv, FlushInv
<1>10. /\ Cutting' <=> Cutting
       /\ Resuming' <=> Resuming
       /\ Ahead' = Ahead
  BY <1>1 DEF Cutting, Resuming, Ahead
<1>11. WalkInv'
  BY <1>1, <1>4, <1>10 DEF WInv, WalkInv, Touches, Segment
<1>12. AheadInv'
  <2>1. Room' = Room
    BY <1>4 DEF Room
  <2>2. ASSUME Ready PROVE Ready'
    <3>1. CASE c = "fp"
      BY <1>1, <2>2, <3>1 DEF Ready
    <3>2. CASE c = "ms"
      BY <1>1, <1>3, <1>5, <2>2, <3>2 DEF Ready, Caches
    <3>3. CASE c = "bt"
      BY <1>1, <1>3, <1>5, <2>2, <3>3 DEF Ready, Caches
    <3> QED BY <3>1, <3>2, <3>3 DEF Caches
  <2> QED BY <1>1, <1>4, <1>10, <2>1, <2>2 DEF WInv, AheadInv
<1> QED BY <1>6, <1>7, <1>8, <1>9, <1>11, <1>12

\* The pool is there: fp_cache has slabs, or ms_cache the one fp_cache waits for.
LEMMA GrowNodeKeeps ==
  ASSUME WInv, UNCHANGED scan, NEW c \in Caches, GrowNode(c)
  PROVE  /\ CacheInv' /\ ReturnInv' /\ TwinInv' /\ HalfInv' /\ FlushInv' /\ WalkInv' /\ AheadInv'
<1>1. /\ op' = op /\ ret' = ret /\ al' = al /\ hand' = hand /\ pc' = pc /\ pc \notin Halts
      /\ grow[c].stage = "node" /\ flist' = flist /\ internal' = internal
      /\ c # "ms" => grow["ms"].stage = "none"
  BY DEF GrowNode, Running, memory
<1>2. /\ grow'[c].stage = "none"
      /\ \A d \in Caches : d # c => grow'[d] = grow[d]
  BY DEF GrowNode, WInv, WalkTypes, NoGrow
<1>3. /\ c # "fp" => slabs'["fp"] = slabs["fp"]
      /\ c = "fp" => slabs'["fp"] > 0
      /\ c = "ms" => slabs'["ms"] > 0
  <2>1. slabs \in [Caches -> Nat] /\ PerPool \in [Caches -> Nat \ {0}]
    BY ParamAssumption DEF WInv, WalkTypes
  <2>2. /\ slabs'["fp"] = slabs["fp"] + (IF "fp" = c THEN PerPool[c] ELSE 0) - 0
        /\ c = "ms" => slabs'["ms"] = slabs["ms"] + PerPool[c] - 0
    BY DEF GrowNode, Caches
  <2> QED BY <2>1, <2>2 DEF Caches
<1>4. CacheInv'
  BY <1>1, <1>2 DEF WInv, CacheInv, Caches
<1>5. ReturnInv' /\ HalfInv'
  BY <1>1 DEF WInv, ReturnInv, HalfInv
<1>6. TwinInv'
  BY <1>1 DEF WInv, TwinInv, Room, Flushing
<1>7. FlushInv'
  <2>1. c = "fp" \/ (grow'["fp"] = grow["fp"] /\ slabs'["fp"] = slabs["fp"])
    BY <1>2, <1>3 DEF Caches
  <2>2. c = "fp" => grow'["fp"].stage = "none" /\ slabs'["fp"] # 0
    BY <1>2, <1>3
  <2> QED BY <1>1, <2>1, <2>2 DEF WInv, FlushInv
<1>8. /\ Cutting' <=> Cutting
      /\ Resuming' <=> Resuming
      /\ Ahead' = Ahead
  BY <1>1 DEF Cutting, Resuming, Ahead
<1>9. WalkInv'
  BY <1>1, <1>8 DEF WInv, WalkInv, Touches, Segment
<1>10. AheadInv'
  <2>1. Room' = Room
    BY <1>1 DEF Room
  <2>2. ASSUME Cutting \/ Resuming PROVE c \in {"fp", "ms"} /\ (c = "ms" => grow["fp"].stage = "node")
    BY <1>1, <2>2, GrowsForWalk
  <2>3. ASSUME Cutting \/ Resuming PROVE Ready'
    <3>1. CASE c = "fp"
      BY <1>2, <1>3, <3>1 DEF Ready
    <3>2. CASE c = "ms"
      BY <1>2, <1>3, <2>2, <2>3, <3>2 DEF Ready, Caches
    <3> QED BY <2>2, <2>3, <3>1, <3>2
  <2> QED BY <1>1, <1>8, <2>1, <2>3 DEF WInv, AheadInv
<1> QED BY <1>4, <1>5, <1>6, <1>7, <1>9, <1>10

\* sys$fpage_alloc finds an fpage: none that would do is smaller.
LEMMA PickKeeps ==
  ASSUME WInv, UNCHANGED scan, AllocPick
  PROVE  /\ CacheInv' /\ ReturnInv' /\ TwinInv' /\ HalfInv' /\ FlushInv' /\ WalkInv' /\ AheadInv'
<1>1. /\ internal' = internal /\ grow' = grow /\ op' = op /\ ret' = ret /\ al' = al
      /\ ~Growing /\ pc = "alloc" /\ pc' = "split"
  BY DEF AllocPick, At
<1>2. PICK f \in Candidates(flist[al], op.want) : hand' = f /\ flist' = [flist EXCEPT ![al] = @ \ {f}]
  BY DEF AllocPick
<1>3. flist'["vm"] \subseteq flist["vm"]
  BY <1>2 DEF WInv, WalkTypes, Allocs
<1>4. CacheInv' /\ ReturnInv'
  BY <1>1 DEF WInv, CacheInv, ReturnInv, Growing, Caches, Freeing
<1>5. TwinInv'
  BY <1>1, <1>3 DEF WInv, TwinInv, Room, Flushing, Halts
<1>6. HalfInv'
  <2>1. \A p \in flist[al] : p \in [base : Int, size : FpageSizes]
    BY DEF WInv, WalkTypes
  <2>2. op.want \in Int /\ f \in flist[al]
    BY <1>2 DEF WInv, WalkTypes, Candidates
  <2>3. \A p \in flist[al] : p.size \in Int
    <3>1. \A s \in FpageSizes : s \in Int
      BY SizesAssumption
    <3> QED BY <2>1, <3>1
  <2>4. \A p \in flist[al] : p.size >= op.want => f.size <= p.size
    BY <1>2 DEF Candidates
  <2>5. \A p \in flist[al] : ~(op.want <= p.size /\ p.size < f.size)
    BY <2>2, <2>3, <2>4
  <2> QED BY <1>1, <1>2, <1>3, <2>5 DEF HalfInv
<1>7. FlushInv'
  BY <1>1 DEF WInv, FlushInv
<1>8. ~(pc' = "scan" \/ Cutting' \/ Resuming')
  BY <1>1 DEF Cutting, Resuming, Freeing
<1>9. WalkInv' /\ AheadInv'
  BY <1>8 DEF WalkInv, AheadInv
<1> QED BY <1>4, <1>5, <1>6, <1>7, <1>9

\* The upper half goes back: there is no fpage of that size.
LEMMA HalveKeeps ==
  ASSUME WInv, UNCHANGED scan, SplitHalve
  PROVE  /\ CacheInv' /\ ReturnInv' /\ TwinInv' /\ HalfInv' /\ FlushInv' /\ WalkInv' /\ AheadInv'
<1>1. /\ internal' = internal /\ grow' = grow /\ op' = op /\ ret' = ret /\ al' = al
      /\ ~Growing /\ pc = "split" /\ pc' = "split" /\ 2 * op.want <= hand.size
  BY DEF SplitHalve, At
<1>2. PICK h \in FpageSizes : /\ hand.size = 2 * h
                              /\ hand' = [hand EXCEPT !.size = h]
                              /\ flist' = [flist EXCEPT ![al] = @ \union {Buddy(hand')}]
  BY DEF SplitHalve
<1>3. h \in Nat \ {0} /\ op.want \in Int /\ op.want <= h /\ h < hand.size
  <2>1. h \in Nat \ {0} /\ op.want \in Int
    BY SizesAssumption DEF WInv, WalkTypes
  <2> QED BY <1>1, <1>2, <2>1
<1>4. hand'.size = h
  BY <1>2 DEF WInv, WalkTypes, IntPages
<1>5. PICK b : b = Buddy(hand') /\ b.size = h
  <2>1. hand' = [base |-> hand.base, size |-> h]
    BY <1>2 DEF WInv, WalkTypes, IntPages
  <2>2. Buddy(hand').size = h
    BY <2>1 DEF Buddy
  <2> QED BY <2>2, Zenon
<1>6. /\ al = "vm" => flist'["vm"] = flist["vm"] \union {b}
      /\ al # "vm" => flist'["vm"] = flist["vm"]
  BY <1>2, <1>5 DEF WInv, WalkTypes, Allocs
<1>7. \A p \in flist["vm"] : p.size \in Int
  <2>1. \A p \in flist["vm"] : p \in [base : Int, size : FpageSizes]
    BY DEF WInv, WalkTypes, Allocs
  <2>2. \A s \in FpageSizes : s \in Int
    BY SizesAssumption
  <2> QED BY <2>1, <2>2
<1>8. al = "vm" => \A p \in flist["vm"] : ~(op.want <= p.size /\ p.size < hand.size)
  BY <1>1 DEF WInv, HalfInv
<1>9. CacheInv' /\ ReturnInv'
  BY <1>1 DEF WInv, CacheInv, ReturnInv, Growing, Caches, Freeing
<1>10. TwinInv'
  <2>1. al = "vm" => \A p \in flist["vm"] : p.size # h
    BY <1>3, <1>8
  <2>2. \A p, q \in flist'["vm"] : p # q /\ p.size = q.size => p \in flist["vm"] /\ q \in flist["vm"]
    BY <1>5, <1>6, <2>1
  <2> QED BY <1>1, <2>2 DEF WInv, TwinInv, Room, Flushing, Halts
<1>11. HalfInv'
  <2>1. al = "vm" => \A p \in flist'["vm"] : ~(op.want <= p.size /\ p.size < h)
    BY <1>2, <1>3, <1>5, <1>6, <1>7, <1>8
  <2> QED BY <1>1, <1>4, <2>1 DEF HalfInv
<1>12. FlushInv'
  BY <1>1 DEF WInv, FlushInv
<1>13. ~(pc' = "scan" \/ Cutting' \/ Resuming')
  BY <1>1 DEF Cutting, Resuming, Freeing
<1>14. WalkInv' /\ AheadInv'
  BY <1>13 DEF WalkInv, AheadInv
<1> QED BY <1>9, <1>10, <1>11, <1>12, <1>14

\* The page is small enough: back to the caller of sys$fpage_alloc.
LEMMA SplitDoneKeeps ==
  ASSUME WInv, SplitDone
  PROVE  /\ CacheInv' /\ ReturnInv' /\ TwinInv' /\ HalfInv' /\ FlushInv' /\ WalkInv' /\ AheadInv'
<1>1. ret \in {"chunk", "lnode"} /\ pc = "split" /\ pc' = ret /\ ret' = ret /\ ~Growing
  BY DEF WInv, ReturnInv, SplitDone, At
<1>2. flist' = flist /\ internal' = internal /\ grow' = grow
  BY DEF SplitDone, memory, caches
<1> QED BY <1>1, <1>2, CalmKeeps DEF Halts, Freeing

\* Every step keeps the invariant.
LEMMA WalkNext ==
  ASSUME WInv, [FixedNext]_fixedVars
  PROVE  WInv'
<1> DEFINE Kept == CacheInv' /\ ReturnInv' /\ TwinInv' /\ HalfInv' /\ FlushInv' /\ WalkInv' /\ AheadInv'
<1>0. WalkTypes
  BY DEF WInv
<1>a. SUFFICES WalkTypes' /\ Kept
  BY DEF WInv
<1>1. ASSUME UNCHANGED scan, NEW c \in Caches,
             \/ StartGrow(c) \/ GrowVirt(c) \/ GrowPhys(c) \/ GrowNode(c)
             \/ \E a \in Allocs : GrowFails(c, a)
      PROVE  WalkTypes' /\ Kept
  <2>1. WalkTypes'
    BY <1>0, <1>1, GrowWalkTypes
  <2>2. CASE \E a \in Allocs : GrowFails(c, a)
    <3>1. /\ pc' \in Halts /\ flist' = flist /\ internal' = internal /\ grow' = grow
          /\ ret' = ret
      BY <2>2 DEF GrowFails, Halts, memory, caches
    <3>2. Kept
      BY <3>1, HaltKeeps
    <3> QED BY <2>1, <3>2
  <2> HIDE DEF Kept
  <2>3. CASE StartGrow(c)
    <3>1. Kept
      BY <1>1, <2>3, StartGrowKeeps DEF Kept
    <3> QED BY <2>1, <3>1
  <2>4. CASE GrowVirt(c)
    <3>1. Kept
      BY <1>1, <2>4, GrowVirtKeeps DEF Kept
    <3> QED BY <2>1, <3>1
  <2>5. CASE GrowPhys(c)
    <3>1. Kept
      BY <1>1, <2>5, GrowPhysKeeps DEF Kept
    <3> QED BY <2>1, <3>1
  <2>6. CASE GrowNode(c)
    <3>1. Kept
      BY <1>1, <2>6, GrowNodeKeeps DEF Kept
    <3> QED BY <2>1, <3>1
  <2> QED BY <1>1, <2>2, <2>3, <2>4, <2>5, <2>6
<1>2. ASSUME UNCHANGED scan,
             \/ Free \/ LoadInternal \/ ClearTest \/ ClearDone \/ ClearNode \/ ClearNil
             \/ AllocPick \/ AllocNil \/ SplitHalve \/ SplitDone
      PROVE  WalkTypes' /\ Kept
  <2>1. WalkTypes'
    BY <1>0, <1>2, FpageWalkTypes
  <2>2. ASSUME ClearNil PROVE Kept
    <3>1. /\ pc' \in Halts /\ flist' = flist /\ internal' = internal /\ grow' = grow
          /\ ret' = ret
      BY <2>2 DEF ClearNil, Halts, memory
    <3> QED BY <3>1, HaltKeeps
  <2>3. ASSUME Free \/ LoadInternal \/ ClearTest PROVE Kept
    BY <1>2, <2>3, FreeKeeps
  <2>4. ASSUME ClearDone PROVE Kept
    BY <1>2, <2>4, ClearDoneKeeps
  <2>5. ASSUME ClearNode PROVE Kept
    BY <1>2, <2>5, ClearNodeKeeps
  <2>6. ASSUME AllocPick PROVE Kept
    BY <1>2, <2>6, PickKeeps
  <2>7. ASSUME SplitHalve PROVE Kept
    BY <1>2, <2>7, HalveKeeps
  <2>8. ASSUME SplitDone PROVE Kept
    BY <2>8, SplitDoneKeeps
  <2>9. ASSUME AllocNil PROVE Kept
    BY <2>9, CalmSteps
  <2> HIDE DEF Kept
  <2> QED BY <1>2, <2>1, <2>2, <2>3, <2>4, <2>5, <2>6, <2>7, <2>8, <2>9
<1>3. ASSUME UNCHANGED scan, Create \/ CreateInternal \/ BootHeap \/ CreateFixed
      PROVE  WalkTypes' /\ Kept
  <2>1. WalkTypes'
    BY <1>0, <1>3, CallWalkTypes
  <2>2. Kept
    BY <1>3, CalmSteps
  <2> QED BY <2>1, <2>2
<1>4. ASSUME UNCHANGED scan,
             \/ New \/ NewFixed \/ ChunkShort \/ ChunkTrim \/ Back \/ ListNext \/ ListDone
             \/ ListNode \/ UndoOne \/ UndoNode \/ UndoDone \/ InsertPage \/ InsertDone \/ Fail
             \/ BackFixed \/ FixedDone \/ FixedUndone
      PROVE  WalkTypes' /\ Kept
  <2>1. WalkTypes'
    BY <1>0, <1>4, OpWalkTypes
  <2>2. Kept
    BY <1>4, CalmSteps
  <2> QED BY <2>1, <2>2
<1>5. ASSUME UNCHANGED scan,
             \/ BootVm \/ BootVmNone \/ BootPm \/ BootPanic
             \/ BootRest("pm", "boot_pm_rest", "boot_vm_clear") \/ BootVmClear
             \/ BootRest("vm", "boot_vm_rest", "boot_heap") \/ PdInit
      PROVE  WalkTypes' /\ Kept
  <2>1. WalkTypes'
    BY <1>0, <1>5, BootWalkTypes
  <2>2. Kept
    BY <1>5, CalmSteps, BootVmKeeps
  <2> QED BY <2>1, <2>2
<1>6. ASSUME \/ InsertedFixed \/ ScanList \/ ScanDone \/ ScanKeep \/ ScanTake
             \/ ExtraBelow \/ ExtraAbove
      PROVE  WalkTypes' /\ Kept
  <2>1. WalkTypes'
    BY <1>0, <1>6, ScanWalkTypes
  <2>2. Kept
    BY <1>6, <2>1, ScanKeeps, ScanTakeKeeps, ExtraKeeps, CalmSteps
  <2> QED BY <2>1, <2>2
<1>7. ASSUME UNCHANGED <<vars, scan>> PROVE WalkTypes' /\ Kept
  <2>1. WalkTypes'
    BY <1>0, <1>7 DEF WalkTypes, vars
  <2>2. CacheInv' /\ ReturnInv' /\ TwinInv' /\ HalfInv' /\ FlushInv'
    BY <1>7 DEF WInv, CacheInv, ReturnInv, TwinInv, HalfInv, FlushInv, Room, Flushing, vars
  <2>3. WalkInv' /\ AheadInv'
    BY <1>7 DEF WInv, WalkInv, AheadInv, Ahead, Cutting, Resuming, Ready, Room, Touches,
       Segment, vars
  <2> QED BY <2>1, <2>2, <2>3
<1> HIDE DEF Kept
<1>8. CASE op.flags # "fixed" /\ Next /\ UNCHANGED fixed
  <2>1. UNCHANGED scan
    BY <1>8 DEF fixed
  <2> QED BY <1>1, <1>2, <1>3, <1>4, <1>5, <1>7, <1>8, <2>1 DEF Next, Halted
<1>9. CASE Callees
  <2>1. UNCHANGED scan
    BY <1>9 DEF Callees
  <2> QED BY <1>1, <1>2, <1>4, <1>7, <1>9, <2>1 DEF Callees, Grows, Halted
<1>10. CASE CreateFixed \/ NewFixed \/ BackFixed \/ FixedDone \/ FixedUndone
  <2>1. UNCHANGED scan
    BY <1>10 DEF CreateFixed, NewFixed, BackFixed, FixedDone, FixedUndone, fixed
  <2> QED BY <1>3, <1>4, <1>10, <2>1
<1>11. CASE UNCHANGED fixedVars
  BY <1>7, <1>11 DEF fixedVars
<1> QED BY <1>6, <1>8, <1>9, <1>10, <1>11 DEF FixedNext

\* The walk starts well.
LEMMA WalkInit == FixedInit => WInv
<1> SUFFICES ASSUME FixedInit PROVE WInv
  OBVIOUS
<1> USE DEF FixedInit, Init
<1>1. WalkTypes
  <2>1. scan \in [size : Nat, node : IntPages, tmp : IntPages, seen : SUBSET IntPages, fpage : IntPages]
    BY DEF NoScan, NoPages, IntPages
  <2>2. /\ hand \in IntPages
        /\ op \in [flags : Flags, size : Int, at : Int, cur : Int, want : Int,
           list : SUBSET [virt : Int, fpage : IntPages], bt : Int]
    BY DEF NoPages, IntPages, NoOp, Flags
  <2>3. /\ internal \in [Allocs -> [base : Int, end : Int, active : BOOLEAN]]
        /\ grow \in [Caches -> [stage : Stages, virt : Int, phys : Int]]
        /\ slabs \in [Caches -> Nat] /\ al \in Allocs
        /\ flist \in [Allocs -> SUBSET [base : Int, size : FpageSizes]]
    BY DEF NoGrow, Stages, Allocs
  <2> QED BY <2>1, <2>2, <2>3 DEF WalkTypes
<1>2. CacheInv /\ ReturnInv /\ TwinInv /\ HalfInv
  BY DEF CacheInv, ReturnInv, TwinInv, HalfInv, NoGrow, Caches, Freeing, Allocs
<1>3. FlushInv
  BY DEF FlushInv, Allocs
<1>4. WalkInv /\ AheadInv
  BY DEF WalkInv, AheadInv, Cutting, Resuming, Freeing
<1> QED BY <1>1, <1>2, <1>3, <1>4 DEF WInv

\* sys$fpage_remove_chunk never follows a node that has left its list: whatever the memory
\* map, the pool sizes, the segments and what they overlap, growing fp_cache for the pieces
\* of an fpage never carves up the node read ahead.
THEOREM NodeAheadFresh == FixedSpec => []TmpFresh
<1>1. WInv /\ [FixedNext]_fixedVars => WInv'
  BY WalkNext
<1>2. WInv => TmpFresh
  BY DEF WInv, WalkInv, TmpFresh, Ahead, Cutting, Freeing
<1> QED BY WalkInit, <1>1, <1>2, PTL DEF FixedSpec

-----------------------------------------------------------------------------
(***************************************************************************)
(* Segments over free pages                                                *)
(*                                                                         *)
(* FInv adds what holds as long as every segment was free when it was loaded*)
(* and no cache grew into it: Sound, the invariant of the allocators with  *)
(*   - StartInv: a segment has no physical pages before it is backed;      *)
(*   - SafeWalk: during the walk the pages of the segment are on the lists,*)
(*     at or behind the node ahead, or have been taken; whatever else is   *)
(*     taken does not straddle the bounds of the segment, but for the piece*)
(*     that is being cut;                                                  *)
(*   - SafeBack: after it, they all have been taken, in pieces inside the  *)
(*     segment, so that they can be given back as one chunk.               *)
(* The allocators are the same as under FpageAlloc: their steps are those of*)
(* AllocStep, for which the sections above show IInv, Control and          *)
(* NothingLost.  What is new is shown for the steps of the walk.           *)
(***************************************************************************)

\* sys$fpage_remove_chunk is at work; the segment has been claimed and is being backed.
Walking == pc = "scan" \/ Cutting \/ Resuming
Claimed == op.flags = "fixed" /\ \/ pc \in {"fback", "list", "lnode", "undo", "undone"}
                                 \/ pc \in {"alloc", "split"} /\ ret = "lnode"
                                 \/ pc \in Freeing /\ ret = "undone"

\* A region does not straddle the bounds of the segment.
InOut(r) == Disj(r, Segment) \/ Within(r, Segment)

\* What is left of the fpage that is being cut up.
Piece == IF pc = "below" THEN scan.fpage ELSE FromSegment(scan.fpage)

\* A segment has no physical pages before its backing begins.
StartInv == /\ op.flags = "fixed" /\ pc \in {"new", "insert"} => op.list = {}
            /\ pc = "fback" => op.flags = "fixed"

\* During the walk the pages of the segment are on the lists, at or after the node ahead, or
\* have been taken.
SafeWalk == Walking =>
  /\ Segment \in Region
  /\ Cutting => scan.fpage \in Region /\ Piece \in used["vm"]
  /\ \A r \in used["vm"] : InOut(r) \/ (Cutting /\ r = Piece)
  /\ Apart({Segment}, InternalRegion("vm") \union InHand("vm"))
  /\ Pages({Segment}) \subseteq Pages(used["vm"] \union flist["vm"])
  /\ \A f \in flist["vm"] : Touches(f) =>
       scan.size < f.size \/ (scan.size = f.size /\ f \notin scan.seen /\ Ahead # NoPages)

\* After the walk they all have been taken.
SafeBack == Claimed =>
  /\ Segment \in Region
  /\ pc \in Freeing => al = "pm"
  /\ Apart({Segment}, flist["vm"] \union InternalRegion("vm"))
  /\ \A r \in used["vm"] : InOut(r)
  /\ Pages({Segment}) \subseteq Pages(used["vm"])

Sound == IInv /\ Control /\ NothingLost /\ StartInv /\ SafeWalk /\ SafeBack

FInv == WInv /\ (clean /\ spared => Sound)
-----------------------------------------------------------------------------
\* Whatever is disjoint from all that covers a region is disjoint from the region.
LEMMA DisjCovered ==
  ASSUME NEW S \in Region, NEW F \in SUBSET Region, Pages({S}) \subseteq Pages(F),
         NEW r \in Region, \A f \in F : Disj(r, f)
  PROVE  Disj(r, S)
<1> SUFFICES ASSUME ~Disj(r, S) PROVE FALSE
  OBVIOUS
<1>1. PICK x \in Nat : r.base <= x /\ x < r.base + r.size /\ S.base <= x /\ x < S.base + S.size
  <2>1. r.base \in Nat /\ r.size \in Nat \ {0} /\ S.base \in Nat /\ S.size \in Nat \ {0}
    BY DEF Region
  <2>2. r.base < S.base + S.size /\ S.base < r.base + r.size
    BY <2>1 DEF Disj, EndOf
  <2>3. CASE r.base <= S.base
    BY <2>1, <2>2, <2>3
  <2>4. CASE S.base <= r.base
    BY <2>1, <2>2, <2>4
  <2> QED BY <2>1, <2>3, <2>4
<1>2. x \in Pages({S})
  BY <1>1 DEF Pages, EndOf, Region
<1>3. PICK f \in F : x \in f.base .. EndOf(f) - 1
  BY <1>2 DEF Pages
<1> QED BY <1>1, <1>3 DEF Disj, EndOf, Region

\* Only regions that touch S count for covering it.
LEMMA CoverShrinks ==
  ASSUME NEW S \in Region, NEW F \in SUBSET Region, NEW G, Pages({S}) \subseteq Pages(F),
         \A f \in F : Disj(f, S) \/ f \in G
  PROVE  Pages({S}) \subseteq Pages(G)
<1> SUFFICES ASSUME NEW x \in Pages({S}) PROVE x \in Pages(G)
  OBVIOUS
<1>1. PICK f \in F : x \in f.base .. EndOf(f) - 1
  BY DEF Pages
<1>2. x \in S.base .. EndOf(S) - 1
  BY DEF Pages
<1>3. ~Disj(f, S)
  BY <1>1, <1>2 DEF Disj, EndOf, Region
<1> QED BY <1>1, <1>3 DEF Pages

\* The points of a fixed creation outside the fpage routines.
Own == {"idle", "new", "insert", "scan", "below", "above", "fback", "list", "undo"}

\* There is no memory map left to hand over while segments are created.
LEMMA NonePending ==
  ASSUME TypeOK, Control, pc \in Own
  PROVE  \A a \in Allocs : pending[a] = {}
BY DEF Control, BootInv, Own, Halts, Freeing, Allocs

\* A step of a fixed creation keeps the invariant of the allocators if it keeps the types
\* and the places of the pages apart.
LEMMA OwnStep ==
  ASSUME IInv, Control, ~Growing, UNCHANGED <<grow, mem, pending, internal>>,
         pc \in Own, pc' \in Own \union {"free"}, TypeOK', Exclusive',
         \A a \in Allocs : flist'[a] \subseteq flist[a],
         pc' = "free" => hand'.size > 0 /\ (ret' = "fail" \/ (op'.flags = "fixed" /\ ret' \in {"above", "scan"})),
         pc' # "free" => hand'.size = 0,
         pc' \in {"new", "insert"} => op'.size > 0,
         pc' \in {"list", "undo"} => op'.flags = "fixed",
         op'.list \subseteq op.list, used["pm"] \subseteq used'["pm"],
         op'.list # {} => pc' \in {"list", "insert"},
         op'.flags # "internal"
  PROVE  IInv' /\ Control'
<1>0. \A a \in Allocs : pending'[a] = {}
  BY NonePending DEF IInv
<1>1. Aligned'
  BY DEF IInv, Aligned, Own
<1>2. HandInv' /\ RetInv' /\ GrowInv' /\ NeverNull'
  <2>1. HandInv'
    BY DEF HandInv, Holding, EmptyHanded, Own
  <2>2. RetInv'
    BY DEF RetInv, Freeing, Resumes, Own
  <2>3. GrowInv' /\ NeverNull'
    BY DEF GrowInv, Growing, NeverNull, Own
  <2> QED BY <2>1, <2>2, <2>3
<1>3. ActiveInv'
  BY DEF IInv, ActiveInv, Own
<1>4. ChunkInv'
  BY DEF ChunkInv, SizedOp, HasChunk, Own, Freeing
<1>5. ListInv'
  <2>1. \A e \in op'.list : /\ e.fpage \in used'["pm"]
                            /\ \A d \in op'.list : d.fpage = e.fpage => d = e
    BY DEF IInv, ListInv
  <2> QED BY <1>0, <2>1 DEF ListInv, Allocs
<1>6. PendInv'
  BY <1>0 DEF PendInv
<1>7. Control'
  <2>1. EmptyInv'
    BY DEF Control, EmptyInv, Own
  <2>2. BootInv'
    BY <1>0 DEF BootInv, Allocs
  <2>3. OpInv'
    BY DEF OpInv
  <2> QED BY <2>1, <2>2, <2>3 DEF Control
<1> QED BY <1>1, <1>2, <1>3, <1>4, <1>5, <1>6, <1>7 DEF IInv

\* So does a step that moves no page.
LEMMA CalmStep ==
  ASSUME IInv, Control, NothingLost, ~Growing,
         UNCHANGED <<memory, booting, pools, grow, ret, al, hand>>,
         pc \in Own, pc' \in Own, slabs' \in [Caches -> Nat],
         op' \in [flags : Flags, size : Nat, at : Nat, cur : Nat, want : Nat,
                  list : PhysList, bt : 0..BtMax],
         sections' \subseteq [flags : Flags, base : Nat, size : Nat \ {0}, list : PhysList],
         pc' \in {"new", "insert"} => op'.size > 0,
         pc' \in {"list", "undo"} => op'.flags = "fixed",
         op'.list \subseteq op.list,
         op'.list # {} => pc' \in {"list", "insert"},
         op'.flags # "internal"
  PROVE  IInv' /\ Control' /\ NothingLost'
<1>1. TypeOK'
  BY DEF IInv, TypeOK, memory, booting, Own, PCs
<1>2. Exclusive'
  BY DEF IInv, Exclusive, ExclusiveIn, InternalRegion, InHand, memory
<1>3. hand'.size = 0
  BY DEF IInv, HandInv, EmptyHanded, Holding, Halts, Own, PCs
<1>4. UNCHANGED <<grow, mem, pending, internal>> /\ flist' = flist /\ used' = used
  BY DEF memory, booting
<1>5. pc' # "free"
  BY DEF Own
<1>6. IInv' /\ Control'
  <2>1. \A a \in Allocs : flist'[a] \subseteq flist[a]
    BY <1>4
  <2>2. used["pm"] \subseteq used'["pm"]
    BY <1>4
  <2> QED BY <1>1, <1>2, <1>3, <1>4, <1>5, <2>1, <2>2, OwnStep
<1>7. NothingLost'
  <2>1. \A a \in Allocs : InHand(a)' = InHand(a)
    BY DEF InHand
  <2> QED BY <1>4, <2>1, SameNothingLost
<1> QED BY <1>6, <1>7

-----------------------------------------------------------------------------
\* The steps of a fixed creation and of the walk that move no page.
LEMMA CalmFixed ==
  ASSUME WInv, Sound,
         \/ CreateFixed \/ NewFixed \/ InsertedFixed \/ ScanList \/ ScanKeep \/ ScanDone
         \/ BackFixed \/ FixedDone
  PROVE  IInv' /\ Control' /\ NothingLost'
<1> DEFINE OpType == [flags : Flags, size : Nat, at : Nat, cur : Nat, want : Nat,
                      list : PhysList, bt : 0..BtMax]
           SecType == [flags : Flags, base : Nat, size : Nat \ {0}, list : PhysList]
<1>0. /\ IInv /\ Control /\ NothingLost /\ StartInv /\ OpInv /\ ChunkInv
      /\ op \in OpType /\ sections \subseteq SecType /\ slabs \in [Caches -> Nat]
  BY DEF Sound, IInv, Control, TypeOK
<1>n. NoOp \in OpType
  BY ParamAssumption DEF NoOp, Flags, PhysList
<1>1. CASE CreateFixed
  <2>1. PICK r \in FixedRequests : Call("fixed", r.size, r.base)
    BY <1>1 DEF CreateFixed
  <2>2. r.size \in Nat \ {0} /\ r.base \in Nat
    BY FixedAssumption DEF Region
  <2>3. /\ op' = [flags |-> "fixed", size |-> r.size, at |-> r.base, cur |-> 0, want |-> 0,
                  list |-> {}, bt |-> 0]
        /\ pc' = "new"
    BY <2>1 DEF Call, NoOp
  <2>4. op' \in OpType /\ op'.flags = "fixed" /\ op'.size > 0 /\ op'.list = {}
    BY <2>2, <2>3, ParamAssumption DEF Flags, PhysList
  <2>5. /\ UNCHANGED <<memory, booting, pools, grow, ret, al, hand, slabs, sections>>
        /\ pc = "idle" /\ ~Growing
    BY <1>1 DEF CreateFixed, At, caches
  <2> HIDE DEF OpType, SecType
  <2> QED BY <1>0, <2>3, <2>4, <2>5, CalmStep DEF Own, OpType, SecType
<1>2. CASE NewFixed
  <2>1. /\ UNCHANGED <<memory, booting, pools, grow, ret, al, hand, op, sections>>
        /\ pc = "new" /\ pc' = "insert" /\ ~Growing /\ op.flags = "fixed"
        /\ slabs' = [slabs EXCEPT !["ms"] = @ - 1] /\ slabs["ms"] > 0
    BY <1>2 DEF NewFixed, At
  <2>2. slabs' \in [Caches -> Nat]
    BY <1>0, <2>1 DEF Caches
  <2>3. op.list = {} /\ op.size > 0
    BY <1>0, <2>1 DEF StartInv, ChunkInv, SizedOp
  <2> HIDE DEF OpType, SecType
  <2> QED BY <1>0, <2>1, <2>2, <2>3, CalmStep DEF Own, OpType, SecType
<1>3. CASE InsertedFixed \/ ScanDone
  <2>1. /\ UNCHANGED <<memory, booting, pools, grow, ret, al, hand, op, sections, slabs>>
        /\ pc \in {"insert", "scan"} /\ pc' \in {"scan", "fback"} /\ ~Growing
    BY <1>3 DEF InsertedFixed, ScanDone, At, caches
  <2>2. op.flags = "fixed"
    BY <1>3 DEF InsertedFixed, ScanDone, At, WInv, WalkInv
  <2>3. op.list = {}
    BY <1>0, <2>1, <2>2 DEF StartInv, OpInv, Freeing, Halts
  <2> HIDE DEF OpType, SecType
  <2> QED BY <1>0, <2>1, <2>2, <2>3, CalmStep DEF Own, OpType, SecType
<1>4. CASE ScanList \/ ScanKeep
  <2>1. UNCHANGED vars
    BY <1>4 DEF ScanList, ScanKeep
  <2>2. IInv' /\ Control' /\ NothingLost'
    <3>1. IInv'
      BY <1>0, <2>1, StepStutter
    <3>2. Control'
      BY <1>0, <2>1 DEF Control, EmptyInv, BootInv, OpInv, vars
    <3>3. \A a \in Allocs : InHand(a)' = InHand(a)
      BY <2>1 DEF InHand, vars
    <3>4. NothingLost'
      BY <1>0, <2>1, <3>3, SameNothingLost DEF vars
    <3> QED BY <3>1, <3>2, <3>4
  <2> QED BY <2>2
<1>5. CASE BackFixed
  <2>1. /\ UNCHANGED <<memory, booting, pools, grow, ret, al, hand, sections, slabs>>
        /\ pc = "fback" /\ pc' = "list" /\ ~Growing /\ op' = [op EXCEPT !.cur = op.at]
    BY <1>5 DEF BackFixed, At, caches
  <2>2. op.flags = "fixed"
    BY <1>0, <2>1 DEF StartInv
  <2>3. op' \in OpType /\ op'.flags = "fixed" /\ op'.list = op.list
    BY <1>0, <2>1, <2>2
  <2> HIDE DEF OpType, SecType
  <2> QED BY <1>0, <2>1, <2>3, CalmStep DEF Own, OpType, SecType
<1>6. CASE FixedDone
  <2>1. /\ UNCHANGED <<memory, booting, pools, grow, ret, al, hand, slabs>>
        /\ pc = "list" /\ pc' = "idle" /\ ~Growing /\ op' = NoOp /\ op.flags = "fixed"
        /\ sections' = sections \union {[flags |-> "fixed", base |-> op.at, size |-> op.size, list |-> op.list]}
    BY <1>6 DEF FixedDone, At, caches
  <2>2. op.size \in Nat \ {0}
    BY <2>1 DEF Sound, SafeBack, Claimed, Segment, Region
  <2>3. sections' \subseteq SecType
    <3>1. [flags |-> "fixed", base |-> op.at, size |-> op.size, list |-> op.list] \in SecType
      BY <1>0, <2>2 DEF Flags
    <3> HIDE DEF SecType
    <3> QED BY <1>0, <2>1, <3>1
  <2>4. op'.flags # "internal" /\ op'.list = {}
    BY <2>1 DEF NoOp
  <2> HIDE DEF OpType, SecType
  <2> QED BY <1>0, <1>n, <2>1, <2>3, <2>4, CalmStep DEF Own, OpType, SecType
<1> QED BY <1>1, <1>2, <1>3, <1>4, <1>5, <1>6

\* What is cut from an fpage that overlaps the segment, below and above it.
BelowOf(f) == [base |-> f.base, size |-> op.at - f.base]
AboveOf(f) == [base |-> op.at + op.size, size |-> EndOf(f) - (op.at + op.size)]

\* The pieces tile the fpage: the extra below, the part in the segment, the extra above.
LEMMA Pieces ==
  ASSUME NEW f \in Region, Segment \in Region, Touches(f)
  PROVE  /\ FromSegment(f) \in Region /\ Within(FromSegment(f), f) /\ EndOf(FromSegment(f)) = EndOf(f)
         /\ InSegment(f) \in Region /\ Within(InSegment(f), FromSegment(f))
         /\ Within(InSegment(f), Segment)
         /\ InSegment(f).base = FromSegment(f).base
         /\ f.base < op.at => /\ BelowOf(f) \in Region /\ Within(BelowOf(f), f)
                              /\ FromSegment(f).base = EndOf(BelowOf(f))
                              /\ Disj(BelowOf(f), Segment)
         /\ ~(f.base < op.at) => FromSegment(f) = f
         /\ EndOf(f) > op.at + op.size => /\ AboveOf(f) \in Region
                                          /\ Within(AboveOf(f), FromSegment(f))
                                          /\ EndOf(InSegment(f)) = AboveOf(f).base
                                          /\ EndOf(AboveOf(f)) = EndOf(f)
                                          /\ Disj(AboveOf(f), Segment)
         /\ ~(EndOf(f) > op.at + op.size) => InSegment(f) = FromSegment(f)
<1>1. PICK b \in Nat, n \in Nat \ {0} : f = [base |-> b, size |-> n]
  BY DEF Region
<1>2. PICK at \in Nat, sz \in Nat \ {0} : at = op.at /\ sz = op.size
  BY DEF Segment, Region
<1>3. b < at + sz /\ at < b + n
  BY <1>1, <1>2 DEF Touches, Disj, Segment, EndOf
<1>4. EndOf(f) = b + n /\ f.base = b
  BY <1>1 DEF EndOf
<1>5. CASE b < at
  <2>1. FromSegment(f) = [base |-> at, size |-> b + n - at]
    BY <1>2, <1>4, <1>5 DEF FromSegment
  <2>2. BelowOf(f) = [base |-> b, size |-> at - b]
    BY <1>2, <1>4 DEF BelowOf
  <2>3. /\ /\ FromSegment(f) \in Region /\ Within(FromSegment(f), f)
        /\ EndOf(FromSegment(f)) = EndOf(f)
    BY <1>1, <1>3, <1>4, <1>5, <2>1 DEF Region, Within, EndOf
  <2>4. /\ BelowOf(f) \in Region /\ Within(BelowOf(f), f)
        /\ FromSegment(f).base = EndOf(BelowOf(f)) /\ Disj(BelowOf(f), Segment)
    BY <1>1, <1>2, <1>3, <1>4, <1>5, <2>1, <2>2 DEF Region, Within, EndOf, Disj, Segment
  <2>5. CASE b + n > at + sz
    <3>1. InSegment(f) = [base |-> at, size |-> sz]
      <4>1. FromSegment(f).base = at
        BY <2>1
      <4>2. InSegment(f) = [base |-> at, size |-> at + sz - at]
        BY <1>2, <1>4, <2>5, <4>1 DEF InSegment
      <4> QED BY <4>2
    <3>2. AboveOf(f) = [base |-> at + sz, size |-> b + n - (at + sz)]
      BY <1>2, <1>4 DEF AboveOf
    <3> QED BY <1>1, <1>2, <1>3, <1>4, <1>5, <2>1, <2>3, <2>4, <2>5, <3>1, <3>2
            DEF Region, Within, EndOf, Disj, Segment
  <2>6. CASE ~(b + n > at + sz)
    <3>1. InSegment(f) = [base |-> at, size |-> b + n - at]
      <4>1. FromSegment(f).base = at
        BY <2>1
      <4>2. (IF b + n < at + sz THEN b + n ELSE at + sz) = b + n
        BY <2>6
      <4> QED BY <1>2, <1>4, <4>1, <4>2 DEF InSegment
    <3> QED BY <1>1, <1>2, <1>3, <1>4, <1>5, <2>1, <2>3, <2>4, <2>6, <3>1
            DEF Region, Within, EndOf, Segment
  <2> QED BY <2>5, <2>6
<1>6. CASE ~(b < at)
  <2>1. FromSegment(f) = f
    <3>1. (IF b > at THEN b ELSE at) = b
      BY <1>6
    <3>2. FromSegment(f) = [base |-> b, size |-> b + n - b]
      BY <1>2, <1>4, <3>1 DEF FromSegment
    <3> QED BY <1>1, <3>2
  <2>5. CASE b + n > at + sz
    <3>1. InSegment(f) = [base |-> b, size |-> at + sz - b]
      <4>1. FromSegment(f).base = b
        BY <1>1, <2>1
      <4> QED BY <1>2, <1>4, <2>5, <4>1 DEF InSegment
    <3>2. AboveOf(f) = [base |-> at + sz, size |-> b + n - (at + sz)]
      BY <1>2, <1>4 DEF AboveOf
    <3> QED BY <1>1, <1>2, <1>3, <1>4, <1>6, <2>1, <2>5, <3>1, <3>2
            DEF Region, Within, EndOf, Disj, Segment
  <2>6. CASE ~(b + n > at + sz)
    <3>1. InSegment(f) = [base |-> b, size |-> n]
      <4>1. FromSegment(f).base = b
        BY <1>1, <2>1
      <4>2. (IF b + n < at + sz THEN b + n ELSE at + sz) = b + n
        BY <2>6
      <4>3. InSegment(f) = [base |-> b, size |-> b + n - b]
        BY <1>2, <1>4, <4>1, <4>2 DEF InSegment
      <4> QED BY <4>3
    <3> QED BY <1>1, <1>2, <1>3, <1>4, <1>6, <2>1, <2>6, <3>1
            DEF Region, Within, EndOf, Segment
  <2> QED BY <2>5, <2>6
<1> QED BY <1>5, <1>6

\* Part of a region that has left the lists stays out, the rest is in hand.
LEMMA CutUsed ==
  ASSUME TypeOK, ExclusiveIn("vm"), NEW r \in used["vm"], NEW s \in Region, Within(s, r),
         used'["vm"] = (used["vm"] \ {r}) \union {s}, flist'["vm"] = flist["vm"],
         internal'["vm"] = internal["vm"], NEW t, InHand("vm")' \subseteq {t},
         InHand("vm")' # {} => t \in Region /\ Within(t, r) /\ Disj(s, t)
  PROVE  ExclusiveIn("vm")'
<1>0. /\ flist["vm"] \subseteq Region /\ used["vm"] \subseteq Region
      /\ InternalRegion("vm") \subseteq Region
      /\ InternalRegion("vm")' = InternalRegion("vm")
  BY HeldRegions DEF Allocs, InternalRegion
<1>1. \A x \in flist["vm"] \union (used["vm"] \ {r}) \union InternalRegion("vm") : Disj(r, x)
  BY DisjSymmetric DEF ExclusiveIn, Separate, Apart
<1>2. \A x \in flist["vm"] \union (used["vm"] \ {r}) \union InternalRegion("vm") :
        Disj(s, x) /\ Disj(x, s)
  BY <1>0, <1>1, DisjWithin
<1>3. InHand("vm")' # {} =>
        \A x \in flist["vm"] \union (used["vm"] \ {r}) \union InternalRegion("vm") : Disj(t, x)
  BY <1>0, <1>1, DisjWithin
<1>4. Separate(flist["vm"]) /\ Separate(used'["vm"]) /\ Apart(flist["vm"], used'["vm"])
  BY <1>2 DEF ExclusiveIn, Separate, Apart
<1>5. Apart(InternalRegion("vm"), flist["vm"] \union used'["vm"])
  BY <1>2 DEF ExclusiveIn, Apart
<1>6. Apart(InHand("vm")', flist["vm"] \union used'["vm"] \union InternalRegion("vm"))
  BY <1>3, DisjSymmetric DEF Apart
<1> QED BY <1>0, <1>4, <1>5, <1>6 DEF ExclusiveIn

\* sys$fpage_free_extra cuts a region that has left the lists.
LEMMA CutStep ==
  ASSUME IInv, Control, NothingLost, ~Growing, op.flags = "fixed",
         pc \in {"below", "above"}, pc' \in {"above", "scan", "free"},
         UNCHANGED <<flist, internal, caches, booting, op, sections>>,
         NEW r \in used["vm"], NEW s \in Region, Within(s, r),
         used' = [used EXCEPT !["vm"] = (@ \ {r}) \union {s}], NEW t,
         \/ pc' # "free" /\ UNCHANGED <<al, hand, ret>> /\ s = r
         \/ /\ pc' = "free" /\ al' = "vm" /\ hand' = t /\ ret' \in {"above", "scan"}
            /\ t \in Region /\ Within(t, r) /\ Disj(s, t) /\ Pages({r}) = Pages({s, t})
  PROVE  IInv' /\ Control' /\ NothingLost'
<1>0. TypeOK /\ Exclusive /\ HandInv /\ OpInv
  BY DEF IInv, Control
<1>1. hand.size = 0 /\ \A a \in Allocs : InHand(a) = {}
  BY <1>0 DEF HandInv, EmptyHanded, Holding, Halts, PCs, InHand
<1>2. op.list = {}
  BY <1>0 DEF OpInv, Freeing, Halts
<1>3. /\ used'["vm"] = (used["vm"] \ {r}) \union {s} /\ used'["pm"] = used["pm"]
      /\ used' \in [Allocs -> SUBSET Region]
  BY <1>0 DEF TypeOK, Allocs
<1>4. /\ InHand("pm")' = {}
      /\ pc' # "free" => InHand("vm")' = {} /\ hand'.size = 0
      /\ pc' = "free" => InHand("vm")' = {t} /\ hand'.size > 0
  BY <1>1 DEF InHand, Region
<1>5. TypeOK'
  <2>1. hand' \in [base : Nat, size : Nat] /\ al' \in Allocs /\ pc' \in PCs /\ ret' \in PCs
    BY <1>0 DEF TypeOK, Region, Allocs, PCs
  <2> QED BY <1>0, <1>3, <2>1 DEF TypeOK, caches, booting
<1>6. Exclusive'
  <2>1. ExclusiveIn("vm")'
    BY <1>0, <1>3, <1>4, CutUsed DEF Exclusive, Allocs
  <2>2. ExclusiveIn("pm")'
    BY <1>0, <1>3, <1>4, ExclusiveSame DEF Exclusive, Allocs
  <2> QED BY <2>1, <2>2 DEF Exclusive, Allocs
<1>7. IInv' /\ Control'
  <2>1. UNCHANGED <<grow, mem, pending, internal>> /\ flist' = flist
    BY DEF caches, booting
  <2> QED BY <1>2, <1>3, <1>4, <1>5, <1>6, <2>1, OwnStep DEF Own
<1>8. NothingLost'
  <2> DEFINE C == flist["vm"] \union (used["vm"] \ {r}) \union InternalRegion("vm")
             Y == {s} \union InHand("vm")'
  <2>1. "vm" \in Allocs /\ Held("vm") = C \union {r}
    BY <1>1 DEF Held, Allocs
  <2>2. Held("vm")' = C \union Y
    BY <1>3 DEF Held, InternalRegion
  <2>3. Pages({r}) = Pages(Y)
    <3>1. pc' = "free" => Y = {s, t}
      BY <1>4
    <3>2. pc' # "free" => Y = {r}
      BY <1>4
    <3> HIDE DEF Y
    <3> QED BY <3>1, <3>2
  <2> HIDE DEF C, Y
  <2>4. Pages(Held("vm")') = Pages(Held("vm"))
    BY <2>1, <2>2, <2>3, Exchange
  <2>5. Held("pm")' = Held("pm")
    BY <1>1, <1>3, <1>4, HeldSame DEF Allocs, InternalRegion
  <2>6. mem' = mem
    BY DEF booting
  <2> QED BY <2>4, <2>5, <2>6, KeptNothingLost DEF Allocs
<1> QED BY <1>7, <1>8

\* Both halves of sys$fpage_free_extra.
LEMMA ExtraSound ==
  ASSUME WInv, Sound, ExtraBelow \/ ExtraAbove
  PROVE  IInv' /\ Control' /\ NothingLost'
<1> DEFINE f == scan.fpage
<1>0. IInv /\ Control /\ NothingLost /\ TypeOK /\ used["vm"] \subseteq Region
  BY HeldRegions DEF Sound, IInv, Allocs
<1>1. Cutting /\ Walking /\ ~Growing /\ pc \in {"below", "above"}
  BY DEF ExtraBelow, ExtraAbove, At, Cutting, Walking
<1>2. op.flags = "fixed" /\ Touches(f)
  BY <1>1 DEF WInv, WalkInv, Walking
<1>3. Segment \in Region /\ Piece \in used["vm"]
  BY <1>1 DEF Sound, SafeWalk
<1>4. UNCHANGED <<flist, internal, caches, booting, op, sections>>
  BY DEF ExtraBelow, ExtraAbove
<1> HIDE DEF f
<1>5. CASE ExtraBelow
  <2>1. pc = "below" /\ Piece = f
    BY <1>5 DEF ExtraBelow, At, Piece, f
  <2>2. f \in Region /\ f \in used["vm"]
    BY <1>0, <1>3, <2>1
  <2>3. used' = [used EXCEPT !["vm"] = (@ \ {f}) \union {FromSegment(f)}]
    BY <1>5 DEF ExtraBelow, Keep, f
  <2>4. CASE f.base < op.at
    <3>1. pc' = "free" /\ al' = "vm" /\ hand' = BelowOf(f) /\ ret' = "above"
      BY <1>5, <2>4 DEF ExtraBelow, CallFree, BelowOf, f
    <3>2. /\ FromSegment(f) \in Region /\ Within(FromSegment(f), f)
          /\ BelowOf(f) \in Region /\ Within(BelowOf(f), f)
          /\ FromSegment(f).base = EndOf(BelowOf(f)) /\ EndOf(FromSegment(f)) = EndOf(f)
          /\ BelowOf(f).base = f.base
      BY <1>2, <1>3, <2>2, <2>4, Pieces DEF BelowOf
    <3>3. Disj(FromSegment(f), BelowOf(f))
      BY <3>2 DEF Disj, Region
    <3>4. Pages({f}) = Pages({FromSegment(f), BelowOf(f)})
      <4>1. Pages({f}) = Pages({BelowOf(f), FromSegment(f)})
        BY <2>2, <3>2, PagesCut
      <4>2. {BelowOf(f), FromSegment(f)} = {FromSegment(f), BelowOf(f)}
        OBVIOUS
      <4> QED BY <4>1, <4>2
    <3> QED BY <1>0, <1>1, <1>2, <1>4, <2>2, <2>3, <3>1, <3>2, <3>3, <3>4, CutStep
  <2>5. CASE ~(f.base < op.at)
    <3>1. pc' = "above" /\ UNCHANGED <<al, hand, ret>>
      BY <1>5, <2>5 DEF ExtraBelow, f
    <3>2. FromSegment(f) = f /\ Within(f, f)
      BY <1>2, <1>3, <2>2, <2>5, Pieces
    <3> QED BY <1>0, <1>1, <1>2, <1>4, <2>2, <2>3, <3>1, <3>2, CutStep
  <2> QED BY <2>4, <2>5
<1>6. CASE ExtraAbove
  <2>1. pc = "above" /\ Piece = FromSegment(f)
    BY <1>6 DEF ExtraAbove, At, Piece, f
  <2>2. f \in Region /\ FromSegment(f) \in used["vm"]
    BY <1>1, <1>3, <2>1 DEF Sound, SafeWalk, f
  <2>3. used' = [used EXCEPT !["vm"] = (@ \ {FromSegment(f)}) \union {InSegment(f)}]
    BY <1>6 DEF ExtraAbove, Keep, f
  <2>4. CASE EndOf(f) > op.at + op.size
    <3>1. pc' = "free" /\ al' = "vm" /\ hand' = AboveOf(f) /\ ret' = "scan"
      BY <1>6, <2>4 DEF ExtraAbove, CallFree, Above, AboveOf, f
    <3>2. /\ FromSegment(f) \in Region /\ InSegment(f) \in Region
          /\ Within(InSegment(f), FromSegment(f))
          /\ AboveOf(f) \in Region /\ Within(AboveOf(f), FromSegment(f))
          /\ InSegment(f).base = FromSegment(f).base
          /\ EndOf(InSegment(f)) = AboveOf(f).base
          /\ EndOf(AboveOf(f)) = EndOf(FromSegment(f))
      BY <1>2, <1>3, <2>2, <2>4, Pieces
    <3>3. Disj(InSegment(f), AboveOf(f))
      BY <3>2 DEF Disj, Region
    <3>4. Pages({FromSegment(f)}) = Pages({InSegment(f), AboveOf(f)})
      BY <3>2, PagesCut
    <3> QED BY <1>0, <1>1, <1>2, <1>4, <2>2, <2>3, <3>1, <3>2, <3>3, <3>4, CutStep
  <2>5. CASE ~(EndOf(f) > op.at + op.size)
    <3>1. pc' = "scan" /\ UNCHANGED <<al, hand, ret>>
      BY <1>6, <2>5 DEF ExtraAbove, f
    <3>2. /\ InSegment(f) = FromSegment(f) /\ InSegment(f) \in Region
          /\ Within(InSegment(f), FromSegment(f))
      BY <1>2, <1>3, <2>2, <2>5, Pieces
    <3> QED BY <1>0, <1>1, <1>2, <1>4, <2>2, <2>3, <3>1, <3>2, CutStep
  <2> QED BY <2>4, <2>5
<1> QED BY <1>5, <1>6

\* An fpage that overlaps the segment leaves its list.
LEMMA TakeSound ==
  ASSUME WInv, Sound, ScanTake
  PROVE  IInv' /\ Control' /\ NothingLost'
<1> DEFINE f == scan.node
<1>0. IInv /\ Control /\ NothingLost /\ TypeOK /\ HandInv /\ OpInv /\ Exclusive
  BY DEF Sound, IInv, Control
<1>1. /\ pc = "scan" /\ pc' = "below" /\ ~Growing /\ f \in flist["vm"]
      /\ UNCHANGED <<internal, pools, grow, booting, ret, al, hand, op, sections>>
      /\ flist' = [flist EXCEPT !["vm"] = @ \ {f}]
      /\ used' = [used EXCEPT !["vm"] = @ \union {f}]
      /\ slabs' = [slabs EXCEPT !["fp"] = @ + 1]
  BY DEF ScanTake, At
<1> HIDE DEF f
<1>2. /\ flist'["vm"] = flist["vm"] \ {f} /\ used'["vm"] = used["vm"] \union {f}
      /\ flist'["pm"] = flist["pm"] /\ used'["pm"] = used["pm"]
  BY <1>0, <1>1 DEF TypeOK, Allocs
<1>3. f \in Region
  BY <1>0, <1>1, HeldRegions DEF Allocs
<1>4. /\ hand.size = 0 /\ op.list = {} /\ op.flags = "fixed"
      /\ \A a \in Allocs : InHand(a) = {} /\ InHand(a)' = {}
  BY <1>0, <1>1 DEF HandInv, EmptyHanded, Holding, Halts, PCs, InHand, OpInv, Freeing, WInv,
     WalkInv
<1>5. TypeOK'
  <2>1. slabs' \in [Caches -> Nat]
    BY <1>0, <1>1 DEF TypeOK, Caches
  <2>2. flist' \in [Allocs -> SUBSET Fpage] /\ used' \in [Allocs -> SUBSET Region]
    BY <1>0, <1>1, <1>3 DEF TypeOK
  <2> QED BY <1>0, <1>1, <2>1, <2>2 DEF TypeOK, booting, PCs
<1>6. Exclusive'
  <2>1. ExclusiveIn("vm") /\ InternalRegion("vm")' = InternalRegion("vm")
    BY <1>0, <1>1 DEF Exclusive, Allocs, InternalRegion
  <2>2. \A x \in (flist["vm"] \ {f}) \union used["vm"] \union InternalRegion("vm") : Disj(f, x) /\ Disj(x, f)
    BY <1>1, <2>1, DisjSymmetric DEF ExclusiveIn, Separate, Apart
  <2>3. Separate(flist'["vm"]) /\ Separate(used'["vm"]) /\ Apart(flist'["vm"], used'["vm"])
    BY <1>2, <2>1, <2>2 DEF ExclusiveIn, Separate, Apart
  <2>4. Apart(InternalRegion("vm"), flist'["vm"] \union used'["vm"])
    BY <1>2, <2>1, <2>2 DEF ExclusiveIn, Apart
  <2>5. ExclusiveIn("vm")'
    BY <1>4, <2>1, <2>3, <2>4 DEF ExclusiveIn, Apart, Allocs
  <2>6. ExclusiveIn("pm")'
    BY <1>0, <1>1, <1>2, <1>4, ExclusiveSame DEF Exclusive, Allocs
  <2> QED BY <2>5, <2>6 DEF Exclusive, Allocs
<1>7. IInv' /\ Control'
  <2>1. UNCHANGED <<grow, mem, pending, internal>> /\ op' = op /\ hand'.size = 0
    BY <1>1, <1>4 DEF booting
  <2>2. \A a \in Allocs : flist'[a] \subseteq flist[a]
    BY <1>2 DEF Allocs
  <2> QED BY <1>0, <1>1, <1>2, <1>4, <1>5, <1>6, <2>1, <2>2, OwnStep DEF Own
<1>8. NothingLost'
  <2>1. Held("vm")' = Held("vm")
    BY <1>1, <1>2, <1>4 DEF Held, InternalRegion, Allocs
  <2>2. Held("pm")' = Held("pm")
    BY <1>1, <1>2, <1>4 DEF Held, InternalRegion, Allocs
  <2>3. mem' = mem
    BY <1>1 DEF booting
  <2> QED BY <1>0, <2>1, <2>2, <2>3, KeptNothingLost DEF Allocs
<1> QED BY <1>7, <1>8

\* A segment that cannot be backed is given back in one piece.
LEMMA UndoneSound ==
  ASSUME Sound, FixedUndone
  PROVE  IInv' /\ Control' /\ NothingLost'
<1>0. IInv /\ Control /\ NothingLost /\ TypeOK /\ HandInv /\ OpInv /\ Exclusive
  BY DEF Sound, IInv, Control
<1>1. /\ pc = "undo" /\ ~Growing /\ op.flags = "fixed" /\ op.list = {}
      /\ used' = [used EXCEPT !["vm"] = {r \in @ : Disj(r, Segment)}]
      /\ pc' = "free" /\ al' = "vm" /\ hand' = Segment /\ ret' = "fail"
      /\ UNCHANGED <<flist, internal, caches, booting, op, sections>>
  BY DEF FixedUndone, At, CallFree
<1>2. /\ Segment \in Region
      /\ Apart({Segment}, flist["vm"] \union InternalRegion("vm"))
      /\ \A r \in used["vm"] : InOut(r)
      /\ Pages({Segment}) \subseteq Pages(used["vm"])
  BY <1>1 DEF Sound, SafeBack, Claimed
<1> DEFINE G == {r \in used["vm"] : ~Disj(r, Segment)}
<1>3. used'["vm"] = used["vm"] \ G /\ used'["pm"] = used["pm"]
  BY <1>0, <1>1 DEF TypeOK, Allocs
<1>4. /\ InHand("vm") = {} /\ InHand("pm") = {} /\ InHand("pm")' = {}
      /\ InHand("vm")' = {Segment} /\ hand'.size > 0
  BY <1>0, <1>1, <1>2 DEF HandInv, EmptyHanded, Holding, Halts, PCs, InHand, Region
<1>5. TypeOK'
  <2>1. hand' \in [base : Nat, size : Nat] /\ al' \in Allocs /\ pc' \in PCs /\ ret' \in PCs
    BY <1>1, <1>2 DEF Region, Allocs, PCs
  <2>2. used' \in [Allocs -> SUBSET Region]
    BY <1>0, <1>1 DEF TypeOK
  <2> QED BY <1>0, <1>1, <2>1, <2>2 DEF TypeOK, caches, booting
<1>6. Exclusive'
  <2>1. ExclusiveIn("vm") /\ InternalRegion("vm")' = InternalRegion("vm") /\ flist' = flist
    BY <1>0, <1>1 DEF Exclusive, Allocs, InternalRegion
  <2>2. used'["vm"] \subseteq used["vm"] /\ \A r \in used'["vm"] : Disj(Segment, r)
    BY <1>3, DisjSymmetric
  <2>3. Separate(flist["vm"]) /\ Separate(used'["vm"]) /\ Apart(flist["vm"], used'["vm"])
    BY <2>1, <2>2 DEF ExclusiveIn, Separate, Apart
  <2>4. Apart(InternalRegion("vm"), flist["vm"] \union used'["vm"])
    BY <2>1, <2>2 DEF ExclusiveIn, Apart
  <2>5. Apart(InHand("vm")', flist["vm"] \union used'["vm"] \union InternalRegion("vm"))
    BY <1>2, <1>4, <2>2 DEF Apart
  <2>6. ExclusiveIn("vm")'
    BY <2>1, <2>3, <2>4, <2>5 DEF ExclusiveIn
  <2>7. ExclusiveIn("pm")'
    BY <1>0, <1>1, <1>3, <1>4, ExclusiveSame DEF Exclusive, Allocs
  <2> QED BY <2>6, <2>7 DEF Exclusive, Allocs
<1> HIDE DEF G
<1>7. IInv' /\ Control'
  <2>1. UNCHANGED <<grow, mem, pending, internal>> /\ flist' = flist /\ op' = op
    BY <1>1 DEF caches, booting
  <2>2. /\ pc \in Own /\ ~Growing /\ pc' = "free" /\ ret' = "fail" /\ op.flags = "fixed"
        /\ op.list = {}
    BY <1>1 DEF Own
  <2> QED BY <1>0, <1>3, <1>4, <1>5, <1>6, <2>1, <2>2, OwnStep
<1>8. NothingLost'
  <2> DEFINE C == flist["vm"] \union (used["vm"] \ G) \union InternalRegion("vm")
  <2>1. "vm" \in Allocs /\ Held("vm") = C \union G
    BY <1>4 DEF Held, Allocs, G
  <2>2. Held("vm")' = C \union {Segment}
    BY <1>1, <1>3, <1>4 DEF Held, InternalRegion
  <2>3. Pages(G) = Pages({Segment})
    <3>0. used["vm"] \subseteq Region
      BY <1>0, HeldRegions DEF Allocs
    <3>1. Pages({Segment}) \subseteq Pages(G)
      <4>1. \A r \in used["vm"] : Disj(r, Segment) \/ r \in G
        BY DEF G
      <4> QED BY <1>2, <3>0, <4>1, CoverShrinks
    <3>2. ASSUME NEW x \in Pages(G) PROVE x \in Pages({Segment})
      <4>1. PICK r \in G : x \in r.base .. EndOf(r) - 1
        BY <3>2 DEF Pages
      <4>2. r \in Region /\ Within(r, Segment)
        BY <1>2, <3>0 DEF G, InOut
      <4>3. x \in Segment.base .. EndOf(Segment) - 1
        BY <1>2, <4>1, <4>2 DEF Within, Region, EndOf
      <4> QED BY <4>3 DEF Pages
    <3> QED BY <3>1, <3>2
  <2> HIDE DEF C
  <2>4. Pages(Held("vm")') = Pages(Held("vm"))
    BY <2>1, <2>2, <2>3, Exchange
  <2>5. Held("pm")' = Held("pm")
    BY <1>1, <1>3, <1>4 DEF Held, Allocs, InternalRegion
  <2>6. mem' = mem
    BY <1>1 DEF booting
  <2> QED BY <1>0, <2>4, <2>5, <2>6, KeptNothingLost DEF Allocs
<1> QED BY <1>7, <1>8

-----------------------------------------------------------------------------
\* A step that leaves the virtual lists and what is handed out of them alone.
LEMMA WalkSame ==
  ASSUME SafeWalk, op' = op, scan' = scan, used'["vm"] = used["vm"], flist'["vm"] = flist["vm"],
         Walking' => /\ Walking
                     /\ Cutting' <=> Cutting
                     /\ Cutting => Piece' = Piece
                     /\ InternalRegion("vm")' \subseteq InternalRegion("vm") \union InHand("vm")
                     /\ InHand("vm")' \subseteq InHand("vm")
  PROVE  SafeWalk'
<1> SUFFICES ASSUME Walking' PROVE SafeWalk'
  BY DEF SafeWalk
<1>1. Ahead' = Ahead /\ Segment' = Segment
  BY DEF Ahead, Segment
<1>2. \A r : InOut(r)' <=> InOut(r)
  BY <1>1 DEF InOut, Disj, Within, EndOf
<1>3. \A f : Touches(f)' <=> Touches(f)
  BY <1>1 DEF Touches, Disj, EndOf
<1>4. Walking
  OBVIOUS
<1>5. Apart({Segment}, InternalRegion("vm")' \union InHand("vm")')
  BY <1>4 DEF SafeWalk, Apart
<1>6. Pages({Segment}) \subseteq Pages(used["vm"] \union flist["vm"])
  BY <1>4 DEF SafeWalk
<1>7. /\ Segment' \in Region
      /\ Cutting' => scan'.fpage \in Region /\ Piece' \in used'["vm"]
      /\ \A r \in used'["vm"] : InOut(r)' \/ (Cutting' /\ r = Piece')
  BY <1>1, <1>2, <1>4 DEF SafeWalk
<1>8. \A f \in flist'["vm"] : Touches(f)' =>
        \/ scan'.size < f.size
        \/ scan'.size = f.size /\ f \notin scan'.seen /\ Ahead' # NoPages
  BY <1>1, <1>3, <1>4 DEF SafeWalk
<1>9. Apart({Segment'}, InternalRegion("vm")' \union InHand("vm")')
      /\ Pages({Segment'}) \subseteq Pages(used'["vm"] \union flist'["vm"])
  BY <1>1, <1>5, <1>6
<1> QED BY <1>7, <1>8, <1>9 DEF SafeWalk, Apart, Pages, Disj, EndOf

\* What carving a page off a region apart from the segment does.
LEMMA CarveApart ==
  ASSUME IInv, NEW r \in Sources("vm"), AllocInternal("vm", r), Segment \in Region,
         op' = op, Disj(r, Segment)
  PROVE  /\ Segment' = Segment
         /\ Apart({Segment}, InternalRegion("vm")')
         /\ used'["vm"] = used["vm"] \union {[base |-> r.base, size |-> 1]}
         /\ Disj([base |-> r.base, size |-> 1], Segment)
         /\ flist'["vm"] \subseteq flist["vm"] /\ flist["vm"] \ {r} \subseteq flist'["vm"]
<1>0. TypeOK /\ r \in Region /\ "vm" \in Allocs
  BY SourceFacts DEF IInv, Allocs
<1>1. Segment' = Segment
  BY DEF Segment
<1>2. used'["vm"] = used["vm"] \union {[base |-> r.base, size |-> 1]}
  BY <1>0 DEF TypeOK, AllocInternal
<1>3. flist'["vm"] \subseteq flist["vm"] /\ flist["vm"] \ {r} \subseteq flist'["vm"]
  BY <1>0 DEF TypeOK, AllocInternal
<1>4. Disj([base |-> r.base, size |-> 1], Segment)
  BY <1>0 DEF Disj, Region, EndOf
<1>5. internal'["vm"].base = r.base + 1 /\ internal'["vm"].end = EndOf(r)
  BY <1>0 DEF TypeOK, AllocInternal
<1>6. \A x \in InternalRegion("vm")' : x = [base |-> r.base + 1, size |-> EndOf(r) - (r.base + 1)]
                                       /\ r.base + 1 < EndOf(r)
  BY <1>5 DEF InternalRegion
<1>7. \A x \in InternalRegion("vm")' : x \in Region /\ Within(x, r)
  BY <1>0, <1>6 DEF Region, Within, EndOf
<1>8. \A x \in InternalRegion("vm")' : Disj(Segment, x)
  BY <1>0, <1>7, DisjWithin
<1> QED BY <1>1, <1>2, <1>3, <1>4, <1>8 DEF Apart

\* A pool page is carved during the walk, not out of the segment.
LEMMA WalkVirt ==
  ASSUME WInv, Sound, NEW c \in Caches, GrowVirt(c), Callees, spared'
  PROVE  SafeWalk'
<1> SUFFICES ASSUME Walking' PROVE SafeWalk'
  BY DEF SafeWalk
<1>1. PICK r \in Sources("vm") : AllocInternal("vm", r)
  BY DEF GrowVirt
<1>2. /\ pc' = pc /\ ret' = ret /\ al' = al /\ hand' = hand /\ op' = op /\ scan' = scan
      /\ pc \notin Halts /\ grow[c].stage = "virt"
  BY DEF GrowVirt, Running, Callees
<1>3. Walking /\ (Cutting' <=> Cutting) /\ Ahead' = Ahead
  BY <1>2 DEF Walking, Cutting, Resuming, Ahead
<1>4. pc = "node"
  BY <1>2, <1>3, GrowsForWalk DEF Walking
<1>5. ret \in {"above", "scan"}
  BY <1>3, <1>4 DEF Walking, Cutting, Resuming
<1>6. IInv /\ SafeWalk /\ Segment \in Region /\ TypeOK
  BY <1>3 DEF Sound, SafeWalk, IInv
<1>7. Disj(r, Segment)
  <2>1. CASE internal["vm"].active
    <3>1. r \in InternalRegion("vm")
      BY <2>1 DEF Sources
    <3>2. Disj(Segment, r)
      BY <1>3, <1>6, <3>1 DEF SafeWalk, Apart
    <3> QED BY <3>2, DisjSymmetric
  <2>2. CASE ~internal["vm"].active
    <3>1. r \in flist["vm"]
      BY <2>2 DEF Sources, Smallest
    <3>2. r \notin flist'["vm"]
      BY <1>1, <1>6, <2>2 DEF AllocInternal, TypeOK, Allocs
    <3>3. \A f \in flist["vm"] \ flist'["vm"] : ~Touches(f)
      BY <1>5 DEF Callees
    <3>4. ~Touches(r)
      BY <3>1, <3>2, <3>3
    <3> QED BY <3>4 DEF Touches
  <2> QED BY <2>1, <2>2
<1> DEFINE page == [base |-> r.base, size |-> 1]
<1>8. /\ Segment' = Segment
      /\ Apart({Segment}, InternalRegion("vm")')
      /\ used'["vm"] = used["vm"] \union {page}
      /\ Disj(page, Segment)
      /\ flist'["vm"] \subseteq flist["vm"] /\ flist["vm"] \ {r} \subseteq flist'["vm"]
  BY <1>1, <1>2, <1>6, <1>7, CarveApart
<1> HIDE DEF page
<1>9. Pages({Segment}) \subseteq Pages(used'["vm"] \union flist'["vm"])
  <2>1. used["vm"] \union flist["vm"] \in SUBSET Region
    BY <1>6, HeldRegions DEF Allocs
  <2>2. \A f \in used["vm"] \union flist["vm"] : Disj(f, Segment) \/ f \in used'["vm"] \union flist'["vm"]
    BY <1>7, <1>8
  <2>3. Pages({Segment}) \subseteq Pages(used["vm"] \union flist["vm"])
    BY <1>3, <1>6 DEF SafeWalk
  <2> QED BY <1>6, <2>1, <2>2, <2>3, CoverShrinks
<1>10. InHand("vm")' = InHand("vm")
  BY <1>2 DEF InHand
<1>11. Apart({Segment'}, InternalRegion("vm")' \union InHand("vm")')
  BY <1>3, <1>6, <1>8, <1>10 DEF SafeWalk, Apart
<1>12. Cutting => Piece' = Piece
  BY <1>2, <1>8 DEF Piece, FromSegment, EndOf
<1>13. \A x : InOut(x)' <=> InOut(x)
  BY <1>8 DEF InOut, Disj, Within, EndOf
<1>14. \A f : Touches(f)' <=> Touches(f)
  BY <1>8 DEF Touches, Disj, EndOf
<1>15. /\ Segment' \in Region
       /\ Cutting' => scan'.fpage \in Region /\ Piece' \in used'["vm"]
       /\ \A x \in used'["vm"] : InOut(x)' \/ (Cutting' /\ x = Piece')
  <2>1. InOut(page)
    BY <1>8 DEF InOut
  <2> QED BY <1>2, <1>3, <1>6, <1>8, <1>12, <1>13, <2>1 DEF SafeWalk
<1>16. \A f \in flist'["vm"] : Touches(f)' =>
         \/ scan'.size < f.size
         \/ scan'.size = f.size /\ f \notin scan'.seen /\ Ahead' # NoPages
  BY <1>2, <1>3, <1>6, <1>8, <1>14 DEF SafeWalk
<1>17. Pages({Segment'}) \subseteq Pages(used'["vm"] \union flist'["vm"])
  BY <1>8, <1>9
<1> QED BY <1>11, <1>15, <1>16, <1>17 DEF SafeWalk, Apart, Pages, Disj, EndOf

\* A piece outside the segment goes to the lists.
LEMMA WalkNode ==
  ASSUME WInv, Sound, ClearNode, scan' = scan
  PROVE  SafeWalk'
<1> SUFFICES ASSUME Walking' PROVE SafeWalk'
  BY DEF SafeWalk
<1>1. /\ pc = "node" /\ pc' = "clear" /\ ret' = ret /\ al' = al /\ hand' = hand /\ op' = op
      /\ used' = used
  BY DEF ClearNode, At
<1>2. Walking /\ (Cutting' <=> Cutting) /\ Ahead' = Ahead
  BY <1>1 DEF Walking, Cutting, Resuming, Ahead, Freeing
<1>3. /\ SafeWalk /\ Segment \in Region /\ TypeOK /\ al = "vm"
      /\ Apart({Segment}, InternalRegion("vm") \union InHand("vm"))
  BY <1>1, <1>2 DEF Sound, SafeWalk, IInv, WInv, WalkInv, Walking, Freeing
<1>4. PICK s \in FpageSizes :
        /\ IsBiggest(s, internal[al].base, internal[al].end)
        /\ flist' = [flist EXCEPT ![al] = @ \union {[base |-> internal[al].base, size |-> s]}]
        /\ internal' = [internal EXCEPT ![al].base = @ + s]
  BY DEF ClearNode
<1> DEFINE f == [base |-> internal["vm"].base, size |-> s]
<1>5. /\ /\ flist'["vm"] = flist["vm"] \union {f}
      /\ internal'["vm"].base = internal["vm"].base + s
      /\ internal'["vm"].end = internal["vm"].end
  BY <1>3, <1>4 DEF TypeOK
<1>6. /\ s \in Nat \ {0} /\ internal["vm"].base + s <= internal["vm"].end
      /\ internal["vm"].base \in Nat /\ internal["vm"].end \in Nat
  BY <1>3, <1>4, SizesAssumption DEF IsBiggest, Fits, TypeOK
<1> DEFINE whole == [base |-> internal["vm"].base, size |-> internal["vm"].end - internal["vm"].base]
<1>7. whole \in InternalRegion("vm") /\ whole \in Region
  BY <1>6 DEF InternalRegion, Region
<1>8. Disj(whole, Segment)
  BY <1>3, <1>7, DisjSymmetric DEF Apart
<1>9. f \in Region /\ Within(f, whole)
  BY <1>6 DEF Region, Within, EndOf
<1>10. \A x \in InternalRegion("vm")' : x \in Region /\ Within(x, whole)
  <2>1. \A x \in InternalRegion("vm")' :
          /\ x = [base |-> internal["vm"].base + s,
                  size |-> internal["vm"].end - (internal["vm"].base + s)]
          /\ internal["vm"].base + s < internal["vm"].end
    BY <1>5 DEF InternalRegion
  <2> QED BY <1>6, <2>1 DEF Region, Within, EndOf
<1> HIDE DEF f, whole
<1>11. Disj(f, Segment) /\ \A x \in InternalRegion("vm")' : Disj(Segment, x)
  BY <1>3, <1>7, <1>8, <1>9, <1>10, DisjWithin
<1>12. Segment' = Segment
  BY <1>1 DEF Segment
<1>13. InHand("vm")' = InHand("vm")
  BY <1>1 DEF InHand
<1>14. Apart({Segment'}, InternalRegion("vm")' \union InHand("vm")')
  BY <1>3, <1>11, <1>12, <1>13 DEF Apart
<1>15. Pages({Segment'}) \subseteq Pages(used'["vm"] \union flist'["vm"])
  <2>1. Pages({Segment}) \subseteq Pages(used["vm"] \union flist["vm"])
    BY <1>2, <1>3 DEF SafeWalk
  <2>2. used["vm"] \union flist["vm"] \subseteq used'["vm"] \union flist'["vm"]
    BY <1>1, <1>5
  <2> QED BY <1>12, <2>1, <2>2 DEF Pages
<1>16. Cutting => Piece' = Piece
  BY <1>1, <1>12 DEF Piece, FromSegment, EndOf
<1>17. \A x : InOut(x)' <=> InOut(x)
  BY <1>12 DEF InOut, Disj, Within, EndOf
<1>18. \A x : Touches(x)' <=> Touches(x)
  BY <1>12 DEF Touches, Disj, EndOf
<1>19. /\ Segment' \in Region
       /\ Cutting' => scan'.fpage \in Region /\ Piece' \in used'["vm"]
       /\ \A x \in used'["vm"] : InOut(x)' \/ (Cutting' /\ x = Piece')
  BY <1>1, <1>2, <1>3, <1>12, <1>16, <1>17 DEF SafeWalk
<1>20. ~Touches(f)
  BY <1>11 DEF Touches
<1>21. \A x \in flist'["vm"] : Touches(x)' =>
         \/ scan'.size < x.size
         \/ scan'.size = x.size /\ x \notin scan'.seen /\ Ahead' # NoPages
  BY <1>2, <1>3, <1>5, <1>18, <1>20 DEF SafeWalk
<1> QED BY <1>14, <1>15, <1>19, <1>21 DEF SafeWalk, Apart, Pages, Disj, EndOf

\* The allocators at work below sys$fpage_remove_chunk.
LEMMA WalkCallees ==
  ASSUME WInv, Sound, Callees, spared'
  PROVE  SafeWalk'
<1> SUFFICES ASSUME Walking' PROVE SafeWalk'
  BY DEF SafeWalk
<1>0. /\ SafeWalk /\ TypeOK /\ HandInv /\ RetInv /\ EmptyInv /\ ReturnInv /\ WalkInv
      /\ scan' = scan /\ op.flags = "fixed"
  BY DEF Sound, IInv, Control, WInv, Callees
<1>1. ASSUME NEW c \in Caches, StartGrow(c) \/ GrowNode(c) PROVE SafeWalk'
  <2>1. /\ pc' = pc /\ ret' = ret /\ al' = al /\ hand' = hand /\ op' = op
        /\ flist' = flist /\ used' = used /\ internal' = internal
    BY <1>1 DEF StartGrow, GrowNode, memory
  <2>2. Walking /\ (Cutting' <=> Cutting) /\ Piece' = Piece
    BY <1>0, <2>1 DEF Walking, Cutting, Resuming, Piece, FromSegment
  <2>3. InHand("vm")' = InHand("vm") /\ InternalRegion("vm")' = InternalRegion("vm")
    BY <2>1 DEF InHand, InternalRegion
  <2> QED BY <1>0, <2>1, <2>2, <2>3, WalkSame
<1>2. ASSUME NEW c \in Caches, GrowPhys(c) PROVE SafeWalk'
  <2>1. /\ pc' = pc /\ ret' = ret /\ al' = al /\ hand' = hand /\ op' = op
    BY <1>2 DEF GrowPhys
  <2>2. PICK r \in Sources("pm") : AllocInternal("pm", r)
    BY <1>2 DEF GrowPhys
  <2>3. /\ flist'["vm"] = flist["vm"] /\ used'["vm"] = used["vm"]
        /\ internal'["vm"] = internal["vm"]
    BY <1>0, <2>2 DEF AllocInternal, TypeOK, Allocs
  <2>4. Walking /\ (Cutting' <=> Cutting) /\ Piece' = Piece
    BY <1>0, <2>1 DEF Walking, Cutting, Resuming, Piece, FromSegment
  <2>5. InHand("vm")' = InHand("vm") /\ InternalRegion("vm")' = InternalRegion("vm")
    BY <2>1, <2>3 DEF InHand, InternalRegion
  <2> QED BY <1>0, <2>1, <2>3, <2>4, <2>5, WalkSame
<1>3. ASSUME Free \/ ClearTest PROVE SafeWalk'
  <2>1. /\ /\ pc \in Freeing /\ pc' \in Freeing /\ ret' = ret /\ al' = al /\ hand' = hand
        /\ op' = op
        /\ flist' = flist /\ used' = used /\ internal' = internal
    BY <1>3 DEF Free, ClearTest, At, memory, Freeing
  <2>2. Walking /\ (Cutting' <=> Cutting) /\ Piece' = Piece
    BY <1>0, <2>1 DEF Walking, Cutting, Resuming, Piece, FromSegment, Freeing
  <2>3. InHand("vm")' = InHand("vm") /\ InternalRegion("vm")' = InternalRegion("vm")
    BY <2>1 DEF InHand, InternalRegion
  <2> QED BY <1>0, <2>1, <2>2, <2>3, WalkSame
<1>4. ASSUME LoadInternal PROVE SafeWalk'
  <2>1. /\ /\ pc = "load" /\ pc' = "clear" /\ ret' = ret /\ al' = al /\ hand' = NoPages
        /\ op' = op
        /\ flist' = flist /\ used' = used
        /\ internal' = [internal EXCEPT ![al] = [base |-> hand.base, end |-> EndOf(hand), active |-> TRUE]]
    BY <1>4 DEF LoadInternal, At
  <2>2. Walking /\ (Cutting' <=> Cutting) /\ Piece' = Piece
    BY <1>0, <2>1 DEF Walking, Cutting, Resuming, Piece, FromSegment, Freeing
  <2>3. al = "vm" /\ hand.size > 0 /\ hand \in [base : Nat, size : Nat]
    BY <1>0, <2>1, <2>2 DEF WalkInv, Walking, Freeing, HandInv, Holding, TypeOK
  <2>4. internal'["vm"].base = hand.base /\ internal'["vm"].end = EndOf(hand)
    BY <1>0, <2>1, <2>3 DEF TypeOK
  <2>5. InternalRegion("vm")' \subseteq {hand}
    BY <2>3, <2>4 DEF InternalRegion, EndOf
  <2>6. InHand("vm") = {hand} /\ InHand("vm")' = {}
    BY <2>1, <2>3 DEF InHand, NoPages
  <2> QED BY <1>0, <2>1, <2>2, <2>5, <2>6, WalkSame
<1>5. ASSUME ClearDone PROVE SafeWalk'
  <2>1. /\ /\ pc = "clear" /\ pc' \in {"load", ret} /\ ret' = ret /\ al' = al
        /\ hand' = hand /\ op' = op
        /\ flist' = flist /\ used' = used
        /\ internal' = [internal EXCEPT ![al].active = FALSE]
    BY <1>5 DEF ClearDone, At
  <2>2. pc' # "below" /\ pc' \notin {"free", "clear", "node"}
    BY <1>0, <2>1 DEF ReturnInv
  <2>3. Walking /\ (Cutting' <=> Cutting) /\ Piece' = Piece
    BY <1>0, <2>1, <2>2 DEF Walking, Cutting, Resuming, Piece, FromSegment, Freeing
  <2>4. /\ internal'["vm"].base = internal["vm"].base
        /\ internal'["vm"].end = internal["vm"].end
    BY <1>0, <2>1 DEF TypeOK, Allocs
  <2>5. InHand("vm")' = InHand("vm") /\ InternalRegion("vm")' = InternalRegion("vm")
    BY <2>1, <2>4 DEF InHand, InternalRegion
  <2> QED BY <1>0, <2>1, <2>3, <2>5, WalkSame
<1>6. ASSUME \/ \E c \in Caches : \E a \in Allocs : GrowFails(c, a)
             \/ ClearNil \/ AllocPick \/ AllocNil \/ SplitHalve \/ SplitDone
             \/ ListNext \/ ListNode \/ UndoOne \/ UndoNode \/ InsertPage \/ Fail \/ Halted
      PROVE  FALSE
  <2>1. \/ pc' \in Halts \union {"split", "fail", "undo", "list", "alloc", "insert", "idle"}
        \/ pc' = "free" /\ ret' = "undone"
        \/ pc' = ret /\ pc = "split"
    BY <1>6 DEF GrowFails, ClearNil, AllocPick, AllocNil, SplitHalve, SplitDone, ListNext,
       ListNode,
       UndoOne, UndoNode, InsertPage, Fail, Halted, At, CallFree, CallAlloc, Halts, vars
  <2> QED BY <1>0, <2>1 DEF Walking, Cutting, Resuming, Freeing, ReturnInv, Halts
<1> QED BY <1>0, <1>1, <1>2, <1>3, <1>4, <1>5, <1>6, WalkVirt, WalkNode DEF Callees, Grows

\* After the walk: a step that leaves the virtual lists alone.
LEMMA BackSame ==
  ASSUME SafeBack, op'.at = op.at, op'.size = op.size,
         Claimed' => /\ Claimed
                     /\ pc' \in Freeing => al' = "pm"
                     /\ used'["vm"] = used["vm"] /\ flist'["vm"] = flist["vm"]
                     /\ InternalRegion("vm")' = InternalRegion("vm")
  PROVE  SafeBack'
<1> SUFFICES ASSUME Claimed' PROVE SafeBack'
  BY DEF SafeBack
<1>1. Segment' = Segment
  BY DEF Segment
<1>2. \A r : InOut(r)' <=> InOut(r)
  BY <1>1 DEF InOut, Disj, Within, EndOf
<1>3. /\ Segment' \in Region
      /\ pc' \in Freeing => al' = "pm"
      /\ Apart({Segment'}, flist'["vm"] \union InternalRegion("vm")')
      /\ \A r \in used'["vm"] : InOut(r)'
      /\ Pages({Segment'}) \subseteq Pages(used'["vm"])
  BY <1>1, <1>2 DEF SafeBack
<1> QED BY <1>3 DEF SafeBack, Apart, Pages, Disj, EndOf

\* A pool page is carved for a physical fpage: the segment is out of reach.
LEMMA BackVirt ==
  ASSUME Sound, NEW c \in Caches, GrowVirt(c)
  PROVE  SafeBack'
<1> SUFFICES ASSUME Claimed' PROVE SafeBack'
  BY DEF SafeBack
<1>1. PICK r \in Sources("vm") : AllocInternal("vm", r)
  BY DEF GrowVirt
<1>2. pc' = pc /\ ret' = ret /\ al' = al /\ op' = op
  BY DEF GrowVirt
<1>3. Claimed
  BY <1>2 DEF Claimed
<1>4. /\ IInv /\ TypeOK /\ Segment \in Region /\ (pc \in Freeing => al = "pm")
      /\ Apart({Segment}, flist["vm"] \union InternalRegion("vm"))
      /\ \A x \in used["vm"] : InOut(x)
      /\ Pages({Segment}) \subseteq Pages(used["vm"])
  BY <1>3 DEF Sound, SafeBack, IInv
<1>5. Disj(r, Segment)
  <2>1. r \in flist["vm"] \union InternalRegion("vm")
    BY DEF Sources, Smallest
  <2>2. Disj(Segment, r)
    BY <1>4, <2>1 DEF Apart
  <2> QED BY <2>2, DisjSymmetric
<1> DEFINE page == [base |-> r.base, size |-> 1]
<1>6. /\ Segment' = Segment
      /\ Apart({Segment}, InternalRegion("vm")')
      /\ used'["vm"] = used["vm"] \union {page}
      /\ Disj(page, Segment)
      /\ flist'["vm"] \subseteq flist["vm"]
  BY <1>1, <1>2, <1>4, <1>5, CarveApart
<1> HIDE DEF page
<1>7. \A x : InOut(x)' <=> InOut(x)
  BY <1>6 DEF InOut, Disj, Within, EndOf
<1>8. InOut(page)
  BY <1>6 DEF InOut
<1>9. Pages({Segment'}) \subseteq Pages(used'["vm"])
  <2>1. Pages(used["vm"]) \subseteq Pages(used'["vm"])
    BY <1>6 DEF Pages
  <2> QED BY <1>4, <1>6, <2>1
<1>10. /\ Segment' \in Region
       /\ pc' \in Freeing => al' = "pm"
       /\ \A x \in used'["vm"] : InOut(x)'
  BY <1>2, <1>4, <1>6, <1>7, <1>8
<1>11. Apart({Segment'}, flist'["vm"] \union InternalRegion("vm")')
  BY <1>4, <1>6 DEF Apart
<1> QED BY <1>9, <1>10, <1>11 DEF SafeBack, Apart, Pages, Disj, EndOf

\* The allocators at work below sys$fpage_alloc_list: they have physical pages in hand.
LEMMA BackCallees ==
  ASSUME WInv, Sound, Callees
  PROVE  SafeBack'
<1> SUFFICES ASSUME Claimed' PROVE SafeBack'
  BY DEF SafeBack
<1>0. SafeBack /\ TypeOK /\ RetInv /\ ReturnInv /\ op.flags = "fixed"
      /\ (Claimed /\ pc \in Freeing => al = "pm")
  BY DEF Sound, IInv, WInv, Callees, SafeBack
<1>o. op \in [flags : Flags, size : Nat, at : Nat, cur : Nat, want : Nat,
              list : PhysList, bt : 0..BtMax]
  BY <1>0 DEF TypeOK
<1>1. ASSUME NEW c \in Caches, StartGrow(c) \/ GrowNode(c) PROVE SafeBack'
  <2>1. /\ pc' = pc /\ ret' = ret /\ al' = al /\ op' = op
        /\ flist' = flist /\ used' = used /\ internal' = internal
    BY <1>1 DEF StartGrow, GrowNode, memory
  <2>2. Claimed
    BY <2>1 DEF Claimed
  <2>3. InternalRegion("vm")' = InternalRegion("vm")
    BY <2>1 DEF InternalRegion
  <2> QED BY <1>0, <2>1, <2>2, <2>3, BackSame
<1>2. ASSUME NEW c \in Caches, GrowPhys(c) PROVE SafeBack'
  <2>1. /\ pc' = pc /\ ret' = ret /\ al' = al /\ op' = op
    BY <1>2 DEF GrowPhys
  <2>2. PICK r \in Sources("pm") : AllocInternal("pm", r)
    BY <1>2 DEF GrowPhys
  <2>3. /\ flist'["vm"] = flist["vm"] /\ used'["vm"] = used["vm"]
        /\ internal'["vm"] = internal["vm"]
    BY <1>0, <2>2 DEF AllocInternal, TypeOK, Allocs
  <2>4. Claimed
    BY <2>1 DEF Claimed
  <2>5. InternalRegion("vm")' = InternalRegion("vm")
    BY <2>3 DEF InternalRegion
  <2> QED BY <1>0, <2>1, <2>3, <2>4, <2>5, BackSame
<1>3. ASSUME Free \/ LoadInternal \/ ClearTest \/ ClearDone \/ ClearNode PROVE SafeBack'
  <2>1. /\ pc \in Freeing /\ (pc' \in {"load", "clear", "node"} \/ pc' = ret) /\ ret' = ret /\ al' = al
        /\ op' = op /\ used' = used
    BY <1>3 DEF Free, LoadInternal, ClearTest, ClearDone, ClearNode, At, memory, Freeing
  <2>2. Claimed
    BY <1>0, <2>1 DEF Claimed, ReturnInv, Freeing
  <2>3. al = "pm"
    BY <1>0, <2>1, <2>2
  <2>4. flist'["vm"] = flist["vm"] /\ internal'["vm"] = internal["vm"]
    <3>1. CASE Free \/ LoadInternal \/ ClearTest \/ ClearDone
      BY <1>0, <2>3, <3>1 DEF Free, LoadInternal, ClearTest, ClearDone, memory, TypeOK,
         Allocs
    <3>2. CASE ClearNode
      BY <1>0, <2>3, <3>2 DEF ClearNode, TypeOK, Allocs
    <3> QED BY <1>3, <3>1, <3>2
  <2>5. InternalRegion("vm")' = InternalRegion("vm")
    BY <2>4 DEF InternalRegion
  <2> QED BY <1>0, <2>1, <2>2, <2>3, <2>4, <2>5, BackSame
<1>4. ASSUME AllocPick \/ SplitHalve \/ SplitDone \/ AllocNil PROVE SafeBack'
  <2>1. /\ pc \in {"alloc", "split"} /\ ret' = ret /\ al' = al /\ op' = op /\ used' = used
        /\ internal' = internal
        /\ pc' = "split" \/ pc' = ret \/ pc' = IF ret = "chunk" THEN "fail" ELSE "undo"
    BY <1>4 DEF AllocPick, SplitHalve, SplitDone, AllocNil, At, memory
  <2>2. ret = "lnode" /\ al = "pm"
    <3>1. ret \in {"chunk", "lnode"} /\ (ret = "lnode" => al = "pm")
      BY <1>0, <2>1 DEF RetInv
    <3>2. ret # "chunk"
      <4> SUFFICES ASSUME ret = "chunk" PROVE FALSE
        OBVIOUS
      <4>1. pc' \in {"split", "chunk", "fail"} /\ ret' = "chunk"
        BY <2>1
      <4> QED BY <4>1 DEF Claimed, Freeing
    <3> QED BY <3>1, <3>2
  <2>3. Claimed /\ pc' \notin Freeing
    BY <1>0, <2>1, <2>2 DEF Claimed, Freeing
  <2>4. flist'["vm"] = flist["vm"]
    BY <1>0, <1>4, <2>2 DEF AllocPick, SplitHalve, SplitDone, AllocNil, memory, TypeOK,
       Allocs
  <2>5. InternalRegion("vm")' = InternalRegion("vm")
    BY <2>1 DEF InternalRegion
  <2> QED BY <1>0, <2>1, <2>3, <2>4, <2>5, BackSame
<1>5. ASSUME ListNext \/ ListNode \/ UndoOne \/ UndoNode PROVE SafeBack'
  <2>1. /\ pc \in {"list", "lnode", "undo", "undone"}
        /\ pc' \in Freeing => al' = "pm"
        /\ flist' = flist /\ internal' = internal
    BY <1>5 DEF ListNext, ListNode, UndoOne, UndoNode, At, memory, CallFree, CallAlloc,
       Freeing
  <2>2. Claimed
    BY <1>0, <2>1 DEF Claimed
  <2>3. used'["vm"] = used["vm"]
    BY <1>0, <1>5 DEF ListNext, ListNode, UndoOne, UndoNode, memory, TypeOK, Allocs
  <2>4. op'.at = op.at /\ op'.size = op.size
    BY <1>o, <1>5 DEF ListNext, ListNode, UndoOne, UndoNode, CallAlloc
  <2>5. InternalRegion("vm")' = InternalRegion("vm")
    BY <2>1 DEF InternalRegion
  <2> QED BY <1>0, <2>1, <2>2, <2>3, <2>4, <2>5, BackSame
<1>6. ASSUME \/ \E c \in Caches : \E a \in Allocs : GrowFails(c, a)
             \/ ClearNil \/ InsertPage \/ Fail \/ Halted
      PROVE  FALSE
  <2>1. pc' \in Halts \union {"insert", "idle"}
    BY <1>6 DEF GrowFails, ClearNil, InsertPage, Fail, Halted, At, Halts, vars
  <2> QED BY <2>1 DEF Claimed, Freeing, Halts
<1> QED BY <1>1, <1>2, <1>3, <1>4, <1>5, <1>6, BackVirt DEF Callees, Grows

\* The walk begins: the pages of the segment are on the lists, so nobody else has them.
LEMMA WalkBegins ==
  ASSUME Sound, InsertedFixed, clean'
  PROVE  SafeWalk'
<1>0. /\ TypeOK /\ ExclusiveIn("vm") /\ HandInv /\ ChunkInv /\ "vm" \in Allocs
      /\ flist["vm"] \subseteq Region /\ used["vm"] \subseteq Region
      /\ InternalRegion("vm") \subseteq Region /\ InHand("vm") \subseteq Region
  BY HeldRegions DEF Sound, IInv, Exclusive, Allocs
<1>1. /\ /\ pc = "insert" /\ pc' = "scan" /\ flist' = flist /\ used' = used
      /\ internal' = internal
      /\ al' = al /\ hand' = hand /\ op' = op /\ scan' = NoScan
      /\ Pages({Segment}) \subseteq Pages(flist["vm"])
  BY DEF InsertedFixed, At, memory
<1>2. Segment' = Segment /\ Segment \in Region
  <2>1. op.size \in Nat \ {0} /\ op.at \in Nat
    BY <1>0, <1>1 DEF TypeOK, ChunkInv, SizedOp
  <2> QED BY <1>1, <2>1 DEF Segment, Region
<1>3. ~Cutting' /\ scan'.size = 0
  BY <1>1 DEF Cutting, Freeing, NoScan
<1>4. \A r \in used["vm"] \union InternalRegion("vm") \union InHand("vm") : Disj(r, Segment)
  <2> TAKE r \in used["vm"] \union InternalRegion("vm") \union InHand("vm")
  <2>1. r \in Region
    BY <1>0
  <2>2. \A f \in flist["vm"] : Disj(r, f)
    BY <1>0, DisjSymmetric DEF ExclusiveIn, Apart
  <2> QED BY <1>0, <1>1, <1>2, <2>1, <2>2, DisjCovered
<1>5. \A r \in used'["vm"] : InOut(r)'
  BY <1>1, <1>2, <1>4 DEF InOut, Disj, Within, EndOf
<1>6. Apart({Segment}, InternalRegion("vm") \union InHand("vm"))
  BY <1>4, DisjSymmetric DEF Apart
<1>7. InternalRegion("vm")' = InternalRegion("vm") /\ InHand("vm")' = InHand("vm")
  BY <1>1 DEF InternalRegion, InHand
<1>8. Pages({Segment}) \subseteq Pages(used["vm"] \union flist["vm"])
  BY <1>1 DEF Pages
<1>9. \A f \in flist["vm"] : 0 < f.size
  BY <1>0 DEF Region
<1> QED BY <1>1, <1>2, <1>3, <1>5, <1>6, <1>7, <1>8, <1>9
        DEF SafeWalk, Apart, Pages, Disj, EndOf

\* There is a node ahead as long as there is one the loop has not reached.
LEMMA MoreAhead ==
  ASSUME TypeOK, NEW s, NEW seen, NEW t \in NextNodes(Behind(s, seen)),
         NEW f \in flist["vm"], f.size = s, f \notin seen
  PROVE  t # NoPages
<1>1. t \in flist["vm"]
  BY DEF NextNodes, Behind
<1>2. t \in Region
  BY <1>1, HeldRegions DEF Allocs
<1> QED BY <1>2 DEF Region, NoPages

\* A step along the lists.
LEMMA WalkAdvances ==
  ASSUME WInv, Sound, ScanList \/ ScanKeep
  PROVE  SafeWalk'
<1>0. TypeOK /\ SafeWalk /\ flist["vm"] \subseteq Region /\ scan.size \in Nat
      /\ flist["vm"] \subseteq [base : Nat, size : FpageSizes]
  BY HeldRegions DEF Sound, IInv, Allocs, WInv, WalkTypes, TypeOK, Fpage
<1>1. pc = "scan" /\ UNCHANGED vars /\ Walking /\ ~Cutting /\ ~Cutting'
  BY DEF ScanList, ScanKeep, At, Walking, Cutting, Freeing, vars
<1>2. /\ /\ pc' = pc /\ flist' = flist /\ used' = used /\ internal' = internal /\ al' = al
      /\ hand' = hand
      /\ op' = op /\ Segment' = Segment /\ InternalRegion("vm")' = InternalRegion("vm")
      /\ InHand("vm")' = InHand("vm")
  BY <1>1 DEF vars, memory, Segment, InternalRegion, InHand
<1>3. Ahead = scan.node /\ Ahead' = scan'.node
  BY <1>1 DEF Ahead
<1>4. \A f \in flist["vm"] : Touches(f) =>
        \/ scan'.size < f.size
        \/ scan'.size = f.size /\ f \notin scan'.seen /\ scan'.node # NoPages
  <2> SUFFICES ASSUME NEW f \in flist["vm"], Touches(f)
               PROVE  \/ scan'.size < f.size
                      \/ scan'.size = f.size /\ f \notin scan'.seen /\ scan'.node # NoPages
    OBVIOUS
  <2>1. \/ scan.size < f.size
        \/ scan.size = f.size /\ f \notin scan.seen /\ scan.node # NoPages
    BY <1>0, <1>1, <1>3 DEF SafeWalk
  <2>2. f.size \in FpageSizes /\ f.size \in Nat
    BY <1>0, SizesAssumption
  <2>3. CASE ScanList
    <3>1. PICK s \in FpageSizes : /\ s > scan.size
                                  /\ \A t \in FpageSizes : t > scan.size => s <= t
                                  /\ \E g \in NextNodes(Behind(s, {})) :
                                       scan' = [NoScan EXCEPT !.size = s, !.node = g]
      BY <2>3 DEF ScanList
    <3>2. PICK g \in NextNodes(Behind(s, {})) : scan' = [NoScan EXCEPT !.size = s, !.node = g]
      BY <3>1
    <3>3. scan'.size = s /\ scan'.seen = {} /\ scan'.node = g
      BY <3>2 DEF NoScan
    <3>4. s <= f.size /\ s \in Nat
      <4>1. scan.node = NoPages
        BY <2>3 DEF ScanList
      <4>2. f.size > scan.size
        BY <1>0, <2>1, <2>2, <4>1
      <4> QED BY <2>2, <3>1, <4>2, SizesAssumption
    <3>5. s = f.size => g # NoPages
      BY <1>0, MoreAhead
    <3> QED BY <2>2, <3>3, <3>4, <3>5
  <2>4. CASE ScanKeep
    <3>1. PICK t \in Tmp(scan.node) : scan' = [scan EXCEPT !.node = t, !.seen = @ \union {scan.node}]
      BY <2>4 DEF ScanKeep
    <3>2. /\ scan'.size = scan.size /\ scan'.node = t
          /\ scan'.seen = scan.seen \union {scan.node}
      BY <3>1 DEF WInv, WalkTypes
    <3>3. f # scan.node
      BY <2>4 DEF ScanKeep
    <3>4. scan.size = f.size /\ f \notin scan.seen => t # NoPages
      BY <1>0, <3>1, <3>3, MoreAhead DEF Tmp
    <3> QED BY <2>1, <3>2, <3>3, <3>4
  <2> QED BY <2>3, <2>4
<1>5. \A f : Touches(f)' <=> Touches(f)
  BY <1>2 DEF Touches, Disj, EndOf
<1>6. \A r : InOut(r)' <=> InOut(r)
  BY <1>2 DEF InOut, Disj, Within, EndOf
<1>7. \A f \in flist'["vm"] : Touches(f)' =>
        \/ scan'.size < f.size
        \/ scan'.size = f.size /\ f \notin scan'.seen /\ Ahead' # NoPages
  BY <1>2, <1>3, <1>4, <1>5
<1>8. /\ Segment \in Region /\ \A r \in used["vm"] : InOut(r)
      /\ Apart({Segment}, InternalRegion("vm") \union InHand("vm"))
      /\ Pages({Segment}) \subseteq Pages(used["vm"] \union flist["vm"])
  BY <1>0, <1>1 DEF SafeWalk
<1>9. \A r \in used'["vm"] : InOut(r)'
  BY <1>2, <1>6, <1>8
<1> QED BY <1>1, <1>2, <1>7, <1>8, <1>9 DEF SafeWalk, Apart, Pages, Disj, EndOf

\* An fpage that overlaps the segment is taken off its list, and cut next.
LEMMA WalkTakes ==
  ASSUME WInv, Sound, ScanTake
  PROVE  SafeWalk'
<1> DEFINE n == scan.node
<1>0. TypeOK /\ SafeWalk /\ flist["vm"] \subseteq Region
  BY HeldRegions DEF Sound, IInv, Allocs
<1>1. /\ pc = "scan" /\ pc' = "below" /\ n \in flist["vm"] /\ internal' = internal
      /\ al' = al /\ hand' = hand /\ op' = op
      /\ flist' = [flist EXCEPT !["vm"] = @ \ {n}]
      /\ used' = [used EXCEPT !["vm"] = @ \union {n}]
  BY DEF ScanTake, At
<1>2. PICK t \in Tmp(n) :
        scan' = [scan EXCEPT !.tmp = t, !.seen = @ \union {scan.node}, !.fpage = scan.node]
  BY DEF ScanTake
<1>3. /\ scan'.size = scan.size /\ scan'.tmp = t /\ scan'.seen = scan.seen \union {n}
      /\ scan'.fpage = n
  BY <1>2 DEF WInv, WalkTypes
<1> HIDE DEF n
<1>4. flist'["vm"] = flist["vm"] \ {n} /\ used'["vm"] = used["vm"] \union {n}
  BY <1>0, <1>1 DEF TypeOK, Allocs
<1>5. Walking /\ ~Cutting /\ Cutting' /\ Ahead' = t /\ Piece' = n
  BY <1>1, <1>3 DEF Walking, Cutting, Ahead, Piece, Freeing
<1>6. /\ Segment' = Segment /\ InternalRegion("vm")' = InternalRegion("vm")
      /\ InHand("vm")' = InHand("vm")
  BY <1>1 DEF Segment, InternalRegion, InHand
<1>7. \A f \in flist["vm"] : Touches(f) /\ f # n =>
        \/ scan.size < f.size
        \/ scan.size = f.size /\ f \notin scan.seen \union {n} /\ t # NoPages
  <2> SUFFICES ASSUME NEW f \in flist["vm"], Touches(f), f # n
               PROVE  \/ scan.size < f.size
                      \/ scan.size = f.size /\ f \notin scan.seen \union {n} /\ t # NoPages
    OBVIOUS
  <2>1. scan.size < f.size \/ (scan.size = f.size /\ f \notin scan.seen)
    BY <1>0, <1>5 DEF SafeWalk
  <2>2. scan.size = f.size /\ f \notin scan.seen => t # NoPages
    BY <1>0, <1>2, MoreAhead DEF Tmp
  <2> QED BY <2>1, <2>2
<1>8. (\A f : Touches(f)' <=> Touches(f)) /\ (\A r : InOut(r)' <=> InOut(r))
  BY <1>6 DEF Touches, InOut, Disj, Within, EndOf
<1>9. \A f \in flist'["vm"] : Touches(f)' =>
        scan'.size < f.size \/ (scan'.size = f.size /\ f \notin scan'.seen /\ Ahead' # NoPages)
  BY <1>3, <1>4, <1>5, <1>7, <1>8
<1>10. /\ Segment \in Region /\ \A r \in used["vm"] : InOut(r)
       /\ Apart({Segment}, InternalRegion("vm") \union InHand("vm"))
       /\ Pages({Segment}) \subseteq Pages(used["vm"] \union flist["vm"])
  BY <1>0, <1>5 DEF SafeWalk
<1>11. \A r \in used'["vm"] : InOut(r)' \/ (Cutting' /\ r = Piece')
  BY <1>4, <1>5, <1>8, <1>10
<1>12. used'["vm"] \union flist'["vm"] = used["vm"] \union flist["vm"]
  BY <1>1, <1>4
<1>13. scan'.fpage \in Region /\ Piece' \in used'["vm"]
  BY <1>0, <1>1, <1>3, <1>4, <1>5
<1> QED BY <1>5, <1>6, <1>9, <1>10, <1>11, <1>12, <1>13 DEF SafeWalk, Apart, Pages, Disj,
           EndOf

\* A cut that keeps the pages of the segment out of the lists.
LEMMA WalkCut ==
  ASSUME SafeWalk, Cutting, op' = op, NEW s,
         used'["vm"] = (used["vm"] \ {Piece}) \union {s}, flist'["vm"] = flist["vm"],
         internal'["vm"] = internal["vm"],
         \A x \in Pages({Segment}) : x \in Pages({Piece}) => x \in Pages({s}),
         scan'.size = scan.size, scan'.seen = scan.seen, Ahead' = Ahead,
         Apart({Segment}, InHand("vm")'),
         \/ Cutting' /\ Piece' = s /\ scan'.fpage = scan.fpage
         \/ ~Cutting' /\ InOut(s)
  PROVE  SafeWalk'
<1>1. Segment' = Segment /\ InternalRegion("vm")' = InternalRegion("vm") /\ Walking
  BY DEF Segment, InternalRegion, Walking
<1>2. (\A f : Touches(f)' <=> Touches(f)) /\ (\A r : InOut(r)' <=> InOut(r))
  BY <1>1 DEF Touches, InOut, Disj, Within, EndOf
<1>3. /\ Segment \in Region /\ scan.fpage \in Region
      /\ Apart({Segment}, InternalRegion("vm"))
      /\ \A r \in used["vm"] : InOut(r) \/ r = Piece
      /\ Pages({Segment}) \subseteq Pages(used["vm"] \union flist["vm"])
      /\ \A f \in flist["vm"] : Touches(f) =>
           scan.size < f.size \/ (scan.size = f.size /\ f \notin scan.seen /\ Ahead # NoPages)
  BY <1>1 DEF SafeWalk, Apart
<1>4. \A f \in flist'["vm"] : Touches(f)' =>
        scan'.size < f.size \/ (scan'.size = f.size /\ f \notin scan'.seen /\ Ahead' # NoPages)
  BY <1>2, <1>3
<1>5. \A r \in used'["vm"] : InOut(r)' \/ (Cutting' /\ r = Piece')
  BY <1>2, <1>3
<1>6. Pages({Segment}) \subseteq Pages(used'["vm"] \union flist'["vm"])
  <2> SUFFICES ASSUME NEW x \in Pages({Segment}) PROVE x \in Pages(used'["vm"] \union flist'["vm"])
    OBVIOUS
  <2>1. PICK g \in used["vm"] \union flist["vm"] : x \in g.base .. EndOf(g) - 1
    BY <1>3 DEF Pages
  <2>2. CASE g = Piece
    <3>1. x \in Pages({s})
      BY <2>1, <2>2 DEF Pages
    <3> QED BY <3>1 DEF Pages
  <2>3. CASE g # Piece
    <3>1. g \in used'["vm"] \union flist'["vm"]
      BY <2>3
    <3> QED BY <2>1, <3>1 DEF Pages
  <2> QED BY <2>2, <2>3
<1>7. Apart({Segment}, InternalRegion("vm")' \union InHand("vm")')
  BY <1>1, <1>3 DEF Apart
<1>8. Cutting' => scan'.fpage \in Region /\ Piece' \in used'["vm"]
  BY <1>3
<1> QED BY <1>1, <1>3, <1>4, <1>5, <1>6, <1>7, <1>8 DEF SafeWalk, Apart, Pages, Disj, EndOf

\* sys$fpage_free_extra gives back only pages outside the segment.
LEMMA WalkCuts ==
  ASSUME WInv, Sound, ExtraBelow \/ ExtraAbove
  PROVE  SafeWalk'
<1> DEFINE f == scan.fpage
<1>0. TypeOK /\ SafeWalk /\ HandInv
  BY DEF Sound, IInv
<1>1. Cutting /\ Walking /\ pc \in {"below", "above"} /\ hand.size = 0
  BY <1>0 DEF ExtraBelow, ExtraAbove, At, Cutting, Walking, HandInv, EmptyHanded, Holding,
     Halts, PCs
<1>2. Segment \in Region /\ f \in Region /\ Touches(f)
  BY <1>0, <1>1 DEF SafeWalk, WInv, WalkInv
<1>3. /\ op' = op /\ internal' = internal /\ flist' = flist /\ Segment' = Segment
  BY DEF ExtraBelow, ExtraAbove, Segment
<1> HIDE DEF f
<1>s. PICK at \in Nat, sz \in Nat \ {0} : at = op.at /\ sz = op.size /\ Segment = [base |-> at, size |-> sz]
  BY <1>2 DEF Segment, Region
<1>4. CASE ExtraBelow
  <2>1. pc = "below" /\ Piece = f /\ scan' = scan
    BY <1>4 DEF ExtraBelow, At, Piece, f, fixed
  <2>2. used'["vm"] = (used["vm"] \ {f}) \union {FromSegment(f)}
    BY <1>0, <1>4 DEF ExtraBelow, Keep, f, TypeOK, Allocs
  <2>3. pc' = "above" \/ (pc' = "free" /\ ret' = "above")
    BY <1>4 DEF ExtraBelow, CallFree
  <2>4. Cutting' /\ Piece' = FromSegment(f)
    <3>1. Cutting' /\ Piece' = FromSegment(f)'
      BY <2>1, <2>3 DEF Cutting, Freeing, Piece, f
    <3>2. FromSegment(f)' = FromSegment(f)
      BY <1>3, <2>1 DEF FromSegment, EndOf, f
    <3> QED BY <3>1, <3>2
  <2>5. Ahead' = Ahead
    BY <1>1, <2>1, <2>4 DEF Ahead
  <2>6. Apart({Segment}, InHand("vm")')
    <3>1. CASE f.base < op.at
      <4>1. hand' = BelowOf(f)
        BY <1>4, <3>1 DEF ExtraBelow, CallFree, BelowOf, f
      <4>2. Disj(Segment, BelowOf(f))
        BY <1>2, <3>1, Pieces, DisjSymmetric
      <4> QED BY <4>1, <4>2 DEF Apart, InHand
    <3>2. CASE ~(f.base < op.at)
      <4>1. hand' = hand
        BY <1>4, <3>2 DEF ExtraBelow, f
      <4> QED BY <1>1, <4>1 DEF Apart, InHand
    <3> QED BY <3>1, <3>2
  <2>7. \A x \in Pages({Segment}) : x \in Pages({f}) => x \in Pages({FromSegment(f)})
    <3>1. PICK b \in Nat, e \in Nat : f.base = b /\ EndOf(f) = e
      BY <1>2 DEF Region, EndOf
    <3>2. /\ FromSegment(f).base = IF b > at THEN b ELSE at
          /\ EndOf(FromSegment(f)) = e
      BY <1>2, <1>s, <3>1, Pieces DEF FromSegment
    <3>3. \A x : x \in Pages({Segment}) => x \in at .. (at + sz) - 1
      BY <1>s DEF Pages, EndOf
    <3>4. \A x : x \in Pages({f}) => x \in b .. e - 1
      BY <3>1 DEF Pages
    <3>5. \A x : x \in (IF b > at THEN b ELSE at) .. e - 1 => x \in Pages({FromSegment(f)})
      BY <3>2 DEF Pages
    <3> QED BY <3>3, <3>4, <3>5
  <2> QED BY <1>0, <1>1, <1>3, <2>1, <2>2, <2>4, <2>5, <2>6, <2>7, WalkCut
<1>5. CASE ExtraAbove
  <2>1. pc = "above" /\ Piece = FromSegment(f)
    BY <1>5 DEF ExtraAbove, At, Piece, f
  <2>2. used'["vm"] = (used["vm"] \ {FromSegment(f)}) \union {InSegment(f)}
    BY <1>0, <1>5 DEF ExtraAbove, Keep, f, TypeOK, Allocs
  <2>3. pc' = "scan" \/ (pc' = "free" /\ ret' = "scan")
    BY <1>5 DEF ExtraAbove, CallFree
  <2>4. /\ scan'.size = scan.size /\ scan'.seen = scan.seen /\ scan'.node = scan.tmp
    BY <1>5 DEF ExtraAbove, WInv, WalkTypes
  <2>5. ~Cutting' /\ Ahead' = Ahead
    BY <1>1, <2>3, <2>4 DEF Cutting, Ahead, Freeing
  <2>6. Apart({Segment}, InHand("vm")')
    <3>1. CASE EndOf(f) > op.at + op.size
      <4>1. hand' = AboveOf(f)
        BY <1>5, <3>1 DEF ExtraAbove, CallFree, Above, AboveOf, f
      <4>2. Disj(Segment, AboveOf(f))
        BY <1>2, <3>1, Pieces, DisjSymmetric
      <4> QED BY <4>1, <4>2 DEF Apart, InHand
    <3>2. CASE ~(EndOf(f) > op.at + op.size)
      <4>1. hand' = hand
        BY <1>5, <3>2 DEF ExtraAbove, f
      <4> QED BY <1>1, <4>1 DEF Apart, InHand
    <3> QED BY <3>1, <3>2
  <2>7. InOut(InSegment(f))
    BY <1>2, Pieces DEF InOut
  <2>8. \A x \in Pages({Segment}) : x \in Pages({FromSegment(f)}) => x \in Pages({InSegment(f)})
    <3>1. PICK b \in Nat, e \in Nat : FromSegment(f).base = b /\ EndOf(f) = e
      BY <1>2, Pieces DEF Region, EndOf
    <3>2. /\ InSegment(f).base = b /\ EndOf(FromSegment(f)) = e
          /\ EndOf(InSegment(f)) = IF e > at + sz THEN at + sz ELSE e
      BY <1>2, <1>s, <3>1, Pieces DEF AboveOf
    <3>3. \A x : x \in Pages({Segment}) => x \in at .. (at + sz) - 1
      BY <1>s DEF Pages, EndOf
    <3>4. \A x : x \in Pages({FromSegment(f)}) => x \in b .. e - 1
      BY <3>1, <3>2 DEF Pages
    <3>5. \A x : x \in b .. (IF e > at + sz THEN at + sz ELSE e) - 1 => x \in Pages({InSegment(f)})
      BY <3>2 DEF Pages
    <3> QED BY <3>3, <3>4, <3>5
  <2> QED BY <1>0, <1>1, <1>3, <2>1, <2>2, <2>4, <2>5, <2>6, <2>7, <2>8, WalkCut
<1> QED BY <1>4, <1>5

\* The walk is over when no list is left: no fpage that overlaps the segment is.
LEMMA BackBegins ==
  ASSUME WInv, Sound, ScanDone
  PROVE  SafeBack'
<1>0. /\ TypeOK /\ SafeWalk /\ flist["vm"] \subseteq Region /\ used["vm"] \subseteq Region
      /\ flist["vm"] \subseteq [base : Nat, size : FpageSizes] /\ scan.size \in Nat
  BY HeldRegions DEF Sound, IInv, Allocs, TypeOK, Fpage, WInv, WalkTypes
<1>1. /\ /\ pc = "scan" /\ pc' = "fback" /\ flist' = flist /\ used' = used
      /\ internal' = internal
      /\ op' = op /\ scan.node = NoPages /\ \A s \in FpageSizes : s <= scan.size
  BY DEF ScanDone, At, memory
<1>2. Walking /\ ~Cutting /\ Ahead = NoPages
  BY <1>1 DEF Walking, Cutting, Ahead, Freeing
<1>3. /\ Segment \in Region /\ \A r \in used["vm"] : InOut(r)
      /\ Apart({Segment}, InternalRegion("vm"))
      /\ Pages({Segment}) \subseteq Pages(used["vm"] \union flist["vm"])
  BY <1>0, <1>2 DEF SafeWalk, Apart
<1>4. \A f \in flist["vm"] : Disj(f, Segment)
  <2> SUFFICES ASSUME NEW f \in flist["vm"], Touches(f) PROVE FALSE
    BY DEF Touches
  <2>1. scan.size < f.size
    BY <1>0, <1>2 DEF SafeWalk
  <2>2. f.size \in FpageSizes
    BY <1>0
  <2>3. f.size <= scan.size
    BY <1>1, <2>2
  <2>4. f.size \in Nat
    BY <2>2, SizesAssumption
  <2> QED BY <1>0, <2>1, <2>3, <2>4
<1>5. Pages({Segment}) \subseteq Pages(used["vm"])
  <2>1. used["vm"] \union flist["vm"] \in SUBSET Region
    BY <1>0
  <2>2. \A f \in used["vm"] \union flist["vm"] : Disj(f, Segment) \/ f \in used["vm"]
    BY <1>4
  <2> QED BY <1>3, <2>1, <2>2, CoverShrinks
<1>6. Segment' = Segment /\ InternalRegion("vm")' = InternalRegion("vm")
  BY <1>1 DEF Segment, InternalRegion
<1>7. \A r \in used'["vm"] : InOut(r)'
  BY <1>1, <1>3, <1>6 DEF InOut, Disj, Within, EndOf
<1>8. Apart({Segment}, flist["vm"] \union InternalRegion("vm"))
  BY <1>3, <1>4, DisjSymmetric DEF Apart
<1>9. pc' \notin Freeing
  BY <1>1 DEF Freeing
<1> QED BY <1>1, <1>3, <1>5, <1>6, <1>7, <1>8, <1>9 DEF SafeBack, Apart, Pages, Disj, EndOf

\* The creation of another memsection never reaches the backing of a segment.
LEMMA PlainStart ==
  ASSUME WInv, Sound, op.flags # "fixed", Next
  PROVE  StartInv'
<1>0. TypeOK /\ StartInv /\ ReturnInv
  BY DEF Sound, IInv, WInv
<1>1. op'.flags # "fixed"
  BY <1>0, NextPlain
<1>2. pc' # "fback"
  <2>1. pc # "fback"
    BY <1>0 DEF StartInv
  <2>2. CASE pc' = pc
    BY <2>1, <2>2
  <2>3. CASE ClearDone \/ SplitDone
    BY <1>0, <2>3 DEF ClearDone, SplitDone, ReturnInv
  <2>4. CASE \E c \in Caches : \E a \in Allocs : GrowFails(c, a)
    BY <2>4 DEF GrowFails
  <2>5. CASE \/ BootRest("pm", "boot_pm_rest", "boot_vm_clear")
             \/ BootRest("vm", "boot_vm_rest", "boot_heap")
    BY <2>5 DEF BootRest, CallFree
  <2> QED BY <2>1, <2>2, <2>3, <2>4, <2>5 DEF Next, vars, Halted, StartGrow, GrowVirt,
       GrowPhys, GrowNode, Free, LoadInternal, ClearTest, ClearNode,
       ClearNil, AllocPick, AllocNil, SplitHalve, Create, CreateInternal, New, Call,
       CallAlloc, CallFree, ChunkShort, ChunkTrim, Back, ListNext, ListDone, ListNode,
       UndoOne, UndoNode, UndoDone, InsertPage, InsertDone, Fail, BootVm, BootVmNone, BootPm,
       BootPanic, BootVmClear, BootHeap, PdInit
<1> QED BY <1>1, <1>2 DEF StartInv

\* Neither do the callees of a fixed creation.
LEMMA CalleesStart ==
  ASSUME WInv, Sound, Callees
  PROVE  StartInv'
<1>0. TypeOK /\ StartInv /\ ReturnInv /\ op.flags = "fixed"
  BY DEF Sound, IInv, WInv, Callees
<1>o. op \in [flags : Flags, size : Nat, at : Nat, cur : Nat, want : Nat,
              list : PhysList, bt : 0..BtMax]
  BY <1>0 DEF TypeOK
<1>1. CASE pc' = pc /\ op' = op
  BY <1>0, <1>1 DEF StartInv
<1>2. CASE ClearDone \/ SplitDone
  BY <1>0, <1>2 DEF ClearDone, SplitDone, ReturnInv, StartInv
<1>3. CASE InsertPage
  <2>1. pc' = pc /\ op'.list = op.list /\ op'.flags = op.flags
    BY <1>o, <1>3 DEF InsertPage
  <2> QED BY <1>0, <2>1 DEF StartInv
<1>4. CASE Grows
  BY <1>1, <1>4 DEF Grows, StartGrow, GrowVirt, GrowPhys, GrowNode, GrowFails, StartInv
<1>5. CASE pc' \notin {"new", "insert", "fback"}
  BY <1>5 DEF StartInv
<1> QED BY <1>1, <1>2, <1>3, <1>4, <1>5 DEF Callees, vars, Halted, Free, LoadInternal,
           ClearTest,
     ClearNode, ClearNil, AllocPick, AllocNil, SplitHalve, CallAlloc, CallFree, ListNext,
     ListNode, UndoOne, UndoNode, Fail

\* The steps of a fixed creation of its own.
LEMMA FixedStart ==
  ASSUME WInv, Sound,
         \/ CreateFixed \/ NewFixed \/ InsertedFixed \/ ScanList \/ ScanKeep \/ ScanDone
         \/ ScanTake \/ ExtraBelow \/ ExtraAbove \/ BackFixed \/ FixedDone \/ FixedUndone
  PROVE  StartInv'
<1>0. StartInv
  BY DEF Sound
<1>1. CASE CreateFixed
  <2>1. op'.list = {} /\ pc' = "new"
    BY <1>1 DEF CreateFixed, Call, NoOp
  <2> QED BY <2>1 DEF StartInv
<1>2. CASE NewFixed
  BY <1>0, <1>2 DEF NewFixed, At, StartInv
<1>3. CASE ScanDone
  BY <1>3 DEF ScanDone, At, StartInv, WInv, WalkInv
<1>4. CASE pc' \notin {"new", "insert", "fback"}
  BY <1>4 DEF StartInv
<1> QED BY <1>1, <1>2, <1>3, <1>4 DEF InsertedFixed, ScanList, ScanKeep, At, vars, ScanTake,
           ExtraBelow,
     ExtraAbove, CallFree, BackFixed, FixedDone, FixedUndone

\* A step is made of sound states as long as segments are loaded over free pages.
LEMMA SoundNext ==
  ASSUME WInv, WInv', Sound, FixedNext, clean', spared'
  PROVE  Sound'
<1>0. IInv /\ Control /\ NothingLost /\ TypeOK /\ StartInv /\ SafeWalk /\ SafeBack
  BY DEF Sound, IInv
<1>1. CASE op.flags # "fixed" /\ Next
  <2>1. IInv' /\ Control' /\ NothingLost'
    BY <1>0, <1>1, NextIInv, ControlNext, NothingLostNext DEF AllocStep
  <2>2. op'.flags # "fixed"
    BY <1>0, <1>1, NextPlain
  <2>3. SafeWalk' /\ SafeBack'
    <3>1. ~Walking'
      BY <2>2 DEF WInv, WalkInv, Walking
    <3>2. ~Claimed'
      BY <2>2 DEF Claimed
    <3> QED BY <3>1, <3>2 DEF SafeWalk, SafeBack
  <2> QED BY <1>1, <2>1, <2>3, PlainStart DEF Sound
<1>2. CASE Callees
  <2>1. IInv' /\ Control' /\ NothingLost'
    BY <1>0, <1>2, NextIInv, ControlNext, NothingLostNext DEF AllocStep
  <2> QED BY <1>2, <2>1, CalleesStart, WalkCallees, BackCallees DEF Sound
<1>3. CASE CreateFixed \/ NewFixed \/ FixedDone
  <2>1. pc' \in {"new", "insert", "idle"}
    BY <1>3 DEF CreateFixed, Call, NewFixed, FixedDone
  <2>2. ~Walking' /\ ~Claimed'
    BY <2>1 DEF Walking, Cutting, Resuming, Claimed, Freeing
  <2> QED BY <1>3, <2>2, CalmFixed, FixedStart DEF Sound, SafeWalk, SafeBack
<1>4. CASE InsertedFixed \/ ScanList \/ ScanKeep
  <2>1. pc' = "scan"
    BY <1>4 DEF InsertedFixed, ScanList, ScanKeep, At, vars
  <2>2. ~Claimed'
    BY <2>1 DEF Claimed, Freeing
  <2>3. SafeWalk'
    BY <1>4, WalkBegins, WalkAdvances
  <2> QED BY <1>4, <2>2, <2>3, CalmFixed, FixedStart DEF Sound, SafeBack
<1>5. CASE ScanTake
  <2>1. ~Claimed'
    BY <1>5 DEF ScanTake, Claimed, Freeing
  <2> QED BY <1>5, <2>1, TakeSound, WalkTakes, FixedStart DEF Sound, SafeBack
<1>6. CASE ExtraBelow \/ ExtraAbove
  <2>1. pc' \in {"above", "scan"} \/ (pc' = "free" /\ ret' \in {"above", "scan"})
    BY <1>6 DEF ExtraBelow, ExtraAbove, CallFree
  <2>2. ~Claimed'
    BY <2>1 DEF Claimed, Freeing
  <2> QED BY <1>6, <2>2, ExtraSound, WalkCuts, FixedStart DEF Sound, SafeBack
<1>7. CASE ScanDone
  <2>1. ~Walking'
    BY <1>7 DEF ScanDone, Walking, Cutting, Resuming, Freeing
  <2> QED BY <1>7, <2>1, CalmFixed, BackBegins, FixedStart DEF Sound, SafeWalk
<1>8. CASE BackFixed
  <2>1. /\ pc = "fback" /\ pc' = "list" /\ op' = [op EXCEPT !.cur = op.at]
        /\ flist' = flist /\ used' = used /\ internal' = internal
    BY <1>8 DEF BackFixed, At, memory
  <2>2. op'.at = op.at /\ op'.size = op.size
    BY <1>0, <2>1 DEF TypeOK
  <2>3. Claimed /\ pc' \notin Freeing /\ ~Walking'
    BY <1>0, <2>1 DEF Claimed, StartInv, Freeing, Walking, Cutting, Resuming
  <2>4. InternalRegion("vm")' = InternalRegion("vm")
    BY <2>1 DEF InternalRegion
  <2>5. SafeBack'
    BY <1>0, <2>1, <2>2, <2>3, <2>4, BackSame
  <2> QED BY <1>8, <2>3, <2>5, CalmFixed, FixedStart DEF Sound, SafeWalk
<1>9. CASE FixedUndone
  <2>1. pc' = "free" /\ ret' = "fail"
    BY <1>9 DEF FixedUndone, CallFree
  <2>2. ~Walking' /\ ~Claimed'
    BY <2>1 DEF Walking, Cutting, Resuming, Claimed, Freeing
  <2> QED BY <1>9, <2>2, UndoneSound, FixedStart DEF Sound, SafeWalk, SafeBack
<1> QED BY <1>1, <1>2, <1>3, <1>4, <1>5, <1>6, <1>7, <1>8, <1>9 DEF FixedNext

\* The invariant of the segments holds in every state of every behaviour.
LEMMA SegmentInvariance == FixedSpec => []FInv
<1>1. FixedInit => WInv
  BY WalkInit
<1>2. FixedInit => Sound
  <2> SUFFICES ASSUME FixedInit PROVE Sound
    OBVIOUS
  <2>1. Init /\ pc = "boot_vm" /\ op = NoOp
    BY DEF FixedInit, Init
  <2>2. IInv /\ Control /\ NothingLost
    BY <2>1, InitIInv, InitPInv DEF PInv
  <2>3. StartInv /\ SafeWalk /\ SafeBack
    BY <2>1 DEF StartInv, SafeWalk, SafeBack, Walking, Cutting, Resuming, Claimed, Freeing
  <2> QED BY <2>2, <2>3 DEF Sound
<1>3. FInv /\ [FixedNext]_fixedVars => FInv'
  <2> SUFFICES ASSUME FInv, [FixedNext]_fixedVars PROVE FInv'
    OBVIOUS
  <2>1. WInv /\ WInv'
    BY WalkNext DEF FInv
  <2>2. (clean' => clean) /\ (spared' => spared)
    <3>1. CASE Callees
      <4>1. PICK b : b = (ret \in {"above", "scan"} =>
                           \A f \in flist["vm"] \ flist'["vm"] : ~Touches(f))
        OBVIOUS
      <4>2. clean' = clean /\ spared' = (spared /\ b)
        BY <3>1, <4>1 DEF Callees
      <4> QED BY <4>2, Zenon
    <3>2. CASE InsertedFixed
      <4>1. PICK b : b = (Pages({Segment}) \subseteq Pages(flist["vm"]))
        OBVIOUS
      <4>2. spared' = spared /\ clean' = (clean /\ b)
        BY <3>2, <4>1 DEF InsertedFixed
      <4> QED BY <4>2, Zenon
    <3>3. CASE ~Callees /\ ~InsertedFixed
      <4>1. clean' = clean /\ spared' = spared
        BY <3>3 DEF FixedNext, CreateFixed, NewFixed, ScanList, ScanDone, ScanKeep,
           ScanTake, ExtraBelow, ExtraAbove, BackFixed, FixedDone, FixedUndone, fixed, fixedVars
      <4> QED BY <4>1, Zenon
    <3> QED BY <3>1, <3>2, <3>3
  <2>3. CASE FixedNext
    BY <2>1, <2>2, <2>3, SoundNext DEF FInv
  <2>4. CASE UNCHANGED fixedVars
    <3> SUFFICES ASSUME Sound PROVE Sound'
      BY <2>1, <2>2 DEF FInv
    <3>1. UNCHANGED vars /\ UNCHANGED scan
      BY <2>4 DEF fixedVars
    <3>2. IInv' /\ Control' /\ NothingLost'
      <4>1. \A a \in Allocs : InHand(a)' = InHand(a)
        BY <3>1 DEF InHand, vars
      <4>2. NothingLost'
        BY <3>1, <4>1, SameNothingLost DEF vars, Sound
      <4> QED BY <3>1, <4>2, StepStutter DEF Sound, Control, EmptyInv, BootInv, OpInv, vars
    <3>3. /\ pc' = pc /\ ret' = ret /\ al' = al /\ hand' = hand /\ op' = op /\ scan' = scan
          /\ flist' = flist /\ used' = used /\ internal' = internal
      BY <3>1 DEF vars, memory
    <3>4. StartInv'
      BY <3>3 DEF Sound, StartInv
    <3>5. /\ InternalRegion("vm")' = InternalRegion("vm") /\ InHand("vm")' = InHand("vm")
          /\ Walking' = Walking /\ Cutting' = Cutting /\ Piece' = Piece
          /\ Claimed' = Claimed
      BY <3>3 DEF InternalRegion, InHand, Walking, Cutting, Resuming, Piece, FromSegment,
         EndOf, Claimed
    <3>6. SafeWalk'
      BY <3>3, <3>5, WalkSame DEF Sound
    <3>7. SafeBack'
      <4>1. Claimed' => (pc' \in Freeing => al' = "pm")
        BY <3>3, <3>5 DEF Sound, SafeBack
      <4> QED BY <3>3, <3>5, <4>1, BackSame DEF Sound
    <3> QED BY <3>2, <3>4, <3>6, <3>7 DEF Sound
  <2> QED BY <2>3, <2>4
<1>4. FixedInit => FInv
  BY <1>1, <1>2 DEF FInv
<1> QED BY <1>3, <1>4, PTL DEF FixedSpec

\* When sys$fpage_remove_chunk is done with a segment that was free, vm_alloc has none of
\* its pages left and all of them are handed out, for every memory map, every set of
\* segments and every order of the lists, unless a cache grew into the segment on the way.
THEOREM SegmentOut == FixedSpec => []SegmentTaken
<1>1. FInv => SegmentTaken
  BY DEF FInv, Sound, StartInv, SafeBack, Claimed, SegmentTaken
<1> QED BY <1>1, SegmentInvariance, PTL

\* Loading segments over free pages keeps the allocators sound at every step: no page is in
\* two places and none is lost, in the middle of a walk, when the segment is backed, and
\* when it is given back for want of physical memory.
THEOREM SegmentsSound == FixedSpec => []SoundWhenClean
<1>1. FInv => SoundWhenClean
  BY DEF FInv, Sound, IInv, SoundWhenClean
<1> QED BY <1>1, SegmentInvariance, PTL
=============================================================================
