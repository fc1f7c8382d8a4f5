----------------------------- MODULE BootMemory -----------------------------
(***************************************************************************)
(* How the memory map of the boot is computed (sys_ms_init.c, and          *)
(* sys$remove_chunk and sys$remove_virtmem of sys_alloc.c): the            *)
(* descriptors of the microkernel are merged into a table of regions, one  *)
(* table for physical, one for virtual memory, the boot image is taken out *)
(* of it, and sys$bootstrap picks from it the first chunk for an allocator.*)
(*                                                                         *)
(* A behaviour computes one of the two tables: the scans of the            *)
(* descriptors are independent of each other.  Addresses are bytes; a      *)
(* descriptor begins and ends on a granule, an initial object anywhere.    *)
(* The constants that are functions of a Boolean have a value for physical *)
(* (FALSE) and one for virtual memory (TRUE).                              *)
(***************************************************************************)
EXTENDS Naturals, FiniteSets, SequencesExt

CONSTANTS Page,       \* pagesize
          Granule,    \* [BOOLEAN -> Nat]: the granularity of memory descriptors
          Top,        \* addresses are 0 .. Top - 1, and arithmetic is modulo Top
          MemEnd,     \* [BOOLEAN -> Nat]: memory is below it
          Objects,    \* the initial objects a boot may have: sets of [base, end]
          MaxRegions, \* NUM_MI_REGIONS, NUM_MI_VMREGIONS
          MaxDescs,   \* [BOOLEAN -> Nat]: bound on the descriptors
          MaxObjs,    \* bound on the initial objects
          NULL

\* pagesize is a divisor of the address space and a multiple of the granularity, which is
\* more than a byte; memory ends before the last page of the address space.
ASSUME SizesAssumption ==
  /\ Page \in Nat \ {0} /\ Top \in Nat /\ Top % Page = 0
  /\ \A v \in BOOLEAN :
       /\ Granule[v] \in Nat \ {0, 1} /\ Page % Granule[v] = 0
       /\ MemEnd[v] \in Nat /\ MemEnd[v] + Page <= Top

\* An initial object has an end, which is before the last page of the address space.
ASSUME ObjectsAssumption ==
  \A v \in BOOLEAN : \A o \in Objects[v] :
    o \in [base : Nat, end : Nat] /\ o.base <= o.end /\ o.end + Page <= Top

ASSUME RegionsAssumption == MaxRegions \in Nat \ {0}

\* NULL is neither a chunk nor what sys$remove_chunk is called with.
ASSUME NullAssumption ==
  NULL \notin [base : Nat, end : Nat] \union [low : Nat, high : Nat, next : {"scan", "objects"}]

VARIABLES
  virtual,  \* TRUE if the table is that of virtual memory
  regions,  \* mem_info->regions or vm_regions
  pc,       \* "scan", "remove", "objects", "swapper", "bootstrap", "done" or "PANIC"
  cut,      \* what sys$remove_chunk removes, [low, high], and where it returns to: next
  at,       \* the entry the loop of sys$remove_chunk or of the swapper's base is at
  descs,    \* the number of descriptors read
  objs,     \* the objects removed
  swapper,  \* mem_info->swapper_base
  taken,    \* the region sys$bootstrap has taken for the first chunk, as it was
  memory,   \* the memory the descriptors and the objects leave, later ones winning
  overlap   \* TRUE once a descriptor has added memory that was there already

vars == <<virtual, regions, pc, cut, at, descs, objs, swapper, taken, memory, overlap>>

Bytes(r) == r.base .. r.end

\* The entries that stand for memory: one whose end has been set to its base does not.
Entries == {j \in DOMAIN regions : regions[j].base # regions[j].end}
Cover   == UNION {Bytes(regions[j]) : j \in Entries}

\* sys$page_round_down, sys$page_round_up and the subtraction of two pointers
PageRoundDown(a) == (a \div Page) * Page
PageRoundUp(a)   == PageRoundDown((a + Page - 1) % Top)
Minus(a, b)      == (a + Top - b) % Top

Descriptors ==
  LET g      == Granule[virtual]
      n      == MemEnd[virtual] \div g
      ranges == {[base |-> g * i, end |-> g * j - 1] : i \in 0 .. n, j \in 1 .. n}
  IN  {d \in ranges : d.base < d.end}

\* The descriptors of memory that is not to be used.  One of them is for all addresses.
Excepted == Descriptors \union {[base |-> 0, end |-> Top - 1]}

\* Mutant of Full: the last entry of the table is used too.
FullLate == Len(regions) >= MaxRegions

\* The table is full: its last entry stays free.
Full == Len(regions) >= MaxRegions - 1

-----------------------------------------------------------------------------
(***************************************************************************)
(* sys$find_memory_region adds a region                                    *)
(***************************************************************************)

Tops(r, d)    == d.base >= r.base /\ d.base < r.end /\ d.end >= r.end
Bottoms(r, d) == d.base <= r.base /\ d.end <= r.end /\ d.end > r.base
Inside(r, d)  == d.base > r.base /\ d.base < r.end /\ d.end < r.end /\ d.end > r.base

\* The entry r after the descriptor d that meets it.
Grown(r, d) ==
  IF Tops(r, d) THEN [r EXCEPT !.end = d.end]
  ELSE IF Bottoms(r, d) THEN [r EXCEPT !.base = d.end + 1]
  ELSE r

\* The first entry that meets d is changed; without one, d is appended.
Added(d) ==
  LET met == {j \in DOMAIN regions : LET r == regions[j] IN Tops(r, d) \/ Bottoms(r, d) \/ Inside(r, d)}
  IN  IF met = {} THEN Append(regions, d)
      ELSE LET j == Min(met) IN [regions EXCEPT ![j] = Grown(@, d)]

Add(d) ==
  /\ pc = "scan"
  /\ descs < MaxDescs[virtual]
  /\ descs' = descs + 1
  /\ IF Full
       THEN pc' = "PANIC" /\ UNCHANGED <<regions, memory, overlap>>
       ELSE /\ regions' = Added(d)
            /\ memory' = memory \union Bytes(d)
            /\ overlap' = (overlap \/ Bytes(d) \intersect memory # {})
            /\ UNCHANGED pc
  /\ UNCHANGED <<virtual, cut, at, objs, swapper, taken>>

-----------------------------------------------------------------------------
(***************************************************************************)
(* sys$remove_chunk                                                        *)
(***************************************************************************)

\* The call: the loop begins at the first entry and returns to next.
RemoveChunk(low, high, next) ==
  /\ cut' = [low |-> low, high |-> high, next |-> next]
  /\ at' = 1
  /\ pc' = "remove"
  /\ UNCHANGED <<regions, memory>>

Swallows(r) == cut.low <= r.base /\ cut.high >= r.end
Splits(r)   == cut.low > r.base /\ cut.low < r.end /\ cut.high < r.end /\ cut.high > r.base

Examine ==
  /\ pc = "remove"
  /\ at <= Len(regions)
  /\ UNCHANGED <<virtual, cut, descs, objs, swapper, taken, memory, overlap>>

\* The whole entry goes; the one that moves to its place is next.
RemoveEntry ==
  /\ Examine
  /\ Swallows(regions[at])
  /\ regions' = RemoveAt(regions, at)
  /\ UNCHANGED <<pc, at>>

\* Mutant of Left: a chunk that overlaps the top leaves its first byte.
LeftMore(r) ==
  IF cut.low >= r.base /\ cut.low < r.end /\ cut.high >= r.end THEN [r EXCEPT !.end = cut.low]
  ELSE IF cut.low <= r.base /\ cut.high <= r.end /\ cut.high > r.base THEN [r EXCEPT !.base = cut.high + 1]
  ELSE r

\* What is left of an entry that the chunk overlaps at the top or at the bottom.
Left(r) ==
  IF cut.low >= r.base /\ cut.low < r.end /\ cut.high >= r.end THEN [r EXCEPT !.end = cut.low - 1]
  ELSE IF cut.low <= r.base /\ cut.high <= r.end /\ cut.high > r.base THEN [r EXCEPT !.base = cut.high + 1]
  ELSE r

CutEntry ==
  /\ Examine
  /\ ~Swallows(regions[at])
  /\ ~Splits(regions[at])
  /\ regions' = [regions EXCEPT ![at] = Left(@)]
  /\ at' = at + 1
  /\ UNCHANGED pc

\* Mutant of Upper: the byte after the chunk goes with it.
UpperLess(r) == [r EXCEPT !.base = cut.high + 2]

\* The part of an entry above the chunk that splits it.
Upper(r) == [r EXCEPT !.base = cut.high + 1]

\* The entry becomes two, of which the loop examines the second as well.
SplitEntry ==
  /\ Examine
  /\ Splits(regions[at])
  /\ IF Full
       THEN pc' = "PANIC" /\ UNCHANGED <<regions, at>>
       ELSE /\ regions' = InsertAt([regions EXCEPT ![at].end = cut.low - 1], at + 1, Upper(regions[at]))
            /\ at' = at + 1
            /\ UNCHANGED pc

\* The loop is over: the chunk is no longer there.
Removed ==
  /\ pc = "remove"
  /\ at > Len(regions)
  /\ memory' = memory \ (cut.low .. cut.high)
  /\ pc' = cut.next
  /\ cut' = NULL
  /\ at' = 1
  /\ UNCHANGED <<virtual, regions, descs, objs, swapper, taken, overlap>>

\* sys$find_memory_region meets memory of the type that is excepted: there is none for
\* virtual memory.
Except(d) ==
  /\ pc = "scan"
  /\ ~virtual
  /\ descs < MaxDescs[virtual]
  /\ descs' = descs + 1
  /\ RemoveChunk(d.base, d.end, "scan")
  /\ UNCHANGED <<virtual, objs, swapper, taken, overlap>>

\* sys$mem_init goes on to the objects.  Virtual memory gets its guard page first.
Guard ==
  /\ pc = "scan"
  /\ IF virtual THEN RemoveChunk(0, Page - 1, "objects")
                ELSE pc' = "objects" /\ UNCHANGED <<regions, cut, at, memory>>
  /\ UNCHANGED <<virtual, descs, objs, swapper, taken, overlap>>

\* Mutant of ObjectEnd: the page of the object's last byte stays.
ObjectEndDown(o) == Minus(PageRoundDown(o.end), 1)

\* The last byte that is removed for an object.
ObjectEnd(o) == Minus(PageRoundUp(o.end), 1)

\* sys$mem_init (objects in physical memory), sys$remove_virtmem (in virtual memory)
RemoveObject(o) ==
  /\ pc = "objects"
  /\ Cardinality(objs) < MaxObjs
  /\ o \notin objs
  /\ objs' = objs \union {o}
  /\ RemoveChunk(PageRoundDown(o.base), ObjectEnd(o), "objects")
  /\ UNCHANGED <<virtual, descs, swapper, taken, overlap>>

-----------------------------------------------------------------------------
(***************************************************************************)
(* The swapper's base and the first chunk                                  *)
(***************************************************************************)

\* The swapper begins after the highest region.
Above(base, r) == IF base < r.end THEN r.end + 1 ELSE base

SwapperBase ==
  /\ pc = "objects"
  /\ swapper' = 0
  /\ at' = 1
  /\ pc' = IF virtual THEN "bootstrap" ELSE "swapper"
  /\ UNCHANGED <<virtual, regions, cut, descs, objs, taken, memory, overlap>>

RaiseSwapper ==
  /\ pc = "swapper"
  /\ at <= Len(regions)
  /\ swapper' = Above(swapper, regions[at])
  /\ at' = at + 1
  /\ UNCHANGED <<virtual, regions, pc, cut, descs, objs, taken, memory, overlap>>

SwapperDone ==
  /\ pc = "swapper"
  /\ at > Len(regions)
  /\ pc' = "bootstrap"
  /\ UNCHANGED <<virtual, regions, cut, at, descs, objs, swapper, taken, memory, overlap>>

Aligned(r) == [base |-> PageRoundUp(r.base), end |-> Minus(PageRoundDown(r.end + 1), 1)]

\* Mutant of Enough: one page is enough.
EnoughOne(r) ==
  LET size == IF virtual THEN Minus(r.end, r.base + 1) ELSE (Minus(r.end, r.base) + 1) % Top
  IN  size >= Page

\* The region is large enough, as sys$bootstrap computes it.
Enough(r) ==
  LET size == IF virtual THEN Minus(r.end, r.base + 1) ELSE (Minus(r.end, r.base) + 1) % Top
  IN  size >= 2 * Page

\* sys$bootstrap frees the pages of the first region that is large enough, of which it
\* leaves an entry that ends where it begins.  It then tests the index of the region, for
\* virtual memory too, with the number of physical regions.
Bootstrap ==
  LET found == {j \in DOMAIN regions : Enough(Aligned(regions[j]))}
      i     == IF found = {} THEN Len(regions) ELSE Min(found) - 1
  IN  /\ pc = "bootstrap"
      /\ IF found = {}
           THEN UNCHANGED <<regions, taken>>
           ELSE /\ taken' = regions[i + 1]
                /\ regions' = [regions EXCEPT ![i + 1].end = regions[i + 1].base]
      /\ \E num_regions \in IF virtual THEN 0 .. MaxRegions - 1 ELSE {Len(regions)} :
           pc' = IF i >= num_regions THEN "PANIC" ELSE "done"
      /\ UNCHANGED <<virtual, cut, at, descs, objs, swapper, memory, overlap>>

Init ==
  /\ virtual \in BOOLEAN
  /\ regions = <<>>
  /\ pc = "scan"
  /\ cut = NULL
  /\ at = 1
  /\ descs = 0
  /\ objs = {}
  /\ swapper = 0
  /\ taken = NULL
  /\ memory = {}
  /\ overlap = FALSE

Next ==
  \/ \E d \in Descriptors : Add(d)
  \/ \E d \in Excepted : Except(d)
  \/ Guard
  \/ \E o \in Objects[virtual] : RemoveObject(o)
  \/ RemoveEntry \/ CutEntry \/ SplitEntry \/ Removed
  \/ SwapperBase \/ RaiseSwapper \/ SwapperDone
  \/ Bootstrap

Spec == Init /\ [][Next]_vars

-----------------------------------------------------------------------------
(***************************************************************************)
(* Properties                                                              *)
(***************************************************************************)

\* The table has room for one more region than it holds, of addresses of the memory (the
\* base of an entry may be the address after it; sys$find_memory_region).
TypeOK ==
  /\ pc \in {"scan", "remove", "objects", "swapper", "bootstrap", "done", "PANIC"}
  /\ Len(regions) < MaxRegions
  /\ at \in 1 .. Len(regions) + 1
  /\ \A j \in DOMAIN regions : regions[j].base \in 0 .. MemEnd[virtual]
  /\ \A j \in Entries : regions[j].end \in 0 .. MemEnd[virtual] - 1
  /\ swapper \in 0 .. MemEnd[virtual]

\* What sys$remove_chunk is removing.
Removing == IF cut = NULL THEN {} ELSE cut.low .. cut.high

\* What sys$bootstrap has taken from the table.
Taken == IF taken = NULL THEN {} ELSE Bytes(taken)

\* The table never names memory that no descriptor gave, or that a later one or an
\* object took away: neither merging nor splitting entries invents memory
\* (sys$find_memory_region, sys$remove_chunk).
Sound == Cover \subseteq memory

\* As long as no descriptor adds memory that is there already, the table is exact: it
\* names all the memory that is left, or sys$bootstrap has taken it, and names it once.
\* (When descriptors do overlap, the branch of sys$find_memory_region for the bottom cuts
\* the entry as if the memory were taken away, and a descriptor that encloses an entry is
\* appended beside it.)
ExactUnlessOverlap ==
  ~overlap =>
    /\ memory \ Removing \subseteq Cover \union Taken
    /\ \A i, j \in Entries : i # j => Bytes(regions[i]) \intersect Bytes(regions[j]) = {}
    /\ Cover \intersect Taken = {}

\* No page that an object occupies with more than its last byte is left in the table
\* (sys$mem_init, sys$remove_virtmem), whatever regions the object spans.
ObjectsButLastByte == cut = NULL => \A o \in objs : Cover \intersect (o.base .. o.end - 1) = {}

\* A chunk that is memory, and at least two pages of it.
TwoPages(chunk) == Bytes(chunk) \subseteq memory /\ Cardinality(Bytes(chunk)) >= 2 * Page

\* What sys$bootstrap frees first is memory that is there, and at least two pages of it,
\* unless it came from a region without a whole page, whose size wraps around; and the
\* boot never goes on without a chunk of physical memory (of virtual memory it may).
FirstChunk ==
  /\ taken # NULL => LET chunk == Aligned(taken)
                     IN  chunk.base < (chunk.end + 1) % Top => TwoPages(chunk)
  /\ pc = "done" /\ ~virtual => taken # NULL

\* Once it is computed, the swapper's base is above all physical memory (sys$mem_init),
\* although a region that ends where the base is does not raise it.
SwapperAbove ==
  pc \in {"bootstrap", "done"} /\ ~virtual => \A j \in Entries : regions[j].end < swapper

\* Stated by comments of sys$mem_init and sys$bootstrap, and violated: initial objects
\* are removed from free memory, all of them;
ObjectsRemoved == cut = NULL => \A o \in objs : Cover \intersect Bytes(o) = {}

\* when the boot goes on, an allocator was given memory;
FirstChunkFreed == pc = "done" => taken # NULL

\* the first chunk that is freed is at least two pages of memory.
FirstChunkEnough == taken # NULL => TwoPages(Aligned(taken))
=============================================================================
