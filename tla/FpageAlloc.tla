------------------------------ MODULE FpageAlloc ------------------------------
(***************************************************************************)
(* The memory core of the FreeVMS root task: the two fpage allocators      *)
(* (vm_alloc, pm_alloc of sys_alloc.c), the slab caches they feed and are  *)
(* fed by (sys_slab.c), memsection creation on top of them                 *)
(* (sys_slab.c, sys_objtables.c) and the boot sequence that fills them     *)
(* (sys_ms_init.c).                                                        *)
(*                                                                         *)
(* The allocators and the slab caches are mutually recursive: a free list  *)
(* node is a slab, a slab page is carved out of an allocator, and carving  *)
(* may itself pop a node.  The code runs on one kernel thread, so the      *)
(* interleaving modelled here is that of a call with the calls nested in   *)
(* it: every point at which sys$slab_cache_alloc may grow a cache is a     *)
(* state of its own (the pc), and growing takes steps that change the very *)
(* allocator the suspended call is working on.                             *)
(*                                                                         *)
(* Units are pages of vms$min_pagesize() bytes.  The code's inclusive last *)
(* byte "end" becomes the first page after the region, so that base < end, *)
(* base >= end and (end - base) + 1 < size keep their meaning.             *)
(***************************************************************************)
EXTENDS Integers, FiniteSets, Sequences

CONSTANTS
  FpageSizes,  \* sizes of an fpage: the powers of two, in pages
  PerPool,     \* slabs that one pool page of each cache holds
  BtMax,       \* most B+ tree pages one objtable_insert allocates
  HeapSize,    \* VMS$HEAP_SIZE, in pages
  Requests,    \* the memsections the kernel may ask for: [flags, size]
  MemInfos     \* memory maps sys$mem_init may find: [regions, objects]

Allocs == {"vm", "pm"}             \* vm_alloc and pm_alloc
Caches == {"fp", "ms", "bt"}       \* fp_cache, ms_cache and bt_cache
Flags  == {"normal", "user", "utcb", "internal", "fixed"}

Region == [base : Nat, size : Nat \ {0}]

EndOf(r)   == r.base + r.size
Disj(r, s) == EndOf(r) <= s.base \/ EndOf(s) <= r.base

ASSUME SizesAssumption ==
  /\ FpageSizes \subseteq Nat \ {0}
  /\ 1 \in FpageSizes
  /\ \A s \in FpageSizes : s # 1 => \E h \in FpageSizes : s = 2 * h

ASSUME ParamAssumption ==
  /\ PerPool \in [Caches -> Nat \ {0}]
  /\ BtMax \in Nat
  /\ HeapSize \in Nat \ {0}
  /\ Requests \subseteq [flags : {"normal", "user", "utcb"}, size : Nat \ {0}]

\* The regions of a map do not overlap: sys$find_memory_region merges them and
\* sys$remove_virtmem takes the boot image out of the virtual ones.
ASSUME MapsAssumption ==
  /\ MemInfos \subseteq [regions : [Allocs -> Seq(Region)], objects : SUBSET Region]
  /\ \A m \in MemInfos : \A a \in Allocs :
       \A i, j \in DOMAIN m.regions[a] :
         i # j => Disj(m.regions[a][i], m.regions[a][j])

VARIABLES
  mem,       \* mem_info: the memory map found at boot
  pending,   \* per allocator, the regions of mem not yet given to it
  flist,     \* per allocator, the fpages of its free lists (all orders)
  internal,  \* per allocator, the internal region slab pages are carved from
  used,      \* per allocator, what it does not hold: pending regions, slab
             \* pages, memsections and the pages backing them
  slabs,     \* free slabs of each cache
  pools,     \* pool pages of each cache: [virt, phys]
  grow,      \* sys$memsection_create_cache in progress for each cache
  pc, ret,   \* where the current call stands; where its callee returns to
  al,        \* the fpage_alloc the fpage routine in progress works on
  hand,      \* the pages that routine holds in its local variables
  op,        \* the sys$pd_create_memsection in progress
  sections,  \* the memsections created
  vms_pd_initialized

vars == <<mem, pending, flist, internal, used, slabs, pools, grow, pc, ret, al,
          hand, op, sections, vms_pd_initialized>>

memory == <<flist, internal, used>>
caches == <<slabs, pools, grow>>
booting == <<mem, pending, vms_pd_initialized>>

NoPages == [base |-> 0, size |-> 0]
NoGrow  == [stage |-> "none", virt |-> 0, phys |-> 0]
NoOp    == [flags |-> "user", size |-> 0, at |-> 0, cur |-> 0, want |-> 0,
            list |-> {}, bt |-> 0]

PCs == {"boot_vm", "boot_pm", "boot_pm_rest", "boot_vm_clear", "boot_vm_rest",
        "boot_heap",                                    \* sys$bootstrap
        "idle", "new", "insert", "fail",                \* sys$pd_create_memsection
        "alloc", "split",                               \* sys$fpage_alloc
        "chunk",                                        \* sys$fpage_alloc_chunk
        "back", "list", "lnode", "undo", "undone",      \* sys$fpage_alloc_list
        "free", "load",                                 \* sys$fpage_free_chunk
        "clear", "node",                                \* sys$fpage_clear_internal
        "scan", "below", "above", "fback",              \* objtable_setup_fixed (FixedSections)
        "panic", "corrupt", "null"}                     \* no way back

(***************************************************************************)
(* Fpages                                                                  *)
(***************************************************************************)

\* Mutant of Fits: any address will do.
FitsAnywhere(s, base, end) == base + s <= end

\* A page of size s at base lies in base..end-1 and is naturally aligned.
Fits(s, base, end) == base % s = 0 /\ base + s <= end

\* sys$biggest_fpage(base, base, end): the loop doubles the size for as long
\* as the doubled page still fits.
IsBiggest(s, base, end) == /\ s \in FpageSizes
                           /\ Fits(s, base, end)
                           /\ ~(2 * s \in FpageSizes /\ Fits(2 * s, base, end))

\* Mutant of Buddy: always the lower neighbour.
BuddyBelow(f) == [f EXCEPT !.base = @ - f.size]

\* buddy: the address with the bit of the page's own size flipped.
Buddy(f) == [f EXCEPT !.base = IF (f.base \div f.size) % 2 = 0
                                 THEN f.base + f.size ELSE f.base - f.size]

\* The nodes sys$fpage_alloc may find for a request: those of the first
\* non-empty list of sufficient order, else those of the last one below it.
Candidates(fs, want) ==
  LET big == {f \in fs : f.size >= want}
  IN IF big # {} THEN {f \in big : \A g \in big : f.size <= g.size}
                 ELSE {f \in fs : \A g \in fs : g.size <= f.size}

-----------------------------------------------------------------------------
(***************************************************************************)
(* Slab caches: sys$slab_cache_alloc and sys$memsection_create_cache       *)
(***************************************************************************)

\* The step in progress calls sys$slab_cache_alloc(c).
NeedsSlab(c) ==
  \/ c = "fp" /\ pc \in {"node", "lnode"}
  \/ c = "fp" /\ pc = "split" /\ 2 * op.want <= hand.size
  \/ c = "bt" /\ pc = "insert" /\ vms_pd_initialized /\ op.bt < BtMax
  \/ c = "ms" /\ pc = "new"
  \/ c = "ms" /\ \E d \in {"fp", "bt"} : grow[d].stage = "node"

Growing == \E c \in Caches : grow[c].stage # "none"

Halts == {"panic", "corrupt", "null"}

\* The innermost growth is the one that runs: ms_cache grows inside the others.
Running(c) == pc \notin Halts /\ (c # "ms" => grow["ms"].stage = "none")

\* No pool of cache c has a free slab left: a new pool has to be created.
StartGrow(c) ==
  /\ NeedsSlab(c)
  /\ slabs[c] = 0
  /\ grow[c].stage = "none"
  /\ grow' = [grow EXCEPT ![c].stage = "virt"]
  /\ UNCHANGED <<memory, slabs, pools, booting, pc, ret, al, hand, op, sections>>

\* What sys$fpage_alloc_internal(a) may carve a page from: the internal region,
\* else the first fpage of the first non-empty list.
InternalRegion(a) == IF internal[a].base < internal[a].end
                       THEN {[base |-> internal[a].base,
                              size |-> internal[a].end - internal[a].base]}
                       ELSE {}
Smallest(fs) == {f \in fs : \A g \in fs : f.size <= g.size}
Sources(a)   == IF internal[a].active THEN InternalRegion(a) ELSE Smallest(flist[a])

\* Mutant of AllocInternal: the region stays active when its last page is gone.
AllocInternalActive(a, r) ==
  /\ used' = [used EXCEPT ![a] = @ \union {[base |-> r.base, size |-> 1]}]
  /\ internal' = [internal EXCEPT ![a] = [base |-> r.base + 1, end |-> EndOf(r),
                                          active |-> TRUE]]
  /\ flist' = [flist EXCEPT ![a] = @ \ {r}]
  /\ UNCHANGED slabs

\* sys$fpage_alloc_internal: the first page of r is taken, the others are the
\* internal region.  The node of an fpage goes back to fp_cache.
AllocInternal(a, r) ==
  /\ used' = [used EXCEPT ![a] = @ \union {[base |-> r.base, size |-> 1]}]
  /\ internal' = [internal EXCEPT ![a] = [base |-> r.base + 1, end |-> EndOf(r),
                                          active |-> r.base + 1 < EndOf(r)]]
  /\ IF internal[a].active
       THEN UNCHANGED <<flist, slabs>>
       ELSE /\ flist' = [flist EXCEPT ![a] = @ \ {r}]
            /\ slabs' = [slabs EXCEPT !["fp"] = @ + 1]

GrowVirt(c) ==
  /\ Running(c)
  /\ grow[c].stage = "virt"
  /\ \E r \in Sources("vm") :
       /\ AllocInternal("vm", r)
       /\ grow' = [grow EXCEPT ![c].stage = "phys", ![c].virt = r.base]
  /\ UNCHANGED <<pools, booting, pc, ret, al, hand, op, sections>>

GrowPhys(c) ==
  /\ Running(c)
  /\ grow[c].stage = "phys"
  /\ \E r \in Sources("pm") :
       /\ AllocInternal("pm", r)
       /\ grow' = [grow EXCEPT ![c].stage = "node", ![c].phys = r.base]
  /\ UNCHANGED <<pools, booting, pc, ret, al, hand, op, sections>>

\* Out of memory is a PANIC.  An active internal region without a page would be
\* INVALID_ADDR, which sys$slab_cache_alloc turns into NULL.
GrowFails(c, a) ==
  /\ Running(c)
  /\ grow[c].stage = (IF a = "vm" THEN "virt" ELSE "phys")
  /\ Sources(a) = {}
  /\ pc' = IF internal[a].active THEN "null" ELSE "panic"
  /\ UNCHANGED <<memory, caches, booting, ret, al, hand, op, sections>>

\* The rest of sys$memsection_create_cache: the pool's memsection node, inside
\* the page itself for ms_cache and a slab of ms_cache otherwise; then its slabs.
GrowNode(c) ==
  /\ Running(c)
  /\ grow[c].stage = "node"
  /\ c # "ms" => slabs["ms"] > 0
  /\ slabs' = [d \in Caches |->
                 slabs[d] + (IF d = c THEN PerPool[c] ELSE 0)
                          - (IF d = "ms" /\ c # "ms" THEN 1 ELSE 0)]
  /\ pools' = [pools EXCEPT ![c] = @ \union {[virt |-> grow[c].virt,
                                             phys |-> grow[c].phys]}]
  /\ grow' = [grow EXCEPT ![c] = NoGrow]
  /\ UNCHANGED <<memory, booting, pc, ret, al, hand, op, sections>>

-----------------------------------------------------------------------------
(***************************************************************************)
(* Giving pages back: sys$fpage_free_chunk and sys$fpage_clear_internal    *)
(***************************************************************************)

\* The actions below are the current call's own steps: no growth is in progress.
At(label) == pc = label /\ ~Growing

\* Continue in sys$fpage_free_chunk(a, r) and come back to label.
CallFree(a, r, label) == pc' = "free" /\ al' = a /\ hand' = r /\ ret' = label

\* Mutant of Free: the internal region is overwritten without being flushed.
FreeNoFlush ==
  /\ At("free")
  /\ pc' = "load"
  /\ UNCHANGED <<memory, caches, booting, ret, al, hand, op, sections>>

\* sys$fpage_free_chunk: flush what the internal region still holds.
Free ==
  /\ At("free")
  /\ pc' = IF internal[al].active THEN "clear" ELSE "load"
  /\ UNCHANGED <<memory, caches, booting, ret, al, hand, op, sections>>

\* sys$fpage_free_internal: the freed pages become the internal region ...
LoadInternal ==
  /\ At("load")
  /\ internal' = [internal EXCEPT ![al] = [base |-> hand.base, end |-> EndOf(hand),
                                           active |-> TRUE]]
  /\ hand' = NoPages
  /\ pc' = "clear"
  /\ UNCHANGED <<flist, used, caches, booting, ret, al, op, sections>>

\* ... and sys$fpage_clear_internal moves it to the free lists.  Its loop test
\* comes before the node is allocated.
ClearTest ==
  /\ At("clear")
  /\ internal[al].base < internal[al].end
  /\ pc' = "node"
  /\ UNCHANGED <<memory, caches, booting, ret, al, hand, op, sections>>

ClearDone ==
  /\ At("clear")
  /\ internal[al].base >= internal[al].end
  /\ internal' = [internal EXCEPT ![al].active = FALSE]
  /\ pc' = IF hand.size > 0 THEN "load" ELSE ret
  /\ UNCHANGED <<flist, used, caches, booting, ret, al, hand, op, sections>>

\* The loop body once the node is there: the biggest fpage at the region's base.
ClearNode ==
  /\ At("node")
  /\ slabs["fp"] > 0
  /\ internal[al].base < internal[al].end
  /\ \E s \in FpageSizes :
       /\ IsBiggest(s, internal[al].base, internal[al].end)
       /\ flist' = [flist EXCEPT ![al] = @ \union {[base |-> internal[al].base,
                                                    size |-> s]}]
       /\ internal' = [internal EXCEPT ![al].base = @ + s]
  /\ slabs' = [slabs EXCEPT !["fp"] = @ - 1]
  /\ pc' = "clear"
  /\ UNCHANGED <<used, pools, grow, booting, ret, al, hand, op, sections>>

\* Growing fp_cache for the node took the last page of the region itself:
\* sys$biggest_fpage returns L4_Nilpage and the node goes to flist[0 - min_pagebits].
ClearNil ==
  /\ At("node")
  /\ slabs["fp"] > 0
  /\ internal[al].base >= internal[al].end
  /\ slabs' = [slabs EXCEPT !["fp"] = @ - 1]
  /\ pc' = "corrupt"
  /\ UNCHANGED <<memory, pools, grow, booting, ret, al, hand, op, sections>>

-----------------------------------------------------------------------------
(***************************************************************************)
(* Taking pages: sys$fpage_alloc                                           *)
(***************************************************************************)

\* Continue in sys$fpage_alloc(a, n pages) and come back to label.
CallAlloc(a, n, label) == pc' = "alloc" /\ al' = a /\ ret' = label
                          /\ hand' = NoPages
                          /\ op' = [op EXCEPT !.want = n]

AllocPick ==
  /\ At("alloc")
  /\ \E f \in Candidates(flist[al], op.want) :
       /\ hand' = f
       /\ flist' = [flist EXCEPT ![al] = @ \ {f}]
  /\ slabs' = [slabs EXCEPT !["fp"] = @ + 1]
  /\ pc' = "split"
  /\ UNCHANGED <<internal, used, pools, grow, booting, ret, al, op, sections>>

\* Mutant of AllocNil: the backing loop tries again for ever.
AllocNilRetry ==
  /\ At("alloc")
  /\ flist[al] = {}
  /\ pc' = IF ret = "chunk" THEN "fail" ELSE "list"
  /\ UNCHANGED <<memory, caches, booting, ret, al, hand, op, sections>>

\* L4_Nilpage: sys$fpage_alloc_chunk fails, sys$fpage_alloc_list undoes.
AllocNil ==
  /\ At("alloc")
  /\ flist[al] = {}
  /\ pc' = IF ret = "chunk" THEN "fail" ELSE "undo"
  /\ UNCHANGED <<memory, caches, booting, ret, al, hand, op, sections>>

\* Free up any excess: keep the lower half while it is enough.
SplitHalve ==
  /\ At("split")
  /\ 2 * op.want <= hand.size
  /\ slabs["fp"] > 0
  /\ \E h \in FpageSizes :
       /\ hand.size = 2 * h
       /\ hand' = [hand EXCEPT !.size = h]
       /\ flist' = [flist EXCEPT ![al] = @ \union {Buddy(hand')}]
  /\ slabs' = [slabs EXCEPT !["fp"] = @ - 1]
  /\ UNCHANGED <<internal, used, pools, grow, booting, pc, ret, al, op, sections>>

SplitDone ==
  /\ At("split")
  /\ 2 * op.want > hand.size
  /\ pc' = ret
  /\ UNCHANGED <<memory, caches, booting, ret, al, hand, op, sections>>

-----------------------------------------------------------------------------
(***************************************************************************)
(* Memsections: sys$pd_create_memsection and the objtable_setup family     *)
(***************************************************************************)

\* A call for a new memsection; its node comes from ms_cache.
Call(flags, size, at) ==
  /\ pc' = "new"
  /\ op' = [NoOp EXCEPT !.flags = flags, !.size = size, !.at = at]

Create ==
  /\ At("idle")
  /\ \E r \in Requests : Call(r.flags, r.size, 0)
  /\ UNCHANGED <<memory, caches, booting, ret, al, hand, sections>>

\* sys$populate_init_objects: the preloaded objects become internal memsections.
CreateInternal ==
  /\ At("idle")
  /\ vms_pd_initialized
  /\ \E o \in mem.objects :
       /\ ~\E s \in sections : s.flags = "internal" /\ s.base = o.base
       /\ Call("internal", o.size, o.base)
  /\ UNCHANGED <<memory, caches, booting, ret, al, hand, sections>>

\* sys$memsection_new, then the setup routine the flags select.
New ==
  /\ At("new")
  /\ slabs["ms"] > 0
  /\ slabs' = [slabs EXCEPT !["ms"] = @ - 1]
  /\ IF op.flags = "internal"
       THEN pc' = "insert" /\ UNCHANGED <<al, ret, hand, op>>
       ELSE CallAlloc("vm", op.size, "chunk")
  /\ UNCHANGED <<memory, pools, grow, booting, sections>>

\* The rest of sys$fpage_alloc_chunk: the largest fpage was too small ...
ChunkShort ==
  /\ At("chunk")
  /\ hand.size < op.size
  /\ CallFree("vm", hand, "fail")
  /\ UNCHANGED <<memory, caches, booting, op, sections>>

\* ... or its first pages are the memsection and the others are freed.
ChunkTrim ==
  /\ At("chunk")
  /\ hand.size >= op.size
  /\ used' = [used EXCEPT !["vm"] = @ \union {[base |-> hand.base, size |-> op.size]}]
  /\ op' = [op EXCEPT !.at = hand.base, !.cur = hand.base]
  /\ IF hand.size > op.size
       THEN CallFree("vm", [base |-> hand.base + op.size,
                            size |-> hand.size - op.size], "back")
       ELSE pc' = "back" /\ hand' = NoPages /\ UNCHANGED <<al, ret>>
  /\ UNCHANGED <<flist, internal, caches, booting, sections>>

\* Only an ordinary memsection is backed with physical pages.
Back ==
  /\ At("back")
  /\ pc' = IF op.flags = "normal" THEN "list" ELSE "insert"
  /\ UNCHANGED <<memory, caches, booting, ret, al, hand, op, sections>>

\* Mutant of ListNext: sized from the base of the memsection, not from the cursor.
ListNextFromBase ==
  /\ At("list")
  /\ op.cur < op.at + op.size
  /\ \E s \in FpageSizes : IsBiggest(s, op.at, op.at + op.size)
                           /\ CallAlloc("pm", s, "lnode")
  /\ UNCHANGED <<memory, caches, booting, sections>>

\* sys$fpage_alloc_list: the largest physical fpage that fits at the cursor.
ListNext ==
  /\ At("list")
  /\ op.cur < op.at + op.size
  /\ \E s \in FpageSizes : IsBiggest(s, op.cur, op.at + op.size)
                           /\ CallAlloc("pm", s, "lnode")
  /\ UNCHANGED <<memory, caches, booting, sections>>

\* sys$memsection_back maps the pages of the list, one after another.
ListDone ==
  /\ At("list")
  /\ op.cur >= op.at + op.size
  /\ pc' = "insert"
  /\ UNCHANGED <<memory, caches, booting, ret, al, hand, op, sections>>

ListNode ==
  /\ At("lnode")
  /\ slabs["fp"] > 0
  /\ slabs' = [slabs EXCEPT !["fp"] = @ - 1]
  /\ used' = [used EXCEPT !["pm"] = @ \union {hand}]
  /\ op' = [op EXCEPT !.list = @ \union {[virt |-> op.cur, fpage |-> hand]},
                      !.cur = @ + hand.size]
  /\ hand' = NoPages
  /\ pc' = "list"
  /\ UNCHANGED <<flist, internal, pools, grow, booting, ret, al, sections>>

\* out_of_memory: free the pages of the list one by one, each before its node,
\* then the virtual chunk (objtable_setup).
UndoOne ==
  /\ At("undo")
  /\ \E e \in op.list :
       /\ op' = [op EXCEPT !.list = @ \ {e}]
       /\ used' = [used EXCEPT !["pm"] = @ \ {e.fpage}]
       /\ CallFree("pm", e.fpage, "undone")
  /\ UNCHANGED <<flist, internal, caches, booting, sections>>

\* Mutant of UndoNode: the node is not given back to fp_cache.
UndoNodeLost ==
  /\ At("undone")
  /\ pc' = "undo"
  /\ UNCHANGED <<memory, caches, booting, ret, al, hand, op, sections>>

UndoNode ==
  /\ At("undone")
  /\ slabs' = [slabs EXCEPT !["fp"] = @ + 1]
  /\ pc' = "undo"
  /\ UNCHANGED <<memory, pools, grow, booting, ret, al, hand, op, sections>>

\* Mutant of UndoDone: the virtual chunk is forgotten.
UndoDoneKeeps ==
  /\ At("undo")
  /\ op.list = {}
  /\ pc' = "fail"
  /\ UNCHANGED <<memory, caches, booting, ret, al, hand, op, sections>>

UndoDone ==
  /\ At("undo")
  /\ op.list = {}
  /\ used' = [used EXCEPT !["vm"] = @ \ {[base |-> op.at, size |-> op.size]}]
  /\ CallFree("vm", [base |-> op.at, size |-> op.size], "fail")
  /\ UNCHANGED <<flist, internal, caches, booting, op, sections>>

\* Mutant of InsertPage: a page is taken whether or not bt_cache has one.
InsertPageBlind ==
  /\ At("insert")
  /\ vms_pd_initialized
  /\ op.bt < BtMax
  /\ slabs' = [slabs EXCEPT !["bt"] = @ - 1]
  /\ op' = [op EXCEPT !.bt = @ + 1]
  /\ UNCHANGED <<memory, pools, grow, booting, pc, ret, al, hand, sections>>

\* objtable_insert: ObjBTIns takes some number of pages from bt_cache ...
InsertPage ==
  /\ At("insert")
  /\ vms_pd_initialized
  /\ op.bt < BtMax
  /\ slabs["bt"] > 0
  /\ slabs' = [slabs EXCEPT !["bt"] = @ - 1]
  /\ op' = [op EXCEPT !.bt = @ + 1]
  /\ UNCHANGED <<memory, pools, grow, booting, pc, ret, al, hand, sections>>

\* ... and never reports a failure; the memsection is linked and returned.
InsertDone ==
  /\ At("insert")
  /\ sections' = sections \union {[flags |-> op.flags, base |-> op.at,
                                   size |-> op.size, list |-> op.list]}
  /\ op' = NoOp
  /\ pc' = "idle"
  /\ UNCHANGED <<memory, caches, booting, ret, al, hand>>

\* The setup failed: sys$delete_memsection_from_allocator.  Without its heap the
\* kernel cannot boot (PANIC in sys$bootstrap).
Fail ==
  /\ At("fail")
  /\ slabs' = [slabs EXCEPT !["ms"] = @ + 1]
  /\ op' = NoOp
  /\ pc' = IF sections = {} THEN "panic" ELSE "idle"
  /\ UNCHANGED <<memory, pools, grow, booting, ret, al, hand, sections>>

-----------------------------------------------------------------------------
(***************************************************************************)
(* sys$bootstrap                                                           *)
(***************************************************************************)

RegionAt(a, i) == mem.regions[a][i]

\* The first region of the map that has at least n pages.
IsFirst(a, n, i) == /\ i \in pending[a]
                    /\ RegionAt(a, i).size >= n
                    /\ \A j \in pending[a] : RegionAt(a, j).size >= n => i <= j

\* Region i leaves the map: it now belongs to allocator a.
TakeRegion(a, i) ==
  /\ pending' = [pending EXCEPT ![a] = @ \ {i}]
  /\ used' = [used EXCEPT ![a] = @ \ {RegionAt(a, i)}]

\* The first virtual region of three pages or more becomes the internal region.
\* The PANIC after the loop compares its index with the number of physical regions.
BootVm ==
  /\ At("boot_vm")
  /\ \E i \in pending["vm"] :
       /\ IsFirst("vm", 3, i)
       /\ i <= Len(mem.regions["pm"])
       /\ TakeRegion("vm", i)
       /\ internal' = [internal EXCEPT !["vm"] =
                         [base |-> RegionAt("vm", i).base, end |-> EndOf(RegionAt("vm", i)),
                          active |-> TRUE]]
  /\ pc' = "boot_pm"
  /\ UNCHANGED <<mem, vms_pd_initialized, flist, caches, ret, al, hand, op, sections>>

\* No virtual region is big enough, and that comparison does not notice.
BootVmNone ==
  /\ At("boot_vm")
  /\ ~\E i \in pending["vm"] : IsFirst("vm", 3, i)
  /\ Len(mem.regions["vm"]) < Len(mem.regions["pm"])
  /\ pc' = "boot_pm"
  /\ UNCHANGED <<memory, caches, booting, ret, al, hand, op, sections>>

\* The first physical region of two pages or more is freed.
BootPm ==
  /\ At("boot_pm")
  /\ \E i \in pending["pm"] :
       /\ IsFirst("pm", 2, i)
       /\ TakeRegion("pm", i)
       /\ CallFree("pm", RegionAt("pm", i), "boot_pm_rest")
  /\ UNCHANGED <<mem, vms_pd_initialized, flist, internal, caches, op, sections>>

BootPanic ==
  /\ \/ /\ At("boot_vm")
        /\ \/ \E i \in pending["vm"] : IsFirst("vm", 3, i) /\ i > Len(mem.regions["pm"])
           \/ /\ ~\E i \in pending["vm"] : IsFirst("vm", 3, i)
              /\ Len(mem.regions["vm"]) >= Len(mem.regions["pm"])
     \/ /\ At("boot_pm")
        /\ ~\E i \in pending["pm"] : IsFirst("pm", 2, i)
  /\ pc' = "panic"
  /\ UNCHANGED <<memory, caches, booting, ret, al, hand, op, sections>>

\* Then the other regions, in order.
BootRest(a, label, done) ==
  /\ At(label)
  /\ IF pending[a] = {}
       THEN pc' = done /\ UNCHANGED <<pending, used, al, hand, ret>>
       ELSE \E i \in pending[a] : /\ IsFirst(a, 1, i)
                                  /\ TakeRegion(a, i)
                                  /\ CallFree(a, RegionAt(a, i), label)
  /\ UNCHANGED <<mem, vms_pd_initialized, flist, internal, caches, op, sections>>

\* sys$fpage_clear_internal(&vm_alloc).
BootVmClear ==
  /\ At("boot_vm_clear")
  /\ IF internal["vm"].active
       THEN pc' = "clear" /\ al' = "vm" /\ ret' = "boot_vm_rest"
       ELSE pc' = "boot_vm_rest" /\ UNCHANGED <<al, ret>>
  /\ UNCHANGED <<memory, caches, booting, hand, op, sections>>

\* The kernel heap, a memsection the kernel pages itself.
BootHeap ==
  /\ At("boot_heap")
  /\ Call("user", HeapSize, 0)
  /\ UNCHANGED <<memory, caches, booting, ret, al, hand, sections>>

\* sys$pd_init: from here on objtable_insert really inserts.
PdInit ==
  /\ At("idle")
  /\ ~vms_pd_initialized
  /\ vms_pd_initialized' = TRUE
  /\ UNCHANGED <<memory, caches, mem, pending, pc, ret, al, hand, op, sections>>

\* PANIC spins for ever; what follows a corrupted list is not predicted.
Halted == pc \in Halts /\ UNCHANGED vars

Init ==
  /\ mem \in MemInfos
  /\ pending = [a \in Allocs |-> DOMAIN mem.regions[a]]
  /\ flist = [a \in Allocs |-> {}]
  /\ internal = [a \in Allocs |-> [base |-> 0, end |-> 0, active |-> FALSE]]
  /\ used = [a \in Allocs |-> {RegionAt(a, i) : i \in DOMAIN mem.regions[a]}]
  /\ slabs = [c \in Caches |-> 0]
  /\ pools = [c \in Caches |-> {}]
  /\ grow = [c \in Caches |-> NoGrow]
  /\ pc = "boot_vm"
  /\ ret = "idle"
  /\ al = "vm"
  /\ hand = NoPages
  /\ op = NoOp
  /\ sections = {}
  /\ vms_pd_initialized = FALSE

Next ==
  \/ \E c \in Caches : StartGrow(c) \/ GrowVirt(c) \/ GrowPhys(c) \/ GrowNode(c)
                      \/ \E a \in Allocs : GrowFails(c, a)
  \/ Free \/ LoadInternal \/ ClearTest \/ ClearDone \/ ClearNode \/ ClearNil
  \/ AllocPick \/ AllocNil \/ SplitHalve \/ SplitDone
  \/ Create \/ CreateInternal \/ New \/ ChunkShort \/ ChunkTrim \/ Back
  \/ ListNext \/ ListDone \/ ListNode \/ UndoOne \/ UndoNode \/ UndoDone
  \/ InsertPage \/ InsertDone \/ Fail
  \/ BootVm \/ BootVmNone \/ BootPm \/ BootPanic
  \/ BootRest("pm", "boot_pm_rest", "boot_vm_clear") \/ BootVmClear
  \/ BootRest("vm", "boot_vm_rest", "boot_heap")
  \/ BootHeap \/ PdInit \/ Halted

Spec == Init /\ [][Next]_vars

\* One kernel thread executes a call and nothing preempts it for ever.
FairSpec == Spec /\ WF_vars(pc # "idle" /\ Next)

-----------------------------------------------------------------------------
(***************************************************************************)
(* Properties                                                              *)
(***************************************************************************)

Stages   == {"none", "virt", "phys", "node"}
Fpage    == [base : Nat, size : FpageSizes]
PhysList == SUBSET [virt : Nat, fpage : Fpage]

\* Every variable has the type of the C object it stands for.
TypeOK ==
  /\ mem \in MemInfos
  /\ pending \in [Allocs -> SUBSET (Nat \ {0})]
  /\ flist \in [Allocs -> SUBSET Fpage]
  /\ internal \in [Allocs -> [base : Nat, end : Nat, active : BOOLEAN]]
  /\ used \in [Allocs -> SUBSET Region]
  /\ slabs \in [Caches -> Nat]
  /\ pools \in [Caches -> SUBSET [virt : Nat, phys : Nat]]
  /\ grow \in [Caches -> [stage : Stages, virt : Nat, phys : Nat]]
  /\ pc \in PCs
  /\ ret \in PCs
  /\ al \in Allocs
  /\ hand \in [base : Nat, size : Nat]
  /\ op \in [flags : Flags, size : Nat, at : Nat, cur : Nat, want : Nat,
            list : PhysList, bt : 0..BtMax]
  /\ sections \subseteq [flags : Flags, base : Nat, size : Nat \ {0}, list : PhysList]
  /\ vms_pd_initialized \in BOOLEAN

\* The pages the routine in progress holds, if they are of allocator a.
InHand(a) == IF al = a /\ hand.size > 0 THEN {hand} ELSE {}

Apart(R, S) == \A r \in R : \A s \in S : Disj(r, s)
Separate(R) == \A r \in R : \A s \in R : r # s => Disj(r, s)

\* The places a page of allocator a can be in do not overlap.
ExclusiveIn(a) ==
  /\ Separate(flist[a])
  /\ Separate(used[a])
  /\ Apart(flist[a], used[a])
  /\ Apart(InternalRegion(a), flist[a] \union used[a])
  /\ Apart(InHand(a), flist[a] \union used[a] \union InternalRegion(a))

\* No page is in two places: two free fpages never overlap, nor does a free
\* fpage, the internal region or the page a routine is working on overlap
\* another of them or memory that has been handed out, even while a slab cache
\* grows in the middle of sys$fpage_clear_internal or of a split.
Exclusive == \A a \in Allocs : ExclusiveIn(a)

Pages(R) == UNION {r.base .. EndOf(r) - 1 : r \in R}

\* No page is lost: whatever was in the memory map at boot is at all times free,
\* in the internal region, in a routine's hands or handed out.
NothingLost ==
  \A a \in Allocs :
    Pages(flist[a] \union used[a] \union InternalRegion(a) \union InHand(a))
      = Pages({RegionAt(a, i) : i \in DOMAIN mem.regions[a]})

\* sys$fpage_alloc_internal never returns INVALID_ADDR, so that
\* sys$slab_cache_alloc never returns NULL: running out of memory is a PANIC, and
\* none of the callers' NULL branches (among them the one of sys$fpage_alloc that
\* returns twice the page it holds) is ever taken.
NeverNull == pc # "null"

\* Every free fpage, and the one being split, is aligned to its own size: what
\* L4_Fpage and the buddy computation rely on.
Aligned ==
  /\ \A a \in Allocs : \A f \in flist[a] : f.base % f.size = 0
  /\ pc \in {"split", "lnode"} => hand.size \in FpageSizes /\ hand.base % hand.size = 0

\* The backing of a memsection tiles it: sys$memsection_back maps each physical
\* fpage at an address aligned to its size, inside the memsection, and every
\* page of the memsection is mapped exactly once, although physical memory is
\* fragmented and fpages smaller than asked for are accepted.
Backed ==
  \A s \in sections : s.flags = "normal" =>
    /\ \A e \in s.list : e.virt % e.fpage.size = 0
    /\ \A p \in s.base .. EndOf(s) - 1 :
         Cardinality({e \in s.list : e.virt <= p /\ p < e.virt + e.fpage.size}) = 1
    /\ \A e \in s.list : s.base <= e.virt /\ e.virt + e.fpage.size <= EndOf(s)

\* Between calls, what the allocators do not hold is exactly what the memsections
\* and the slab pools own: a creation that failed half way gave everything back.
NoOrphan ==
  pc = "idle" =>
    /\ used["vm"] = {[base |-> s.base, size |-> s.size] :
                      s \in {t \in sections : t.flags # "internal"}}
                     \union {[base |-> p.virt, size |-> 1] :
                      p \in UNION {pools[c] : c \in Caches}}
    /\ used["pm"] = {e.fpage : e \in UNION {s.list : s \in sections}}
                     \union {[base |-> p.phys, size |-> 1] :
                      p \in UNION {pools[c] : c \in Caches}}

\* The list nodes in use and the free slabs add up to what the pools of fp_cache
\* hold, and likewise for ms_cache: no slab is lost or freed twice, on the
\* failure paths either.
SlabsBalance ==
  (pc = "idle") =>
    /\ slabs["fp"] + Cardinality(flist["vm"]) + Cardinality(flist["pm"])
         + Cardinality(UNION {s.list : s \in sections})
       = PerPool["fp"] * Cardinality(pools["fp"])
    /\ slabs["ms"] + Cardinality(sections) + Cardinality(pools["fp"])
         + Cardinality(pools["bt"])
       = PerPool["ms"] * Cardinality(pools["ms"])

\* Every call returns: a creation, with the growths nested in it, ends with the
\* memsection, a failure or a halt.
Returns == (pc # "idle") ~> (pc \in {"idle"} \union Halts)

\* The comment of sys$bootstrap: a first physical chunk of "at least 2 * pagesize"
\* suffices "to bootstrap the slab allocators": freeing it never puts L4_Nilpage
\* on a list.
NoNilPage == pc # "corrupt"

\* The comment of sys$fpage_alloc: an fpage of the size asked for "if possible,
\* otherwise ... the biggest available fpage": it finds nothing only if the
\* allocator has nothing.
FindsAvailable == (pc = "alloc" /\ flist[al] = {}) => InternalRegion(al) = {}
=============================================================================
