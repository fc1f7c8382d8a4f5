# FreeVMS kernel: a TLA+ verification project

FreeVMS is a VMS-like system on the L4Ka::Pistachio microkernel. What the
repository calls `freevms.kernel` is L4's *root task*: one privileged address space, started by the
boot loader, that owns all physical and virtual memory, creates the other tasks
and serves their page faults and system calls. Its own code is
`src/sources/freevms/` (about 7,600 lines of C, of which 5,400 in `sys/`). The other
half million lines of the repository are third-party: the microkernel, the GRUB
boot loader, disassemblers, GNU tools and a user-level run-time library.

This directory models the root task. Paths below are relative to
`src/sources/freevms/sys/` unless they say otherwise.

## 1. Inventory

| component | state | operations | what makes it correct |
|---|---|---|---|
| fpage allocators (`sys_alloc.c`) | `vm_alloc`, `pm_alloc`: one free list of fpages per power of two, and one *internal region* (base, end, active) | `sys$fpage_alloc`, `_alloc_chunk`, `_alloc_list`, `_alloc_internal`, `_free_chunk`, `_free_internal`, `_clear_internal`, `_remove_chunk`, `sys$back_mem` | no page free twice, none lost, natural alignment, complete roll-back |
| slab caches (`sys_slab.c`) | `fp_cache`, `ms_cache`, `bt_cache`: pools of one page with a free list of slabs | `sys$slab_cache_alloc`, `_free`, `sys$memsection_create_cache` | a slab is never NULL, none leaks, growth terminates |
| memsections (`sys_slab.c`, `sys_objtables.c`) | `memsection` nodes: range, flags, owner, physical list | `sys$pd_create_memsection`, `objtable_setup*`, `sys$memsection_back`, `sys$delete_memsection_from_allocator` | backing tiles the range; a failed creation leaves nothing |
| memsection lists and lookup (`sys_slab.c`, `sys_objtables.c`, `sys_pd_init.c`) | rings through `next`/`prev` with the list heads in them, `vms$pd_initialized` | insertion at the end, the splice of `sys$pd_init`, `sys$objtable_lookup` | rings stay closed, no memsection of the kernel is missed |
| B+ tree (`sys_btree.c`) | pages of keys and children from `bt_cache` | `ObjBTIns`, `ObjBTSearch`, splits (deletion is declared and not implemented) | ordered, disjoint, balanced; a search finds what was inserted |
| boot memory (`sys_ms_init.c`) | `mem_info`: physical and virtual regions, preloaded objects | `sys$find_memory_region`, `sys$remove_virtmem`, `sys$bootstrap`, `sys$populate_init_objects` | disjoint regions that leave out the kernel and the objects |
| kernel heap (`sys_core.c`) | K&R ring of free blocks, the end of the backed part | `sys$alloc`, `sys$free`, `sys$morecore` | blocks disjoint, every block backed |
| mutexes (`sys_mutex.c`) | holder, count, inner lock word | `sys$mutex_count_lock`, `sys$mutex_count_unlock` | nested locking by the thread that holds the lock, every path unlocks |
| free lists (`sys_rfl.c`, `sys_bfl.c`) | sorted ranges of numbers; a bit per number | insert range, allocate, free | a number is handed out once |
| threads and protection domains (`sys_thread.c`, `sys_pd_init.c`, `sys_hash.c`) | thread table, hash of thread identifiers, UTCB slots, `freevms_pd` and its children | create, delete, look up | identifiers unique; kernel and microkernel agree on every thread; a failed creation gives everything back |
| root server (`sys_loop.c`, `sys_pagefault.c`, `../vm/`) | the message being served | the IPC loop, page-fault handling, kill and exit requests | every request is answered once |
| capabilities (`sec_caps.c`) | clists of protection domains | `sec$check`, insertion | a page is mapped to those who were granted it |
| start-up (`sys_pager.c`, `sys_init.c`, `sys_elf.c`), sigma0 (`sys_sigma0.c`), name and device tables (`names_tables.c`, `dev_tables.c`) | none of their own | straight-line set-up with the operations above | |

**How they interact.** `main` (`sys_main.c`) runs `sys$mem_init` (memory map,
`sys$bootstrap`), `sys$objtable_init`, `sys$pd_init`, `sys$populate_init_objects`,
then starts the other servers and enters the IPC loop. A memsection takes its
virtual range from `vm_alloc` and its physical pages from `pm_alloc`; the
allocators keep their free lists in slabs of `fp_cache`; a slab cache grows by
taking a page from the internal region of each allocator and a memsection node
from `ms_cache`, which may have to grow in turn. The memsection is inserted in
the B+ tree, whose pages are slabs of `bt_cache`. To free a slab the cache finds
its pool by looking its address up among the memsections.

**What is hard.** There is one kernel thread, so the difficult interleavings are those
of a routine with the routines nested in its calls: free list, internal region
and caches are all changed by a call of `sys$slab_cache_alloc` made in the
middle of a loop over them. Then: allocation while giving memory back (freeing an
fpage allocates its node); partial failure of a creation that holds pages of both
allocators; bootstrapping, where the allocator that feeds the caches has no cache
yet; a list that is relinked while it is walked and whose head is one of its nodes; a heap that
frees into its ring in the middle of a search of it. Concurrency proper comes in with the
root server: other tasks call, fault and exit in any order while the loop serves one of them,
and the microkernel may refuse an IPC or a thread. `PROJECT.json` lists each hazard at its line.

## 2. Plan

The modules, in order of importance; all of them are written.

1. **`FpageAlloc`** - allocators, slab caches, memsection creation and
   `sys$bootstrap` in one module, because they are mutually recursive. Proved
   in `FpageAllocProofs`.
2. **`ObjTable`** - the rings and the lookup, refining **`AddressMap`**. Proved in
   `ObjTableProofs`.
3. **`Heap`** - `sys$alloc`, `sys$free`, `sys$morecore`, `sys$back_mem` and the
   counting lock. Proved in `HeapProofs`.
4. **`FixedSections`** - `sys$fpage_remove_chunk` and `objtable_setup_fixed`; it
   extends `FpageAlloc`, whose actions are the routines it calls. Proved in
   `FpageAllocProofs` too, over the same invariant.
5. **`RangeList`** - the range free list, refining **`NumberPool`**. Its operations on
   a list are in **`Ranges`**. Proved in `RangeListProofs`.
6. **`Threads`** - protection domains and threads, with a list of `Ranges` for its
   numbers. Proved in `ThreadsProofs`.
7. **`BTree`** - insertion, splits and search, refining **`IntervalSet`**. Recursive,
   so for TLC only.
8. **`RootServer`** - the IPC loop, page faults, capabilities and the exit protocol.
   Proved in `RootServerProofs`.
9. **`BootMemory`** - how the memory map of the boot is computed, which `FpageAlloc`
   starts from. Proved in `BootMemoryProofs`.

`ListFacts` holds the lemmas on lists and ranges that the proofs of several components share.

Nothing of the plan is left. What stays with TLC is named at the end of section 5.

## 3. The modules

### FpageAlloc

A state is the memory the two allocators manage plus the position of the kernel
thread in the call in progress.

| variable | code |
|---|---|
| `mem`, `pending` | `mem_info`; the regions whose `end` has not been set to `base` |
| `flist[a]` | the lists `alloc->flist[0..MAX_FPAGE_ORDER]`, as one set of `[base, size]` |
| `internal[a]` | `alloc->internal` |
| `used[a]` | memory the allocator does not hold (no variable of the code: what callers own) |
| `slabs[c]`, `pools[c]` | number of free slabs over all pools of a cache; its pool pages |
| `grow[c]` | locals of a `sys$memsection_create_cache` in progress |
| `pc`, `ret`, `al`, `hand` | point of execution, return point, the `alloc` argument, the fpage in local variables |
| `op` | arguments and locals of `sys$pd_create_memsection` and `sys$fpage_alloc_list` |
| `sections` | the memsections |

Each action is the code between two points at which `sys$slab_cache_alloc` can be
called, or a call or return. `StartGrow`, `GrowVirt`, `GrowPhys`, `GrowNode` and
`GrowFails` are the growth of a cache and may run at every such point (`NeedsSlab` lists
them); the actions guarded by `At` are the steps of the suspended routine and wait until no growth is in progress.

* `Free`, `LoadInternal`, `ClearTest`, `ClearNode`, `ClearNil`, `ClearDone`:
  `sys$fpage_free_chunk`, `sys$fpage_free_internal`, `sys$fpage_clear_internal`.
* `AllocPick`, `AllocNil`, `SplitHalve`, `SplitDone`: `sys$fpage_alloc`.
* `Create`, `CreateInternal`, `New`, `ChunkShort`, `ChunkTrim`, `Back`,
  `ListNext`, `ListNode`, `ListDone`, `UndoOne`, `UndoNode`, `UndoDone`,
  `InsertPage`, `InsertDone`, `Fail`: `sys$pd_create_memsection` with
  `objtable_setup`, `_setup_user`, `_setup_utcb`, `_setup_internal`.
* `BootVm`, `BootVmNone`, `BootPm`, `BootPanic`, `BootRest`, `BootVmClear`,
  `BootHeap`, `PdInit`: `sys$bootstrap` and what `sys$pd_init` does to later creations.

Abstractions:

* sizes and addresses count pages of the smallest size; the inclusive `end` of
  the code is exclusive in the model;
* the lists are sets: where the code takes the first element of a list, the model takes any
  of that size, so the properties do not depend on the order of a list;
* the slabs of a cache are counted. Which pool a slab belongs to matters only
  to `sys$slab_cache_free`, whose lookup is the subject of `ObjTable`;
* the B+ tree appears as what it takes from `bt_cache`: any number of pages up
  to `BtMax` per insertion;
* the branches that follow a NULL slab are left out, because `pc = "null"` is where they would start and
  `SlabNeverNull` proves it is never reached;
* after `pc = "corrupt"` (a node written before `flist[0]`) nothing is predicted:
  the state halts, as it does after a `PANIC`.

### ObjTable and AddressMap

`next` and `prev` are the links of nodes and of list heads alike, as in the code,
where a `memsection_list` is laid out as the beginning of a `memsection_node`.
`PdInit` and `Move` are the loop of `sys$pd_init`; `Lookup`, `Walk` and `LookupReturns` are
`sys$objtable_lookup`. The loops take a step per iteration. The list heads met by the walk contain
no address (the code reads the fields that follow them; their ranges match nothing that is looked up).

A memsection gets its node from `ms_cache` and its addresses (`range`) when it is created.
`CreateCache` links a slab pool, which is never stored in the B+ tree. `CreateMemsection` stores and
links, `CreateFails` gives the node back before anything is stored. A fixed memsection is stored
first (`CreateFixed`); then it is backed, while caches grow, and linked (`FixedDone`), or its node is freed
(`FixedFails`, `sys_slab.c:407`), and the tree goes on pointing to a node that is handed out again with
other addresses. `tree` is the set of nodes the B+ tree points to. What it does
with them is what `BTree` shows: it takes an object that meets nothing stored, and may take or
refuse any other, reporting success either way (`sys_btree.c:365`); it finds what it stores as long as that is
disjoint and as it was stored. `exact` says so; after that a search may find any stored node
that holds the address, or miss it.

`AddressMap` says what a lookup promises. It never misses a memsection of the
kernel, slab pools among them, because the walk finds these (`sys$slab_cache_free` relies on it). It misses a memsection
of another domain only if the tree refused it or is no longer exact. An answer holds the address, and is a
memsection of the kernel or something stored, which may be a creation that has failed. `ObjTable` implements
it with `known` mapped to the linked nodes.

### Heap

`ptr` and `size` are the headers at every address, in units of `sizeof(Header)`; `bss` is `vms$bss`.
`Alloc`, `Skip`, `Take`, `Wrapped` are `sys$alloc`, one step per block looked at; `More` and
`MoreFails` are `sys$morecore` with `sys$back_mem`; `Free`, `Find`, `Link` are `sys$free`, called
by the kernel or by `sys$morecore`. The static header `base` may lie below the heap or
directly after it. Local variables are reset when a call returns, and the contents of a
header that no longer heads a block are forgotten (neither is read again), so that the free
blocks are the headers with a link; that following the links leads through all of them,
in address order, is part of `Tiles`. Memory may run
out after any number of pages. The inner lock of the mutex always succeeds, because the root
task has one thread; what is modelled is the count.

### FixedSections

Extends `FpageAlloc` with the memsections the ELF loader creates at a fixed
address. `scan` is the loop of `sys$fpage_remove_chunk`: the list it walks, the
node it looks at, the node it has read ahead (`tmp`) and the fpage it has taken
off. `ScanList`, `ScanKeep`, `ScanTake`, `ScanDone` are the loop;
`ExtraBelow` and `ExtraAbove` are `sys$fpage_free_extra` on either side of the segment, each of which
may grow `fp_cache` (`FpageAlloc`'s actions) and so change the lists under the walk.
`CreateFixed`, `NewFixed`, `InsertedFixed`, `BackFixed`, `FixedDone` and `FixedUndone`
are `sys$pd_create_memsection` and `objtable_setup_fixed`. `table` is what was
put into the object table, and stays there when the creation fails. `used` loses, at each
of the two cuts, what is going to be given back (`Keep`), so that a page is in one place at
every step. The code neither looks at the internal region nor minds that a segment overlaps memory
in use; `clean` records that this has not happened. A cache that grows during the walk may take a
page of the segment which the walk has not come to; `spared` records that this has not
happened either. The properties that need the one or the other say so, and
`ChunkRemoved` shows what happens without the second.

### RangeList and NumberPool

The ring of ranges is a sequence; what the two operations make of one is in `Ranges`,
which `Threads` uses too. `RflAlloc` is `sys$rfl_alloc`, `FreeNumber` is
`sys$rfl_free` with `sys$rfl_insert_range` (overlap test, extension at either
end, merge of two ranges, insertion of a new one). Either allocation of a new
range, range or list node, can fail. `out` is what the callers own. A number may be
given back that is free already; `short` says whether an allocation failed on the way. `NumberPool` says what the
list promises: a number belongs to one owner, and one that is given back is lost only if memory was short.

### Threads

| variable | code |
|---|---|
| `state[pd]`, `local[pd]`, `threads[pd]` | `pd->state`, `pd->local_threadno` (set bits), the ring `pd->threads` in order |
| `thread_list`, `hash` | the free thread numbers (a list of `Ranges`), `l4tid_to_thread` |
| `tcb` | the microkernel's threads: space and whether they are active (from `pal/src/api/v4/thread.cc`, `tcb.h`) |
| `pc`, `who` | the step of `sys$pd_create_thread` in progress, or where the system halted |
| `lost` | numbers that could not be given back for want of memory (no variable of the code) |

`Create`, `AllocSlot`, `AllocNumber`, `HashInsert`, `Control`, `Activate` are the
steps of `sys$pd_create_thread`, `sys$thread_alloc` and `sys$thread_setup`, each with
its failure; `Undo` and `ThreadFree` the clean-up; `Delete` is
`sys$thread_delete` of whatever `sys$thread_lookup` finds; `PdCreate` is
`sys$pd_create`. The failures that end in a PANIC, a failed assertion of the
microkernel or the use of a null pointer are values of `pc` in which the system stops. Memory
exhaustion of the microkernel is modelled at the activation, where the code handles it; at the
first `L4_ThreadControl` it panics. The numbers of the list count the
version out: it is always 1.

### BTree and IntervalSet

A page is a record with the used part of its arrays as sequences; the keys and
children have the code's positions plus one. `Bisect` is the binary search,
`InsertPage` is `BTInsertPage`, `Insert` and `Place` are the two halves of
`BTInsert`, with the three places a new key can fall relative to a split;
`BTIns` is `ObjBTIns` with a new root. `BTInsertPage` with index -1 on an inner page reads
the head of a child page as an object; the key it gets is any member of
`JunkKeys`, and `misread` records that it happened; insertions go on, and the tree stays balanced, but its order is lost.
`IntervalSet` says what the tree does for its users. The header promises to refuse what overlaps; the code looks at
the neighbours of a new object only, and at the lowest object of the tree it does not notice one that encloses it.
`IntervalSet` states exactly this: nothing is lost, and what is accepted meets no neighbour, with that exception.
As long as nothing overlaps (`Disjoint`) the tests along one path stand for a comparison with every object
(`RefusesExactly`), and the search, which finds the nearest object at or below an address, is exact (`SearchNearest`).

### RootServer

`client` is where a task's thread is in its program: `main`, which may fault,
print and call `exit`, then the calls of `exit`. A call or fault blocks the
thread in the microkernel's queue of senders (`queue`, first in first out) and
then until the answer. `Receive` and `Serve` are an iteration of `sys$loop`:
the reply to the last partner, the wait, and the switch on the label with
`sys$pagefault`, `sec$check`, `sec$validate_access`, the print and the kill request; a reply to a thread that is gone
gives an error tag, which the loop takes for a request. `clist` is the capability list of each
task, the zero words behind the capabilities included. The root task gives a task a capability for the section
of its list (`sys_pager.c:115`), and `sys$pagefault` maps pages with the rights that are asked for, so a task can change the list once a
page of it is mapped (`WriteList`); `own` records which tasks have had theirs mapped. At this commit `sys$init` returns at its first
statement (`sys_init.c:51`), so that only PAGER.SYS runs; the run has two tasks
of one thread, because the loop is written for several.

### BootMemory

`regions` is one of the tables of `mem_info`, physical or virtual as `virtual`
says. The scan of the microkernel's descriptors, `sys$find_memory_region`
(an entry grows at its top or is cut at its bottom; otherwise the descriptor is
appended), `sys$remove_chunk` (a step per entry, which vanishes, is cut or is split in a table of limited
size; `cut` is the chunk and `at` the entry the loop is at), the
removal of the initial objects rounded to pages, `swapper_base`, and the choice
of the first chunk by `sys$bootstrap` are actions in that order. Addresses are bytes
modulo `Top`, because rounding and the size of a chunk wrap around. The descriptor of all addresses, with which
every boot begins, is one of those that are excepted (`Excepted`). `sys$bootstrap` sets the end of the region it takes to its base, and later loops
skip an entry that ends where it begins: `Entries` are the others, and `taken` is the region as it was. `memory` is what the table should
say and `overlap` that a descriptor has added memory twice.

## 4. What the runs check

| run | states | shows |
|---|---|---|
| `fpage` | 103,751 | `Exclusive`: no page is in two places, at any point of any routine. `NothingLost`: every page of the map is somewhere. `Aligned`: fpages are naturally aligned. `NeverNull`: a slab allocation panics or succeeds. `Backed`: the physical pages of a memsection tile it. `NoOrphan`, `SlabsBalance`: between calls, memory and slabs in use are exactly those of memsections and pools, so that failures were undone completely. `Returns`: every call ends, in its result, a failure or a halt. |
| `fpage_nil` | | violated: a first physical region of exactly two pages, the minimum a comment of `sys$bootstrap` allows, is used up by the pools of `fp_cache` and `ms_cache` while it is being flushed, and `sys$fpage_clear_internal` links the nil page. |
| `fixed_sections` | 683,153 | `TmpFresh`: the node read ahead stays on its list although the lists change. `SegmentTaken`: the segment is out of the allocator when the walk ends, unless a cache grew into it. `SoundWhenClean`: segments over free pages leave the allocators sound in the middle of the walk, and whether created or given back. |
| `fixed_segment` | | violated: `ChunkRemoved`. Giving back the excess of one fpage empties `fp_cache`; the pools this needs use up the internal region, and the last is carved from a larger fpage of the segment that the walk has not come to. The slab pool lies inside the segment, and the rest of that fpage is free again. |
| `objtable` | 495,506 | `RingWhole`: links and back links agree in every ring. `ImplementsMap`: lookups never miss a memsection of the kernel, during boot and after, whatever a failed fixed memsection has left in the tree; they miss another only if the tree refused it or is in doubt. `LoopsEnd`: the walk and the splice end. |
| `heap` | 238,654 | `Tiles`: the free list is one ring in address order, and free and used blocks tile the heap, without overlap or loss. `Coalesced`: free neighbours are joined. `LockBalanced`: the lock is given up as often as it is taken, on failures too. `Returns`: both searches end. |
| `heap_unbacked` | | violated: `sys$morecore` writes to pages that were not mapped, because `sys$memsection_page_map` refuses the heap, a user-paged memsection, and `sys$back_mem` ignores it. |
| `range_list` | 41,569 | `Canonical`: ranges are in order, not empty, and merged whenever they touch. `ImplementsPool`: a number is handed out to one owner at a time, and lost only when memory was short. `NeighbourKept`: a number next to a free one is never lost, because noting it needs no memory. |
| `threads` | 882,455 | `NumbersOnce`: every number is free, held once, or lost for want of memory. `TablesAgree`: between calls slots, hash table and microkernel agree with the threads, whichever steps failed. `HaltsExplained`: each way to bring the system down has one cause. |
| `btree` | 21,629 | `WellFormed`: balanced and, until a page is misread, ordered. `SearchNearest`: a search finds exactly the nearest object at or below the address, if that holds it. `RefusesExactly`: the checks along one path stand for a comparison with every object, but for one that encloses the lowest. `ImplementsSet`: refines `IntervalSet`, before and after a misread. |
| `root_server` | 308,583 | `NoneForgotten`: whoever waits is the one being served. `ClientsServed`: no client of the run-time library drives the loop into its default case or a null pointer. `GrantsKept`: until a task has had its own list mapped, threads have pages only of what they were granted, and the loop does not halt over what was granted. `EveryCallAnswered`, `ExitCompletes`: liveness. |
| `boot_memory` | 1,532,609 | `Sound`: the table never names memory that is not there. `ExactUnlessOverlap`: it names all of it once, but for the region `sys$bootstrap` has taken, if descriptors do not overlap, in the middle of a removal too. `ObjectsButLastByte`: objects are out of the table, but for a last byte that begins a page. `FirstChunk`: the first chunk is two pages of real memory, unless its size wraps around. |

### Further counterexamples

These configurations state what a comment or an assertion of the repository says
and TLC finds violated. They are not listed as runs; each takes a few seconds
(`tlc -config <cfg> <module>`).

| cfg | module | property | the repository says | the code does |
|---|---|---|---|---|
| `MCFindsAvailable` | `MCFpageAlloc` | `FindsAvailable` | the comment of `sys$fpage_alloc` promises the biggest available fpage | it returns nothing while the free pages are in the internal region |
| `MCFixedSectionsTable` | `MCFixedSections` | `TableLive` | "Insertion into object table failed. Delete memsection from mem_alloc" (`sys_slab.c:409`): it is not in the table when it is deleted | a fixed memsection that cannot be backed is freed while the object table still holds it |
| `MCObjTableBoot` | `MCObjTable` | `BootInObjtable` | "Insert memsections used during bootstrapping into memsection list and objtable." (`sys$pd_init`) | the flag that enables insertion is set after the loop |
| `MCBTreeOverlap` | `MCBTree` | `Disjoint` | "BT_OVERLAP if new object overlaps existing one." (`b_plus_tree.h:197`) | an object that encloses the first object of a leaf whose key is in no page is accepted: `BTOverlaps` asks only for the ends of the new object (`sys_btree.c:193`) |
| `MCBTreeReturn` | `MCBTree` | `ReturnsResult` | `b_plus_tree.h:193-197` lists what `ObjBTIns` returns | it returns 0 (`sys_btree.c:365`) |
| `MCBTreeKey` | `MCBTree` | `Ordered` | "child[i]<key[i]<=child[i+1]" (`b_plus_tree.h:150`) | the misread of `sys_btree.c:106`, when a promoted key falls between the halves of an inner page |
| `MCThreadsFit` | `MCThreads` | `NumbersFit` | "ASSERT(idx < TOTAL_KTCBS);" (`pal/src/api/v4/thread.cc:70`) | the last number of the list is `1 << ThreadIdBits` (`sys_pd_init.c:126`) |
| `MCThreadsActive` | `MCThreads` | `ActiveHasThreads` | pd_active "has active threads" (`sys_thread.h:143`) | a domain that has lost its last thread stays active, and its next creation panics (`sys_thread.c:358`) |
| `MCThreadsNomem` | `MCThreads` | `KeepsGoing` | "this is probably very bad, but we want to keep going for as long as we can." (`sys_thread.c:130`) | the clean-up leaves the microkernel's thread behind; a creation in an empty domain that gets its number panics |
| `MCBootMemoryObject` | `MCBootMemory` | `ObjectsRemoved` | "Remove any initial objects from free physical memory" (`sys_ms_init.c:416`) | the page of a last byte at a page boundary stays (`sys_ms_init.c:425`) |
| `MCBootMemoryChunk` | `MCBootMemory` | `FirstChunkEnough` | "the first chunk of physical memory we free is at least 2 * pagesize" (`sys_ms_init.c:541`) | the size of a region inside one page wraps around and passes the test (`sys_ms_init.c:550`) |
| `MCBootMemoryNone` | `MCBootMemory` | `FirstChunkFreed` | "Free up som virtual memory to bootstrap the fpage allocator." (`sys_ms_init.c:521`) | the index is compared with the number of physical regions, and the boot may go on with an empty `vm_alloc` (`sys_ms_init.c:539`) |

### Bounds

* `FpageAlloc`: `FpageSizes` = 1..16 pages in five orders, enough for splits of several levels. `PerPool`
  = 2 fpage nodes, 3 memsection nodes and 1 tree page per pool, far fewer than a
  page holds, so that caches run dry at every point of every routine. The eight
  maps have up to 12 pages per allocator: one fragmented and unaligned, one with more virtual than
  physical memory (backing fails half way), one with a preloaded object, the smallest one that is
  accepted, and maps that `sys$bootstrap` refuses or misjudges. Requests are 1 to 3 pages, of each
  kind; creations go on until memory is exhausted, so the state space is finite without a bound on
  their number.
* `FixedSections`: three maps, one of which makes `fp_cache` grow while the walk has a node of the same list ahead, one with
  hardly any physical memory; segments in the middle of an fpage, at its end and over several,
  at most two loaded (`MaxSegments`), before and after ordinary memsections. `fixed_segment` has a map of 72
  virtual pages in seven orders and pools of three fpage nodes, the smallest found in which the internal region
  runs out at the moment that matters.
* `ObjTable`: three nodes, two addresses and one more protection domain: enough for an insertion at each head before and
  after the moves, a node that is used again while the tree points to it, and memsections that meet.
* `Heap`: pages of two units, a heap of five pages (the last is never used) and requests of
  one to three units: blocks of more than a page, up to eight blocks in the ring and every order of
  allocation and free.
* `RangeList`: the numbers 2 to 9, four ranges at once; `Threads`: domains of three and two slots over
  the numbers 2 to 6, the last of which the microkernel refuses: numbers and slots both run out.
* `BTree`: order 3, the smallest odd one, and addresses 1 to 8, so that trees have up to three levels and inner pages split.
  Objects are up to four addresses long (`Longest`), so that one can enclose another or meet several.
* `RootServer`: two clients with different lists, three memsections, two of which hold the lists; stores of an invalid capability and of one for the
  other's list, at most two capabilities changed at a time (`MaxChanges`); no bound on the calls.
* `BootMemory`: pages of eight bytes in an address space of eight, memory of two and a half (physical) or four (virtual) pages, a table of four
  entries, up to three descriptors and two objects: entries are grown, cut, split, dropped, and the table
  overflows.

### Fairness

One idea: the kernel thread goes on with the call it is
in (`WF_vars(pc # "idle" /\ Next)` in `FpageAlloc` and `Heap`, weak fairness of the loop
steps in `ObjTable`). These routines run on one kernel thread and contain no wait other than L4
system calls that return. In `RootServer` the loop receives when a sender waits and serves what it has
received, and a thread that has begun to exit goes on: the microkernel schedules every thread that is
ready. The queue of senders is first in, first out, as in the microkernel, so that weak fairness is
enough. Nothing is assumed about when calls are made.

## 5. What is proved

For every value of the constants that satisfies the named assumptions. These are
`SizesAssumption` (fpage sizes are powers of two), `ParamAssumption` (a pool holds at least
one slab), `MapsAssumption` (the regions of a memory map are disjoint),
`CellsAssumption` (nodes, heads and NULL are distinct), `HeapAssumption` (pages and heap are
not empty, `base` is not in the heap), `ThreadsAssumption` (a microkernel that has numbers to
give; `UtcbFactor = 1`, the value on every platform), `ReferencesAssumption`
(capability lists are lists of words without an invalid capability, a list's section is granted to its own task only, memsection references are multiples of 8, which keeps them
apart from the interface numbers in the low bits), `NumbersAssumption` (a range of positive numbers),
`FixedAssumption` (a segment has at least one page) and, for `BootMemory`, `SizesAssumption` (descriptors
begin and end on a granule of at least two bytes that divides the page, and memory ends before the last
page of the address space), `ObjectsAssumption` (an object has an end, before that page too), `RegionsAssumption` and
`NullAssumption`.

| module | theorems |
|---|---|
| `FpageAllocProofs` | `NoOverlap` (`Exclusive`), `SlabNeverNull` (`NeverNull`), `NaturallyAligned` (`Aligned`), `TypeCorrect` (`TypeOK`), `NoPageLost` (`NothingLost`), `NoOrphansLeft` (`NoOrphan`), `BackingTiles` (`Backed`), `SlabsAlwaysBalance` (`SlabsBalance`); of `FixedSections`: `NodeAheadFresh` (`TmpFresh`), `SegmentOut` (`SegmentTaken`), `SegmentsSound` (`SoundWhenClean`) |
| `BootMemoryProofs` | `TypeCorrect` (`TypeOK`), `TableSound` (`Sound`), `TableExact` (`ExactUnlessOverlap`), `ObjectsOut` (`ObjectsButLastByte`), `FirstChunkSound` (`FirstChunk`) |
| `ObjTableProofs` | `RingsStayWhole` (`RingWhole`), `LookupMap` (`ImplementsMap`, the refinement of `AddressMap`) |
| `HeapProofs` | `HeapTiled` (`Tiles`), `NeighboursJoined` (`Coalesced`), `LockAlwaysBalanced` (`LockBalanced`) |
| `RangeListProofs` | `AlwaysCanonical` (`Canonical`), `RefinesPool` (`ImplementsPool`, the refinement of `NumberPool`), `NeighboursKept` (`NeighbourKept`, an action property) |
| `ThreadsProofs` | `TypeCorrect` (`TypeOK`), `NumbersHeldOnce` (`NumbersOnce`), `TablesAlwaysAgree` (`TablesAgree`), `OnlyExplainedHalts` (`HaltsExplained`) |
| `RootServerProofs` | `NobodyForgotten` (`NoneForgotten`), `LoopServes` (`ClientsServed`), `GrantsAreKept` (`GrantsKept`) |

**FpageAlloc: no page in two places.** `Exclusive` is not inductive. A routine may
put the fpage it holds back on a list only if that fpage belongs to nobody else, which depends
on what `hand` means at each `pc` (`HandInv`), and on where the routine returns to (`RetInv`).
A page moves from `used` to `hand` when it is undone or freed, and it must have been a member of
`used` in one piece (`ChunkInv`, `ListInv`: the chunk and the fpages of the list are there; `PendInv`: so are the
regions not yet handed over). Growth of a cache interrupts only the routines that call for a
slab, and the innermost one runs (`GrowInv`). `ActiveInv` - an active internal
region has a page, except at the loop test of `sys$fpage_clear_internal`, where no cache
can grow - gives `NeverNull`. `IInv` is the
conjunction, proved one lemma per action.

**FpageAlloc: owners.** `PInv` adds who owns what. No page is lost because each step
exchanges regions for others with the same pages; the cases in which a region could be
overwritten (a second internal region, a list that is not empty) are excluded by `Control`, which says at
which `pc` anything is in transit. `OwnInv` splits `used` into three disjoint parts: what memsections,
pools and growing caches own, what the creation in progress owns, what is pending from the boot; between
calls the last two are empty, which is `NoOrphan`. `BackInv` says that the list built so far
tiles the range up to the current address. The next fpage fits because the sizes are powers of two: the
smaller of two divides the larger, so an address aligned to the size asked for is
aligned to a smaller fpage that is accepted instead. `SlabInv` counts slabs, with the node a
call has in its hands, by the cardinality theorems of the library.

The step lemmas of both are about `AllocStep`, a step of `FpageAlloc` or one of the same routines below the creation
of a segment, so that they serve `FixedSections` as they are.

**FixedSections: the node ahead.** `sys$fpage_remove_chunk` reads the next node, then frees memory, which may
grow `fp_cache`, which takes a page of the smallest fpage of the lists that are being
walked. That the node ahead is not that fpage is the subject of `WInv`. The fpage taken off gave its own list node back,
so the first piece that is put on a list needs no growth, and it is smaller than the fpage it was
cut from (`AheadInv`); from then on there is something smaller to carve. This goes for what is flushed from the
internal region first as well: outside a flush the region is what is left of the smallest fpage, so two fpages
of one size on the lists are both larger (`TwinInv`); a split makes no second fpage of a size (`HalfInv`). The theorem assumes nothing about what the segments overlap: `WInv` has types of
its own (`WalkTypes`), which hold in states in which the allocators are no longer sound.

**FixedSections: segments over free pages.** `FInv` is `WInv` and, as long as `clean` and `spared` hold, `Sound`: the
invariant of the allocators with `SafeWalk` and `SafeBack`. During the walk every page of the segment is on a list the
walk has still to come to, or is used; no used region straddles a bound of the segment except the piece
being cut; neither the internal region nor what is being given back touches it. When the last
list is done there is no list to come to, so all of the segment is used (`SafeBack`), in regions inside
it, which is what lets `FixedUndone` give it back as one chunk without losing or
doubling a page. The allocators' own steps come from the lemmas on `AllocStep`; new are the steps of the walk and the
effect of growth and flushing on the segment.

**BootMemory.** `sys$remove_chunk` compares with `<` in one place and `<=` in another; an entry of one byte, or a chunk that
ended one byte into an entry, would slip between. Entries, descriptors and the rounded
objects begin and end on a granule of at least two bytes, which excludes both (`GranuleInv`). `PassedInv`
says what the loop has achieved for the entries behind it, `ObjectsInv` that nothing is added once objects
are being removed. What a change of the table must do is stated once (`EntriesKeep`), and the three ways to
change it are shown to do it. All this is `BInv`, which holds until `sys$bootstrap` takes a region: the entry it leaves is on no granule. From
then on the table does not change, and `EndInv`, the properties themselves, holds; the inductive invariant is `AInv`, the one or the other.

**ObjTable.** An insertion goes from a head to its last node,
so the back links must be right too (`BackWhole`). While `sys$pd_init` moves the
ring, one forward and one backward link are stale; what saves the splice is that
the cells still to be moved form a set closed under `next` that nothing outside
points into (`Remaining`, existentially quantified in `MoveInv`). For the lookup, `Reached` says which memsections
the head of the boot list leads to: those in every set that has the head and is closed under the
links. `NoWayIn`, that nothing outside a closed set leads into it, makes this survive an
insertion at either end of the ring. A walk that comes back has seen a closed set, so no memsection
of the kernel is outside it; `OwnInv` says that those, and no others, are on the ring it is entered at. What the tree has become plays no part
in this, so a freed node in it cannot hide them.

**Heap.** That `sys$free` finds the neighbours of a block rests on the order of the ring, and that it takes
no other for a neighbour on the tiling: a free block that touched the new one without being
next to it in the ring would have to reach over one that is. `base` is never joined because it has no units
and no address in the heap. The steps are composed of two operations on ordered rings and three on tilings.

**RangeList and Threads.** The search of `sys$rfl_insert_range` stops at the first range
that meets the number or lies behind it; in a canonical list, and only there, that is the one range to look at.
Arguments about a whole list take the least index at which something would be wrong, in place of
an induction. `ThreadsProofs` says how far a creation has come (`Creating`) and which threads have
settled; it reasons about the set of live threads rather than about the lists.

**RootServer.** The three properties need one another: that the loop never answers a thread that
does not wait rests on what blocked threads have sent (`Calls`) and on the thread
served being blocked until it is answered (`Serving`). `GrantsKept` needs that the lists are as they were written until a
task has its own mapped (`Lists`): a task can only change a list it has a page of, the first such list is granted to its task alone, and to map any other
would take a list that is already changed.

**Only model-checked.** Liveness (`Returns`, `LoopsEnd`, `EveryCallAnswered`, `ExitCompletes`),
which is out of the prover's reach. `BTree`: its operations recurse over pages, and what a recursive
definition computes for every tree needs an induction the provers cannot instantiate, so `WellFormed`, `SearchNearest`,
`RefusesExactly` and the refinement of `IntervalSet` are checked on every tree of the run's bounds.

## 6. What is not modelled

* The third-party code: microkernel, boot loader, tools and the user-level
  libraries, which are nearly all of the repository's lines. What the root task sees of the
  microkernel (thread control, send queues, error tags) is modelled from its use.
* `sys_sigma0.c`: one synchronous call that panics on failure; no state.
* `sys$find_initial_objects`: parsing of the boot loader's records, before any
  state exists. `sys_elf.c` beyond the memsections of its segments, `sys_pager.c` and
  `sys_init.c` beyond the capabilities and threads they set up: straight-line
  code whose failures are PANICs.
* The name and device tables (`names_tables.c`, `dev_tables.c`): allocated and printed, no
  operation changes them. PAGER.SYS itself: its handler is commented out.
* `sec_rand.c`: numerical code without a state property. Console output and
  formatting (`../libearly`, `../librtl`).
* Sessions, external address spaces and `pd_suspended`: declared, and created or
  set by no code. `sys$fpage_free_list`: its only caller is the branch taken when
  `objtable_insert` fails, and it always returns 0.
* The compare-and-exchange of a mutex: the root task has one thread, so it never
  fails.
