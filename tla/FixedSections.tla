--------------------------- MODULE FixedSections ----------------------------
(***************************************************************************)
(* Memsections at a fixed address, which the ELF loader creates for the    *)
(* segments of a program (sys_elf.c): objtable_setup_fixed and             *)
(* sys$fpage_remove_chunk, on top of the allocators of FpageAlloc.         *)
(*                                                                         *)
(* sys$fpage_remove_chunk walks every free list of vm_alloc.  It takes a   *)
(* page that overlaps the memsection off its list and gives what sticks    *)
(* out of it back, which may grow fp_cache and with it take pages off the  *)
(* lists it is walking, the node it has read ahead or pages of the segment *)
(* it has not come to.                                                     *)
(***************************************************************************)
EXTENDS FpageAlloc

CONSTANTS FixedRequests,  \* the segments that may be loaded, each once: [base, size]
          MaxSegments     \* bound on the segments loaded

ASSUME FixedAssumption == FixedRequests \subseteq Region /\ MaxSegments \in Nat

VARIABLES
  scan,   \* the loop of sys$fpage_remove_chunk: the page size of the list, node, tmp,
          \* the nodes behind it and the fpage taken off the list
  table,  \* the memsections objtable_insert has put into the object table
  clean,  \* all the pages of every segment so far were on the free lists of vm_alloc
  spared  \* no cache that grew during a walk took a page that overlaps the segment

NoScan == [size |-> 0, node |-> NoPages, tmp |-> NoPages, seen |-> {}, fpage |-> NoPages]

fixedVars == <<vars, scan, table, clean, spared>>
fixed     == <<scan, table, clean, spared>>

Segment == [base |-> op.at, size |-> op.size]

\* sys$pd_create_memsection with VMS$MEM_FIXED, by sys$elf_loader
CreateFixed ==
  /\ At("idle")
  /\ vms_pd_initialized
  /\ Cardinality(table) < MaxSegments
  /\ \E r \in FixedRequests \ table : Call("fixed", r.size, r.base)
  /\ UNCHANGED <<memory, caches, booting, ret, al, hand, sections, fixed>>

\* sys$memsection_new; objtable_setup_fixed begins with objtable_insert.
NewFixed ==
  /\ At("new")
  /\ op.flags = "fixed"
  /\ slabs["ms"] > 0
  /\ slabs' = [slabs EXCEPT !["ms"] = @ - 1]
  /\ pc' = "insert"
  /\ UNCHANGED <<memory, pools, grow, booting, ret, al, hand, op, sections, fixed>>

\* objtable_insert returns 0 whatever ObjBTIns met.
InsertedFixed ==
  /\ At("insert")
  /\ op.flags = "fixed"
  /\ table' = table \union {Segment}
  /\ clean' = (clean /\ Pages({Segment}) \subseteq Pages(flist["vm"]))
  /\ scan' = NoScan
  /\ pc' = "scan"
  /\ UNCHANGED <<memory, caches, booting, ret, al, hand, op, sections, spared>>

-----------------------------------------------------------------------------
(***************************************************************************)
(* sys$fpage_remove_chunk                                                  *)
(***************************************************************************)

\* The nodes of the list of size s that the loop has not reached.
Behind(s, seen) == {f \in flist["vm"] : f.size = s} \ seen

\* The first of the nodes behind, in whatever order the list has them.
NextNodes(behind) == IF behind = {} THEN {NoPages} ELSE behind

\* Mutant of Tmp: the loop goes on with the node it has freed.
TmpNode(f) == {f}

\* TAILQ_NEXT(node)
Tmp(f) == NextNodes(Behind(scan.size, scan.seen \union {f}))

\* The list is done: TAILQ_FIRST of the next.
ScanList ==
  /\ At("scan")
  /\ scan.node = NoPages
  /\ \E s \in FpageSizes :
       /\ s > scan.size
       /\ \A t \in FpageSizes : t > scan.size => s <= t
       /\ \E f \in NextNodes(Behind(s, {})) : scan' = [NoScan EXCEPT !.size = s, !.node = f]
  /\ UNCHANGED <<vars, table, clean, spared>>

ScanDone ==
  /\ At("scan")
  /\ scan.node = NoPages
  /\ \A s \in FpageSizes : s <= scan.size
  /\ pc' = "fback"
  /\ UNCHANGED <<memory, caches, booting, ret, al, hand, op, sections, fixed>>

\* Mutant of Touches: only a page that begins inside the segment is taken.
TouchesBegin(f) == f.base >= op.at /\ f.base < op.at + op.size

\* max(base, fbase) < min(end, fend)
Touches(f) == ~Disj(f, Segment)

\* tmp = TAILQ_NEXT(node), then the test: a page that does not overlap stays.  (Were the
\* node not on the list any more, the loop would follow a freed node: it has no step.)
ScanKeep ==
  /\ At("scan")
  /\ scan.node \in flist["vm"]
  /\ ~Touches(scan.node)
  /\ \E t \in Tmp(scan.node) :
       scan' = [scan EXCEPT !.node = t, !.seen = @ \union {scan.node}]
  /\ UNCHANGED <<vars, table, clean, spared>>

\* What is left of f when the pages below the segment are cut off, and those above it too.
FromSegment(f) == LET b == IF f.base > op.at THEN f.base ELSE op.at
                  IN  [base |-> b, size |-> EndOf(f) - b]
InSegment(f)   == LET b == FromSegment(f).base
                      e == IF EndOf(f) < op.at + op.size THEN EndOf(f) ELSE op.at + op.size
                  IN  [base |-> b, size |-> e - b]

\* Of the pages r that have left the lists, only s stays out.
Keep(r, s) == used' = [used EXCEPT !["vm"] = (@ \ {r}) \union {s}]

\* A page that overlaps is taken off its list and its node freed.
ScanTake ==
  /\ At("scan")
  /\ scan.node \in flist["vm"]
  /\ Touches(scan.node)
  /\ \E t \in Tmp(scan.node) :
       scan' = [scan EXCEPT !.tmp = t, !.seen = @ \union {scan.node}, !.fpage = scan.node]
  /\ flist' = [flist EXCEPT !["vm"] = @ \ {scan.node}]
  /\ slabs' = [slabs EXCEPT !["fp"] = @ + 1]
  /\ used' = [used EXCEPT !["vm"] = @ \union {scan.node}]
  /\ pc' = "below"
  /\ UNCHANGED <<internal, pools, grow, booting, ret, al, hand, op, sections, table, clean, spared>>

\* sys$fpage_free_extra: what is below the segment ...
ExtraBelow ==
  /\ At("below")
  /\ IF scan.fpage.base < op.at
       THEN CallFree("vm", [base |-> scan.fpage.base, size |-> op.at - scan.fpage.base], "above")
       ELSE pc' = "above" /\ UNCHANGED <<al, hand, ret>>
  /\ Keep(scan.fpage, FromSegment(scan.fpage))
  /\ UNCHANGED <<flist, internal, caches, booting, op, sections, fixed>>

\* Mutant of Above: the page after the segment is left out.
AboveShort == [base |-> op.at + op.size + 1, size |-> EndOf(scan.fpage) - (op.at + op.size) - 1]

\* The pages of the fpage above the segment.
Above == [base |-> op.at + op.size, size |-> EndOf(scan.fpage) - (op.at + op.size)]

\* ... and what is above it; then the loop goes on with tmp.
ExtraAbove ==
  /\ At("above")
  /\ scan' = [scan EXCEPT !.node = scan.tmp, !.fpage = NoPages]
  /\ IF EndOf(scan.fpage) > op.at + op.size
       THEN CallFree("vm", Above, "scan")
       ELSE pc' = "scan" /\ UNCHANGED <<al, hand, ret>>
  /\ Keep(FromSegment(scan.fpage), InSegment(scan.fpage))
  /\ UNCHANGED <<flist, internal, caches, booting, op, sections, table, clean, spared>>

-----------------------------------------------------------------------------
(***************************************************************************)
(* The rest of objtable_setup_fixed                                        *)
(***************************************************************************)

\* sys$fpage_alloc_list(&pm_alloc, ms->base, ms->end)
BackFixed ==
  /\ At("fback")
  /\ op' = [op EXCEPT !.cur = op.at]
  /\ pc' = "list"
  /\ UNCHANGED <<memory, caches, booting, ret, al, hand, sections, fixed>>

\* The segment is backed and linked.
FixedDone ==
  /\ At("list")
  /\ op.flags = "fixed"
  /\ op.cur >= op.at + op.size
  /\ sections' = sections \union {[flags |-> "fixed", base |-> op.at, size |-> op.size, list |-> op.list]}
  /\ op' = NoOp
  /\ pc' = "idle"
  /\ UNCHANGED <<memory, caches, booting, ret, al, hand, fixed>>

\* No physical memory: sys$fpage_free_chunk gives the virtual pages back, the object table keeps the memsection.
FixedUndone ==
  /\ At("undo")
  /\ op.flags = "fixed"
  /\ op.list = {}
  /\ used' = [used EXCEPT !["vm"] = {r \in @ : Disj(r, Segment)}]
  /\ CallFree("vm", Segment, "fail")
  /\ UNCHANGED <<flist, internal, caches, booting, op, sections, fixed>>

Grows ==
  \E c \in Caches : \/ StartGrow(c) \/ GrowVirt(c) \/ GrowPhys(c) \/ GrowNode(c)
                    \/ \E a \in Allocs : GrowFails(c, a)

\* The steps of the allocators below the creation of a fixed memsection.
Callees ==
  /\ op.flags = "fixed"
  /\ \/ Grows \/ Free \/ LoadInternal \/ ClearTest \/ ClearDone \/ ClearNode \/ ClearNil
     \/ AllocPick \/ AllocNil \/ SplitHalve \/ SplitDone
     \/ ListNext \/ ListNode \/ UndoOne \/ UndoNode \/ InsertPage \/ Fail \/ Halted
  /\ spared' = (spared /\ (ret \in {"above", "scan"} =>
                            \A f \in flist["vm"] \ flist'["vm"] : ~Touches(f)))
  /\ UNCHANGED <<scan, table, clean>>

FixedInit == Init /\ scan = NoScan /\ table = {} /\ clean = TRUE /\ spared = TRUE

FixedNext ==
  \/ op.flags # "fixed" /\ Next /\ UNCHANGED fixed
  \/ Callees
  \/ CreateFixed \/ NewFixed \/ InsertedFixed
  \/ ScanList \/ ScanDone \/ ScanKeep \/ ScanTake \/ ExtraBelow \/ ExtraAbove
  \/ BackFixed \/ FixedDone \/ FixedUndone

FixedSpec == FixedInit /\ [][FixedNext]_fixedVars

-----------------------------------------------------------------------------
(***************************************************************************)
(* Properties                                                              *)
(***************************************************************************)

\* While sys$fpage_remove_chunk walks the lists, growing fp_cache for the nodes of what
\* it gives back never takes the node it has read ahead off its list.
TmpFresh == pc = "scan" /\ ~Growing /\ scan.node # NoPages => scan.node \in flist["vm"]

\* A segment whose pages were all on the free lists is out of vm_alloc when the loop is
\* over: none of its pages is on a list or in the internal region, so that no later
\* memsection and no slab pool gets it, although pages were freed during the walk.
\* Only if a cache that grew carved its pool page from a page of the segment that the
\* walk had not come to can this fail (see ChunkRemoved).
SegmentTaken ==
  pc = "fback" /\ clean /\ spared =>
    /\ Apart({Segment}, flist["vm"] \union InternalRegion("vm"))
    /\ Pages({Segment}) \subseteq Pages(used["vm"])

\* As long as segments are loaded over free pages and the walks spare them, the
\* allocators stay sound, in the middle of a walk too: no page is in two places and none
\* is lost, whether the segment was created or had to be given back for want of memory.
SoundWhenClean == clean /\ spared => Exclusive /\ NothingLost

\* The comment of sys$fpage_remove_chunk: the loop removes the fpages of the segment from
\* the lists and frees their excess.  When it is over, vm_alloc has no page of the segment.
ChunkRemoved ==
  pc = "fback" /\ clean => Apart({Segment}, flist["vm"] \union InternalRegion("vm"))

\* When sys$pd_create_memsection deletes the node of a memsection, the object table does
\* not hold it (the comment of sys$pd_create_memsection).
TableLive == pc = "idle" => \A r \in table : \E s \in sections : s.base = r.base /\ s.size = r.size
=============================================================================
