-------------------------------- MODULE BTree --------------------------------
(***************************************************************************)
(* The B+ tree of the object table (sys_btree.c, b_plus_tree.h): which     *)
(* memsection holds an address.                                            *)
(*                                                                         *)
(* A page is a record whose sequences hold the used part of the arrays:    *)
(* Len(key) is count, and key[i] of the code is key[i + 1] here.  Pages    *)
(* are values, so an insertion, which changes the pages on one path in     *)
(* place, returns the new page.  In a leaf the children are the objects.   *)
(*                                                                         *)
(* BTInsertPage reads the key of its first child as if it were an object   *)
(* when its index is -1.  In a leaf it is one.  In an inner page, where    *)
(* BTInsert passes -1 if the promoted key falls between the halves of a    *)
(* split, the word read is the head of a page (count, isleaf and padding): *)
(* any value of JunkKeys.                                                  *)
(***************************************************************************)
EXTENDS Integers, FiniteSets, SequencesExt

CONSTANTS BT_ORDER,   \* the maximum number of children of a page
          Objects,    \* the memsections that may be inserted: [base, end]
          JunkKeys    \* what the head of a page may read as

BT_MAXKEY == BT_ORDER - 1
BT_MINKEY == BT_MAXKEY \div 2

\* "Must be odd" (b_plus_tree.h).
ASSUME OrderAssumption == BT_ORDER \in Nat /\ BT_ORDER >= 3 /\ BT_ORDER % 2 = 1
ASSUME ObjectsAssumption == \A o \in Objects : o.base \in Nat /\ o.end \in Nat /\ o.base <= o.end

VARIABLES root,     \* the root page, NULL in an empty tree
          depth,    \* btree->depth
          misread,  \* some page was read as if it were an object
          result    \* of the last insertion: what BTInsert found and what ObjBTIns returned

vars == <<root, depth, misread, result>>

NULL == [leaf |-> TRUE, key |-> <<>>, child |-> <<>>]

BTObjMatch(o, k) == o.base <= k /\ k <= o.end

\* One of the ends of o1 lies in o2.
BTOverlaps(o1, o2) == BTObjMatch(o2, o1.end) \/ BTObjMatch(o2, o1.base)

\* The binary search of a page: the child to follow, counted from 0.
RECURSIVE Bisect(_, _, _, _)
Bisect(key, k, lo, hi) ==
  LET mid == (lo + hi) \div 2
  IN  IF lo >= hi THEN hi
      ELSE IF key[mid + 1] = k THEN mid + 1
      ELSE IF key[mid + 1] > k THEN Bisect(key, k, lo, mid)
      ELSE Bisect(key, k, mid + 1, hi)

\* Mutant of Slot: a key equal to the one searched leads to its left.
SlotLeft(page, k) == Cardinality({i \in DOMAIN page.key : page.key[i] < k})

Slot(page, k) == Bisect(page.key, k, 0, Len(page.key))

\* ObjBTSearch: the object found, or nothing (BT_NOT_FOUND).
RECURSIVE SearchPage(_, _)
SearchPage(page, k) ==
  LET child == page.child[Slot(page, k) + 1]
  IN  IF ~page.leaf THEN SearchPage(child, k)
      ELSE IF BTObjMatch(child, k) THEN {child} ELSE {}

BTSearch(k) == IF root = NULL THEN {} ELSE SearchPage(root, k)

\* Mutant of InsertPage: an object that is less than all others of the leaf gets
\* its own key as separator.
InsertPageOwnKey(page, hi, k, p, junk) ==
  IF hi < 0
    THEN [page EXCEPT !.key = <<IF page.leaf THEN k ELSE junk>> \o @, !.child = <<p>> \o @]
    ELSE [page EXCEPT !.key = InsertAt(@, hi + 1, k), !.child = InsertAt(@, hi + 2, p)]

\* Mutant of InsertPage: what is already at the index is not shifted.
InsertPageNoShift(page, hi, k, p, junk) ==
  IF hi < 0
    THEN [page EXCEPT !.key = <<IF page.leaf THEN page.child[1].base ELSE junk>> \o @,
                      !.child = <<p>> \o @]
    ELSE [page EXCEPT !.key = SubSeq(@, 1, hi) \o <<k>> \o SubSeq(@, hi + 2, Len(@)),
                      !.child = SubSeq(@, 1, hi + 1) \o <<p>> \o SubSeq(@, hi + 3, Len(@))]

\* BTInsertPage: key k with right child p at index hi; p is the new first child if
\* hi < 0, and its right neighbour's key is read from the object.
InsertPage(page, hi, k, p, junk) ==
  IF hi < 0
    THEN [page EXCEPT !.key = <<IF page.leaf THEN page.child[1].base ELSE junk>> \o @,
                      !.child = <<p>> \o @]
    ELSE [page EXCEPT !.key = InsertAt(@, hi + 1, k), !.child = InsertAt(@, hi + 2, p)]

\* The keys that stay in the left page of a split, before the insertion.
Left(hi) == IF hi < BT_MINKEY THEN BT_MINKEY - 1 ELSE BT_MINKEY

Outcome(ret, page, k, p, bad) ==
  [ret |-> ret, page |-> page, key |-> k, right |-> p, misread |-> bad]

\* The second half of BTInsert: the promoted key k and its right child p go into the page,
\* or into one half of it, and then the median goes up with the other half.
Place(page, hi, k, p, junk) ==
  LET left == Left(hi)
      old  == [page EXCEPT !.key = SubSeq(@, 1, left), !.child = SubSeq(@, 1, left + 1)]
      new  == [page EXCEPT !.key = SubSeq(@, left + 2, BT_MAXKEY),
                           !.child = SubSeq(@, left + 2, BT_ORDER)]
      kmed == IF hi = BT_MINKEY THEN k ELSE page.key[left + 1]
  IN  IF Len(page.key) < BT_MAXKEY
        THEN Outcome("BT_OK", InsertPage(page, hi, k, p, junk), k, p, FALSE)
      ELSE IF hi < BT_MINKEY
        THEN Outcome("BT_PROMOTION", InsertPage(old, hi, k, p, junk), kmed, new, FALSE)
        ELSE Outcome("BT_PROMOTION", old, kmed, InsertPage(new, hi - (left + 1), k, p, junk),
                     ~page.leaf /\ hi = BT_MINKEY)

\* Mutant of LeafOverlap: the object on the left is not looked at.
LeafOverlapRight(page, hi, o) == hi = 0 /\ BTOverlaps(o, page.child[1])

\* The overlaps BTInsert looks for in a leaf.
LeafOverlap(page, hi, o) ==
  \/ BTObjMatch(page.child[hi + 1], o.base)
  \/ hi = 0 /\ BTOverlaps(o, page.child[1])

\* BTInsert
RECURSIVE Insert(_, _, _)
Insert(page, o, junk) ==
  LET hi      == Slot(page, o.base)
      Refuse(ret) == Outcome(ret, page, o.base, o, FALSE)
      first   == hi = 0 /\ o.base < page.child[1].base
      below   == Insert(page.child[hi + 1], o, junk)
      updated == [page EXCEPT !.child[hi + 1] = below.page]
      placed  == Place(updated, hi, below.key, below.right, junk)
  IN  IF hi > 0 /\ page.key[hi] = o.base THEN Refuse("BT_DUPLICATE")
      ELSE IF hi < Len(page.key) /\ BTObjMatch(o, page.key[hi + 1]) THEN Refuse("BT_OVERLAP")
      ELSE IF page.leaf
        THEN IF LeafOverlap(page, hi, o) THEN Refuse("BT_OVERLAP")
             ELSE Place(page, IF first THEN -1 ELSE hi, o.base, o, junk)
      ELSE IF below.ret = "BT_PROMOTION"
        THEN [placed EXCEPT !.misread = @ \/ below.misread]
        ELSE [below EXCEPT !.page = updated]

NewRoot(page, k, p) == [leaf |-> FALSE, key |-> <<k>>, child |-> <<page, p>>]

\* ObjBTIns into an empty tree: a leaf that has an object and no key.
BTInsFirst(o) ==
  /\ root = NULL
  /\ root' = [leaf |-> TRUE, key |-> <<>>, child |-> <<o>>]
  /\ depth' = 1
  /\ result' = [found |-> "BT_OK", returned |-> "BT_OK"]
  /\ UNCHANGED misread

\* ObjBTIns: it returns 0, BT_OK, whatever BTInsert returned.
BTIns(o) ==
  /\ root # NULL
  /\ \E junk \in JunkKeys :
       LET r == Insert(root, o, junk)
       IN  /\ IF r.ret = "BT_PROMOTION"
                THEN root' = NewRoot(r.page, r.key, r.right) /\ depth' = depth + 1
                ELSE root' = r.page /\ UNCHANGED depth
           /\ misread' = (misread \/ r.misread)
           /\ result' = [found |-> IF r.ret = "BT_PROMOTION" THEN "BT_OK" ELSE r.ret,
                         returned |-> "BT_OK"]

Init ==
  /\ root = NULL
  /\ depth = 0
  /\ misread = FALSE
  /\ result = [found |-> "BT_OK", returned |-> "BT_OK"]

Next == \E o \in Objects : BTInsFirst(o) \/ BTIns(o)

Spec == Init /\ [][Next]_vars

-----------------------------------------------------------------------------
(***************************************************************************)
(* Properties                                                              *)
(***************************************************************************)

RECURSIVE ObjectsOf(_)
ObjectsOf(page) == IF page.leaf THEN ToSet(page.child)
                   ELSE UNION {ObjectsOf(page.child[i]) : i \in DOMAIN page.child}

Stored == ObjectsOf(root)

\* All leaves of the page are n levels down, and every page below it is at least
\* half full and never over-full, as a 128-255 tree should be.
RECURSIVE Balanced(_, _)
Balanced(page, n) ==
  /\ page.leaf <=> n = 1
  /\ Len(page.key) \in 0 .. BT_MAXKEY
  /\ Len(page.child) = Len(page.key) + 1
  /\ ~page.leaf => \A i \in DOMAIN page.child :
                     /\ Len(page.child[i].key) >= BT_MINKEY
                     /\ Balanced(page.child[i], n - 1)

RECURSIVE OrderedPage(_)
OrderedPage(page) ==
  /\ \A i \in DOMAIN page.key :
       LET Below(j) == IF page.leaf THEN {page.child[j]} ELSE ObjectsOf(page.child[j])
       IN  /\ \A o \in Below(i) : o.base < page.key[i]
           /\ \A o \in Below(i + 1) : page.key[i] <= o.base
  /\ ~page.leaf => \A i \in DOMAIN page.child : OrderedPage(page.child[i])

\* The shape of the tree: btree->depth is its height.
TypeOK ==
  /\ misread \in BOOLEAN
  /\ depth \in Nat
  /\ root # NULL => Balanced(root, depth)

\* "child[i]<key[i]<=child[i+1]" (b_plus_tree.h:150): in every page each key separates
\* the objects on its left from those on its right.
Ordered == root # NULL => OrderedPage(root)

\* The tree stays a balanced tree of the depth it records, through every split of
\* leaves, inner pages and the root, and every key separates its neighbours until a page
\* is misread.
WellFormed == TypeOK /\ (~misread => Ordered)

Table == INSTANCE IntervalSet WITH known <- Stored, broken <- misread

\* ObjBTSearch finds an address exactly in the object stored that has the nearest base at
\* or below it, as long as no page was misread.  So it is exact while the objects are
\* disjoint, and misses addresses of an object that encloses another.
SearchNearest ==
  ~misread => \A k \in UNION {o.base .. o.end : o \in Objects} :
                BTSearch(k) = {o \in Table!AtOrBelow(k) : BTObjMatch(o, k)}

\* The tree implements IntervalSet: an insertion adds its object and loses none, and
\* what it accepts meets no object next to it, but for one that encloses the lowest.
ImplementsSet == Table!Spec

\* "BT_OVERLAP if new object overlaps existing one" (b_plus_tree.h:197): what is stored
\* is disjoint.
Disjoint == \A o, p \in Stored : o # p => ~Table!Meet(o, p)

\* While the objects stored are disjoint, BTInsert refuses an object if it meets any of
\* them, and only then, with one exception: it accepts one that encloses the lowest
\* object of the tree and meets no other.  The checks of one path of pages stand for a
\* comparison with every object.
RefusesExactly ==
  ~misread /\ root # NULL /\ Disjoint =>
    \A o \in Objects :
      LET met == {p \in Stored : Table!Meet(o, p)}
      IN  (Insert(root, o, 0).ret \in {"BT_DUPLICATE", "BT_OVERLAP"})
            <=> met # {} /\ ~(\E p \in Table!Lowest : met = {p} /\ Table!Encloses(o, p))

\* b_plus_tree.h:193-197: ObjBTIns returns what became of the insertion.
ReturnsResult == result.returned = result.found
=============================================================================
