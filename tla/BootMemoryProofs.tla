-------------------------- MODULE BootMemoryProofs --------------------------
(***************************************************************************)
(* The memory map of the boot, for every size of page, granule and memory, *)
(* every sequence of descriptors and objects and every size of the table:  *)
(* the table names no memory that is not there, all of it if descriptors   *)
(* do not overlap, and no object of the boot image.                        *)
(*                                                                         *)
(* None of this is inductive.  sys$remove_chunk compares with < where its  *)
(* neighbour compares with <=, and a region of one byte would slip         *)
(* between: that there is none, and that a chunk never ends one byte into  *)
(* a region, rests on both beginning and ending on a granule of at least   *)
(* two bytes (GranuleInv).  That the loop of sys$remove_chunk has taken    *)
(* the chunk out when it ends needs what it has done when it is half way   *)
(* (PassedInv), and that objects stay out that nothing is added after the  *)
(* first of them (ObjectsInv).                                             *)
(*                                                                         *)
(* The loop changes the table in three ways (an entry goes, is cut, or     *)
(* becomes two).  EntriesKeep says once what such a change must do to keep *)
(* BInv; the three steps show that they do it.                             *)
(*                                                                         *)
(* sys$bootstrap leaves an entry that ends where it begins, which is on no *)
(* granule; BInv holds up to there, EndInv from there on.                  *)
(***************************************************************************)
EXTENDS BootMemory, ListFacts, FiniteSetTheorems

-----------------------------------------------------------------------------
(***************************************************************************)
(* Multiples, and the address arithmetic                                   *)
(***************************************************************************)

\* The multiples of g.
Mult(g) == {g * k : k \in Nat}

\* Two multiples of a granule of at least two bytes are two bytes apart or equal: the gap
\* in which the comparisons of sys$remove_chunk differ is never hit.
LEMMA MultGap ==
  ASSUME NEW g \in Nat \ {0, 1}, NEW x \in Mult(g), NEW y \in Mult(g), x < y
  PROVE  x \in Nat /\ y \in Nat /\ x + 2 <= y
<1>1. PICK k \in Nat : x = g * k
  BY DEF Mult
<1>2. PICK m \in Nat : y = g * m
  BY DEF Mult
<1>3. x \in Nat /\ y \in Nat
  BY <1>1, <1>2
<1>4. k < m
  <2>1. SUFFICES ASSUME m <= k PROVE FALSE
    OBVIOUS
  <2>2. PICK n \in Nat : k = m + n
    <3>1. k - m \in Nat /\ k = m + (k - m)
      BY <2>1
    <3> QED BY <3>1
  <2>3. g * k = g * m + g * n /\ g * n \in Nat
    BY <2>2
  <2> QED BY <1>1, <1>2, <1>3, <2>3
<1>5. PICK n \in Nat : m = k + 1 + n
  <2>1. m - k - 1 \in Nat /\ m = k + 1 + (m - k - 1)
    BY <1>4
  <2> QED BY <2>1
<1>6. g * m = g * k + g + g * n /\ g * n \in Nat
  BY <1>5
<1> QED BY <1>1, <1>2, <1>3, <1>6

\* A multiple of the pagesize is one of the granularity, which divides it.
LEMMA MultOfMult ==
  ASSUME NEW g \in Nat \ {0}, NEW p \in Nat, p % g = 0, NEW x \in Mult(p)
  PROVE  x \in Mult(g)
<1> DEFINE q == p \div g
<1>1. q \in Nat /\ p = g * q + (p % g)
  OBVIOUS
<1> HIDE DEF q
<1>2. p = g * q
  BY <1>1
<1>3. PICK k \in Nat : x = p * k
  BY DEF Mult
<1>4. x = g * (q * k) /\ q * k \in Nat
  BY <1>1, <1>2, <1>3
<1> QED BY <1>4 DEF Mult

\* sys$page_round_down returns the page that an address is in.
LEMMA RoundDown ==
  ASSUME NEW a \in Nat
  PROVE  /\ PageRoundDown(a) \in Mult(Page) /\ PageRoundDown(a) \in Nat
         /\ PageRoundDown(a) <= a /\ a < PageRoundDown(a) + Page
<1> DEFINE q == a \div Page
<1>1. Page \in Nat \ {0}
  BY SizesAssumption
<1>2. q \in Nat /\ a = Page * q + (a % Page) /\ a % Page \in 0 .. Page - 1
  BY <1>1
<1> HIDE DEF q
<1>3. PageRoundDown(a) = Page * q /\ Page * q \in Nat
  <2>1. PageRoundDown(a) = q * Page
    BY DEF PageRoundDown, q
  <2> QED BY <1>1, <1>2, <2>1
<1>4. Page * q \in Mult(Page)
  BY <1>2 DEF Mult
<1> QED BY <1>1, <1>2, <1>3, <1>4

\* What the wrap-around of the address arithmetic does to a sum below twice the modulus.
LEMMA Modulo ==
  ASSUME NEW n \in Nat \ {0}, NEW a \in Nat
  PROVE  /\ a < n => a % n = a
         /\ n <= a /\ a < 2 * n => a % n = a - n
<1> DEFINE q == a \div n
           r == a % n
<1>1. q \in Nat /\ r \in 0 .. n - 1 /\ a = n * q + r
  OBVIOUS
<1> HIDE DEF q, r
<1>2. q = 0 \/ q = 1 \/ \E k \in Nat : q = 2 + k
  <2>1. q >= 2 => q - 2 \in Nat /\ q = 2 + (q - 2)
    BY <1>1
  <2> QED BY <1>1, <2>1
<1>3. CASE q = 0
  <2>1. n * q = 0
    BY <1>3
  <2> QED BY <1>1, <2>1 DEF r
<1>4. CASE q = 1
  <2>1. n * q = n
    BY <1>4
  <2> QED BY <1>1, <2>1 DEF r
<1>5. CASE \E k \in Nat : q = 2 + k
  <2>1. PICK k \in Nat : q = 2 + k
    BY <1>5
  <2>2. n * q = 2 * n + n * k /\ n * k \in Nat
    BY <2>1
  <2> QED BY <1>1, <2>2
<1> QED BY <1>2, <1>3, <1>4, <1>5

-----------------------------------------------------------------------------
(***************************************************************************)
(* The inductive invariant                                                 *)
(***************************************************************************)

\* The entries of the table, and the arguments of sys$remove_chunk.
Region == [base : 0 .. MemEnd[virtual], end : 0 .. MemEnd[virtual] - 1]
Cut    == [low : Nat, high : Nat, next : {"scan", "objects"}]

\* The types, and that the arguments of sys$remove_chunk are there during its loop.
TInv ==
  /\ virtual \in BOOLEAN
  /\ regions \in Seq(Region) /\ Len(regions) < MaxRegions
  /\ pc \in {"scan", "remove", "objects", "swapper", "bootstrap", "done", "PANIC"}
  /\ at \in 1 .. Len(regions) + 1
  /\ cut \in Cut \union {NULL}
  /\ pc = "remove" => cut \in Cut
  /\ pc \notin {"remove", "PANIC"} => cut = NULL
  /\ objs \subseteq Objects[virtual]
  /\ memory \subseteq Nat
  /\ overlap \in BOOLEAN

\* A region, and what is removed, begin and end on a granule.
OnGranule(r) == r.base \in Mult(Granule[virtual]) /\ r.end + 1 \in Mult(Granule[virtual])
CutOnGranule ==
  /\ cut.low \in Mult(Granule[virtual]) /\ cut.high + 1 \in Mult(Granule[virtual])
  /\ cut.low <= cut.high + 1

\* Merging, cutting and splitting keep the table on granules.
GranuleInv ==
  /\ \A j \in 1 .. Len(regions) : OnGranule(regions[j])
  /\ cut # NULL => CutOnGranule

\* An address is in an entry, or in what is being removed.
In(a, r) == r.base <= a /\ a <= r.end
InCut(a) == cut # NULL /\ cut.low <= a /\ a <= cut.high

\* The entries that the loop of sys$remove_chunk has passed hold nothing of the chunk.
PassedInv == pc = "remove" => \A j \in 1 .. at - 1 : \A a \in Nat : In(a, regions[j]) => ~InCut(a)
\* The table names memory that is there; the chunk counts as there until the loop ends.
SoundInv  == \A j \in 1 .. Len(regions) : \A a \in Nat : In(a, regions[j]) => a \in memory

\* Without overlapping descriptors, it names each byte of it that is not being removed,
\* and names it once.
ExactInv ==
  ~overlap =>
    /\ \A a \in memory : InCut(a) \/ \E j \in 1 .. Len(regions) : In(a, regions[j])
    /\ \A i, j \in 1 .. Len(regions) : i # j => \A a \in Nat : ~(In(a, regions[i]) /\ In(a, regions[j]))

\* No object is removed before the last descriptor was read, and the bytes of one are gone
\* or being removed.
ObjectsInv ==
  /\ pc = "scan" => objs = {}
  /\ pc = "remove" /\ cut.next = "scan" => objs = {}
  /\ \A o \in objs : \A a \in o.base .. o.end - 1 : a \notin memory \/ InCut(a)

\* The swapper's base is above the regions the loop has passed.
SwapperInv ==
  /\ swapper \in 0 .. MemEnd[virtual]
  /\ swapper \in Mult(Granule[virtual])
  /\ pc = "swapper" => ~virtual /\ \A j \in 1 .. at - 1 : regions[j].end < swapper
  /\ pc \in {"bootstrap", "done"} /\ ~virtual => \A j \in 1 .. Len(regions) : regions[j].end < swapper

\* No region has been taken, and the boot goes on without one for virtual memory only.
ChunkInv == taken = NULL /\ (pc = "done" => virtual)

\* The invariant until sys$bootstrap takes a region for the first chunk.
BInv == TInv /\ GranuleInv /\ PassedInv /\ SoundInv /\ ExactInv /\ ObjectsInv /\ SwapperInv /\ ChunkInv

\* What holds of the table after that, when one of its entries stands for no memory and is
\* no longer on granules: the boot changes the table no more.
EndInv ==
  /\ pc \in {"done", "PANIC"}
  /\ TypeOK /\ Sound /\ ExactUnlessOverlap /\ ObjectsButLastByte /\ FirstChunk /\ SwapperAbove

\* The inductive invariant.
AInv == BInv \/ EndInv

\* What the assumptions say of the kind of memory at hand.
LEMMA Sizes ==
  ASSUME virtual \in BOOLEAN
  PROVE  /\ Granule[virtual] \in Nat \ {0, 1} /\ Page % Granule[virtual] = 0
         /\ MemEnd[virtual] \in Nat /\ MemEnd[virtual] + Page <= Top
         /\ Page \in Nat \ {0} /\ Top \in Nat \ {0} /\ Top % Page = 0
<1>1. /\ Granule[virtual] \in Nat \ {0, 1} /\ Page % Granule[virtual] = 0
      /\ MemEnd[virtual] \in Nat /\ MemEnd[virtual] + Page <= Top
      /\ Page \in Nat \ {0} /\ Top \in Nat /\ Top % Page = 0
  BY SizesAssumption
<1> QED BY <1>1

\* NULL is no argument of sys$remove_chunk and no chunk.
LEMMA CutIsNotNull ==
  /\ \A c \in Cut : c # NULL
  /\ \A c \in [base : Nat, end : Nat] : c # NULL
BY NullAssumption DEF Cut

\* The record of two bounds is an entry if the bounds are addresses of the memory.
LEMMA RegionType ==
  ASSUME virtual \in BOOLEAN, NEW b, NEW e
  PROVE  /\ [base |-> b, end |-> e] \in Region <=> b \in 0 .. MemEnd[virtual] /\ e \in 0 .. MemEnd[virtual] - 1
         /\ [base |-> b, end |-> e].base = b /\ [base |-> b, end |-> e].end = e
BY DEF Region

\* The fields of an entry, and the entries that EXCEPT makes of it.
LEMMA RegionFields ==
  ASSUME virtual \in BOOLEAN, NEW r \in Region
  PROVE  /\ r.base \in Nat /\ r.end \in Nat /\ r.base <= MemEnd[virtual] /\ r.end + 1 <= MemEnd[virtual]
         /\ \A e : [r EXCEPT !.end = e] = [base |-> r.base, end |-> e]
         /\ \A b : [r EXCEPT !.base = b] = [base |-> b, end |-> r.end]
<1>1. MemEnd[virtual] \in Nat
  BY Sizes
<1> QED BY <1>1 DEF Region

\* Where the bounds of a chunk and of an entry are apart, they are two bytes apart.
LEMMA CutFields ==
  ASSUME virtual \in BOOLEAN, cut \in Cut, CutOnGranule, NEW r \in Region, OnGranule(r)
  PROVE  /\ cut # NULL /\ cut.low \in Nat /\ cut.high \in Nat /\ cut.low <= cut.high + 1
         /\ cut.low < r.end + 1 => cut.low + 2 <= r.end + 1
         /\ r.base < cut.high + 1 => r.base + 2 <= cut.high + 1
<1>1. cut # NULL /\ cut.low \in Nat /\ cut.high \in Nat /\ cut.low <= cut.high + 1
  BY CutIsNotNull DEF Cut, CutOnGranule
<1>2. /\ cut.low < r.end + 1 => cut.low + 2 <= r.end + 1
      /\ r.base < cut.high + 1 => r.base + 2 <= cut.high + 1
  BY Sizes, MultGap DEF OnGranule, CutOnGranule
<1> QED BY <1>1, <1>2

-----------------------------------------------------------------------------
(***************************************************************************)
(* The loop of sys$remove_chunk                                            *)
(***************************************************************************)

\* An entry that sys$remove_chunk neither removes nor splits is left with exactly the
\* addresses outside the chunk.
LEMMA LeftEntry ==
  ASSUME virtual \in BOOLEAN, cut \in Cut, CutOnGranule, NEW r \in Region, OnGranule(r),
         ~Swallows(r), ~Splits(r)
  PROVE  /\ Left(r) \in Region /\ OnGranule(Left(r))
         /\ \A a \in Nat : In(a, Left(r)) <=> In(a, r) /\ ~InCut(a)
<1> DEFINE b == r.base
           e == r.end
           low == cut.low
           high == cut.high
           E == MemEnd[virtual]
<1>1. /\ b \in Nat /\ e \in Nat /\ b <= E /\ e + 1 <= E /\ E \in Nat
      /\ \A x : [r EXCEPT !.end = x] = [base |-> b, end |-> x]
      /\ \A x : [r EXCEPT !.base = x] = [base |-> x, end |-> e]
  BY RegionFields, Sizes
<1>2. /\ cut # NULL /\ low \in Nat /\ high \in Nat /\ low <= high + 1
      /\ low < e + 1 => low + 2 <= e + 1
      /\ b < high + 1 => b + 2 <= high + 1
  BY CutFields
<1>3. ~(low <= b /\ high >= e) /\ ~(low > b /\ low < e /\ high < e /\ high > b)
  BY DEF Swallows, Splits
<1>4. \A a \in Nat : /\ In(a, r) <=> b <= a /\ a <= e
                     /\ InCut(a) <=> low <= a /\ a <= high
  BY <1>2 DEF In, InCut
<1>5. /\ b \in Mult(Granule[virtual]) /\ e + 1 \in Mult(Granule[virtual])
      /\ low \in Mult(Granule[virtual]) /\ high + 1 \in Mult(Granule[virtual])
  BY DEF OnGranule, CutOnGranule
<1>6. Left(r) = IF low >= b /\ low < e /\ high >= e THEN [base |-> b, end |-> low - 1]
                ELSE IF low <= b /\ high <= e /\ high > b THEN [base |-> high + 1, end |-> e]
                ELSE r
  BY <1>1 DEF Left
<1>7. CASE low >= b /\ low < e /\ high >= e
  <2> DEFINE n == [base |-> b, end |-> low - 1]
  <2>1. Left(r) = n /\ n.base = b /\ n.end = low - 1
    BY <1>6, <1>7
  <2>2. low - 1 \in 0 .. E - 1 /\ b \in 0 .. E /\ (low - 1) + 1 = low
    BY <1>1, <1>2, <1>3, <1>7
  <2>3. n \in Region
    BY <2>2, RegionType
  <2>4. OnGranule(n)
    BY <1>5, <2>1, <2>2 DEF OnGranule
  <2> HIDE DEF n
  <2>5. \A a \in Nat : In(a, n) <=> b <= a /\ a <= low - 1
    BY <2>1 DEF In
  <2>6. \A a \in Nat : In(a, n) <=> In(a, r) /\ ~InCut(a)
    <3> HIDE DEF b, e, low, high
    <3> QED BY <1>1, <1>2, <1>3, <1>4, <1>7, <2>5
  <2> QED BY <2>1, <2>3, <2>4, <2>6
<1>8. CASE ~(low >= b /\ low < e /\ high >= e) /\ low <= b /\ high <= e /\ high > b
  <2> DEFINE n == [base |-> high + 1, end |-> e]
  <2>1. Left(r) = n /\ n.base = high + 1 /\ n.end = e
    BY <1>6, <1>8
  <2>2. high + 1 \in 0 .. E /\ e \in 0 .. E - 1
    BY <1>1, <1>2, <1>3, <1>8
  <2>3. n \in Region
    BY <2>2, RegionType
  <2>4. OnGranule(n)
    BY <1>5, <2>1, <2>2 DEF OnGranule
  <2> HIDE DEF n
  <2>5. \A a \in Nat : In(a, n) <=> high + 1 <= a /\ a <= e
    BY <2>1 DEF In
  <2>6. \A a \in Nat : In(a, n) <=> In(a, r) /\ ~InCut(a)
    <3> HIDE DEF b, e, low, high
    <3> QED BY <1>1, <1>2, <1>3, <1>4, <1>8, <2>5
  <2> QED BY <2>1, <2>3, <2>4, <2>6
<1>9. CASE ~(low >= b /\ low < e /\ high >= e) /\ ~(low <= b /\ high <= e /\ high > b)
  <2>1. Left(r) = r
    BY <1>6, <1>9
  <2>2. \A a \in Nat : In(a, r) => ~InCut(a)
    <3> HIDE DEF b, e, low, high
    <3> QED BY <1>1, <1>2, <1>3, <1>4, <1>9
  <2> QED BY <2>1, <2>2
<1> QED BY <1>7, <1>8, <1>9

\* The two entries that sys$remove_chunk splits one into hold what is below and what is
\* above the chunk.
LEMMA SplitEntries ==
  ASSUME virtual \in BOOLEAN, cut \in Cut, CutOnGranule, NEW r \in Region, OnGranule(r), Splits(r)
  PROVE  LET lower == [r EXCEPT !.end = cut.low - 1]
         IN  /\ lower \in Region /\ OnGranule(lower)
             /\ Upper(r) \in Region /\ OnGranule(Upper(r))
             /\ \A a \in Nat : In(a, lower) <=> In(a, r) /\ a < cut.low
             /\ \A a \in Nat : In(a, Upper(r)) <=> In(a, r) /\ a > cut.high
             /\ \A a \in Nat : InCut(a) <=> a >= cut.low /\ a <= cut.high
<1> DEFINE b == r.base
           e == r.end
           low == cut.low
           high == cut.high
           E == MemEnd[virtual]
           lower == [base |-> b, end |-> low - 1]
           upper == [base |-> high + 1, end |-> e]
<1>1. /\ b \in Nat /\ e \in Nat /\ b <= E /\ e + 1 <= E /\ E \in Nat
      /\ [r EXCEPT !.end = cut.low - 1] = lower
      /\ Upper(r) = upper
  BY RegionFields, Sizes DEF Upper
<1>2. /\ cut # NULL /\ low \in Nat /\ high \in Nat /\ low <= high + 1
  BY CutFields
<1>3. low > b /\ low < e /\ high < e /\ high > b
  BY DEF Splits
<1>4. \A a \in Nat : /\ In(a, r) <=> b <= a /\ a <= e
                     /\ InCut(a) <=> low <= a /\ a <= high
  BY <1>2 DEF In, InCut
<1>5. /\ b \in Mult(Granule[virtual]) /\ e + 1 \in Mult(Granule[virtual])
      /\ low \in Mult(Granule[virtual]) /\ high + 1 \in Mult(Granule[virtual])
  BY DEF OnGranule, CutOnGranule
<1>6. low - 1 \in 0 .. E - 1 /\ b \in 0 .. E /\ (low - 1) + 1 = low
  BY <1>1, <1>2, <1>3
<1>7. high + 1 \in 0 .. E /\ e \in 0 .. E - 1
  BY <1>1, <1>2, <1>3
<1>8. lower \in Region /\ upper \in Region
  BY <1>6, <1>7, RegionType
<1>9. lower.base = b /\ lower.end = low - 1 /\ upper.base = high + 1 /\ upper.end = e
  OBVIOUS
<1>10. OnGranule(lower) /\ OnGranule(upper)
  BY <1>5, <1>6, <1>9 DEF OnGranule
<1>11. \A a \in Nat : /\ In(a, lower) <=> b <= a /\ a <= low - 1
                      /\ In(a, upper) <=> high + 1 <= a /\ a <= e
  BY <1>9 DEF In
<1>12. \A a \in Nat : /\ In(a, lower) <=> In(a, r) /\ a < low
                      /\ In(a, upper) <=> In(a, r) /\ a > high
  <2> HIDE DEF b, e, low, high, lower, upper
  <2> QED BY <1>1, <1>2, <1>3, <1>4, <1>11
<1>13. \A a \in Nat : InCut(a) <=> a >= low /\ a <= high
  BY <1>2, <1>4
<1> QED BY <1>1, <1>8, <1>10, <1>12, <1>13

\* A change of the table during the loop of sys$remove_chunk keeps BInv if every new entry
\* is within an old one and on granules, those passed hold nothing of the chunk, no
\* address outside it is lost and none is in two entries that was in one.
LEMMA EntriesKeep ==
  ASSUME BInv, pc = "remove", pc' = pc,
         UNCHANGED <<virtual, cut, descs, objs, swapper, taken, memory, overlap>>,
         regions' \in Seq(Region), Len(regions') < MaxRegions, at' \in 1 .. Len(regions') + 1,
         \A j \in 1 .. Len(regions') : OnGranule(regions'[j]),
         \A j \in 1 .. at' - 1 : \A a \in Nat : In(a, regions'[j]) => ~InCut(a),
         \A j \in 1 .. Len(regions') : \E i \in 1 .. Len(regions) :
           \A a \in Nat : In(a, regions'[j]) => In(a, regions[i]),
         \A i \in 1 .. Len(regions) : \A a \in Nat :
           In(a, regions[i]) /\ ~InCut(a) => \E j \in 1 .. Len(regions') : In(a, regions'[j]),
         \A i, j \in 1 .. Len(regions') : i # j => \A a \in Nat :
           In(a, regions'[i]) /\ In(a, regions'[j]) =>
             \E k, l \in 1 .. Len(regions) : k # l /\ In(a, regions[k]) /\ In(a, regions[l])
  PROVE  BInv'
<1>1. TInv'
  BY DEF BInv, TInv, Region
<1>2. GranuleInv'
  BY DEF BInv, GranuleInv, OnGranule, CutOnGranule
<1>a. \A a : InCut(a)' <=> InCut(a)
  BY DEF InCut
<1>3. PassedInv'
  BY <1>a DEF PassedInv
<1>4. SoundInv'
  BY DEF BInv, SoundInv
<1>5. ExactInv'
  <2>1. SUFFICES ASSUME ~overlap
                 PROVE  /\ \A a \in memory : InCut(a) \/ \E j \in 1 .. Len(regions') : In(a, regions'[j])
                        /\ \A i, j \in 1 .. Len(regions') : i # j =>
                             \A a \in Nat : ~(In(a, regions'[i]) /\ In(a, regions'[j]))
    BY <1>a DEF ExactInv
  <2>2. \A a \in memory : a \in Nat /\ (InCut(a) \/ \E j \in 1 .. Len(regions) : In(a, regions[j]))
    BY <2>1 DEF BInv, TInv, ExactInv
  <2>3. \A i, j \in 1 .. Len(regions) : i # j => \A a \in Nat : ~(In(a, regions[i]) /\ In(a, regions[j]))
    BY <2>1 DEF BInv, ExactInv
  <2>4. \A a \in memory : InCut(a) \/ \E j \in 1 .. Len(regions') : In(a, regions'[j])
    BY <2>2
  <2>5. \A i, j \in 1 .. Len(regions') : i # j =>
                             \A a \in Nat : ~(In(a, regions'[i]) /\ In(a, regions'[j]))
    BY <2>3
  <2> QED BY <2>4, <2>5
<1>6. ObjectsInv'
  BY <1>a DEF BInv, ObjectsInv
<1>7. SwapperInv'
  BY DEF BInv, SwapperInv
<1>8. ChunkInv'
  BY DEF BInv, ChunkInv
<1> QED BY <1>1, <1>2, <1>3, <1>4, <1>5, <1>6, <1>7, <1>8 DEF BInv

\* What the body of the loop may rely on.
LEMMA ExamineFacts ==
  ASSUME BInv, Examine
  PROVE  /\ virtual \in BOOLEAN /\ cut \in Cut /\ CutOnGranule /\ pc = "remove"
         /\ regions \in Seq(Region) /\ Len(regions) \in Nat /\ Len(regions) < MaxRegions
         /\ at \in 1 .. Len(regions) /\ MaxRegions \in Nat
         /\ \A j \in 1 .. Len(regions) : regions[j] \in Region /\ OnGranule(regions[j])
         /\ \A j \in 1 .. at - 1 : \A a \in Nat : In(a, regions[j]) => ~InCut(a)
         /\ UNCHANGED <<virtual, cut, descs, objs, swapper, taken, memory, overlap>>
<1>1. /\ virtual \in BOOLEAN /\ cut \in Cut /\ pc = "remove" /\ cut # NULL
      /\ regions \in Seq(Region) /\ Len(regions) < MaxRegions /\ MaxRegions \in Nat
      /\ at \in 1 .. Len(regions) + 1 /\ at <= Len(regions)
  BY CutIsNotNull, RegionsAssumption DEF BInv, TInv, Examine
<1>2. Len(regions) \in Nat /\ \A j \in 1 .. Len(regions) : regions[j] \in Region
  BY <1>1, LenProperties, ElementOfSeq
<1>3. at \in 1 .. Len(regions)
  BY <1>1, <1>2
<1> QED BY <1>1, <1>2, <1>3 DEF BInv, GranuleInv, PassedInv, Examine

\* An entry within the chunk goes, and the later ones move down.
LEMMA StepRemoveEntry ==
  ASSUME BInv, RemoveEntry
  PROVE  BInv'
<1>1. /\ virtual \in BOOLEAN /\ cut \in Cut /\ CutOnGranule /\ pc = "remove"
      /\ regions \in Seq(Region) /\ Len(regions) \in Nat /\ Len(regions) < MaxRegions
      /\ at \in 1 .. Len(regions) /\ MaxRegions \in Nat
      /\ \A j \in 1 .. Len(regions) : regions[j] \in Region /\ OnGranule(regions[j])
      /\ \A j \in 1 .. at - 1 : \A a \in Nat : In(a, regions[j]) => ~InCut(a)
      /\ UNCHANGED <<virtual, cut, descs, objs, swapper, taken, memory, overlap>>
  BY ExamineFacts DEF RemoveEntry
<1>2. pc' = pc /\ at' = at /\ regions' = RemoveAt(regions, at) /\ Swallows(regions[at])
  BY DEF RemoveEntry
<1>3. /\ regions' \in Seq(Region) /\ Len(regions') = Len(regions) - 1
      /\ \A j \in 1 .. Len(regions) - 1 : regions'[j] = IF j < at THEN regions[j] ELSE regions[j + 1]
  BY <1>1, <1>2, RemoveAtElems
<1>4. PICK n \in Nat : n = Len(regions)
  BY <1>1
<1>5. PICK k \in 1 .. n : k = at /\ k = at'
  BY <1>1, <1>2, <1>4
<1>6. \A a \in Nat : In(a, regions[k]) => InCut(a)
  <2>1. /\ /\ regions[k].base \in Nat /\ regions[k].end \in Nat /\ cut.low \in Nat
        /\ cut.high \in Nat
        /\ cut.low <= regions[k].base /\ cut.high >= regions[k].end /\ cut # NULL
    BY <1>1, <1>2, <1>4, <1>5, RegionFields, CutFields DEF Swallows
  <2> QED BY <2>1 DEF In, InCut
<1>7. \A j \in 1 .. n - 1 :
        /\ j < k => regions'[j] = regions[j] /\ j \in 1 .. n
        /\ j >= k => regions'[j] = regions[j + 1] /\ j + 1 \in 1 .. n
  BY <1>3, <1>4, <1>5
<1>8. \A i \in 1 .. n : /\ i < k => i \in 1 .. n - 1 /\ regions'[i] = regions[i]
                        /\ i > k => i - 1 \in 1 .. n - 1 /\ regions'[i - 1] = regions[i]
  BY <1>3, <1>4, <1>5
<1>9. \A j \in 1 .. n - 1 : \E i \in 1 .. n : regions'[j] = regions[i]
  BY <1>7
<1>10. Len(regions') < MaxRegions /\ at' \in 1 .. Len(regions') + 1 /\ Len(regions') = n - 1
  BY <1>1, <1>3, <1>4, <1>5
<1>11. \A j \in 1 .. Len(regions') : OnGranule(regions'[j])
  BY <1>1, <1>4, <1>9, <1>10
<1>12. \A j \in 1 .. at' - 1 : \A a \in Nat : In(a, regions'[j]) => ~InCut(a)
  <2>1. \A j \in 1 .. k - 1 : regions'[j] = regions[j]
    BY <1>7
  <2> QED BY <1>1, <1>5, <2>1
<1>13. \A j \in 1 .. Len(regions') : \E i \in 1 .. Len(regions) :
           \A a \in Nat : In(a, regions'[j]) => In(a, regions[i])
  BY <1>4, <1>9, <1>10
<1>14. \A i \in 1 .. Len(regions) : \A a \in Nat :
           In(a, regions[i]) /\ ~InCut(a) => \E j \in 1 .. Len(regions') : In(a, regions'[j])
  <2> SUFFICES ASSUME NEW i \in 1 .. n, NEW a \in Nat, In(a, regions[i]), ~InCut(a)
               PROVE  \E j \in 1 .. n - 1 : In(a, regions'[j])
    BY <1>4, <1>10
  <2>1. i < k \/ i > k
    BY <1>5, <1>6
  <2> QED BY <1>8, <2>1
<1>15. \A i, j \in 1 .. Len(regions') : i # j => \A a \in Nat :
           In(a, regions'[i]) /\ In(a, regions'[j]) =>
             \E p, q \in 1 .. Len(regions) : p # q /\ In(a, regions[p]) /\ In(a, regions[q])
  <2> SUFFICES ASSUME NEW i \in 1 .. n - 1, NEW j \in 1 .. n - 1, i # j, NEW a \in Nat,
                      In(a, regions'[i]), In(a, regions'[j])
               PROVE  \E p, q \in 1 .. n : p # q /\ In(a, regions[p]) /\ In(a, regions[q])
    BY <1>4, <1>10
  <2> DEFINE f(x) == IF x < k THEN x ELSE x + 1
  <2>1. f(i) \in 1 .. n /\ f(j) \in 1 .. n /\ f(i) # f(j)
    BY <1>5
  <2>2. regions'[i] = regions[f(i)] /\ regions'[j] = regions[f(j)]
    BY <1>5, <1>7
  <2> HIDE DEF f
  <2> QED BY <2>1, <2>2
<1> QED BY <1>1, <1>2, <1>3, <1>10, <1>11, <1>12, <1>13, <1>14, <1>15, EntriesKeep

\* An entry is cut at one of its ends, or left as it is.
LEMMA StepCutEntry ==
  ASSUME BInv, CutEntry
  PROVE  BInv'
<1>1. /\ virtual \in BOOLEAN /\ cut \in Cut /\ CutOnGranule /\ pc = "remove"
      /\ regions \in Seq(Region) /\ Len(regions) \in Nat /\ Len(regions) < MaxRegions
      /\ at \in 1 .. Len(regions) /\ MaxRegions \in Nat
      /\ \A j \in 1 .. Len(regions) : regions[j] \in Region /\ OnGranule(regions[j])
      /\ \A j \in 1 .. at - 1 : \A a \in Nat : In(a, regions[j]) => ~InCut(a)
      /\ UNCHANGED <<virtual, cut, descs, objs, swapper, taken, memory, overlap>>
  BY ExamineFacts DEF CutEntry
<1>2. /\ pc' = pc /\ at' = at + 1 /\ regions' = [regions EXCEPT ![at] = Left(regions[at])]
      /\ ~Swallows(regions[at]) /\ ~Splits(regions[at])
  BY DEF CutEntry
<1>3. /\ Left(regions[at]) \in Region /\ OnGranule(Left(regions[at]))
      /\ \A a \in Nat : In(a, Left(regions[at])) <=> In(a, regions[at]) /\ ~InCut(a)
  BY <1>1, <1>2, LeftEntry
<1>4. PICK n \in Nat : n = Len(regions)
  BY <1>1
<1>5. PICK k \in 1 .. n : k = at
  BY <1>1, <1>2, <1>4
<1>6. PICK e \in Region : e = Left(regions[k]) /\ OnGranule(e)
                          /\ \A a \in Nat : In(a, e) <=> In(a, regions[k]) /\ ~InCut(a)
  BY <1>3, <1>5
<1>7. /\ regions' \in Seq(Region) /\ Len(regions') = n
      /\ \A j \in 1 .. n : regions'[j] = IF j = k THEN e ELSE regions[j]
  BY <1>1, <1>2, <1>4, <1>5, <1>6, ExceptSeq
<1>8. Len(regions') < MaxRegions /\ at' \in 1 .. Len(regions') + 1 /\ at' = k + 1
  BY <1>1, <1>2, <1>4, <1>5, <1>7
<1>9. \A j \in 1 .. n : \A a \in Nat : In(a, regions'[j]) => In(a, regions[j])
  BY <1>6, <1>7
<1>11. \A j \in 1 .. Len(regions') : OnGranule(regions'[j])
  BY <1>1, <1>4, <1>6, <1>7
<1>12. \A j \in 1 .. at' - 1 : \A a \in Nat : In(a, regions'[j]) => ~InCut(a)
  <2>1. \A j \in 1 .. at' - 1 : j = k \/ j \in 1 .. k - 1
    BY <1>8
  <2>2. \A j \in 1 .. k - 1 : j \in 1 .. n /\ j # k
    OBVIOUS
  <2> QED BY <1>1, <1>5, <1>6, <1>7, <2>1, <2>2
<1>13. \A j \in 1 .. Len(regions') : \E i \in 1 .. Len(regions) :
           \A a \in Nat : In(a, regions'[j]) => In(a, regions[i])
  BY <1>4, <1>7, <1>9
<1>14. \A i \in 1 .. Len(regions) : \A a \in Nat :
           In(a, regions[i]) /\ ~InCut(a) => \E j \in 1 .. Len(regions') : In(a, regions'[j])
  BY <1>4, <1>6, <1>7
<1>15. \A i, j \in 1 .. Len(regions') : i # j => \A a \in Nat :
           In(a, regions'[i]) /\ In(a, regions'[j]) =>
             \E p, q \in 1 .. Len(regions) : p # q /\ In(a, regions[p]) /\ In(a, regions[q])
  BY <1>4, <1>7, <1>9
<1> QED BY <1>1, <1>2, <1>7, <1>8, <1>11, <1>12, <1>13, <1>14, <1>15, EntriesKeep

\* An entry becomes two, or the table is full and the boot stops.
LEMMA StepSplitEntry ==
  ASSUME BInv, SplitEntry
  PROVE  BInv'
<1>1. /\ virtual \in BOOLEAN /\ cut \in Cut /\ CutOnGranule /\ pc = "remove"
      /\ regions \in Seq(Region) /\ Len(regions) \in Nat /\ Len(regions) < MaxRegions
      /\ at \in 1 .. Len(regions) /\ MaxRegions \in Nat
      /\ \A j \in 1 .. Len(regions) : regions[j] \in Region /\ OnGranule(regions[j])
      /\ \A j \in 1 .. at - 1 : \A a \in Nat : In(a, regions[j]) => ~InCut(a)
      /\ UNCHANGED <<virtual, cut, descs, objs, swapper, taken, memory, overlap>>
  BY ExamineFacts DEF SplitEntry
<1>2. CASE Full
  <2>1. pc' = "PANIC" /\ regions' = regions /\ at' = at
    BY <1>2 DEF SplitEntry
  <2>2. TInv'
    BY <1>1, <2>1 DEF BInv, TInv, Region
  <2>3. GranuleInv' /\ PassedInv' /\ SoundInv'
    BY <1>1, <2>1 DEF BInv, GranuleInv, OnGranule, CutOnGranule, PassedInv, SoundInv
  <2>a. \A a : InCut(a)' <=> InCut(a)
    BY <1>1 DEF InCut
  <2>4. ExactInv'
    BY <1>1, <2>1, <2>a DEF BInv, ExactInv
  <2>5. ObjectsInv'
    BY <1>1, <2>1, <2>a DEF BInv, ObjectsInv
  <2>6. SwapperInv'
    BY <1>1, <2>1 DEF BInv, SwapperInv
  <2>7. ChunkInv'
    BY <1>1, <2>1 DEF BInv, ChunkInv
  <2> QED BY <2>2, <2>3, <2>4, <2>5, <2>6, <2>7 DEF BInv
<1>3. CASE ~Full
  <2> DEFINE mid == [regions EXCEPT ![at].end = cut.low - 1]
  <2>1. /\ pc' = pc /\ at' = at + 1 /\ Splits(regions[at])
        /\ regions' = InsertAt(mid, at + 1, Upper(regions[at]))
        /\ Len(regions) < MaxRegions - 1
    BY <1>1, <1>3 DEF SplitEntry, Full
  <2>2. PICK n \in Nat : n = Len(regions)
    BY <1>1
  <2>3. PICK k \in 1 .. n : k = at
    BY <1>1, <2>2
  <2>4. PICK l \in Region : /\ l = [regions[k] EXCEPT !.end = cut.low - 1] /\ OnGranule(l)
                            /\ \A a \in Nat : In(a, l) <=> In(a, regions[k]) /\ a < cut.low
    BY <1>1, <2>1, <2>2, <2>3, SplitEntries
  <2>5. PICK u \in Region : /\ u = Upper(regions[k]) /\ OnGranule(u)
                            /\ \A a \in Nat : In(a, u) <=> In(a, regions[k]) /\ a > cut.high
    BY <1>1, <2>1, <2>2, <2>3, SplitEntries
  <2>6. /\ \A a \in Nat : InCut(a) <=> a >= cut.low /\ a <= cut.high
        /\ cut.low \in Nat /\ cut.high \in Nat /\ cut.low <= cut.high + 1
    BY <1>1, <2>1, <2>2, <2>3, SplitEntries, CutFields
  <2>7. /\ mid \in Seq(Region) /\ Len(mid) = n
        /\ \A j \in 1 .. n : mid[j] = IF j = k THEN l ELSE regions[j]
    <3>1. mid = [regions EXCEPT ![k] = l]
      BY <2>3, <2>4
    <3> HIDE DEF mid
    <3> QED BY <1>1, <2>2, <3>1, ExceptSeq
  <2> HIDE DEF mid
  <2>8. regions' = InsertAt(mid, k + 1, u) /\ k + 1 \in 1 .. Len(mid) + 1
    BY <2>1, <2>3, <2>5, <2>7
  <2>9. /\ regions' \in Seq(Region) /\ Len(regions') = n + 1
        /\ \A j \in 1 .. n + 1 : regions'[j] = IF j < k + 1 THEN mid[j] ELSE IF j = k + 1 THEN u ELSE mid[j - 1]
    <3>1. PICK i \in 1 .. Len(mid) + 1 : i = k + 1
      BY <2>8
    <3>2. /\ InsertAt(mid, i, u) \in Seq(Region) /\ Len(InsertAt(mid, i, u)) = Len(mid) + 1
          /\ \A j \in 1 .. Len(mid) + 1 :
               InsertAt(mid, i, u)[j] = IF j < i THEN mid[j] ELSE IF j = i THEN u ELSE mid[j - 1]
      <4>1. mid \in Seq(Region)
        BY <2>7
      <4> QED BY <4>1, InsertAtElems
    <3>3. regions' = InsertAt(mid, i, u)
      BY <2>8, <3>1
    <3> QED BY <2>7, <3>1, <3>2, <3>3
  <2>10. \A j \in 1 .. n + 1 : /\ j < k => regions'[j] = regions[j] /\ j \in 1 .. n
                               /\ j = k => regions'[j] = l
                               /\ j = k + 1 => regions'[j] = u
                               /\ j > k + 1 => regions'[j] = regions[j - 1] /\ j - 1 \in 1 .. n
    BY <2>3, <2>7, <2>9
  <2> DEFINE f(x) == IF x <= k THEN x ELSE x - 1
  <2>11. \A j \in 1 .. n + 1 : f(j) \in 1 .. n
    BY <2>3
  <2>12. \A i, j \in 1 .. n + 1 : i # j /\ f(i) = f(j) => (i = k /\ j = k + 1) \/ (i = k + 1 /\ j = k)
    BY <2>3
  <2>13. \A j \in 1 .. n + 1 : \A a \in Nat : In(a, regions'[j]) => In(a, regions[f(j)])
    <3> SUFFICES ASSUME NEW j \in 1 .. n + 1, NEW a \in Nat, In(a, regions'[j])
                 PROVE  In(a, regions[f(j)])
      OBVIOUS
    <3>1. CASE j < k
      BY <2>3, <2>10, <3>1
    <3>2. CASE j = k
      BY <2>3, <2>4, <2>10, <3>2
    <3>3. CASE j = k + 1
      BY <2>3, <2>5, <2>10, <3>3
    <3>4. CASE j > k + 1
      BY <2>3, <2>10, <3>4
    <3> QED BY <2>3, <3>1, <3>2, <3>3, <3>4
  <2> HIDE DEF f
  <2>14. Len(regions') < MaxRegions /\ at' \in 1 .. Len(regions') + 1 /\ at' = k + 1
    BY <1>1, <2>1, <2>2, <2>3, <2>9
  <2>15. \A j \in 1 .. Len(regions') : OnGranule(regions'[j])
    <3> SUFFICES ASSUME NEW j \in 1 .. n + 1 PROVE OnGranule(regions'[j])
      BY <2>9
    <3>1. j < k \/ j = k \/ j = k + 1 \/ j > k + 1
      BY <2>3
    <3> QED BY <1>1, <2>2, <2>4, <2>5, <2>10, <3>1
  <2>16. \A j \in 1 .. at' - 1 : \A a \in Nat : In(a, regions'[j]) => ~InCut(a)
    <3>1. \A j \in 1 .. at' - 1 : j \in 1 .. n + 1 /\ (j = k \/ (j < k /\ j \in 1 .. at - 1))
      BY <2>3, <2>14
    <3>2. \A a \in Nat : In(a, l) => ~InCut(a)
      BY <2>4, <2>6
    <3> QED BY <1>1, <2>10, <3>1, <3>2
  <2>17. \A j \in 1 .. Len(regions') : \E i \in 1 .. Len(regions) :
             \A a \in Nat : In(a, regions'[j]) => In(a, regions[i])
    BY <2>2, <2>9, <2>11, <2>13
  <2>18. \A i \in 1 .. Len(regions) : \A a \in Nat :
             In(a, regions[i]) /\ ~InCut(a) => \E j \in 1 .. Len(regions') : In(a, regions'[j])
    <3> SUFFICES ASSUME NEW i \in 1 .. n, NEW a \in Nat, In(a, regions[i]), ~InCut(a)
                 PROVE  \E j \in 1 .. n + 1 : In(a, regions'[j])
      BY <2>2, <2>9
    <3>1. CASE i < k
      <4>1. i \in 1 .. n + 1 /\ regions'[i] = regions[i]
        BY <2>10, <3>1
      <4> QED BY <4>1
    <3>2. CASE i > k
      <4>1. i + 1 \in 1 .. n + 1 /\ i + 1 > k + 1 /\ (i + 1) - 1 = i
        BY <2>3, <3>2
      <4>2. regions'[i + 1] = regions[i]
        BY <2>10, <4>1
      <4> QED BY <4>1, <4>2
    <3>3. CASE i = k
      <4>1. In(a, l) \/ In(a, u)
        BY <2>4, <2>5, <2>6, <3>3
      <4>2. k \in 1 .. n + 1 /\ k + 1 \in 1 .. n + 1
        BY <2>3
      <4> QED BY <2>10, <4>1, <4>2
    <3> QED BY <2>3, <3>1, <3>2, <3>3
  <2>19. \A i, j \in 1 .. Len(regions') : i # j => \A a \in Nat :
             In(a, regions'[i]) /\ In(a, regions'[j]) =>
               \E p, q \in 1 .. Len(regions) : p # q /\ In(a, regions[p]) /\ In(a, regions[q])
    <3> SUFFICES ASSUME NEW i \in 1 .. n + 1, NEW j \in 1 .. n + 1, i # j, NEW a \in Nat,
                        In(a, regions'[i]), In(a, regions'[j])
                 PROVE  \E p, q \in 1 .. n : p # q /\ In(a, regions[p]) /\ In(a, regions[q])
      BY <2>2, <2>9
    <3>1. f(i) # f(j)
      <4>1. SUFFICES ASSUME f(i) = f(j) PROVE FALSE
        OBVIOUS
      <4>2. (i = k /\ j = k + 1) \/ (i = k + 1 /\ j = k)
        BY <2>12, <4>1
      <4>3. In(a, l) /\ In(a, u)
        BY <2>10, <4>2
      <4> QED BY <2>4, <2>5, <2>6, <4>3
    <3> QED BY <2>11, <2>13, <3>1
  <2> QED BY <1>1, <2>1, <2>9, <2>14, <2>15, <2>16, <2>17, <2>18, <2>19, EntriesKeep
<1> QED BY <1>2, <1>3

\* The loop has passed all entries: the chunk is out of the table and of memory.
LEMMA StepRemoved ==
  ASSUME BInv, Removed
  PROVE  BInv'
<1>1. /\ pc = "remove" /\ at > Len(regions) /\ memory' = memory \ (cut.low .. cut.high)
      /\ pc' = cut.next /\ cut' = NULL /\ at' = 1
      /\ UNCHANGED <<virtual, regions, descs, objs, swapper, taken, overlap>>
  BY DEF Removed
<1>2. /\ cut \in Cut /\ cut # NULL /\ cut.low \in Nat /\ cut.high \in Nat
      /\ cut.next \in {"scan", "objects"}
  BY <1>1, CutIsNotNull DEF BInv, TInv, Cut
<1>3. \A a \in Nat : InCut(a) <=> a \in cut.low .. cut.high
  BY <1>2 DEF InCut
<1>4. \A a : ~(InCut(a)')
  BY <1>1 DEF InCut
<1>5. Len(regions) \in Nat /\ \A j \in 1 .. Len(regions) : j \in 1 .. at - 1
  BY <1>1, LenProperties DEF BInv, TInv
<1>6. TInv'
  <2>1. at' \in 1 .. Len(regions') + 1
    BY <1>1, <1>5
  <2> QED BY <1>1, <1>2, <2>1 DEF BInv, TInv, Region
<1>7. GranuleInv'
  BY <1>1 DEF BInv, GranuleInv, OnGranule
<1>8. PassedInv'
  BY <1>1, <1>2 DEF PassedInv
<1>9. SoundInv'
  BY <1>1, <1>3, <1>5 DEF BInv, SoundInv, PassedInv
<1>10. ExactInv'
  <2>1. \A a \in memory' : a \in memory /\ ~InCut(a)
    BY <1>1, <1>3 DEF BInv, TInv
  <2> QED BY <1>1, <2>1 DEF BInv, ExactInv
<1>11. ObjectsInv'
  <2>1. \A o \in objs : o.base \in Nat /\ o.end \in Nat
    BY ObjectsAssumption DEF BInv, TInv
  <2>2. \A o \in objs : \A a \in o.base .. o.end - 1 : a \in Nat /\ (a \notin memory \/ InCut(a))
    BY <2>1 DEF BInv, ObjectsInv
  <2>3. \A o \in objs : \A a \in o.base .. o.end - 1 : a \notin memory'
    BY <1>1, <1>3, <2>2
  <2>4. pc' = "scan" => objs' = {}
    BY <1>1 DEF BInv, ObjectsInv
  <2> QED BY <1>1, <1>2, <2>3, <2>4 DEF ObjectsInv
<1>12. SwapperInv'
  BY <1>1, <1>2 DEF BInv, SwapperInv
<1>13. ChunkInv'
  BY <1>1, <1>2 DEF BInv, ChunkInv
<1> QED BY <1>6, <1>7, <1>8, <1>9, <1>10, <1>11, <1>12, <1>13 DEF BInv

-----------------------------------------------------------------------------
(***************************************************************************)
(* The calls of sys$remove_chunk                                           *)
(***************************************************************************)

\* What holds outside sys$remove_chunk and before sys$bootstrap has found a chunk.
LEMMA NotRemoving ==
  ASSUME BInv, pc \in {"scan", "objects", "swapper", "bootstrap"}
  PROVE  /\ virtual \in BOOLEAN /\ cut = NULL /\ taken = NULL
         /\ regions \in Seq(Region) /\ Len(regions) \in Nat
         /\ DOMAIN regions = 1 .. Len(regions) /\ MaxRegions \in Nat \ {0}
         /\ \A j \in 1 .. Len(regions) : regions[j] \in Region /\ OnGranule(regions[j])
         /\ \A a : ~InCut(a)
<1>1. virtual \in BOOLEAN /\ cut = NULL /\ regions \in Seq(Region) /\ taken = NULL
  BY DEF BInv, TInv, ChunkInv
<1>2. /\ Len(regions) \in Nat /\ DOMAIN regions = 1 .. Len(regions)
      /\ \A j \in 1 .. Len(regions) : regions[j] \in Region
  BY <1>1, LenProperties, ElementOfSeq
<1> QED BY <1>1, <1>2, RegionsAssumption DEF BInv, GranuleInv, InCut

\* Calling sys$remove_chunk keeps BInv if the chunk is on granules and takes the objects
\* that are counted as removed.
LEMMA StepCall ==
  ASSUME BInv, NEW low, NEW high, NEW next \in {"scan", "objects"}, pc \in {"scan", "objects"},
         RemoveChunk(low, high, next), UNCHANGED <<virtual, swapper, taken, overlap>>,
         low \in Nat, high \in Nat, low <= high + 1,
         low \in Mult(Granule[virtual]), high + 1 \in Mult(Granule[virtual]),
         objs' \subseteq Objects[virtual], next = "scan" => objs' = {},
         \A o \in objs' \ objs : \A a \in o.base .. o.end - 1 : low <= a /\ a <= high
  PROVE  BInv'
<1>1. /\ virtual \in BOOLEAN /\ cut = NULL /\ taken = NULL
      /\ regions \in Seq(Region) /\ Len(regions) \in Nat
      /\ \A a : ~InCut(a)
  BY NotRemoving
<1>2. /\ cut' = [low |-> low, high |-> high, next |-> next] /\ at' = 1 /\ pc' = "remove"
      /\ regions' = regions /\ memory' = memory
  BY DEF RemoveChunk
<1>3. cut' \in Cut /\ cut'.low = low /\ cut'.high = high /\ cut'.next = next
  BY <1>2 DEF Cut
<1>4. \A a : InCut(a)' <=> low <= a /\ a <= high
  BY <1>3, CutIsNotNull DEF InCut
<1>5. TInv'
  <2>1. at' \in 1 .. Len(regions') + 1
    BY <1>1, <1>2
  <2>2. cut' \in Cut \union {NULL}
    BY <1>3
  <2> QED BY <1>2, <1>3, <2>1, <2>2 DEF BInv, TInv, Region, Cut
<1>6. GranuleInv'
  BY <1>2, <1>3 DEF BInv, GranuleInv, OnGranule, CutOnGranule
<1>7. PassedInv'
  BY <1>2 DEF PassedInv
<1>8. SoundInv'
  BY <1>2 DEF BInv, SoundInv
<1>9. ExactInv'
  BY <1>1, <1>2 DEF BInv, ExactInv
<1>10. ObjectsInv'
  <2>1. \A o \in objs' : \A a \in o.base .. o.end - 1 : a \notin memory \/ InCut(a)'
    BY <1>1, <1>4 DEF BInv, ObjectsInv
  <2> QED BY <1>2, <1>3, <2>1 DEF ObjectsInv
<1>11. SwapperInv'
  BY <1>2 DEF BInv, SwapperInv
<1>12. ChunkInv'
  BY <1>1, <1>2 DEF ChunkInv
<1> QED BY <1>5, <1>6, <1>7, <1>8, <1>9, <1>10, <1>11, <1>12 DEF BInv

\* A descriptor is a region on granules, of two bytes or more.
LEMMA DescriptorFacts ==
  ASSUME virtual \in BOOLEAN, NEW d \in Descriptors
  PROVE  /\ d = [base |-> d.base, end |-> d.end] /\ d.base \in Nat /\ d.end \in Nat /\ d.base < d.end
         /\ d.base \in Mult(Granule[virtual]) /\ d.end + 1 \in Mult(Granule[virtual])
         /\ d.end + 1 <= MemEnd[virtual] /\ d \in Region /\ OnGranule(d)
<1> DEFINE g == Granule[virtual]
           E == MemEnd[virtual]
           n == E \div g
<1>1. g \in Nat \ {0, 1} /\ E \in Nat
  BY Sizes
<1>2. n \in Nat /\ E = g * n + (E % g) /\ E % g \in Nat
  <2> HIDE DEF g, E
  <2> QED BY <1>1
<1>3. PICK i \in 0 .. n : \E j \in 1 .. n : d = [base |-> g * i, end |-> g * j - 1] /\ d.base < d.end
  BY DEF Descriptors
<1>4. PICK j \in 1 .. n : d = [base |-> g * i, end |-> g * j - 1] /\ d.base < d.end
  BY <1>3
<1> HIDE DEF g, E, n
<1>5. PICK m \in Nat : n = j + m
  <2>1. n - j \in Nat /\ n = j + (n - j)
    BY <1>2
  <2> QED BY <2>1
<1>6. i \in Nat /\ j \in Nat /\ g * i \in Nat /\ g * j \in Nat /\ g * m \in Nat
  BY <1>1, <1>2
<1>7. g * n = g * j + g * m
  BY <1>1, <1>2, <1>5
<1>8. g * j <= E
  BY <1>1, <1>2, <1>6, <1>7
<1>9. PICK x \in Nat : x = g * i
  BY <1>6
<1>10. PICK y \in Nat : y = g * j
  BY <1>6
<1>11. x \in Mult(g) /\ y \in Mult(g)
  BY <1>6, <1>9, <1>10 DEF Mult
<1>12. d = [base |-> x, end |-> y - 1] /\ d.base = x /\ d.end = y - 1 /\ x < y - 1
  BY <1>4, <1>9, <1>10
<1>13. (y - 1) + 1 = y /\ y <= E /\ y - 1 \in Nat /\ x \in 0 .. E /\ y - 1 \in 0 .. E - 1
  BY <1>1, <1>8, <1>10, <1>12
<1>14. d \in Region
  BY <1>12, <1>13, RegionType DEF E
<1>15. OnGranule(d)
  BY <1>11, <1>12, <1>13 DEF OnGranule, g
<1>16. d.base \in Nat /\ d.end \in Nat /\ d.base < d.end /\ d.end + 1 <= E /\ d.end + 1 = y
  BY <1>12, <1>13
<1> QED BY <1>11, <1>12, <1>14, <1>15, <1>16 DEF g, E

\* A page boundary is a granule boundary.
LEMMA PageOnGranule ==
  ASSUME virtual \in BOOLEAN, NEW x \in Mult(Page)
  PROVE  x \in Mult(Granule[virtual]) /\ x \in Nat
<1>1. x \in Mult(Granule[virtual])
  BY Sizes, MultOfMult
<1>2. PICK k \in Nat : x = Page * k
  BY DEF Mult
<1>3. Page \in Nat
  BY Sizes
<1>4. Page * k \in Nat
  BY <1>3
<1> QED BY <1>1, <1>2, <1>4

\* The first pages and the end of the address space are page boundaries.
LEMMA TopOnPage ==
  ASSUME virtual \in BOOLEAN
  PROVE  0 \in Mult(Page) /\ Page \in Mult(Page) /\ Top \in Mult(Page)
<1>1. Page \in Nat \ {0} /\ Top \in Nat /\ Top % Page = 0
  BY Sizes
<1> DEFINE q == Top \div Page
<1>2. q \in Nat /\ Top = Page * q + (Top % Page)
  BY <1>1
<1> HIDE DEF q
<1>3. Top = Page * q /\ 0 = Page * 0 /\ Page = Page * 1
  BY <1>1, <1>2
<1> QED BY <1>2, <1>3 DEF Mult

\* A descriptor of the type that is excepted, that of all addresses included:
\* sys$remove_chunk is called for it.
LEMMA StepExcept ==
  ASSUME BInv, NEW d \in Excepted, Except(d)
  PROVE  BInv'
<1>1. /\ pc = "scan" /\ RemoveChunk(d.base, d.end, "scan")
      /\ UNCHANGED <<virtual, objs, swapper, taken, overlap>>
  BY DEF Except
<1>2. virtual \in BOOLEAN
  BY DEF BInv, TInv
<1>3. /\ d.base \in Nat /\ d.end \in Nat /\ d.base <= d.end + 1
      /\ d.base \in Mult(Granule[virtual]) /\ d.end + 1 \in Mult(Granule[virtual])
  <2>1. CASE d \in Descriptors
    <3>1. /\ d.base \in Nat /\ d.end \in Nat /\ d.base < d.end
          /\ d.base \in Mult(Granule[virtual]) /\ d.end + 1 \in Mult(Granule[virtual])
      BY <1>2, <2>1, DescriptorFacts
    <3> QED BY <3>1
  <2>2. CASE d = [base |-> 0, end |-> Top - 1]
    <3>1. Top - 1 \in Nat /\ (Top - 1) + 1 = Top
      BY <1>2, Sizes
    <3>2. 0 \in Mult(Granule[virtual]) /\ Top \in Mult(Granule[virtual])
      BY <1>2, TopOnPage, PageOnGranule
    <3> QED BY <2>2, <3>1, <3>2
  <2> QED BY <2>1, <2>2 DEF Excepted
<1>4. objs' = {}
  BY <1>1 DEF BInv, ObjectsInv
<1> QED BY <1>1, <1>3, <1>4, StepCall

\* The descriptors are read; virtual memory gets its guard page.
LEMMA StepGuard ==
  ASSUME BInv, Guard
  PROVE  BInv'
<1>1. /\ pc = "scan" /\ UNCHANGED <<virtual, descs, objs, swapper, taken, overlap>>
  BY DEF Guard
<1>2. virtual \in BOOLEAN /\ Page \in Nat \ {0} /\ objs = {}
  BY <1>1, Sizes DEF BInv, TInv, ObjectsInv
<1>3. CASE virtual
  <2>1. RemoveChunk(0, Page - 1, "objects")
    BY <1>3 DEF Guard
  <2>2. 0 \in Nat /\ Page - 1 \in Nat /\ 0 <= (Page - 1) + 1 /\ (Page - 1) + 1 = Page
    BY <1>2
  <2>3. 0 \in Mult(Granule[virtual]) /\ (Page - 1) + 1 \in Mult(Granule[virtual])
    BY <1>2, <2>2, TopOnPage, PageOnGranule
  <2>4. PICK high \in Nat : high = Page - 1
    BY <2>2
  <2>5. /\ /\ RemoveChunk(0, high, "objects") /\ high + 1 \in Mult(Granule[virtual])
        /\ 0 <= high + 1
    BY <2>1, <2>2, <2>3, <2>4
  <2> QED BY <1>1, <1>2, <2>3, <2>5, StepCall
<1>4. CASE ~virtual
  <2>1. pc' = "objects" /\ UNCHANGED <<regions, cut, at, memory>>
    BY <1>4 DEF Guard
  <2>2. TInv'
    BY <1>1, <2>1 DEF BInv, TInv, Region
  <2>3. GranuleInv' /\ PassedInv' /\ SoundInv'
    BY <1>1, <2>1 DEF BInv, GranuleInv, OnGranule, CutOnGranule, PassedInv, SoundInv
  <2>a. \A a : InCut(a)' <=> InCut(a)
    BY <2>1 DEF InCut
  <2>4. ExactInv'
    BY <1>1, <2>1, <2>a DEF BInv, ExactInv
  <2>5. ObjectsInv'
    BY <1>1, <2>1, <2>a DEF BInv, ObjectsInv
  <2>6. SwapperInv'
    BY <1>1, <2>1 DEF BInv, SwapperInv
  <2>7. ChunkInv'
    BY <1>1, <2>1 DEF BInv, ChunkInv
  <2> QED BY <2>2, <2>3, <2>4, <2>5, <2>6, <2>7 DEF BInv
<1> QED BY <1>3, <1>4

\* The byte before an address, with the wrap-around at address 0.
LEMMA MinusOne ==
  ASSUME virtual \in BOOLEAN, NEW p \in Nat, p < Top
  PROVE  Minus(p, 1) = IF p = 0 THEN Top - 1 ELSE p - 1
<1>1. Top \in Nat \ {0}
  BY Sizes
<1>2. PICK a \in Nat : a = p + Top - 1
  <2>1. p + Top - 1 \in Nat
    BY <1>1
  <2> QED BY <2>1
<1>3. Minus(p, 1) = a % Top
  BY <1>2 DEF Minus
<1>4. /\ a < Top => a % Top = a
      /\ Top <= a /\ a < 2 * Top => a % Top = a - Top
  BY <1>1, Modulo
<1>5. p = 0 => a < Top /\ a = Top - 1
  BY <1>1, <1>2
<1>6. p # 0 => Top <= a /\ a < 2 * Top /\ a - Top = p - 1
  BY <1>1, <1>2
<1> QED BY <1>3, <1>4, <1>5, <1>6

\* sys$page_round_up does not wrap around below the last page.
LEMMA RoundUp ==
  ASSUME virtual \in BOOLEAN, NEW a \in Nat, a + Page <= Top
  PROVE  /\ PageRoundUp(a) \in Mult(Page) /\ PageRoundUp(a) \in Nat
         /\ a <= PageRoundUp(a) /\ PageRoundUp(a) < Top
<1>1. Top \in Nat \ {0} /\ Page \in Nat \ {0}
  BY Sizes
<1>2. PICK x \in Nat : x = a + Page - 1 /\ x < Top
  <2>1. a + Page - 1 \in Nat /\ a + Page - 1 < Top
    BY <1>1
  <2> QED BY <2>1
<1>3. x % Top = x
  BY <1>1, <1>2, Modulo
<1>4. PageRoundUp(a) = PageRoundDown(x)
  BY <1>2, <1>3 DEF PageRoundUp
<1>5. /\ PageRoundDown(x) \in Mult(Page) /\ PageRoundDown(x) \in Nat
      /\ PageRoundDown(x) <= x /\ x < PageRoundDown(x) + Page
  BY RoundDown
<1>6. a <= PageRoundDown(x) /\ PageRoundDown(x) < Top
  BY <1>1, <1>2, <1>5
<1> QED BY <1>4, <1>5, <1>6

\* What is removed for an object ends on pages and holds all its bytes but the last: an
\* end that is the first byte of a page is rounded to itself.
LEMMA ObjectBounds ==
  ASSUME virtual \in BOOLEAN, NEW o \in Objects[virtual]
  PROVE  LET low  == PageRoundDown(o.base)
             high == ObjectEnd(o)
         IN  /\ low \in Nat /\ high \in Nat /\ low <= high + 1
             /\ low \in Mult(Granule[virtual]) /\ high + 1 \in Mult(Granule[virtual])
             /\ \A a \in o.base .. o.end - 1 : low <= a /\ a <= high
<1>1. o.base \in Nat /\ o.end \in Nat /\ o.base <= o.end /\ o.end + Page <= Top
  BY ObjectsAssumption
<1>2. PICK low \in Nat : low = PageRoundDown(o.base) /\ low \in Mult(Page) /\ low <= o.base
  BY <1>1, RoundDown
<1>3. PICK p \in Nat : p = PageRoundUp(o.end) /\ p \in Mult(Page) /\ o.end <= p /\ p < Top
  BY <1>1, RoundUp
<1>4. Top \in Nat \ {0}
  BY Sizes
<1>5. ObjectEnd(o) = IF p = 0 THEN Top - 1 ELSE p - 1
  BY <1>3, MinusOne DEF ObjectEnd
<1>6. PICK high \in Nat : high = ObjectEnd(o) /\ (high + 1 = Top \/ high + 1 = p) /\ p - 1 <= high
  <2>1. p = 0 => Top - 1 \in Nat /\ (Top - 1) + 1 = Top /\ p - 1 <= Top - 1
    BY <1>3, <1>4
  <2>2. p # 0 => p - 1 \in Nat /\ (p - 1) + 1 = p
    BY <1>3
  <2> QED BY <1>5, <2>1, <2>2
<1>7. low <= high + 1 /\ \A a \in o.base .. o.end - 1 : low <= a /\ a <= high
  BY <1>1, <1>2, <1>3, <1>6
<1>8. low \in Mult(Granule[virtual]) /\ high + 1 \in Mult(Granule[virtual])
  BY <1>2, <1>3, <1>6, TopOnPage, PageOnGranule
<1> QED BY <1>2, <1>6, <1>7, <1>8

\* An object of the boot image is removed.
LEMMA StepRemoveObject ==
  ASSUME BInv, NEW o \in Objects[virtual], RemoveObject(o)
  PROVE  BInv'
<1>1. /\ pc = "objects" /\ RemoveChunk(PageRoundDown(o.base), ObjectEnd(o), "objects")
      /\ objs' = objs \union {o}
      /\ UNCHANGED <<virtual, swapper, taken, overlap>>
  BY DEF RemoveObject
<1>2. PICK low \in Nat : low = PageRoundDown(o.base)
  BY ObjectBounds DEF BInv, TInv
<1>3. PICK high \in Nat : high = ObjectEnd(o)
  BY ObjectBounds DEF BInv, TInv
<1>4. /\ low <= high + 1
      /\ low \in Mult(Granule[virtual]) /\ high + 1 \in Mult(Granule[virtual])
      /\ \A a \in o.base .. o.end - 1 : low <= a /\ a <= high
  BY <1>2, <1>3, ObjectBounds DEF BInv, TInv
<1>5. objs' \subseteq Objects[virtual] /\ \A x \in objs' \ objs : x = o
  BY <1>1 DEF BInv, TInv
<1>6. RemoveChunk(low, high, "objects")
  BY <1>1, <1>2, <1>3
<1>7. \A x \in objs' \ objs : \A a \in x.base .. x.end - 1 : low <= a /\ a <= high
  BY <1>4, <1>5
<1> QED BY <1>1, <1>4, <1>5, <1>6, <1>7, StepCall

-----------------------------------------------------------------------------
(***************************************************************************)
(* sys$find_memory_region adds a region                                    *)
(***************************************************************************)

\* The descriptor d meets the entry r.
Meets(r, d) == Tops(r, d) \/ Bottoms(r, d) \/ Inside(r, d)

\* An entry that a descriptor meets shares an address with it, and grows by addresses of
\* the descriptor at most.
LEMMA GrownEntry ==
  ASSUME virtual \in BOOLEAN, NEW r \in Region, OnGranule(r), NEW d \in Descriptors, Meets(r, d)
  PROVE  /\ Grown(r, d) \in Region /\ OnGranule(Grown(r, d))
         /\ \A a \in Nat : In(a, Grown(r, d)) => In(a, r) \/ In(a, d)
         /\ \E a \in Nat : In(a, r) /\ In(a, d)
<1> DEFINE b == r.base
           e == r.end
           E == MemEnd[virtual]
           low == d.base
           high == d.end
<1>1. /\ b \in Nat /\ e \in Nat /\ b <= E /\ e + 1 <= E /\ E \in Nat
      /\ \A x : [r EXCEPT !.end = x] = [base |-> b, end |-> x]
      /\ \A x : [r EXCEPT !.base = x] = [base |-> x, end |-> e]
  BY RegionFields, Sizes
<1>2. /\ low \in Nat /\ high \in Nat /\ low < high /\ high + 1 <= E
      /\ low \in Mult(Granule[virtual]) /\ high + 1 \in Mult(Granule[virtual])
  BY DescriptorFacts
<1>3. /\ Tops(r, d) <=> low >= b /\ low < e /\ high >= e
      /\ Bottoms(r, d) <=> low <= b /\ high <= e /\ high > b
      /\ Inside(r, d) <=> low > b /\ low < e /\ high < e /\ high > b
  BY DEF Tops, Bottoms, Inside
<1>4. \A a \in Nat : /\ In(a, r) <=> b <= a /\ a <= e
                     /\ In(a, d) <=> low <= a /\ a <= high
  BY DEF In
<1>5. /\ b \in Mult(Granule[virtual]) /\ e + 1 \in Mult(Granule[virtual])
  BY DEF OnGranule
<1>6. Grown(r, d) = IF Tops(r, d) THEN [base |-> b, end |-> high]
                    ELSE IF Bottoms(r, d) THEN [base |-> high + 1, end |-> e] ELSE r
  BY <1>1 DEF Grown
<1>7. \E a \in Nat : In(a, r) /\ In(a, d)
  <2> HIDE DEF b, e, low, high
  <2>1. Tops(r, d) \/ Inside(r, d) => In(low, r) /\ In(low, d)
    BY <1>1, <1>2, <1>3, <1>4
  <2>2. Bottoms(r, d) => In(high, r) /\ In(high, d)
    BY <1>1, <1>2, <1>3, <1>4
  <2> QED BY <1>2, <2>1, <2>2 DEF Meets
<1>8. CASE Tops(r, d)
  <2> DEFINE n == [base |-> b, end |-> high]
  <2>1. Grown(r, d) = n /\ n.base = b /\ n.end = high
    BY <1>6, <1>8
  <2>2. n \in Region
    <3>1. b \in 0 .. E /\ high \in 0 .. E - 1
      BY <1>1, <1>2
    <3> QED BY <3>1, RegionType
  <2>3. OnGranule(n)
    BY <1>2, <1>5, <2>1 DEF OnGranule
  <2> HIDE DEF n
  <2>4. \A a \in Nat : In(a, n) <=> b <= a /\ a <= high
    BY <2>1 DEF In
  <2>5. \A a \in Nat : In(a, n) => In(a, r) \/ In(a, d)
    <3> HIDE DEF b, e, low, high
    <3> QED BY <1>1, <1>2, <1>3, <1>4, <1>8, <2>4
  <2> QED BY <1>7, <2>1, <2>2, <2>3, <2>5
<1>9. CASE ~Tops(r, d) /\ Bottoms(r, d)
  <2> DEFINE n == [base |-> high + 1, end |-> e]
  <2>1. Grown(r, d) = n /\ n.base = high + 1 /\ n.end = e
    BY <1>6, <1>9
  <2>2. n \in Region
    <3>1. high + 1 \in 0 .. E /\ e \in 0 .. E - 1
      BY <1>1, <1>2
    <3> QED BY <3>1, RegionType
  <2>3. OnGranule(n)
    BY <1>2, <1>5, <2>1 DEF OnGranule
  <2> HIDE DEF n
  <2>4. \A a \in Nat : In(a, n) <=> high + 1 <= a /\ a <= e
    BY <2>1 DEF In
  <2>5. \A a \in Nat : In(a, n) => In(a, r) \/ In(a, d)
    <3> HIDE DEF b, e, low, high
    <3> QED BY <1>1, <1>2, <1>3, <1>4, <1>9, <2>4
  <2> QED BY <1>7, <2>1, <2>2, <2>3, <2>5
<1>10. CASE ~Tops(r, d) /\ ~Bottoms(r, d)
  BY <1>6, <1>7, <1>10
<1> QED BY <1>8, <1>9, <1>10

\* A descriptor grows the first entry it meets, or is appended, or the table is full.
LEMMA StepAdd ==
  ASSUME BInv, NEW d \in Descriptors, Add(d)
  PROVE  BInv'
<1>1. pc = "scan" /\ UNCHANGED <<virtual, cut, at, objs, swapper, taken>>
  BY DEF Add
<1>2. /\ virtual \in BOOLEAN /\ cut = NULL /\ taken = NULL
      /\ regions \in Seq(Region) /\ Len(regions) \in Nat
      /\ DOMAIN regions = 1 .. Len(regions) /\ MaxRegions \in Nat \ {0}
      /\ \A j \in 1 .. Len(regions) : regions[j] \in Region /\ OnGranule(regions[j])
      /\ \A a : ~InCut(a)
  BY <1>1, NotRemoving
<1>3. \A a : ~(InCut(a)')
  BY <1>1, <1>2 DEF InCut
<1>4. CASE Full
  <2>1. pc' = "PANIC" /\ UNCHANGED <<regions, memory, overlap>>
    BY <1>4 DEF Add
  <2>2. TInv'
    BY <1>1, <2>1 DEF BInv, TInv, Region
  <2>3. GranuleInv' /\ PassedInv' /\ SoundInv'
    BY <1>1, <2>1 DEF BInv, GranuleInv, OnGranule, CutOnGranule, PassedInv, SoundInv
  <2>4. ExactInv'
    BY <1>1, <1>2, <1>3, <2>1 DEF BInv, ExactInv
  <2>5. ObjectsInv'
    BY <1>1, <1>2, <1>3, <2>1 DEF BInv, ObjectsInv
  <2>6. SwapperInv'
    BY <1>1, <2>1 DEF BInv, SwapperInv
  <2>7. ChunkInv'
    BY <1>1, <1>2, <2>1 DEF ChunkInv
  <2> QED BY <2>2, <2>3, <2>4, <2>5, <2>6, <2>7 DEF BInv
<1>5. CASE ~Full
  <2>1. /\ regions' = Added(d) /\ memory' = memory \union Bytes(d) /\ pc' = "scan"
        /\ overlap' = (overlap \/ Bytes(d) \intersect memory # {})
        /\ Len(regions) < MaxRegions - 1
    BY <1>1, <1>2, <1>5 DEF Add, Full
  <2>2. /\ d \in Region /\ OnGranule(d) /\ d.base \in Nat /\ d.end \in Nat
        /\ \A a \in Nat : a \in Bytes(d) <=> In(a, d)
    BY <1>2, DescriptorFacts DEF Bytes, In
  <2>3. memory \subseteq Nat /\ Bytes(d) \subseteq Nat
    BY <2>2 DEF BInv, TInv, Bytes
  <2> DEFINE met == {j \in DOMAIN regions : Meets(regions[j], d)}
  <2>4. Added(d) = IF met = {} THEN Append(regions, d)
                   ELSE [regions EXCEPT ![Min(met)] = Grown(regions[Min(met)], d)]
    BY DEF Added, Meets
  <2>5. PICK n \in Nat : n = Len(regions)
    BY <1>2
  <2>6. /\ regions' \in Seq(Region) /\ Len(regions') \in {n, n + 1}
        /\ \A j \in 1 .. Len(regions') : OnGranule(regions'[j])
        /\ \A j \in 1 .. Len(regions') : \A a \in Nat :
             In(a, regions'[j]) => In(a, d) \/ \E i \in 1 .. n : In(a, regions[i])
        /\ met # {} => \E a \in memory : a \in Bytes(d)
        /\ met = {} => regions' = Append(regions, d)
    <3>1. CASE met = {}
      <4>1. regions' = Append(regions, d)
        BY <2>1, <2>4, <3>1
      <4>2. /\ regions' \in Seq(Region) /\ Len(regions') = n + 1
            /\ \A j \in 1 .. n + 1 : regions'[j] = IF j = n + 1 THEN d ELSE regions[j]
        BY <1>2, <2>2, <2>5, <4>1, AppendProperties
      <4>3. \A j \in 1 .. n + 1 : j = n + 1 \/ j \in 1 .. n
        OBVIOUS
      <4>4. \A j \in 1 .. n : j # n + 1
        OBVIOUS
      <4> QED BY <1>2, <2>2, <2>5, <3>1, <4>1, <4>2, <4>3, <4>4
    <3>2. CASE met # {}
      <4>1. met \subseteq Nat
        BY <1>2
      <4>2. Min(met) \in met
        BY <3>2, <4>1, MinIsLeast
      <4>3. PICK k \in 1 .. n : k = Min(met) /\ Meets(regions[k], d)
        BY <1>2, <2>5, <4>2
      <4>4. PICK e \in Region : /\ e = Grown(regions[k], d) /\ OnGranule(e)
                                /\ \A a \in Nat : In(a, e) => In(a, regions[k]) \/ In(a, d)
        BY <1>2, <2>5, <4>3, GrownEntry
      <4>5. regions' = [regions EXCEPT ![k] = e]
        BY <2>1, <2>4, <3>2, <4>3, <4>4
      <4>6. /\ regions' \in Seq(Region) /\ Len(regions') = n
            /\ \A j \in 1 .. n : regions'[j] = IF j = k THEN e ELSE regions[j]
        BY <1>2, <2>5, <4>5, ExceptSeq
      <4>7. \E a \in memory : a \in Bytes(d)
        <5>1. PICK a \in Nat : In(a, regions[k]) /\ In(a, d)
          BY <1>2, <2>5, <4>3, GrownEntry
        <5>2. a \in memory
          BY <2>5, <5>1 DEF BInv, SoundInv
        <5> QED BY <2>2, <5>1, <5>2
      <4> HIDE DEF met
      <4> QED BY <1>2, <2>5, <3>2, <4>4, <4>6, <4>7
    <3> QED BY <3>1, <3>2
  <2> HIDE DEF met
  <2>7. Len(regions') < MaxRegions /\ at' \in 1 .. Len(regions') + 1
    <3>1. at \in 1 .. n + 1 /\ n < MaxRegions - 1
      BY <2>1, <2>5 DEF BInv, TInv
    <3> QED BY <1>1, <1>2, <2>6, <3>1
  <2>8. TInv'
    <3>1. memory' \subseteq Nat /\ overlap' \in BOOLEAN
      BY <2>1, <2>3
    <3> QED BY <1>1, <1>2, <2>1, <2>6, <2>7, <3>1 DEF BInv, TInv, Region
  <2>9. GranuleInv'
    BY <1>1, <1>2, <2>6 DEF GranuleInv, OnGranule
  <2>10. PassedInv'
    BY <2>1 DEF PassedInv
  <2>11. SoundInv'
    BY <2>1, <2>2, <2>5, <2>6 DEF BInv, SoundInv
  <2>12. ExactInv'
    <3>1. SUFFICES ASSUME ~(overlap')
                   PROVE  /\ \A a \in memory' : \E j \in 1 .. Len(regions') : In(a, regions'[j])
                          /\ \A i, j \in 1 .. Len(regions') : i # j =>
                               \A a \in Nat : ~(In(a, regions'[i]) /\ In(a, regions'[j]))
      BY DEF ExactInv
    <3>2. ~overlap /\ \A a \in memory : a \notin Bytes(d)
      BY <2>1, <3>1
    <3>3. regions' = Append(regions, d)
      BY <2>6, <3>2
    <3>4. /\ Len(regions') = n + 1 /\ regions'[n + 1] = d
          /\ \A j \in 1 .. n : regions'[j] = regions[j]
      BY <1>2, <2>2, <2>5, <3>3, AppendProperties
    <3>5. \A a \in memory : \E j \in 1 .. n : In(a, regions[j])
      BY <1>2, <2>5, <3>2 DEF BInv, ExactInv
    <3>6. \A i, j \in 1 .. n : i # j => \A a \in Nat : ~(In(a, regions[i]) /\ In(a, regions[j]))
      BY <2>5, <3>2 DEF BInv, ExactInv
    <3>7. \A i \in 1 .. n : \A a \in Nat : ~(In(a, regions[i]) /\ In(a, d))
      BY <2>2, <2>5, <3>2 DEF BInv, SoundInv
    <3>8. n + 1 \in 1 .. n + 1 /\ \A j \in 1 .. n + 1 : j = n + 1 \/ j \in 1 .. n
      OBVIOUS
    <3>9. \A j \in 1 .. n : j \in 1 .. n + 1
      OBVIOUS
    <3>10. \A a \in memory' : \E j \in 1 .. n + 1 : In(a, regions'[j])
      <4>1. \A a \in Bytes(d) : In(a, regions'[n + 1])
        BY <2>2, <2>3, <3>4
      <4> QED BY <2>1, <3>4, <3>5, <3>8, <3>9, <4>1
    <3>11. \A i, j \in 1 .. n + 1 : i # j => \A a \in Nat : ~(In(a, regions'[i]) /\ In(a, regions'[j]))
      BY <3>4, <3>6, <3>7, <3>8
    <3> QED BY <3>4, <3>10, <3>11
  <2>13. ObjectsInv'
    BY <1>1, <2>1 DEF BInv, ObjectsInv
  <2>14. SwapperInv'
    BY <1>1, <2>1 DEF BInv, SwapperInv
  <2>15. ChunkInv'
    BY <1>1, <1>2, <2>1 DEF ChunkInv
  <2> QED BY <2>8, <2>9, <2>10, <2>11, <2>12, <2>13, <2>14, <2>15 DEF BInv
<1> QED BY <1>4, <1>5

-----------------------------------------------------------------------------
(***************************************************************************)
(* The swapper's base and the first chunk                                  *)
(***************************************************************************)

\* The loop that computes the swapper's base raises it over every region.
LEMMA StepSwapper ==
  ASSUME BInv, SwapperBase \/ RaiseSwapper \/ SwapperDone
  PROVE  BInv'
<1>1. /\ pc \in {"objects", "swapper"} /\ pc' \in {"swapper", "bootstrap"}
      /\ UNCHANGED <<virtual, regions, cut, objs, taken, memory, overlap>>
  BY DEF SwapperBase, RaiseSwapper, SwapperDone
<1>2. /\ virtual \in BOOLEAN /\ cut = NULL /\ taken = NULL
      /\ Len(regions) \in Nat
      /\ \A j \in 1 .. Len(regions) : regions[j] \in Region /\ OnGranule(regions[j])
      /\ \A a : ~InCut(a)
  BY <1>1, NotRemoving
<1>3. \A a : ~(InCut(a)')
  BY <1>1, <1>2 DEF InCut
<1>4. /\ at \in 1 .. Len(regions) + 1 /\ MemEnd[virtual] \in Nat
      /\ 0 \in Mult(Granule[virtual])
  BY <1>2, Sizes, TopOnPage, PageOnGranule DEF BInv, TInv
<1>5. TInv'
  <2>1. at' \in 1 .. Len(regions') + 1
    BY <1>1, <1>2, <1>4 DEF SwapperBase, RaiseSwapper, SwapperDone
  <2> QED BY <1>1, <1>2, <2>1 DEF BInv, TInv, Region
<1>6. GranuleInv' /\ PassedInv' /\ SoundInv'
  BY <1>1, <1>2 DEF BInv, GranuleInv, OnGranule, PassedInv, SoundInv
<1>7. ExactInv'
  BY <1>1, <1>2, <1>3 DEF BInv, ExactInv
<1>8. ObjectsInv'
  BY <1>1, <1>2, <1>3 DEF BInv, ObjectsInv
<1>9. ChunkInv'
  BY <1>1, <1>2 DEF ChunkInv
<1>10. SwapperInv'
  <2>1. CASE SwapperBase
    <3>1. swapper' = 0 /\ at' = 1 /\ pc' = IF virtual THEN "bootstrap" ELSE "swapper"
      BY <2>1 DEF SwapperBase
    <3> QED BY <1>1, <1>4, <3>1 DEF SwapperInv
  <2>2. CASE RaiseSwapper
    <3>1. PICK k \in 1 .. Len(regions) : k = at /\ at' = k + 1
      BY <1>2, <1>4, <2>2 DEF RaiseSwapper
    <3>2. PICK r \in Region : r = regions[k] /\ OnGranule(r)
      BY <1>2
    <3>3. /\ pc = "swapper" /\ pc' = "swapper"
          /\ swapper' = IF swapper < r.end THEN r.end + 1 ELSE swapper
      BY <2>2, <3>1, <3>2 DEF RaiseSwapper, Above
    <3>4. /\ ~virtual /\ \A j \in 1 .. k - 1 : regions[j].end < swapper
          /\ swapper \in Nat /\ swapper <= MemEnd[virtual]
          /\ swapper \in Mult(Granule[virtual])
      BY <1>4, <3>1, <3>3 DEF BInv, SwapperInv
    <3>5. /\ r.end \in Nat /\ r.end + 1 <= MemEnd[virtual]
          /\ r.end + 1 \in Mult(Granule[virtual])
      BY <1>2, <3>2, RegionFields DEF OnGranule
    <3>6. swapper < r.end + 1 => swapper + 2 <= r.end + 1
      BY <1>2, <3>4, <3>5, Sizes, MultGap
    <3>7. /\ swapper' \in 0 .. MemEnd[virtual] /\ swapper' \in Mult(Granule[virtual])
          /\ r.end < swapper' /\ swapper <= swapper' /\ swapper' \in Nat
      BY <1>4, <3>3, <3>4, <3>5, <3>6
    <3>8. \A j \in 1 .. k - 1 : regions[j].end \in Nat
      BY <1>2, RegionFields
    <3>9. \A j \in 1 .. k - 1 : regions[j].end < swapper'
      BY <3>4, <3>7, <3>8
    <3>10. \A j \in 1 .. (k + 1) - 1 : j = k \/ j \in 1 .. k - 1
      OBVIOUS
    <3>11. \A j \in 1 .. at' - 1 : regions'[j].end < swapper'
      BY <1>1, <3>1, <3>2, <3>7, <3>9, <3>10
    <3> QED BY <1>1, <3>3, <3>4, <3>7, <3>11 DEF SwapperInv
  <2>3. CASE SwapperDone
    <3>1. /\ pc = "swapper" /\ swapper' = swapper /\ pc' = "bootstrap"
          /\ \A j \in 1 .. Len(regions) : j \in 1 .. at - 1
      BY <1>2, <1>4, <2>3 DEF SwapperDone
    <3> QED BY <1>1, <3>1 DEF BInv, SwapperInv
  <2> QED BY <2>1, <2>2, <2>3
<1> QED BY <1>5, <1>6, <1>7, <1>8, <1>9, <1>10 DEF BInv

\* The aligned part of a region that passes the test of sys$bootstrap is in the region and
\* of two pages at least, if it does not wrap around.
LEMMA FirstChunkEntry ==
  ASSUME virtual \in BOOLEAN, NEW r \in Region
  PROVE  /\ Aligned(r) \in [base : Nat, end : Nat]
         /\ Enough(Aligned(r)) /\ Aligned(r).base < (Aligned(r).end + 1) % Top =>
              /\ \A a \in Bytes(Aligned(r)) : a \in Nat /\ In(a, r)
              /\ Cardinality(Bytes(Aligned(r))) >= 2 * Page
<1>1. /\ r.base \in Nat /\ r.end \in Nat /\ r.base + Page <= Top /\ r.end + 1 + Page <= Top
      /\ Page \in Nat \ {0} /\ Top \in Nat \ {0}
  BY RegionFields, Sizes
<1>2. PICK b \in Nat : b = PageRoundUp(r.base) /\ r.base <= b /\ b < Top /\ b \in Mult(Page)
  BY <1>1, RoundUp
<1>3. PICK p \in Nat : p = PageRoundDown(r.end + 1) /\ p <= r.end + 1 /\ p < Top /\ p \in Mult(Page)
  <2>1. PICK x \in Nat : x = r.end + 1
    BY <1>1
  <2>2. PageRoundDown(x) \in Nat /\ PageRoundDown(x) <= x /\ PageRoundDown(x) \in Mult(Page)
    BY RoundDown
  <2> QED BY <1>1, <2>1, <2>2
<1>4. PICK e \in Nat : e = Minus(PageRoundDown(r.end + 1), 1) /\ e = IF p = 0 THEN Top - 1 ELSE p - 1
  <2>1. Minus(p, 1) = IF p = 0 THEN Top - 1 ELSE p - 1
    BY <1>3, MinusOne
  <2>2. (IF p = 0 THEN Top - 1 ELSE p - 1) \in Nat
    BY <1>1
  <2> QED BY <1>3, <2>1, <2>2
<1>5. PICK c \in [base : Nat, end : Nat] : c = Aligned(r) /\ c.base = b /\ c.end = e
  <2>1. Aligned(r) = [base |-> b, end |-> e]
    BY <1>2, <1>4 DEF Aligned
  <2> QED BY <2>1
<1>6. SUFFICES ASSUME Enough(c), c.base < (c.end + 1) % Top
               PROVE  /\ \A a \in Bytes(c) : a \in Nat /\ In(a, r)
                      /\ Cardinality(Bytes(c)) >= 2 * Page
  BY <1>5
<1>7. (e + 1) % Top = p
  <2>1. PICK x \in Nat : x = e + 1
    OBVIOUS
  <2>2. /\ x < Top => x % Top = x
        /\ Top <= x /\ x < 2 * Top => x % Top = x - Top
    BY <1>1, Modulo
  <2>3. CASE p = 0
    <3>1. x = Top /\ x < 2 * Top /\ x - Top = 0
      BY <1>1, <1>4, <2>1, <2>3
    <3> QED BY <2>1, <2>2, <2>3, <3>1
  <2>4. CASE p # 0
    <3>1. x = p /\ x < Top
      BY <1>3, <1>4, <2>1, <2>4
    <3> QED BY <2>1, <2>2, <3>1
  <2> QED BY <2>3, <2>4
<1>8. b < p /\ e = p - 1 /\ b <= e /\ e <= r.end /\ e < Top
  BY <1>1, <1>2, <1>3, <1>4, <1>5, <1>6, <1>7
<1>a. b + 2 <= p
  <2>1. Page # 1
    <3>1. Granule[virtual] \in Nat \ {0, 1} /\ Page % Granule[virtual] = 0
      BY Sizes
    <3>2. 1 < Granule[virtual] => 1 % Granule[virtual] = 1
      BY <3>1, Modulo
    <3> QED BY <3>1, <3>2
  <2> QED BY <1>1, <1>2, <1>3, <1>8, <2>1, MultGap
<1>9. \A a \in Bytes(c) : a \in Nat /\ In(a, r)
  BY <1>1, <1>2, <1>5, <1>8 DEF Bytes, In
<1>10. Cardinality(Bytes(c)) = e - b + 1
  <2>1. b \in Int /\ e \in Int /\ ~(b > e)
    BY <1>8
  <2>2. Cardinality(b .. e) = e - b + 1
    BY <2>1, FS_Interval
  <2> QED BY <1>5, <2>2 DEF Bytes
<1>11. e - b + 1 >= 2 * Page
  <2>1. CASE virtual
    <3>1. PICK x \in Nat : x = e + Top - (b + 1)
      <4>1. e + Top - (b + 1) \in Nat
        BY <1>1, <1>2, <1>8
      <4> QED BY <4>1
    <3>2. x % Top >= 2 * Page
      BY <1>5, <1>6, <2>1, <3>1 DEF Enough, Minus
    <3>3. /\ x < Top => x % Top = x
          /\ Top <= x /\ x < 2 * Top => x % Top = x - Top
      BY <1>1, Modulo
    <3>4. Top <= x /\ x < 2 * Top /\ x - Top = e - b - 1
      BY <1>1, <1>8, <1>a, <3>1
    <3> QED BY <1>1, <3>2, <3>3, <3>4
  <2>2. CASE ~virtual
    <3>1. PICK x \in Nat : x = e + Top - b /\ Top <= x /\ x < 2 * Top
      <4>1. e + Top - b \in Nat /\ Top <= e + Top - b /\ e + Top - b < 2 * Top
        BY <1>1, <1>2, <1>8
      <4> QED BY <4>1
    <3>2. x % Top = e - b
      <4>1. x % Top = x - Top
        BY <1>1, <3>1, Modulo
      <4> QED BY <1>1, <3>1, <4>1
    <3>3. PICK y \in Nat : y = e - b + 1 /\ y < Top
      <4>1. e - b + 1 \in Nat /\ e - b + 1 < Top
        BY <1>1, <1>3, <1>8
      <4> QED BY <4>1
    <3>4. y % Top = y
      BY <1>1, <3>3, Modulo
    <3>5. Minus(c.end, c.base) + 1 = y
      BY <1>5, <3>1, <3>2, <3>3 DEF Minus
    <3> QED BY <1>6, <2>2, <3>3, <3>4, <3>5 DEF Enough
  <2> QED BY <2>1, <2>2
<1> QED BY <1>9, <1>10, <1>11

\* Every entry stands for memory until sys$bootstrap takes one: none ends where it begins.
LEMMA CoverElems ==
  ASSUME BInv
  PROVE  /\ Len(regions) \in Nat /\ DOMAIN regions = 1 .. Len(regions)
         /\ Entries = 1 .. Len(regions)
         /\ \A j \in 1 .. Len(regions) : regions[j] \in Region /\ Bytes(regions[j]) \subseteq Nat
         /\ \A j \in 1 .. Len(regions) : \A a \in Nat : a \in Bytes(regions[j]) <=> In(a, regions[j])
         /\ \A a : a \in Cover => a \in Nat
         /\ \A a \in Nat : a \in Cover <=> \E j \in 1 .. Len(regions) : In(a, regions[j])
<1>1. virtual \in BOOLEAN /\ regions \in Seq(Region)
  BY DEF BInv, TInv
<1>2. /\ Len(regions) \in Nat /\ DOMAIN regions = 1 .. Len(regions)
      /\ \A j \in 1 .. Len(regions) : regions[j] \in Region
  BY <1>1, LenProperties, ElementOfSeq
<1>3. \A j \in 1 .. Len(regions) : regions[j].base \in Nat /\ regions[j].end \in Nat
  BY <1>1, <1>2, RegionFields
<1>4. \A j \in 1 .. Len(regions) : /\ Bytes(regions[j]) \subseteq Nat
                                   /\ \A a \in Nat : a \in Bytes(regions[j]) <=> In(a, regions[j])
  BY <1>3 DEF Bytes, In
<1>5. \A j \in 1 .. Len(regions) : regions[j].base # regions[j].end
  <2> SUFFICES ASSUME NEW j \in 1 .. Len(regions), regions[j].base = regions[j].end
               PROVE  FALSE
    OBVIOUS
  <2>1. PICK b \in Nat : b = regions[j].base
    BY <1>3
  <2>2. b \in Mult(Granule[virtual]) /\ b + 1 \in Mult(Granule[virtual])
    BY <2>1 DEF BInv, GranuleInv, OnGranule
  <2>3. b < b + 1 /\ ~(b + 2 <= b + 1)
    OBVIOUS
  <2> QED BY <1>1, <2>2, <2>3, Sizes, MultGap
<1>6. Entries = 1 .. Len(regions)
  BY <1>2, <1>5 DEF Entries
<1>7. \A a : a \in Cover <=> \E j \in 1 .. Len(regions) : a \in Bytes(regions[j])
  BY <1>6 DEF Cover
<1> QED BY <1>2, <1>4, <1>6, <1>7

\* What the invariant says of the table until sys$bootstrap takes a region.
LEMMA BeforeChunk ==
  ASSUME BInv
  PROVE  TypeOK /\ Sound /\ ExactUnlessOverlap /\ ObjectsButLastByte /\ FirstChunk /\ SwapperAbove
<1>1. TypeOK
  <2>1. \A j \in DOMAIN regions : /\ regions[j].base \in 0 .. MemEnd[virtual]
                                  /\ regions[j].end \in 0 .. MemEnd[virtual] - 1
    BY CoverElems DEF Region
  <2>2. Entries \subseteq DOMAIN regions
    BY DEF Entries
  <2> QED BY <2>1, <2>2 DEF BInv, TInv, SwapperInv, TypeOK
<1>2. Sound
  BY CoverElems DEF BInv, SoundInv, Sound
<1>3. ExactUnlessOverlap
  <2> SUFFICES ASSUME ~overlap
               PROVE  /\ memory \ Removing \subseteq Cover
                      /\ \A i, j \in Entries : i # j =>
                           Bytes(regions[i]) \intersect Bytes(regions[j]) = {}
                      /\ Taken = {}
    BY DEF ExactUnlessOverlap
  <2>1. memory \subseteq Nat /\ cut \in Cut \union {NULL} /\ taken = NULL
    BY DEF BInv, TInv, ChunkInv
  <2>2. \A a \in Nat : InCut(a) => a \in Removing
    <3>1. cut # NULL => cut.low \in Nat /\ cut.high \in Nat
      BY <2>1 DEF Cut
    <3> QED BY <3>1 DEF InCut, Removing
  <2>3. memory \ Removing \subseteq Cover
    BY <2>1, <2>2, CoverElems DEF BInv, ExactInv
  <2>4. \A i, j \in Entries : i # j => Bytes(regions[i]) \intersect Bytes(regions[j]) = {}
    BY CoverElems DEF BInv, ExactInv
  <2> QED BY <2>1, <2>3, <2>4 DEF Taken
<1>4. ObjectsButLastByte
  <2> SUFFICES ASSUME cut = NULL, NEW o \in objs PROVE Cover \intersect (o.base .. o.end - 1) = {}
    BY DEF ObjectsButLastByte
  <2>1. \A a \in o.base .. o.end - 1 : a \notin memory
    BY DEF BInv, ObjectsInv, InCut
  <2> QED BY <1>2, <2>1 DEF Sound
<1>5. FirstChunk
  BY DEF BInv, ChunkInv, FirstChunk
<1>6. SwapperAbove
  BY CoverElems DEF BInv, SwapperInv, SwapperAbove
<1> QED BY <1>1, <1>2, <1>3, <1>4, <1>5, <1>6

\* sys$bootstrap finds no region: the table stays as it is.
LEMMA StepNoChunk ==
  ASSUME BInv, pc = "bootstrap", pc' \in {"PANIC", "done"}, ~virtual => pc' # "done",
         UNCHANGED <<virtual, regions, cut, at, objs, swapper, taken, memory, overlap>>
  PROVE  BInv'
<1>1. virtual \in BOOLEAN /\ cut = NULL /\ taken = NULL /\ \A a : ~InCut(a)
  BY NotRemoving
<1>2. \A a : ~(InCut(a)')
  BY <1>1 DEF InCut
<1>3. TInv'
  BY <1>1 DEF BInv, TInv, Region
<1>4. GranuleInv' /\ PassedInv' /\ SoundInv'
  BY <1>1 DEF BInv, GranuleInv, OnGranule, PassedInv, SoundInv
<1>5. ExactInv'
  BY <1>1, <1>2 DEF BInv, ExactInv
<1>6. ObjectsInv'
  BY <1>1, <1>2 DEF BInv, ObjectsInv
<1>7. SwapperInv'
  BY DEF BInv, SwapperInv
<1>8. ChunkInv'
  BY <1>1 DEF ChunkInv
<1> QED BY <1>3, <1>4, <1>5, <1>6, <1>7, <1>8 DEF BInv

\* sys$bootstrap takes region k, which passes its test.
LEMMA StepChunk ==
  ASSUME BInv, pc = "bootstrap", pc' \in {"PANIC", "done"},
         UNCHANGED <<virtual, cut, at, objs, swapper, memory, overlap>>,
         NEW k \in 1 .. Len(regions), Enough(Aligned(regions[k])),
         taken' = regions[k], regions' = [regions EXCEPT ![k].end = regions[k].base]
  PROVE  EndInv'
<1> DEFINE n == Len(regions)
<1>1. /\ virtual \in BOOLEAN /\ cut = NULL /\ regions \in Seq(Region)
      /\ n \in Nat /\ DOMAIN regions = 1 .. n
      /\ \A j \in 1 .. n : regions[j] \in Region
  BY NotRemoving
<1>2. PICK r \in Region : r = regions[k] /\ r.base \in Nat /\ r.end \in Nat /\ r.base <= MemEnd[virtual]
  BY <1>1, RegionFields
<1>3. PICK e : e = [r EXCEPT !.end = r.base] /\ e.base = r.base /\ e.end = r.base
  <2>1. [r EXCEPT !.end = r.base] = [base |-> r.base, end |-> r.base]
    BY <1>1, RegionFields
  <2> QED BY <2>1
<1>4. regions' = [regions EXCEPT ![k] = e]
  BY <1>1, <1>2, <1>3
<1>5. /\ DOMAIN regions' = 1 .. n /\ Len(regions') = n
      /\ regions'[k] = e /\ \A j \in 1 .. n : j # k => regions'[j] = regions[j]
  <2>1. /\ DOMAIN regions' = 1 .. n
        /\ regions'[k] = e /\ \A j \in 1 .. n : j # k => regions'[j] = regions[j]
    BY <1>1, <1>4
  <2>2. Len(regions') = n
    BY <1>1, <1>4
  <2> QED BY <2>1, <2>2
<1> HIDE DEF n
<1>6. Entries' = (1 .. n) \ {k}
  <2>1. \A j \in 1 .. n : j # k => regions[j].base # regions[j].end
    BY <1>1, CoverElems DEF Entries, n
  <2>2. \A j \in 1 .. n : regions'[j].base # regions'[j].end <=> j # k
    BY <1>3, <1>5, <2>1
  <2>3. Entries' = {j \in 1 .. n : regions'[j].base # regions'[j].end}
    BY <1>5 DEF Entries
  <2> QED BY <2>2, <2>3
<1>7. \A j \in Entries' : j \in Entries /\ j # k /\ j \in 1 .. n /\ regions'[j] = regions[j]
  BY <1>5, <1>6, CoverElems DEF n
<1>8. \A a : a \in Cover' <=> \E j \in 1 .. n : j # k /\ a \in Bytes(regions[j])
  <2>1. Cover' = UNION {Bytes(regions'[j]) : j \in Entries'}
    BY DEF Cover, Bytes
  <2>2. \A a : a \in Cover' <=> \E j \in Entries' : a \in Bytes(regions'[j])
    BY <2>1
  <2> QED BY <1>5, <1>6, <2>2
<1>9. Taken' = Bytes(r) /\ taken' # NULL
  <2>1. r \in [base : Nat, end : Nat]
    BY <1>1, <1>2, Sizes DEF Region
  <2>2. taken' = r /\ r # NULL
    BY <1>2, <2>1, CutIsNotNull
  <2> QED BY <2>2 DEF Taken, Bytes
<1>10. \A a : a \in Cover <=> a \in Cover' \/ a \in Taken'
  <2>1. \A a : a \in Cover <=> \E j \in 1 .. n : a \in Bytes(regions[j])
    BY CoverElems DEF Cover, n
  <2> QED BY <1>2, <1>8, <1>9, <2>1 DEF n
<1>11. TypeOK /\ Sound /\ ExactUnlessOverlap /\ ObjectsButLastByte /\ SwapperAbove
  BY BeforeChunk
<1>12. TypeOK'
  <2>1. at' \in 1 .. Len(regions') + 1 /\ Len(regions') < MaxRegions
    BY <1>5, <1>11 DEF TypeOK, n
  <2>2. \A j \in DOMAIN regions' : regions'[j].base \in 0 .. MemEnd[virtual']
    <3>1. \A j \in 1 .. n : regions[j].base \in 0 .. MemEnd[virtual]
      BY <1>1, <1>11 DEF TypeOK
    <3>2. r.base \in 0 .. MemEnd[virtual]
      BY <1>2, <3>1 DEF n
    <3> QED BY <1>3, <1>5, <3>1, <3>2
  <2>3. \A j \in Entries' : regions'[j].end \in 0 .. MemEnd[virtual'] - 1
    BY <1>7, <1>11 DEF TypeOK
  <2>4. swapper' \in 0 .. MemEnd[virtual']
    BY <1>11 DEF TypeOK
  <2> QED BY <2>1, <2>2, <2>3, <2>4 DEF TypeOK
<1>13. Sound'
  BY <1>10, <1>11 DEF Sound
<1>14. ExactUnlessOverlap'
  <2> SUFFICES ASSUME ~overlap
               PROVE  /\ memory \subseteq Cover' \union Taken'
                      /\ \A i, j \in Entries' : i # j =>
                           Bytes(regions'[i]) \intersect Bytes(regions'[j]) = {}
                      /\ Cover' \intersect Taken' = {}
    BY DEF ExactUnlessOverlap, Bytes
  <2>1. /\ memory \ Removing \subseteq Cover \union Taken
        /\ \A i, j \in Entries : i # j => Bytes(regions[i]) \intersect Bytes(regions[j]) = {}
    BY <1>11 DEF ExactUnlessOverlap
  <2>2. Removing = {} /\ Taken = {}
    BY <1>1 DEF Removing, Taken, BInv, ChunkInv
  <2>3. memory \subseteq Cover' \union Taken'
    BY <1>10, <2>1, <2>2
  <2>4. \A i, j \in Entries' : i # j => Bytes(regions'[i]) \intersect Bytes(regions'[j]) = {}
    BY <1>7, <2>1
  <2>5. \A j \in 1 .. n : j # k => Bytes(regions[j]) \intersect Bytes(r) = {}
    BY <1>2, <2>1, CoverElems DEF n
  <2>6. Cover' \intersect Taken' = {}
    BY <1>8, <1>9, <2>5
  <2> QED BY <2>3, <2>4, <2>6
<1>15. ObjectsButLastByte'
  BY <1>1, <1>10, <1>11 DEF ObjectsButLastByte
<1>16. SwapperAbove'
  <2>1. ~virtual => \A j \in Entries : regions[j].end < swapper
    BY <1>11 DEF SwapperAbove
  <2> QED BY <1>7, <2>1 DEF SwapperAbove
<1>17. FirstChunk'
  <2>1. PICK c \in [base : Nat, end : Nat] : c = Aligned(r)
    BY <1>1, FirstChunkEntry
  <2>2. c.base < (c.end + 1) % Top => /\ \A a \in Bytes(c) : a \in Nat /\ In(a, r)
                                      /\ Cardinality(Bytes(c)) >= 2 * Page
    BY <1>1, <1>2, <2>1, FirstChunkEntry
  <2>3. \A a \in Nat : In(a, r) => a \in memory
    BY <1>2 DEF BInv, SoundInv, n
  <2>4. c.base < (c.end + 1) % Top => TwoPages(c)'
    <3>1. TwoPages(c)' <=> Bytes(c) \subseteq memory /\ Cardinality(Bytes(c)) >= 2 * Page
      BY DEF TwoPages, Bytes
    <3> QED BY <2>2, <2>3, <3>1
  <2>5. Aligned(taken)' = c
    BY <1>2, <2>1 DEF Aligned
  <2> QED BY <1>9, <2>4, <2>5 DEF FirstChunk
<1> QED BY <1>12, <1>13, <1>14, <1>15, <1>16, <1>17 DEF EndInv

\* sys$bootstrap takes the first region that passes its test, or finds none.
LEMMA StepBootstrap ==
  ASSUME BInv, Bootstrap
  PROVE  AInv'
<1> DEFINE found == {j \in DOMAIN regions : Enough(Aligned(regions[j]))}
           i     == IF found = {} THEN Len(regions) ELSE Min(found) - 1
<1>1. /\ pc = "bootstrap"
      /\ UNCHANGED <<virtual, cut, at, objs, swapper, memory, overlap>>
      /\ found = {} => UNCHANGED <<regions, taken>>
      /\ found # {} => /\ taken' = regions[i + 1]
                       /\ regions' = [regions EXCEPT ![i + 1].end = regions[i + 1].base]
      /\ \E num_regions \in IF virtual THEN 0 .. MaxRegions - 1 ELSE {Len(regions)} :
           pc' = IF i >= num_regions THEN "PANIC" ELSE "done"
  BY DEF Bootstrap
<1>2. Len(regions) \in Nat /\ DOMAIN regions = 1 .. Len(regions)
  BY <1>1, NotRemoving
<1>3. pc' \in {"PANIC", "done"} /\ (~virtual /\ pc' = "done" => ~(i >= Len(regions)))
  BY <1>1
<1>4. CASE found = {}
  <2>1. i = Len(regions)
    BY <1>4
  <2>2. ~virtual => pc' # "done"
    BY <1>2, <1>3, <2>1
  <2>3. UNCHANGED <<virtual, regions, cut, at, objs, swapper, taken, memory, overlap>>
    BY <1>1, <1>4
  <2> QED BY <1>1, <1>3, <2>2, <2>3, StepNoChunk DEF AInv
<1>5. CASE found # {}
  <2>1. found \subseteq Nat
    BY <1>2
  <2>2. Min(found) \in found
    BY <1>5, <2>1, MinIsLeast
  <2>3. PICK k \in 1 .. Len(regions) : k = Min(found) /\ Enough(Aligned(regions[k]))
    BY <1>2, <2>2
  <2> HIDE DEF found
  <2>4. i + 1 = k
    BY <1>5, <2>3
  <2>5. taken' = regions[k] /\ regions' = [regions EXCEPT ![k].end = regions[k].base]
    BY <1>1, <1>5, <2>4
  <2> QED BY <1>1, <1>3, <2>3, <2>5, StepChunk DEF AInv
<1> QED BY <1>4, <1>5

-----------------------------------------------------------------------------
(***************************************************************************)
(* The theorems                                                            *)
(***************************************************************************)

\* The empty table satisfies BInv.
LEMMA InitOK ==
  ASSUME Init
  PROVE  BInv
<1>1. /\ /\ virtual \in BOOLEAN /\ regions = <<>> /\ pc = "scan" /\ cut = NULL /\ at = 1
      /\ objs = {}
      /\ swapper = 0 /\ taken = NULL /\ memory = {} /\ overlap = FALSE
  BY DEF Init
<1>2. regions \in Seq(Region) /\ Len(regions) = 0 /\ MaxRegions \in Nat \ {0}
  BY <1>1, EmptySeq, RegionsAssumption
<1>3. MemEnd[virtual] \in Nat /\ 0 \in Mult(Granule[virtual])
  BY <1>1, Sizes, TopOnPage, PageOnGranule
<1>4. TInv
  <2>1. Len(regions) < MaxRegions /\ at \in 1 .. Len(regions) + 1
    BY <1>1, <1>2
  <2>2. objs \subseteq Objects[virtual] /\ memory \subseteq Nat /\ overlap \in BOOLEAN
    BY <1>1
  <2> QED BY <1>1, <1>2, <2>1, <2>2 DEF TInv
<1>5. GranuleInv /\ PassedInv /\ SoundInv /\ ExactInv /\ ObjectsInv
  BY <1>1, <1>2 DEF GranuleInv, PassedInv, SoundInv, ExactInv, ObjectsInv
<1>6. SwapperInv /\ ChunkInv
  BY <1>1, <1>3 DEF SwapperInv, ChunkInv
<1> QED BY <1>4, <1>5, <1>6 DEF BInv

\* BInv and EndInv are about vars only.
LEMMA StutterKeeps ==
  ASSUME AInv, UNCHANGED vars
  PROVE  AInv'
<1>1. UNCHANGED <<virtual, regions, pc, cut, at, descs, objs, swapper, taken, memory, overlap>>
  BY DEF vars
<1>2. CASE BInv
  <2>1. TInv' /\ GranuleInv' /\ PassedInv' /\ SoundInv'
    BY <1>1, <1>2 DEF BInv, TInv, GranuleInv, PassedInv, SoundInv, Region, OnGranule,
       CutOnGranule, InCut
  <2>2. ExactInv' /\ ObjectsInv'
    BY <1>1, <1>2 DEF BInv, ExactInv, ObjectsInv, InCut
  <2>3. SwapperInv' /\ ChunkInv'
    BY <1>1, <1>2 DEF BInv, SwapperInv, ChunkInv
  <2> QED BY <2>1, <2>2, <2>3 DEF BInv, AInv
<1>3. CASE EndInv
  <2>1. Entries' = Entries /\ Cover' = Cover /\ Removing' = Removing /\ Taken' = Taken
    BY <1>1 DEF Entries, Cover, Removing, Taken, Bytes
  <2>2. TypeOK' /\ Sound' /\ ObjectsButLastByte' /\ SwapperAbove'
    BY <1>1, <1>3, <2>1 DEF EndInv, TypeOK, Sound, ObjectsButLastByte, SwapperAbove
  <2>3. ExactUnlessOverlap'
    BY <1>1, <1>3, <2>1 DEF EndInv, ExactUnlessOverlap, Bytes
  <2>4. FirstChunk'
    BY <1>1, <1>3 DEF EndInv, FirstChunk, TwoPages, Aligned, Bytes
  <2> QED BY <1>1, <1>3, <2>2, <2>3, <2>4 DEF EndInv, AInv
<1> QED BY <1>2, <1>3 DEF AInv

\* After sys$bootstrap, or a PANIC, nothing happens.
LEMMA EndIsLast ==
  ASSUME EndInv, Next
  PROVE  FALSE
<1>1. pc \in {"done", "PANIC"}
  BY DEF EndInv
<1> QED BY <1>1 DEF Next, Add, Except, Guard, RemoveObject, RemoveEntry, CutEntry, SplitEntry,
         Examine, Removed, SwapperBase, RaiseSwapper, SwapperDone, Bootstrap

\* The inductive invariant holds in every state of the boot's memory map.
THEOREM Invariance == Spec => []AInv
<1>1. Init => AInv
  BY InitOK DEF AInv
<1>2. AInv /\ [Next]_vars => AInv'
  <2> SUFFICES ASSUME AInv, [Next]_vars PROVE AInv'
    OBVIOUS
  <2>1. CASE UNCHANGED vars
    BY <2>1, StutterKeeps
  <2>2. CASE BInv /\ Next
    <3>1. CASE \E d \in Descriptors : Add(d)
      BY <2>2, <3>1, StepAdd DEF AInv
    <3>2. CASE \E d \in Excepted : Except(d)
      BY <2>2, <3>2, StepExcept DEF AInv
    <3>3. CASE Guard
      BY <2>2, <3>3, StepGuard DEF AInv
    <3>4. CASE \E o \in Objects[virtual] : RemoveObject(o)
      BY <2>2, <3>4, StepRemoveObject DEF AInv
    <3>5. CASE RemoveEntry \/ CutEntry \/ SplitEntry \/ Removed
      BY <2>2, <3>5, StepRemoveEntry, StepCutEntry, StepSplitEntry, StepRemoved DEF AInv
    <3>6. CASE SwapperBase \/ RaiseSwapper \/ SwapperDone
      BY <2>2, <3>6, StepSwapper DEF AInv
    <3>7. CASE Bootstrap
      BY <2>2, <3>7, StepBootstrap
    <3> QED BY <2>2, <3>1, <3>2, <3>3, <3>4, <3>5, <3>6, <3>7 DEF Next
  <2>3. CASE EndInv /\ Next
    BY <2>3, EndIsLast
  <2> QED BY <2>1, <2>2, <2>3 DEF AInv
<1> QED BY <1>1, <1>2, PTL DEF Spec

\* The table always has a free entry and names addresses of the memory only
\* (sys$find_memory_region and sys$remove_chunk stop the boot when it is full).
THEOREM TypeCorrect == Spec => []TypeOK
<1>1. AInv => TypeOK
  BY BeforeChunk DEF AInv, EndInv
<1> QED BY <1>1, Invariance, PTL

\* The table never names memory that no descriptor gave or that was taken away again, by a
\* descriptor, the guard page or an object (sys$find_memory_region, sys$remove_chunk).
THEOREM TableSound == Spec => []Sound
<1>1. AInv => Sound
  BY BeforeChunk DEF AInv, EndInv
<1> QED BY <1>1, Invariance, PTL

\* As long as descriptors do not overlap, no memory is lost from the table and none is in
\* it twice, in the middle of sys$remove_chunk too; and when sys$bootstrap has taken a
\* region, all the others are there and nothing of that one is.
THEOREM TableExact == Spec => []ExactUnlessOverlap
<1>1. AInv => ExactUnlessOverlap
  BY BeforeChunk DEF AInv, EndInv
<1> QED BY <1>1, Invariance, PTL

\* Between calls of sys$remove_chunk no byte of an object that was removed is in the
\* table, its last one excepted (sys$mem_init, sys$remove_virtmem).
THEOREM ObjectsOut == Spec => []ObjectsButLastByte
<1>1. AInv => ObjectsButLastByte
  BY BeforeChunk DEF AInv, EndInv
<1> QED BY <1>1, Invariance, PTL

\* What sys$bootstrap frees first is two pages of memory that is there, unless its size
\* wrapped around; without a chunk of physical memory the boot stops.
THEOREM FirstChunkSound == Spec => []FirstChunk
<1>1. AInv => FirstChunk
  BY BeforeChunk DEF AInv, EndInv
<1> QED BY <1>1, Invariance, PTL

\* The loop of sys$mem_init leaves the swapper's base above every region of physical
\* memory, although it raises it by comparing with <.
THEOREM SwapperIsAbove == Spec => []SwapperAbove
<1>1. AInv => SwapperAbove
  BY BeforeChunk DEF AInv, EndInv
<1> QED BY <1>1, Invariance, PTL
=============================================================================
