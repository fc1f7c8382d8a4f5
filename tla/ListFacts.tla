------------------------------ MODULE ListFacts ------------------------------
(***************************************************************************)
(* Facts that the proofs about the lists of the kernel share: the          *)
(* least-element principle of the natural numbers, which stands in for     *)
(* induction over a list; what InsertAt, RemoveAt, RemoveFirst and         *)
(* ReplaceAt do to the elements of a sequence; and what the operations of  *)
(* sys_rfl.c (module Ranges) do to a list of ranges.                       *)
(***************************************************************************)
EXTENDS Ranges, TLAPS, WellFoundedInduction, SequenceTheorems

\* A set of natural numbers that is not empty has a least element: what is wrong with a
\* list is wrong at a first place, and the place before it is right.
LEMMA Least ==
  ASSUME NEW T, T \subseteq Nat, T # {}
  PROVE  \E m \in T : \A k \in T : m <= k
<1> DEFINE R == OpToRel(<, Nat)
<1>1. IsWellFoundedOn(R, Nat)
  BY NatLessThanWellFounded
<1>2. \A y, x \in Nat : y < x => <<y, x>> \in R
  BY DEF OpToRel
<1> HIDE DEF R
<1>3. PICK m \in T : \A y \in T : ~(<<y, m>> \in R)
  BY <1>1, WFMin
<1>4. ASSUME NEW k \in T PROVE m <= k
  <2>1. m \in Nat /\ k \in Nat /\ ~(k < m)
    BY <1>2, <1>3
  <2> QED BY <2>1
<1> QED BY <1>4

\* A function on 1 .. n is a sequence.
LEMMA FcnIsSeq ==
  ASSUME NEW S, NEW n \in Nat, NEW s \in [1 .. n -> S]
  PROVE  s \in Seq(S)
  OBVIOUS

\* ll_insert_before: the elements behind the place of an insertion move up by one.
LEMMA InsertAtElems ==
  ASSUME NEW S, NEW s \in Seq(S), NEW i \in 1 .. Len(s) + 1, NEW e \in S
  PROVE  /\ InsertAt(s, i, e) \in Seq(S)
         /\ Len(InsertAt(s, i, e)) = Len(s) + 1
         /\ \A j \in 1 .. Len(s) + 1 :
              InsertAt(s, i, e)[j] = IF j < i THEN s[j] ELSE IF j = i THEN e ELSE s[j - 1]
<1> DEFINE a == SubSeq(s, 1, i - 1)
           c == SubSeq(s, i, Len(s))
<1>1. /\ a \in Seq(S) /\ Len(a) = i - 1
      /\ \A j \in 1 .. i - 1 : a[j] = s[j]
  BY SubSeqProperties
<1>2. /\ c \in Seq(S) /\ Len(c) = Len(s) - i + 1
      /\ \A j \in 1 .. Len(s) - i + 1 : c[j] = s[i + j - 1]
  BY SubSeqProperties
<1> HIDE DEF a, c
<1>3. InsertAt(s, i, e) = (a \o <<e>>) \o c
  BY DEF InsertAt, a, c
<1>4. <<e>> \in Seq(S) /\ Len(<<e>>) = 1 /\ <<e>>[1] = e
  OBVIOUS
<1>5. /\ a \o <<e>> \in Seq(S) /\ Len(a \o <<e>>) = i
      /\ \A j \in 1 .. i : (a \o <<e>>)[j] = IF j < i THEN s[j] ELSE e
  BY <1>1, <1>4, ConcatProperties
<1> QED BY <1>2, <1>3, <1>5, ConcatProperties

\* ll_delete: the elements behind the place of a removal move down by one.
LEMMA RemoveAtElems ==
  ASSUME NEW S, NEW s \in Seq(S), NEW i \in 1 .. Len(s)
  PROVE  /\ RemoveAt(s, i) \in Seq(S)
         /\ Len(RemoveAt(s, i)) = Len(s) - 1
         /\ \A j \in 1 .. Len(s) - 1 : RemoveAt(s, i)[j] = IF j < i THEN s[j] ELSE s[j + 1]
<1> DEFINE a == SubSeq(s, 1, i - 1)
           c == SubSeq(s, i + 1, Len(s))
<1>1. /\ a \in Seq(S) /\ Len(a) = i - 1
      /\ \A j \in 1 .. i - 1 : a[j] = s[j]
  BY SubSeqProperties
<1>2. /\ c \in Seq(S) /\ Len(c) = Len(s) - i
      /\ \A j \in 1 .. Len(s) - i : c[j] = s[i + j]
  BY SubSeqProperties
<1>3. RemoveAt(s, i) = a \o c
  BY DEF RemoveAt
<1> HIDE DEF a, c
<1>4. /\ a \o c \in Seq(S) /\ Len(a \o c) = Len(a) + Len(c)
      /\ \A j \in 1 .. Len(a) + Len(c) : (a \o c)[j] = IF j <= Len(a) THEN a[j] ELSE c[j - Len(a)]
  BY <1>1, <1>2, ConcatProperties
<1>5. Len(s) \in Nat
  OBVIOUS
<1>6. a \o c \in Seq(S) /\ Len(a \o c) = Len(s) - 1
  BY <1>1, <1>2, <1>4, <1>5
<1>7. ASSUME NEW j \in 1 .. Len(s) - 1 PROVE (a \o c)[j] = IF j < i THEN s[j] ELSE s[j + 1]
  <2>1. j \in 1 .. Len(a) + Len(c)
    BY <1>1, <1>2, <1>5
  <2>2. CASE j < i
    <3>1. j <= Len(a) /\ j \in 1 .. i - 1
      BY <1>1, <2>2
    <3> QED BY <1>1, <1>4, <2>1, <2>2, <3>1
  <2>3. CASE ~(j < i)
    <3>1. ~(j <= Len(a)) /\ j - Len(a) \in 1 .. Len(s) - i /\ i + (j - Len(a)) = j + 1
      BY <1>1, <1>5, <2>3
    <3> QED BY <1>2, <1>4, <2>1, <2>3, <3>1
  <2> QED BY <2>2, <2>3
<1> QED BY <1>3, <1>6, <1>7

\* What Min chooses is the least element.
LEMMA MinIsLeast ==
  ASSUME NEW T, T \subseteq Nat, T # {}
  PROVE  Min(T) \in T /\ \A k \in T : Min(T) <= k
<1>1. PICK m \in T : \A k \in T : m <= k
  BY Least
<1>2. \A m1 \in T : \A k \in T : m1 <= k <=> k >= m1
  OBVIOUS
<1> QED BY <1>1, <1>2 DEF Min

\* RemoveFirst removes at a place where the element is.
LEMMA RemoveFirstAt ==
  ASSUME NEW S, NEW s \in Seq(S), NEW e, e \in ToSet(s)
  PROVE  \E i \in 1 .. Len(s) : /\ s[i] = e
                                /\ RemoveFirst(s, e) = RemoveAt(s, i)
<1> DEFINE T == {i \in 1 .. Len(s) : s[i] = e}
<1>1. T # {} /\ T \subseteq Nat
  BY DEF ToSet
<1>2. RemoveFirst(s, e) = RemoveAt(s, Min(T))
  BY <1>1 DEF RemoveFirst, SelectInSeq
<1>3. Min(T) \in T
  BY <1>1, MinIsLeast
<1> QED BY <1>2, <1>3

\* A list without repetitions loses an element and keeps the others.
LEMMA RemoveFirstOnce ==
  ASSUME NEW S, NEW s \in Seq(S), IsInjective(s), NEW e
  PROVE  /\ RemoveFirst(s, e) \in Seq(S)
         /\ IsInjective(RemoveFirst(s, e))
         /\ ToSet(RemoveFirst(s, e)) = ToSet(s) \ {e}
<1>1. CASE e \notin ToSet(s)
  <2>1. RemoveFirst(s, e) = s
    BY <1>1 DEF RemoveFirst, ToSet
  <2> QED BY <1>1, <2>1
<1>2. CASE e \in ToSet(s)
  <2>1. PICK i \in 1 .. Len(s) : s[i] = e /\ RemoveFirst(s, e) = RemoveAt(s, i)
    BY <1>2, RemoveFirstAt
  <2> DEFINE r == RemoveAt(s, i)
  <2>2. /\ r \in Seq(S) /\ Len(r) = Len(s) - 1 /\ Len(s) \in Nat
        /\ \A j \in 1 .. Len(s) - 1 : r[j] = IF j < i THEN s[j] ELSE s[j + 1]
    BY RemoveAtElems
  <2> HIDE DEF r
  <2>3. DOMAIN r = 1 .. Len(s) - 1 /\ DOMAIN s = 1 .. Len(s)
    BY <2>2
  <2>4. \A a, b \in 1 .. Len(s) : s[a] = s[b] => a = b
    BY <2>3 DEF IsInjective
  <2>5. IsInjective(r)
    BY <2>2, <2>3, <2>4 DEF IsInjective
  <2>6. \A j \in 1 .. Len(s) - 1 : r[j] \in ToSet(s) \ {e}
    <3> SUFFICES ASSUME NEW j \in 1 .. Len(s) - 1 PROVE r[j] \in ToSet(s) \ {e}
      OBVIOUS
    <3>1. CASE j < i
      BY <2>1, <2>2, <2>3, <2>4, <3>1 DEF ToSet
    <3>2. CASE ~(j < i)
      <4>1. j + 1 \in 1 .. Len(s) /\ j + 1 # i /\ r[j] = s[j + 1]
        BY <2>2, <3>2
      <4> QED BY <2>1, <2>3, <2>4, <4>1 DEF ToSet
    <3> QED BY <3>1, <3>2
  <2>7. \A k \in 1 .. Len(s) : k # i => \E j \in 1 .. Len(s) - 1 : r[j] = s[k]
    <3> SUFFICES ASSUME NEW k \in 1 .. Len(s), k # i PROVE \E j \in 1 .. Len(s) - 1 : r[j] = s[k]
      OBVIOUS
    <3>1. CASE k < i
      <4>1. k \in 1 .. Len(s) - 1 /\ r[k] = s[k]
        BY <2>2, <3>1
      <4> QED BY <4>1
    <3>2. CASE ~(k < i)
      <4>1. k - 1 \in 1 .. Len(s) - 1 /\ r[k - 1] = s[k]
        BY <2>2, <3>2
      <4> QED BY <4>1
    <3> QED BY <3>1, <3>2
  <2>8. ToSet(r) = ToSet(s) \ {e}
    <3>1. ToSet(r) \subseteq ToSet(s) \ {e}
      BY <2>3, <2>6 DEF ToSet
    <3>2. ASSUME NEW x \in ToSet(s) \ {e} PROVE x \in ToSet(r)
      <4>1. PICK k \in 1 .. Len(s) : x = s[k]
        BY <2>3 DEF ToSet
      <4>2. PICK j \in 1 .. Len(s) - 1 : r[j] = s[k]
        BY <2>1, <2>7, <4>1
      <4> QED BY <2>3, <4>1, <4>2 DEF ToSet
    <3> QED BY <3>1, <3>2
  <2> QED BY <2>1, <2>2, <2>5, <2>8 DEF r
<1> QED BY <1>1, <1>2

\* A list without repetitions gets an element it does not hold.
LEMMA AppendOnce ==
  ASSUME NEW S, NEW s \in Seq(S), IsInjective(s), NEW e \in S, e \notin ToSet(s)
  PROVE  /\ Append(s, e) \in Seq(S)
         /\ IsInjective(Append(s, e))
         /\ ToSet(Append(s, e)) = ToSet(s) \union {e}
<1>1. /\ Append(s, e) \in Seq(S) /\ Len(Append(s, e)) = Len(s) + 1 /\ Len(s) \in Nat
      /\ DOMAIN Append(s, e) = 1 .. Len(s) + 1 /\ DOMAIN s = 1 .. Len(s)
      /\ \A j \in 1 .. Len(s) : Append(s, e)[j] = s[j]
      /\ Append(s, e)[Len(s) + 1] = e
  BY AppendProperties, LenProperties
<1> DEFINE a == Append(s, e)
<1> HIDE DEF a
<1>2. \A j \in 1 .. Len(s) : s[j] # e
  BY <1>1 DEF ToSet
<1>3. \A j \in 1 .. Len(s) + 1 : j \in 1 .. Len(s) \/ j = Len(s) + 1
  BY <1>1
<1>4. IsInjective(Append(s, e))
  BY <1>1, <1>2, <1>3 DEF IsInjective
<1>5. ToSet(Append(s, e)) = ToSet(s) \union {e}
  <2>1. \A j \in 1 .. Len(s) + 1 : Append(s, e)[j] \in ToSet(s) \union {e}
    BY <1>1, <1>3 DEF ToSet
  <2>2. \A j \in 1 .. Len(s) : j \in 1 .. Len(s) + 1
    BY <1>1
  <2>3. Len(s) + 1 \in 1 .. Len(s) + 1
    BY <1>1
  <2> QED BY <1>1, <2>1, <2>2, <2>3 DEF ToSet
<1> QED BY <1>1, <1>4, <1>5

\* The last element of a list is one of its elements.
LEMMA LastIsElement ==
  ASSUME NEW S, NEW s \in Seq(S), s # <<>>
  PROVE  /\ Len(s) \in Nat \ {0} /\ Len(s) \in DOMAIN s
         /\ Last(s) = s[Len(s)] /\ Last(s) \in S /\ Last(s) \in ToSet(s)
<1>1. Len(s) \in Nat /\ Len(s) # 0 /\ DOMAIN s = 1 .. Len(s)
  BY EmptySeq, LenProperties
<1>2. Len(s) \in 1 .. Len(s)
  BY <1>1
<1> QED BY <1>1, <1>2, ElementOfSeq DEF Last, ToSet

\* What is appended comes last.
LEMMA AppendLast ==
  ASSUME NEW S, NEW s \in Seq(S), NEW e \in S
  PROVE  Append(s, e) # <<>> /\ Last(Append(s, e)) = e
<1>1. /\ Append(s, e) \in Seq(S) /\ Len(Append(s, e)) = Len(s) + 1 /\ Len(s) \in Nat
      /\ Append(s, e)[Len(s) + 1] = e
  BY AppendProperties, LenProperties
<1> QED BY <1>1, EmptySeq DEF Last

\* The last element of a list without repetitions is replaced.
LEMMA ReplaceLast ==
  ASSUME NEW S, NEW s \in Seq(S), IsInjective(s), s # <<>>, NEW e \in S,
         e \notin ToSet(s) \ {Last(s)}
  PROVE  LET r == ReplaceAt(s, Len(s), e)
         IN  /\ r \in Seq(S) /\ IsInjective(r) /\ r # <<>>
             /\ ToSet(r) = (ToSet(s) \ {Last(s)}) \union {e}
             /\ Last(r) = e /\ Len(r) = Len(s)
<1> DEFINE r == ReplaceAt(s, Len(s), e)
           n == Len(s)
<1>1. /\ n \in Nat \ {0} /\ n \in DOMAIN s /\ DOMAIN s = 1 .. n /\ Last(s) = s[n]
  BY LastIsElement, LenProperties
<1>2. /\ r \in Seq(S) /\ Len(r) = n /\ DOMAIN r = 1 .. n
      /\ r[n] = e /\ \A k \in 1 .. n : k # n => r[k] = s[k]
  <2>1. r = [s EXCEPT ![n] = e]
    BY DEF ReplaceAt
  <2> HIDE DEF r, n
  <2>2. /\ r \in Seq(S) /\ Len(r) = Len(s) /\ DOMAIN r = DOMAIN s
        /\ \A k \in 1 .. Len(s) : r[k] = IF k = n THEN e ELSE s[k]
    BY <1>1, <2>1, ExceptSeq
  <2> QED BY <1>1, <2>2 DEF n
<1> HIDE DEF r, n
<1>3. \A a, b \in 1 .. n : s[a] = s[b] => a = b
  BY <1>1 DEF IsInjective
<1>4. \A k \in 1 .. n : k # n => s[k] \in ToSet(s) \ {Last(s)}
  BY <1>1, <1>3 DEF ToSet
<1>5. IsInjective(r)
  BY <1>2, <1>3, <1>4 DEF IsInjective
<1>6. ToSet(r) = (ToSet(s) \ {Last(s)}) \union {e}
  <2>1. ASSUME NEW x \in ToSet(r) PROVE x \in (ToSet(s) \ {Last(s)}) \union {e}
    BY <1>2, <1>4 DEF ToSet
  <2>2. ASSUME NEW x \in ToSet(s), x # Last(s) PROVE x \in ToSet(r)
    BY <1>1, <1>2, <2>2 DEF ToSet
  <2>3. e \in ToSet(r)
    BY <1>1, <1>2 DEF ToSet
  <2> QED BY <2>1, <2>2, <2>3
<1>7. r # <<>> /\ Last(r) = e
  BY <1>1, <1>2, EmptySeq DEF Last
<1> QED BY <1>2, <1>5, <1>6, <1>7 DEF r, n

\* A list without repetitions whose first element is its last has one element.
LEMMA FirstIsLast ==
  ASSUME NEW S, NEW s \in Seq(S), IsInjective(s), s # <<>>, Head(s) = Last(s)
  PROVE  Len(s) = 1
<1>1. Len(s) \in Nat \ {0} /\ DOMAIN s = 1 .. Len(s) /\ Last(s) = s[Len(s)] /\ Head(s) = s[1]
  BY LastIsElement, LenProperties, HeadTailProperties
<1> QED BY <1>1 DEF IsInjective

\* The first element of a list is one of its elements.
LEMMA HeadIsElement ==
  ASSUME NEW S, NEW s \in Seq(S), s # <<>>
  PROVE  Head(s) \in ToSet(s)
<1>1. Len(s) \in Nat \ {0} /\ DOMAIN s = 1 .. Len(s) /\ Head(s) = s[1]
  BY LastIsElement, LenProperties, HeadTailProperties
<1>2. 1 \in DOMAIN s
  BY <1>1
<1> QED BY <1>1, <1>2 DEF ToSet

-----------------------------------------------------------------------------
\* A range of numbers, as sys_rfl.c keeps it.
Interval == [from : Nat, to : Nat]

\* What sys_rfl.c maintains of a list, whatever its numbers.
Canon(rs) ==
  /\ rs \in Seq(Interval)
  /\ \A i \in DOMAIN rs : rs[i].from <= rs[i].to
  /\ \A i \in 1 .. Len(rs) - 1 : rs[i].to + 1 < rs[i + 1].from

-----------------------------------------------------------------------------
\* Ranges of a canonical list that are not neighbours are in order too.
LEMMA Ordered ==
  ASSUME NEW rs, Canon(rs)
  PROVE  \A i, j \in DOMAIN rs : i < j => rs[i].to + 1 < rs[j].from
<1> SUFFICES ASSUME NEW i \in DOMAIN rs PROVE \A j \in DOMAIN rs : i < j => rs[i].to + 1 < rs[j].from
  OBVIOUS
<1> DEFINE T == {j \in DOMAIN rs : i < j /\ ~(rs[i].to + 1 < rs[j].from)}
<1>0. /\ Len(rs) \in Nat /\ DOMAIN rs = 1 .. Len(rs)
      /\ \A k \in DOMAIN rs : rs[k].from \in Nat /\ rs[k].to \in Nat /\ rs[k].from <= rs[k].to
      /\ \A k \in 1 .. Len(rs) - 1 : rs[k].to + 1 < rs[k + 1].from
  <2>1. rs \in Seq(Interval)
    BY DEF Canon
  <2>2. Len(rs) \in Nat /\ DOMAIN rs = 1 .. Len(rs) /\ \A k \in DOMAIN rs : rs[k] \in Interval
    BY <2>1, LenProperties, ElementOfSeq
  <2> QED BY <2>2 DEF Canon, Interval
<1>1. T \subseteq Nat
  BY <1>0
<1>2. ASSUME T # {} PROVE FALSE
  <2>1. PICK m \in T : \A k \in T : m <= k
    BY <1>1, <1>2, Least
  <2>2. m - 1 \in DOMAIN rs /\ m - 1 \notin T /\ rs[m - 1].to + 1 < rs[m].from
    <3>1. m \in 2 .. Len(rs) /\ m - 1 \in 1 .. Len(rs) - 1 /\ (m - 1) + 1 = m
      BY <1>0, <2>1
    <3>2. m - 1 \notin T
      BY <1>1, <2>1, <3>1
    <3> QED BY <1>0, <3>1, <3>2
  <2>3. m \in DOMAIN rs /\ i < m /\ ~(rs[i].to + 1 < rs[m].from)
    BY <2>1
  <2>4. m - 1 = i \/ rs[i].to + 1 < rs[m - 1].from
    BY <1>0, <2>2, <2>3
  <2> HIDE DEF T
  <2> QED BY <1>0, <2>2, <2>3, <2>4
<1> QED BY <1>2

\* Canon in the form the provers use.
LEMMA CanonElems ==
  ASSUME NEW rs, Canon(rs)
  PROVE  /\ rs \in Seq(Interval) /\ Len(rs) \in Nat /\ DOMAIN rs = 1 .. Len(rs)
         /\ \A k \in 1 .. Len(rs) : /\ rs[k] \in Interval
                                    /\ rs[k] = [from |-> rs[k].from, to |-> rs[k].to]
                                    /\ rs[k].from \in Nat /\ rs[k].to \in Nat
                                    /\ rs[k].from <= rs[k].to
         /\ \A i, j \in 1 .. Len(rs) : i < j => rs[i].to + 1 < rs[j].from
<1>1. rs \in Seq(Interval)
  BY DEF Canon
<1>2. Len(rs) \in Nat /\ DOMAIN rs = 1 .. Len(rs) /\ \A k \in 1 .. Len(rs) : rs[k] \in Interval
  BY <1>1, LenProperties, ElementOfSeq
<1>3. \A k \in 1 .. Len(rs) : /\ rs[k] = [from |-> rs[k].from, to |-> rs[k].to]
                              /\ rs[k].from \in Nat /\ rs[k].to \in Nat
  BY <1>2 DEF Interval
<1>4. \A i, j \in 1 .. Len(rs) : i < j => rs[i].to + 1 < rs[j].from
  BY <1>2, Ordered
<1> QED BY <1>1, <1>2, <1>3, <1>4 DEF Canon

\* The loop of sys$rfl_insert_range stops at the first range that meets its test.
LEMMA StopAtFirst ==
  ASSUME NEW rs, Len(rs) \in Nat, NEW from, NEW to
  PROVE  LET i == StopAt(rs, from, to)
         IN  /\ i \in 1 .. Len(rs) + 1
             /\ i <= Len(rs) => Stops(rs[i], from, to)
             /\ \A j \in 1 .. i - 1 : ~Stops(rs[j], from, to)
<1> DEFINE T == {i \in 1 .. Len(rs) + 1 : i <= Len(rs) => Stops(rs[i], from, to)}
<1>1. T \subseteq Nat /\ T # {}
  <2>1. Len(rs) + 1 \in T
    OBVIOUS
  <2> QED BY <2>1
<1>2. PICK m \in T : \A k \in T : m <= k
  BY <1>1, Least
<1>3. /\ m \in 1 .. Len(rs) + 1
      /\ m <= Len(rs) => Stops(rs[m], from, to)
      /\ \A j \in 1 .. m - 1 : ~Stops(rs[j], from, to)
  <2>1. ASSUME NEW j \in 1 .. m - 1 PROVE ~Stops(rs[j], from, to)
    <3>1. j \in 1 .. Len(rs) + 1 /\ ~(m <= j)
      OBVIOUS
    <3> QED BY <1>2, <3>1
  <2> QED BY <2>1
<1> QED BY <1>3 DEF StopAt

\* Where a number that is given back meets the list.
LEMMA StopAtNumber ==
  ASSUME NEW rs, Canon(rs), NEW n \in Nat, n > 0
  PROVE  LET i == StopAt(rs, n, n)
         IN  /\ i \in 1 .. Len(rs) + 1
             /\ \A j \in 1 .. i - 1 : rs[j].to + 1 < n
             /\ i <= Len(rs) => \/ n \in rs[i].from .. rs[i].to
                                \/ rs[i].from = n + 1
                                \/ rs[i].to = n - 1
                                \/ rs[i].from > n + 1
<1> DEFINE i == StopAt(rs, n, n)
<1>1. /\ Len(rs) \in Nat
      /\ \A k \in 1 .. Len(rs) : /\ rs[k].from \in Nat /\ rs[k].to \in Nat
                                 /\ rs[k].from <= rs[k].to
  BY CanonElems
<1>2. /\ i \in 1 .. Len(rs) + 1
      /\ i <= Len(rs) => Stops(rs[i], n, n)
      /\ \A j \in 1 .. i - 1 : ~Stops(rs[j], n, n)
  BY <1>1, StopAtFirst
<1> HIDE DEF i
<1>3. ASSUME NEW j \in 1 .. i - 1 PROVE rs[j].to + 1 < n
  <2>1. j \in 1 .. Len(rs) /\ ~Stops(rs[j], n, n)
    BY <1>1, <1>2
  <2> QED BY <1>1, <2>1 DEF Stops, Overlaps
<1>4. ASSUME i <= Len(rs)
      PROVE  \/ n \in rs[i].from .. rs[i].to
             \/ rs[i].from = n + 1
             \/ rs[i].to = n - 1
             \/ rs[i].from > n + 1
  <2>1. i \in 1 .. Len(rs) /\ Stops(rs[i], n, n)
    BY <1>1, <1>2, <1>4
  <2> QED BY <1>1, <2>1 DEF Stops, Overlaps
<1> QED BY <1>2, <1>3, <1>4 DEF i

\* What sys$rfl_free may come to: the number was free already and nothing changes, it is
\* free now, or it is lost, but only for want of memory and only away from other free
\* numbers.
Freed(rs, n, memory, r) ==
  /\ Canon(r.list)
  /\ r.ret \in {"RFL_SUCCESS", "E_RFL_OVERLAP", "E_RFL_NOMEM"}
  /\ \/ n \in Covered(rs) /\ r.list = rs
     \/ n \notin Covered(rs) /\ Covered(r.list) = Covered(rs) \union {n}
     \/ /\ n \notin Covered(rs) /\ n - 1 \notin Covered(rs) /\ n + 1 \notin Covered(rs)
        /\ memory # "both" /\ r.list = rs

\* A list that is canonical element by element.
LEMMA IsCanon ==
  ASSUME NEW ls \in Seq(Interval),
         \A k \in 1 .. Len(ls) : ls[k].from <= ls[k].to,
         \A k \in 1 .. Len(ls) - 1 : ls[k].to + 1 < ls[k + 1].from
  PROVE  Canon(ls)
<1>1. DOMAIN ls = 1 .. Len(ls)
  BY LenProperties
<1> QED BY <1>1 DEF Canon

\* A number is free if it is in one of the ranges.
LEMMA CoveredElems ==
  ASSUME NEW ls \in Seq(Interval), NEW x
  PROVE  x \in Covered(ls) <=> \E k \in 1 .. Len(ls) : x \in ls[k].from .. ls[k].to
<1>1. DOMAIN ls = 1 .. Len(ls)
  BY LenProperties
<1> QED BY <1>1 DEF Covered

\* sys$rfl_free keeps a list canonical and frees the number or loses it for want of
\* memory: each way through sys$rfl_insert_range, the extension of a range at either end,
\* the merging of two, the insertion of one.
LEMMA FreeNumberKeeps ==
  ASSUME NEW rs, Canon(rs), NEW n \in Nat, n > 0, NEW memory \in Memory
  PROVE  Freed(rs, n, memory, FreeNumber(rs, n, memory))
<1> DEFINE i == StopAt(rs, n, n)
           res == FreeNumber(rs, n, memory)
<1>1. /\ rs \in Seq(Interval) /\ Len(rs) \in Nat /\ DOMAIN rs = 1 .. Len(rs)
      /\ \A k \in 1 .. Len(rs) : /\ rs[k] \in Interval
                                 /\ rs[k] = [from |-> rs[k].from, to |-> rs[k].to]
                                 /\ rs[k].from \in Nat /\ rs[k].to \in Nat
                                 /\ rs[k].from <= rs[k].to
      /\ \A k, j \in 1 .. Len(rs) : k < j => rs[k].to + 1 < rs[j].from
  BY CanonElems
<1>2. /\ i \in 1 .. Len(rs) + 1
      /\ \A j \in 1 .. i - 1 : rs[j].to + 1 < n
      /\ i <= Len(rs) => \/ n \in rs[i].from .. rs[i].to
                         \/ rs[i].from = n + 1
                         \/ rs[i].to = n - 1
                         \/ rs[i].from > n + 1
  BY StopAtNumber
<1>3. res = IF i <= Len(rs) /\ n \in rs[i].from .. rs[i].to
              THEN [list |-> rs, ret |-> "E_RFL_OVERLAP"]
            ELSE IF i <= Len(rs) /\ rs[i].from = n + 1
              THEN [list |-> [rs EXCEPT ![i].from = n], ret |-> "RFL_SUCCESS"]
            ELSE IF i <= Len(rs) /\ rs[i].to = n - 1
              THEN IF Joins(rs, i, n)
                     THEN [list |-> RemoveAt([rs EXCEPT ![i].to = rs[i + 1].to], i + 1),
                           ret |-> "RFL_SUCCESS"]
                     ELSE [list |-> [rs EXCEPT ![i].to = n], ret |-> "RFL_SUCCESS"]
            ELSE IF memory = "both"
              THEN [list |-> InsertAt(rs, i, [from |-> n, to |-> n]), ret |-> "RFL_SUCCESS"]
            ELSE IF memory = "range" THEN [list |-> rs, ret |-> "RFL_SUCCESS"]
            ELSE [list |-> rs, ret |-> "E_RFL_NOMEM"]
  BY DEF FreeNumber, InsertRange, Overlaps, Memory
<1> SUFFICES Freed(rs, n, memory, res)
  OBVIOUS
<1> HIDE DEF i, res
<1>4. \A x : x \in Covered(rs) <=> \E k \in 1 .. Len(rs) : x \in rs[k].from .. rs[k].to
  BY <1>1, CoveredElems
<1>5. CASE i <= Len(rs) /\ n \in rs[i].from .. rs[i].to
  <2>1. n \in Covered(rs)
    BY <1>1, <1>2, <1>4, <1>5
  <2> QED BY <1>3, <1>5, <2>1 DEF Freed
<1>6. ASSUME ~(i <= Len(rs) /\ n \in rs[i].from .. rs[i].to),
             NEW j \in 1 .. Len(rs), i <= j
      PROVE  n < rs[j].from \/ (j = i /\ rs[i].to = n - 1)
  <2>1. i \in 1 .. Len(rs)
    BY <1>1, <1>2, <1>6
  <2>2. j # i => rs[i].to + 1 < rs[j].from
    BY <1>1, <1>2, <1>6, <2>1
  <2> QED BY <1>1, <1>2, <1>6, <2>1, <2>2
<1>7. ASSUME ~(i <= Len(rs) /\ n \in rs[i].from .. rs[i].to) PROVE n \notin Covered(rs)
  <2>1. ASSUME NEW j \in 1 .. Len(rs) PROVE n \notin rs[j].from .. rs[j].to
    <3>1. CASE j < i
      BY <1>1, <1>2, <3>1
    <3>2. CASE i <= j
      BY <1>1, <1>2, <1>6, <1>7, <3>2
    <3> QED BY <1>1, <1>2, <3>1, <3>2
  <2> QED BY <1>4, <2>1
<1>8. CASE /\ ~(i <= Len(rs) /\ n \in rs[i].from .. rs[i].to)
           /\ i <= Len(rs) /\ rs[i].from = n + 1
  <2> DEFINE ls == [rs EXCEPT ![i].from = n]
  <2>1. /\ ls \in Seq(Interval) /\ Len(ls) = Len(rs)
        /\ ls[i] = [from |-> n, to |-> rs[i].to]
        /\ \A k \in 1 .. Len(rs) : k # i => ls[k] = rs[k]
    BY <1>1, <1>2, <1>8 DEF Interval
  <2> HIDE DEF ls
  <2>2. Canon(ls)
    <3>1. \A k \in 1 .. Len(ls) : ls[k].from <= ls[k].to
      <4>1. i \in 1 .. Len(rs) /\ ls[i].from <= ls[i].to
        BY <1>1, <1>2, <1>8, <2>1
      <4> QED BY <1>1, <2>1, <4>1
    <3>2. \A k \in 1 .. Len(ls) - 1 : ls[k].to + 1 < ls[k + 1].from
      <4> SUFFICES ASSUME NEW k \in 1 .. Len(ls) - 1 PROVE ls[k].to + 1 < ls[k + 1].from
        OBVIOUS
      <4>1. k \in 1 .. Len(rs) /\ k + 1 \in 1 .. Len(rs) /\ i \in 1 .. Len(rs) /\ k < k + 1
        BY <1>1, <1>2, <1>8, <2>1
      <4>2. rs[k].to + 1 < rs[k + 1].from
        BY <1>1, <4>1
      <4>3. CASE k = i
        BY <1>1, <1>2, <1>8, <2>1, <4>1, <4>2, <4>3
      <4>4. CASE k + 1 = i
        BY <1>1, <1>2, <1>8, <2>1, <4>1, <4>2, <4>4
      <4>5. CASE k # i /\ k + 1 # i
        BY <2>1, <4>1, <4>2, <4>5
      <4> QED BY <4>3, <4>4, <4>5
    <3> QED BY <2>1, <3>1, <3>2, IsCanon
  <2>3. Covered(ls) = Covered(rs) \union {n}
    <3>1. \A x : x \in Covered(ls) <=> \E k \in 1 .. Len(rs) : x \in ls[k].from .. ls[k].to
      BY <2>1, CoveredElems
    <3>2. i \in 1 .. Len(rs) /\ \A x : x \in ls[i].from .. ls[i].to <=> x \in rs[i].from .. rs[i].to \/ x = n
      BY <1>1, <1>2, <1>8, <2>1
    <3>3. \A x, k : k \in 1 .. Len(rs) /\ k # i => (x \in ls[k].from .. ls[k].to <=> x \in rs[k].from .. rs[k].to)
      BY <2>1
    <3> QED BY <1>4, <3>1, <3>2, <3>3
  <2>4. res = [list |-> ls, ret |-> "RFL_SUCCESS"]
    BY <1>3, <1>8 DEF ls
  <2> QED BY <1>7, <1>8, <2>2, <2>3, <2>4 DEF Freed
<1>9. CASE /\ ~(i <= Len(rs) /\ n \in rs[i].from .. rs[i].to)
           /\ i <= Len(rs) /\ rs[i].from # n + 1 /\ rs[i].to = n - 1 /\ ~Joins(rs, i, n)
  <2> DEFINE ls == [rs EXCEPT ![i].to = n]
  <2>1. /\ ls \in Seq(Interval) /\ Len(ls) = Len(rs)
        /\ ls[i] = [from |-> rs[i].from, to |-> n]
        /\ \A k \in 1 .. Len(rs) : k # i => ls[k] = rs[k]
    BY <1>1, <1>2, <1>9 DEF Interval
  <2> HIDE DEF ls
  <2>2. Canon(ls)
    <3>1. \A k \in 1 .. Len(ls) : ls[k].from <= ls[k].to
      BY <1>1, <1>2, <1>9, <2>1
    <3>2. \A k \in 1 .. Len(ls) - 1 : ls[k].to + 1 < ls[k + 1].from
      <4> SUFFICES ASSUME NEW k \in 1 .. Len(ls) - 1 PROVE ls[k].to + 1 < ls[k + 1].from
        OBVIOUS
      <4>1. k \in 1 .. Len(rs) /\ k + 1 \in 1 .. Len(rs) /\ i \in 1 .. Len(rs) /\ k < k + 1
        BY <1>1, <1>2, <1>9, <2>1
      <4>2. rs[k].to + 1 < rs[k + 1].from
        BY <1>1, <4>1
      <4>3. CASE k = i
        BY <1>1, <1>2, <1>9, <2>1, <4>1, <4>2, <4>3 DEF Joins
      <4>4. CASE k + 1 = i
        BY <1>1, <1>2, <1>9, <2>1, <4>1, <4>2, <4>4
      <4>5. CASE k # i /\ k + 1 # i
        BY <2>1, <4>1, <4>2, <4>5
      <4> QED BY <4>3, <4>4, <4>5
    <3> QED BY <2>1, <3>1, <3>2, IsCanon
  <2>3. Covered(ls) = Covered(rs) \union {n}
    <3>1. \A x : x \in Covered(ls) <=> \E k \in 1 .. Len(rs) : x \in ls[k].from .. ls[k].to
      BY <2>1, CoveredElems
    <3>2. i \in 1 .. Len(rs) /\ \A x : x \in ls[i].from .. ls[i].to <=> x \in rs[i].from .. rs[i].to \/ x = n
      BY <1>1, <1>2, <1>9, <2>1
    <3>3. \A x, k : k \in 1 .. Len(rs) /\ k # i => (x \in ls[k].from .. ls[k].to <=> x \in rs[k].from .. rs[k].to)
      BY <2>1
    <3> QED BY <1>4, <3>1, <3>2, <3>3
  <2>4. res = [list |-> ls, ret |-> "RFL_SUCCESS"]
    BY <1>3, <1>9 DEF ls
  <2> QED BY <1>7, <1>9, <2>2, <2>3, <2>4 DEF Freed
<1>10. CASE /\ ~(i <= Len(rs) /\ n \in rs[i].from .. rs[i].to)
            /\ i <= Len(rs) /\ rs[i].from # n + 1 /\ rs[i].to = n - 1 /\ Joins(rs, i, n)
  <2> DEFINE ms == [rs EXCEPT ![i].to = rs[i + 1].to]
             ls == RemoveAt(ms, i + 1)
  <2>0. i \in 1 .. Len(rs) /\ i + 1 \in 1 .. Len(rs) /\ rs[i + 1].from = n + 1
    BY <1>1, <1>2, <1>10 DEF Joins
  <2>1. /\ ms \in Seq(Interval) /\ Len(ms) = Len(rs)
        /\ ms[i] = [from |-> rs[i].from, to |-> rs[i + 1].to]
        /\ \A k \in 1 .. Len(rs) : k # i => ms[k] = rs[k]
    BY <1>1, <2>0 DEF Interval
  <2> HIDE DEF ms
  <2>2. /\ ls \in Seq(Interval) /\ Len(ls) = Len(rs) - 1
        /\ \A j \in 1 .. Len(rs) - 1 : ls[j] = IF j < i + 1 THEN ms[j] ELSE ms[j + 1]
    <3>1. i + 1 \in 1 .. Len(ms)
      BY <2>0, <2>1
    <3>2. /\ ls \in Seq(Interval) /\ Len(ls) = Len(ms) - 1
          /\ \A j \in 1 .. Len(ms) - 1 : ls[j] = IF j < i + 1 THEN ms[j] ELSE ms[j + 1]
      BY <2>1, <3>1, RemoveAtElems
    <3> QED BY <2>1, <3>2
  <2> HIDE DEF ls
  <2>3. /\ \A j \in 1 .. Len(rs) - 1 : j < i => ls[j] = rs[j]
        /\ ls[i] = [from |-> rs[i].from, to |-> rs[i + 1].to]
        /\ \A j \in 1 .. Len(rs) - 1 : j > i => ls[j] = rs[j + 1]
    <3>1. i \in 1 .. Len(rs) - 1 /\ Len(rs) \in Nat
      BY <1>1, <2>0
    <3>2. ASSUME NEW j \in 1 .. Len(rs) - 1, j < i PROVE ls[j] = rs[j]
      <4>1. j \in 1 .. Len(rs) /\ j # i /\ j < i + 1
        BY <3>1, <3>2
      <4> QED BY <2>1, <2>2, <4>1
    <3>3. ASSUME NEW j \in 1 .. Len(rs) - 1, j > i PROVE ls[j] = rs[j + 1]
      <4>1. j + 1 \in 1 .. Len(rs) /\ j + 1 # i /\ ~(j < i + 1)
        BY <3>1, <3>3
      <4> QED BY <2>1, <2>2, <4>1
    <3> QED BY <2>1, <2>2, <3>1, <3>2, <3>3
  <2>4. Canon(ls)
    <3>1. \A k \in 1 .. Len(ls) : ls[k].from <= ls[k].to
      <4> SUFFICES ASSUME NEW k \in 1 .. Len(ls) PROVE ls[k].from <= ls[k].to
        OBVIOUS
      <4>1. /\ k \in 1 .. Len(rs) - 1 /\ k \in 1 .. Len(rs) /\ k + 1 \in 1 .. Len(rs)
            /\ i \in 1 .. Len(rs) /\ i + 1 \in 1 .. Len(rs) /\ i < i + 1
        BY <1>1, <2>0, <2>2
      <4>2. CASE k = i
        <5>1. rs[i].from <= rs[i].to /\ rs[i].to + 1 < rs[i + 1].from /\ rs[i + 1].from <= rs[i + 1].to
          BY <1>1, <4>1
        <5>2. ls[k].from = rs[i].from /\ ls[k].to = rs[i + 1].to
          BY <2>3, <4>2
        <5> QED BY <1>1, <4>1, <5>1, <5>2
      <4>3. CASE k < i
        BY <1>1, <2>3, <4>1, <4>3
      <4>4. CASE k > i
        BY <1>1, <2>3, <4>1, <4>4
      <4> QED BY <4>1, <4>2, <4>3, <4>4
    <3>2. \A k \in 1 .. Len(ls) - 1 : ls[k].to + 1 < ls[k + 1].from
      <4> SUFFICES ASSUME NEW k \in 1 .. Len(ls) - 1 PROVE ls[k].to + 1 < ls[k + 1].from
        OBVIOUS
      <4>1. /\ k \in 1 .. Len(rs) - 1 /\ k + 1 \in 1 .. Len(rs) - 1
            /\ k \in 1 .. Len(rs) /\ k + 1 \in 1 .. Len(rs) /\ k + 2 \in 1 .. Len(rs)
            /\ i \in 1 .. Len(rs) /\ (k + 1) + 1 = k + 2
        BY <1>1, <2>0, <2>2
      <4>2. rs[k].to + 1 < rs[k + 1].from /\ rs[k + 1].to + 1 < rs[k + 2].from
        <5>1. \A j \in 1 .. Len(rs) - 1 : rs[j].to + 1 < rs[j + 1].from
          BY <1>1
        <5>2. rs[k + 1].to + 1 < rs[(k + 1) + 1].from
          BY <4>1, <5>1
        <5> QED BY <4>1, <5>1, <5>2
      <4>3. CASE k = i
        BY <2>3, <4>1, <4>2, <4>3
      <4>4. CASE k + 1 = i
        BY <2>3, <4>1, <4>2, <4>4
      <4>5. CASE k > i
        BY <2>3, <4>1, <4>2, <4>5
      <4>6. CASE k + 1 < i
        BY <2>3, <4>1, <4>2, <4>6
      <4> QED BY <4>1, <4>3, <4>4, <4>5, <4>6
    <3> QED BY <2>2, <3>1, <3>2, IsCanon
  <2>5. Covered(ls) = Covered(rs) \union {n}
    <3>1. \A x : x \in Covered(ls) <=> \E k \in 1 .. Len(rs) - 1 : x \in ls[k].from .. ls[k].to
      BY <2>2, CoveredElems
    <3>2. \A x : x \in ls[i].from .. ls[i].to
                 <=> x \in rs[i].from .. rs[i].to \/ x \in rs[i + 1].from .. rs[i + 1].to \/ x = n
      <4>1. i \in 1 .. Len(rs) /\ i + 1 \in 1 .. Len(rs) /\ i \in 1 .. Len(rs) - 1
        BY <1>1, <2>0
      <4>2. /\ rs[i].from \in Nat /\ rs[i].to \in Nat /\ rs[i].from <= rs[i].to
            /\ rs[i + 1].from \in Nat /\ rs[i + 1].to \in Nat /\ rs[i + 1].from <= rs[i + 1].to
        BY <1>1, <4>1
      <4>3. rs[i].to + 1 = n /\ n + 1 = rs[i + 1].from
        BY <1>1, <1>10, <2>0, <4>1
      <4>4. ls[i].from = rs[i].from /\ ls[i].to = rs[i + 1].to
        BY <2>3, <4>1
      <4>5. ASSUME NEW a \in Nat, NEW b \in Nat, NEW c \in Nat, NEW d \in Nat,
                   a <= b, c <= d, b + 1 = n, n + 1 = c
            PROVE \A x : x \in a .. d <=> x \in a .. b \/ x \in c .. d \/ x = n
        BY <4>5
      <4>6. \A x : x \in rs[i].from .. rs[i + 1].to
                   <=> x \in rs[i].from .. rs[i].to \/ x \in rs[i + 1].from .. rs[i + 1].to \/ x = n
        BY <4>2, <4>3, <4>5
      <4> HIDE DEF ls
      <4> QED BY <4>4, <4>6
    <3>3. i \in 1 .. Len(rs) - 1
      BY <1>1, <2>0
    <3>4. ASSUME NEW x \in Covered(ls) PROVE x \in Covered(rs) \union {n}
      <4>1. PICK k \in 1 .. Len(rs) - 1 : x \in ls[k].from .. ls[k].to
        BY <3>1, <3>4
      <4>2. k \in 1 .. Len(rs) /\ k + 1 \in 1 .. Len(rs)
        BY <1>1
      <4>3. CASE k = i
        BY <1>4, <2>0, <3>2, <4>1, <4>3
      <4>4. CASE k < i
        BY <1>4, <2>3, <4>1, <4>2, <4>4
      <4>5. CASE k > i
        BY <1>4, <2>3, <4>1, <4>2, <4>5
      <4> QED BY <2>0, <4>3, <4>4, <4>5
    <3>5. ASSUME NEW x \in Covered(rs) PROVE x \in Covered(ls)
      <4>1. PICK k \in 1 .. Len(rs) : x \in rs[k].from .. rs[k].to
        BY <1>4, <3>5
      <4>2. CASE k \in {i, i + 1}
        BY <3>1, <3>2, <3>3, <4>1, <4>2
      <4>3. CASE k < i
        <5>1. k \in 1 .. Len(rs) - 1
          BY <1>1, <3>3, <4>3
        <5> QED BY <2>3, <3>1, <4>1, <4>3, <5>1
      <4>4. CASE k > i + 1
        <5>1. k - 1 \in 1 .. Len(rs) - 1 /\ k - 1 > i /\ (k - 1) + 1 = k
          BY <1>1, <3>3, <4>4
        <5>2. ls[k - 1] = rs[k]
          BY <2>3, <5>1
        <5> QED BY <3>1, <4>1, <5>1, <5>2
      <4> QED BY <2>0, <4>2, <4>3, <4>4
    <3>6. n \in Covered(ls)
      BY <3>1, <3>2, <3>3
    <3> QED BY <3>4, <3>5, <3>6
  <2>6. res = [list |-> ls, ret |-> "RFL_SUCCESS"]
    BY <1>3, <1>10 DEF ls, ms
  <2> QED BY <1>7, <1>10, <2>4, <2>5, <2>6 DEF Freed
<1>11. CASE ~(i <= Len(rs)) \/ rs[i].from > n + 1
  <2> DEFINE e == [from |-> n, to |-> n]
             ls == InsertAt(rs, i, e)
  <2>0. e \in Interval /\ e.from = n /\ e.to = n
    BY DEF Interval
  <2> HIDE DEF e
  <2>1. /\ ls \in Seq(Interval) /\ Len(ls) = Len(rs) + 1
        /\ \A j \in 1 .. Len(rs) + 1 : ls[j] = IF j < i THEN rs[j] ELSE IF j = i THEN e ELSE rs[j - 1]
    <3>1. rs \in Seq(Interval) /\ i \in 1 .. Len(rs) + 1
      BY <1>1, <1>2
    <3> HIDE DEF ls
    <3>2. /\ InsertAt(rs, i, e) \in Seq(Interval) /\ Len(InsertAt(rs, i, e)) = Len(rs) + 1
          /\ \A j \in 1 .. Len(rs) + 1 :
               InsertAt(rs, i, e)[j] = IF j < i THEN rs[j] ELSE IF j = i THEN e ELSE rs[j - 1]
      BY <2>0, <3>1, InsertAtElems
    <3> QED BY <3>2 DEF ls
  <2> HIDE DEF ls
  <2>2. \A j \in 1 .. Len(rs) : i <= j => rs[j].from > n + 1
    BY <1>1, <1>2, <1>11
  <2>3. ~(i <= Len(rs) /\ n \in rs[i].from .. rs[i].to)
    BY <1>1, <1>2, <1>11
  <2>4. n - 1 \notin Covered(rs) /\ n + 1 \notin Covered(rs)
    <3>1. ASSUME NEW j \in 1 .. Len(rs)
          PROVE n - 1 \notin rs[j].from .. rs[j].to /\ n + 1 \notin rs[j].from .. rs[j].to
      BY <1>1, <1>2, <2>2
    <3> QED BY <1>4, <3>1
  <2>5. Canon(ls)
    <3>1. \A k \in 1 .. Len(ls) : ls[k].from <= ls[k].to
      <4> SUFFICES ASSUME NEW k \in 1 .. Len(ls) PROVE ls[k].from <= ls[k].to
        OBVIOUS
      <4>1. CASE k < i
        BY <1>1, <1>2, <2>1, <4>1
      <4>2. CASE k = i
        BY <1>1, <2>0, <2>1, <4>2
      <4>3. CASE k > i
        <5>1. ls[k] = rs[k - 1] /\ k - 1 \in 1 .. Len(rs)
          BY <1>1, <1>2, <2>1, <4>3
        <5> QED BY <1>1, <5>1
      <4> QED BY <1>2, <2>1, <4>1, <4>2, <4>3
    <3>2. \A k \in 1 .. Len(ls) - 1 : ls[k].to + 1 < ls[k + 1].from
      <4> SUFFICES ASSUME NEW k \in 1 .. Len(ls) - 1 PROVE ls[k].to + 1 < ls[k + 1].from
        OBVIOUS
      <4>1. /\ k \in 1 .. Len(rs) + 1 /\ k + 1 \in 1 .. Len(rs) + 1 /\ k \in 1 .. Len(rs)
            /\ (k + 1) - 1 = k
        BY <1>1, <2>1
      <4>2. CASE k = i
        <5>1. ls[k] = e /\ ls[k + 1] = rs[k] /\ rs[k].from > n + 1
          BY <1>1, <2>1, <2>2, <4>1, <4>2
        <5> QED BY <1>1, <2>0, <4>1, <5>1
      <4>3. CASE k + 1 = i
        BY <1>1, <1>2, <2>0, <2>1, <4>1, <4>3
      <4>4. CASE k + 1 < i
        <5>1. ls[k] = rs[k] /\ ls[k + 1] = rs[k + 1] /\ k + 1 \in 1 .. Len(rs)
          BY <1>1, <1>2, <2>1, <4>1, <4>4
        <5> QED BY <1>1, <4>1, <5>1
      <4>5. CASE k > i
        <5>1. ls[k] = rs[k - 1] /\ ls[k + 1] = rs[k] /\ k - 1 \in 1 .. Len(rs) /\ k - 1 < k
          BY <1>1, <1>2, <2>1, <4>1, <4>5
        <5>2. rs[k - 1].to + 1 < rs[k].from
          BY <1>1, <4>1, <5>1
        <5> QED BY <5>1, <5>2
      <4> QED BY <1>2, <4>1, <4>2, <4>3, <4>4, <4>5
    <3> QED BY <2>1, <3>1, <3>2, IsCanon
  <2>6. Covered(ls) = Covered(rs) \union {n}
    <3>1. \A x : x \in Covered(ls) <=> \E k \in 1 .. Len(ls) : x \in ls[k].from .. ls[k].to
      BY <2>1, CoveredElems
    <3>2. ASSUME NEW x \in Covered(ls) PROVE x \in Covered(rs) \union {n}
      <4>1. PICK k \in 1 .. Len(ls) : x \in ls[k].from .. ls[k].to
        BY <3>1, <3>2
      <4>2. CASE k < i
        BY <1>1, <1>2, <1>4, <2>1, <4>1, <4>2
      <4>3. CASE k = i
        BY <1>1, <2>0, <2>1, <4>1, <4>3
      <4>4. CASE k > i
        <5>1. ls[k] = rs[k - 1] /\ k - 1 \in 1 .. Len(rs)
          BY <1>1, <1>2, <2>1, <4>4
        <5> QED BY <1>4, <4>1, <5>1
      <4> QED BY <1>2, <4>2, <4>3, <4>4
    <3>3. ASSUME NEW x \in Covered(rs) PROVE x \in Covered(ls)
      <4>1. PICK k \in 1 .. Len(rs) : x \in rs[k].from .. rs[k].to
        BY <1>4
      <4>2. CASE k < i
        <5>1. k \in 1 .. Len(ls) /\ ls[k] = rs[k]
          BY <1>1, <2>1, <4>2
        <5> QED BY <3>1, <4>1, <5>1
      <4>3. CASE k >= i
        <5>1. k + 1 \in 1 .. Len(rs) + 1 /\ ~(k + 1 < i) /\ k + 1 # i /\ (k + 1) - 1 = k
          BY <1>1, <1>2, <4>3
        <5>2. k + 1 \in 1 .. Len(ls) /\ ls[k + 1] = rs[k]
          BY <2>1, <5>1
        <5> QED BY <3>1, <4>1, <5>2
      <4> QED BY <1>2, <4>2, <4>3
    <3>4. n \in Covered(ls)
      <4>1. i \in 1 .. Len(ls) /\ ls[i] = e
        BY <1>1, <1>2, <2>1
      <4> QED BY <2>0, <3>1, <4>1
    <3> QED BY <3>2, <3>3, <3>4
  <2>7. i <= Len(rs) => rs[i].from # n + 1 /\ rs[i].to # n - 1
    BY <1>1, <1>2, <1>11
  <2>8. res = IF memory = "both" THEN [list |-> ls, ret |-> "RFL_SUCCESS"]
              ELSE IF memory = "range" THEN [list |-> rs, ret |-> "RFL_SUCCESS"]
              ELSE [list |-> rs, ret |-> "E_RFL_NOMEM"]
    BY <1>3, <2>3, <2>7 DEF ls, e
  <2>9. CASE memory = "both"
    BY <1>7, <2>3, <2>5, <2>6, <2>8, <2>9 DEF Freed
  <2>10. CASE memory # "both"
    <3>1. res.list = rs /\ res.ret \in {"RFL_SUCCESS", "E_RFL_NOMEM"}
      BY <2>8, <2>10
    <3> QED BY <1>7, <2>3, <2>4, <2>10, <3>1 DEF Freed
  <2> QED BY <2>9, <2>10
<1> QED BY <1>2, <1>5, <1>8, <1>9, <1>10, <1>11

\* sys$rfl_alloc takes the least free number and no other, and leaves a canonical list.
LEMMA RestKeeps ==
  ASSUME NEW rs, Canon(rs), rs # <<>>
  PROVE  /\ Canon(Rest(rs))
         /\ rs[1].from \in Covered(rs)
         /\ \A x \in Covered(rs) : rs[1].from <= x
         /\ Covered(Rest(rs)) = Covered(rs) \ {rs[1].from}
<1> DEFINE ls == Rest(rs)
<1>1. /\ rs \in Seq(Interval) /\ Len(rs) \in Nat /\ DOMAIN rs = 1 .. Len(rs)
      /\ \A k \in 1 .. Len(rs) : /\ rs[k] \in Interval
                                 /\ rs[k] = [from |-> rs[k].from, to |-> rs[k].to]
                                 /\ rs[k].from \in Nat /\ rs[k].to \in Nat
                                 /\ rs[k].from <= rs[k].to
      /\ \A k, j \in 1 .. Len(rs) : k < j => rs[k].to + 1 < rs[j].from
  BY CanonElems
<1>2. 1 \in 1 .. Len(rs)
  BY <1>1, EmptySeq
<1>3. \A x : x \in Covered(rs) <=> \E k \in 1 .. Len(rs) : x \in rs[k].from .. rs[k].to
  BY <1>1, CoveredElems
<1>4. rs[1].from \in Covered(rs)
  BY <1>1, <1>2, <1>3
<1>7. \A x \in Covered(rs) : rs[1].from <= x
  <2> SUFFICES ASSUME NEW x \in Covered(rs) PROVE rs[1].from <= x
    OBVIOUS
  <2>1. PICK k \in 1 .. Len(rs) : x \in rs[k].from .. rs[k].to
    BY <1>3
  <2>2. rs[1].from <= rs[k].from
    BY <1>1, <1>2
  <2> QED BY <1>1, <1>2, <2>1, <2>2
<1>5. CASE rs[1].from = rs[1].to
  <2>1. /\ ls \in Seq(Interval) /\ Len(ls) = Len(rs) - 1
        /\ \A k \in 1 .. Len(rs) - 1 : ls[k] = rs[k + 1]
    BY <1>1, <1>5, HeadTailProperties DEF Rest
  <2> HIDE DEF ls
  <2>2. Canon(ls)
    <3>1. \A k \in 1 .. Len(ls) : ls[k].from <= ls[k].to
      BY <1>1, <2>1
    <3>2. \A k \in 1 .. Len(ls) - 1 : ls[k].to + 1 < ls[k + 1].from
      <4> SUFFICES ASSUME NEW k \in 1 .. Len(ls) - 1 PROVE ls[k].to + 1 < ls[k + 1].from
        OBVIOUS
      <4>1. /\ k + 1 \in 1 .. Len(rs) /\ k + 2 \in 1 .. Len(rs) /\ k + 1 < k + 2
            /\ ls[k] = rs[k + 1] /\ ls[k + 1] = rs[k + 2]
        BY <1>1, <2>1
      <4>2. rs[k + 1].to + 1 < rs[k + 2].from
        BY <1>1, <4>1
      <4> QED BY <4>1, <4>2
    <3> QED BY <2>1, <3>1, <3>2, IsCanon
  <2>3. Covered(ls) = Covered(rs) \ {rs[1].from}
    <3>1. \A x : x \in Covered(ls) <=> \E k \in 1 .. Len(rs) - 1 : x \in ls[k].from .. ls[k].to
      BY <2>1, CoveredElems
    <3>2. ASSUME NEW x \in Covered(ls) PROVE x \in Covered(rs) /\ x # rs[1].from
      <4>1. PICK k \in 1 .. Len(rs) - 1 : x \in ls[k].from .. ls[k].to
        BY <3>1, <3>2
      <4>2. ls[k] = rs[k + 1] /\ k + 1 \in 1 .. Len(rs) /\ 1 < k + 1
        BY <1>1, <2>1
      <4>3. rs[1].to + 1 < rs[k + 1].from
        BY <1>1, <1>2, <4>2
      <4> QED BY <1>1, <1>2, <1>3, <4>1, <4>2, <4>3
    <3>3. ASSUME NEW x \in Covered(rs), x # rs[1].from PROVE x \in Covered(ls)
      <4>1. PICK k \in 1 .. Len(rs) : x \in rs[k].from .. rs[k].to
        BY <1>3, <3>3
      <4>2. k # 1
        BY <1>1, <1>2, <1>5, <3>3, <4>1
      <4>3. k - 1 \in 1 .. Len(rs) - 1 /\ (k - 1) + 1 = k
        BY <1>1, <4>2
      <4>4. ls[k - 1] = rs[k]
        BY <2>1, <4>3
      <4> QED BY <3>1, <4>1, <4>3, <4>4
    <3> QED BY <3>2, <3>3
  <2> QED BY <1>4, <1>7, <2>2, <2>3 DEF ls
<1>6. CASE rs[1].from # rs[1].to
  <2>1. /\ ls \in Seq(Interval) /\ Len(ls) = Len(rs)
        /\ ls[1] = [from |-> rs[1].from + 1, to |-> rs[1].to]
        /\ \A k \in 1 .. Len(rs) : k # 1 => ls[k] = rs[k]
    <3>1. [rs[1] EXCEPT !.from = @ + 1] = [from |-> rs[1].from + 1, to |-> rs[1].to]
      BY <1>1, <1>2 DEF Interval
    <3>2. [rs[1] EXCEPT !.from = @ + 1] \in Interval
      BY <1>1, <1>2, <3>1 DEF Interval
    <3>3. ls = [rs EXCEPT ![1] = [rs[1] EXCEPT !.from = @ + 1]]
      BY <1>6 DEF Rest
    <3>4. /\ ls \in Seq(Interval) /\ Len(ls) = Len(rs) /\ DOMAIN ls = DOMAIN rs
          /\ \A k \in 1 .. Len(rs) : ls[k] = IF k = 1 THEN [rs[1] EXCEPT !.from = @ + 1] ELSE rs[k]
      BY <1>1, <1>2, <3>2, <3>3, ExceptSeq
    <3> QED BY <1>2, <3>1, <3>4
  <2> HIDE DEF ls
  <2>2. Canon(ls)
    <3>1. \A k \in 1 .. Len(ls) : ls[k].from <= ls[k].to
      <4>1. ls[1].from <= ls[1].to
        BY <1>1, <1>2, <1>6, <2>1
      <4> QED BY <1>1, <2>1, <4>1
    <3>2. \A k \in 1 .. Len(ls) - 1 : ls[k].to + 1 < ls[k + 1].from
      <4> SUFFICES ASSUME NEW k \in 1 .. Len(ls) - 1 PROVE ls[k].to + 1 < ls[k + 1].from
        OBVIOUS
      <4>1. /\ k \in 1 .. Len(rs) /\ k + 1 \in 1 .. Len(rs) /\ k < k + 1
            /\ k + 1 # 1
        BY <1>1, <2>1
      <4>2. ls[k + 1] = rs[k + 1] /\ ls[k].to = rs[k].to
        BY <2>1, <4>1
      <4>3. rs[k].to + 1 < rs[k + 1].from
        BY <1>1, <4>1
      <4> QED BY <4>2, <4>3
    <3> QED BY <2>1, <3>1, <3>2, IsCanon
  <2>3. Covered(ls) = Covered(rs) \ {rs[1].from}
    <3>1. \A x : x \in Covered(ls) <=> \E k \in 1 .. Len(rs) : x \in ls[k].from .. ls[k].to
      BY <2>1, CoveredElems
    <3>2. \A x : x \in ls[1].from .. ls[1].to <=> x \in rs[1].from .. rs[1].to /\ x # rs[1].from
      BY <1>1, <1>2, <2>1
    <3>3. \A k \in 1 .. Len(rs) : k # 1 => ls[k] = rs[k] /\ rs[1].from \notin rs[k].from .. rs[k].to
      <4>1. \A k \in 1 .. Len(rs) : k # 1 => rs[1].to + 1 < rs[k].from
        BY <1>1, <1>2
      <4> QED BY <1>1, <1>2, <2>1, <4>1
    <3> QED BY <1>2, <1>3, <3>1, <3>2, <3>3
  <2> QED BY <1>4, <1>7, <2>2, <2>3 DEF ls
<1> QED BY <1>5, <1>6

\* The list that sys$thread_init sets up.
LEMMA OneRange ==
  ASSUME NEW a \in Nat, NEW b \in Nat, a <= b
  PROVE  /\ Canon(<<[from |-> a, to |-> b]>>)
         /\ Covered(<<[from |-> a, to |-> b]>>) = a .. b
<1> DEFINE ls == <<[from |-> a, to |-> b]>>
<1>1. ls \in Seq(Interval) /\ Len(ls) = 1 /\ ls[1].from = a /\ ls[1].to = b
  BY DEF Interval
<1> HIDE DEF ls
<1>2. 1 .. 1 = {1}
  OBVIOUS
<1>3. Canon(ls)
  BY <1>1, IsCanon
<1>4. \A x : x \in Covered(ls) <=> \E k \in 1 .. 1 : x \in ls[k].from .. ls[k].to
  BY <1>1, CoveredElems
<1>5. Covered(ls) = a .. b
  BY <1>1, <1>2, <1>4
<1> QED BY <1>3, <1>5 DEF ls
=============================================================================
