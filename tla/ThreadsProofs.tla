---------------------------- MODULE ThreadsProofs ----------------------------
(***************************************************************************)
(* The thread numbers, the UTCB slots, the hash table and the threads of   *)
(* the microkernel agree, and every halt is explained, for any number of   *)
(* protection domains, threads and thread numbers.                         *)
(*                                                                         *)
(* The properties speak of the state between calls; the invariant also     *)
(* says how far a creation has come (Creating) and which threads are past  *)
(* theirs (Settled, Kernel).  The lists of threads are sequences, but the  *)
(* argument is about the set Live of their elements: each operation on a   *)
(* list adds, removes or replaces one element of it.                       *)
(***************************************************************************)
EXTENDS Threads, ListFacts, FiniteSetTheorems

\* A thread as its domain keeps it.
Record == [pd : Pds, no : Numbers \union {0}, slot : Int, hashed : BOOLEAN]

\* The states of a domain that may have threads.
Ready == {"pd_empty", "pd_active"}

\* The steps of a creation, and where one that was halted stopped.
Steps  == {"slot", "number", "hash", "control", "activate"}
Midway == Steps \union {"ASSERT", "PANIC_104", "PANIC_136"}

\* The lists of threads: a thread is in the list of its domain, once.
Lists ==
  /\ threads \in [Pds -> Seq(Record)]
  /\ \A pd \in Pds : IsInjective(threads[pd]) /\ \A t \in ToSet(threads[pd]) : t.pd = pd

\* Only a domain whose creation succeeded has threads.
Owned == \A t \in Live : state[t.pd] \in Ready

\* No two threads share a number, and no two of a domain a slot.
Distinct ==
  \A t, u \in Live : /\ t.no = u.no => t = u
                     /\ t.pd = u.pd /\ t.slot = u.slot => t = u

\* A number is free, held by a thread, or lost.
FreeNumbers ==
  /\ Canon(thread_list)
  /\ Covered(thread_list) \subseteq Numbers
  /\ lost \subseteq Numbers
  /\ \A t \in Live : t.no \notin Covered(thread_list)
  /\ \A n \in Numbers : n \in Covered(thread_list) \/ n \in lost \/ \E t \in Live : t.no = n

\* The free slots of a domain are those its threads do not use; a domain without a bit
\* list has no thread that got past the allocation of its slot.
FreeSlots ==
  /\ local \in [Pds -> SUBSET Int]
  /\ \A pd \in Pds : local[pd] = NULL \/ local[pd] \subseteq Slots(pd)
  /\ \A pd \in Pds : state[pd] \in Ready /\ local[pd] # NULL =>
       \A s \in Slots(pd) : s \in local[pd] <=> \A t \in Live : t.pd = pd => t.slot # s
  /\ \A t \in Live : t.slot # -1 => t.slot \in Slots(t.pd) /\ local[t.pd] # NULL

\* The hash table holds the threads whose insertion succeeded.
Hashed == hash = {t \in Live : t.hashed}

\* How far the thread being created has come.
Creating ==
  pc \in Midway =>
    /\ threads[who] # <<>>
    /\ New.no = 0 <=> pc \in {"slot", "number"}
    /\ New.slot = -1 <=> pc = "slot"
    /\ pc \in {"slot", "number", "hash"} => ~New.hashed
    /\ New.no # 0 => \A n \in Covered(thread_list) : New.no < n
    /\ pc = "activate" =>
         /\ New.no < TOTAL_KTCBS
         /\ ~tcb[New.no].active
         /\ tcb[New.no].space = who \/ Len(threads[who]) = 1

\* The threads whose creation is over.
Settled == IF pc = "idle" THEN Live ELSE Live \ {New}

\* The microkernel runs exactly those, each in the space of its domain.
Kernel ==
  /\ tcb \in [MinNo .. TOTAL_KTCBS - 1 -> [space : Pds \union {Bare, "none"}, active : BOOLEAN]]
  /\ pc \in Steps \union {"idle"} =>
       /\ \A t \in Settled : /\ t.no \in MinNo .. TOTAL_KTCBS - 1
                             /\ t.slot # -1
                             /\ tcb[t.no] = [space |-> t.pd, active |-> TRUE]
       /\ \A n \in MinNo .. TOTAL_KTCBS - 1 : tcb[n].active => \E t \in Settled : t.no = n

\* The inductive invariant.
TInv ==
  /\ state \in [Pds -> {"none", "leaked", "pd_empty", "pd_active"}]
  /\ pc \in {"idle"} \union Steps \union Halts
  /\ who \in Pds
  /\ Lists
  /\ Owned
  /\ Distinct
  /\ FreeNumbers
  /\ FreeSlots
  /\ Hashed
  /\ Creating
  /\ Kernel
  /\ HaltsExplained
-----------------------------------------------------------------------------
(***************************************************************************)
(* How the list operations change the set of threads                       *)
(***************************************************************************)

\* The threads of a domain are those that name it.
LEMMA LiveInList ==
  ASSUME Lists
  PROVE  /\ Live \subseteq Record
         /\ \A t \in Live : t.pd \in Pds
         /\ \A pd \in Pds : \A t : t \in ToSet(threads[pd]) <=> t \in Live /\ t.pd = pd
<1>1. ASSUME NEW pd \in Pds PROVE ToSet(threads[pd]) \subseteq Record
  <2>1. threads[pd] \in Seq(Record)
    BY DEF Lists
  <2>2. \A i \in DOMAIN threads[pd] : threads[pd][i] \in Record
    BY <2>1, ElementOfSeq, LenProperties
  <2> QED BY <2>2 DEF ToSet
<1>2. \A t : t \in Live <=> \E pd \in Pds : t \in ToSet(threads[pd])
  BY DEF Live
<1>3. \A pd \in Pds : \A t \in ToSet(threads[pd]) : t.pd = pd
  BY DEF Lists
<1> QED BY <1>1, <1>2, <1>3

\* The list of one domain is replaced.
LEMMA OneListChanges ==
  ASSUME Lists, NEW pd \in Pds, NEW s \in Seq(Record), IsInjective(s),
         \A t \in ToSet(s) : t.pd = pd,
         threads' = [threads EXCEPT ![pd] = s]
  PROVE  Lists' /\ Live' = {t \in Live : t.pd # pd} \union ToSet(s)
<1>1. threads \in [Pds -> Seq(Record)]
  BY DEF Lists
<1>2. /\ threads' \in [Pds -> Seq(Record)] /\ threads'[pd] = s
      /\ \A other \in Pds : other # pd => threads'[other] = threads[other]
  BY <1>1
<1>3. Lists'
  BY <1>2 DEF Lists
<1>4. \A t : t \in Live' <=> \E other \in Pds : t \in ToSet(threads'[other])
  BY DEF Live
<1>5. \A other \in Pds : \A t : t \in ToSet(threads[other]) <=> t \in Live /\ t.pd = other
  BY LiveInList
<1>6. \A t \in Live : t.pd \in Pds
  BY LiveInList
<1>7. ASSUME NEW t PROVE t \in Live' <=> (t \in Live /\ t.pd # pd) \/ t \in ToSet(s)
  BY <1>2, <1>4, <1>5, <1>6
<1> QED BY <1>3, <1>7

\* A thread that is unlinked is gone, and no other.
LEMMA UnlinkedLive ==
  ASSUME Lists, NEW t \in Live, threads' = Unlinked(t)
  PROVE  Lists' /\ Live' = Live \ {t}
<1>1. t.pd \in Pds /\ \A u : u \in ToSet(threads[t.pd]) <=> u \in Live /\ u.pd = t.pd
  BY LiveInList
<1> DEFINE s == RemoveFirst(threads[t.pd], t)
<1>2. threads[t.pd] \in Seq(Record) /\ IsInjective(threads[t.pd])
  BY <1>1 DEF Lists
<1>3. s \in Seq(Record) /\ IsInjective(s) /\ ToSet(s) = ToSet(threads[t.pd]) \ {t}
  BY <1>2, RemoveFirstOnce
<1>4. threads' = [threads EXCEPT ![t.pd] = s]
  BY DEF Unlinked
<1> HIDE DEF s
<1>5. Lists' /\ Live' = {u \in Live : u.pd # t.pd} \union ToSet(s)
  BY <1>1, <1>3, <1>4, OneListChanges
<1> QED BY <1>1, <1>3, <1>5

\* The thread being created is one of its domain.
LEMMA NewLive ==
  ASSUME Lists, who \in Pds, threads[who] # <<>>
  PROVE  New \in Live /\ New.pd = who /\ New \in Record
<1>1. threads[who] \in Seq(Record)
  BY DEF Lists
<1>2. New \in ToSet(threads[who]) /\ New \in Record
  BY <1>1, LastIsElement DEF New
<1> QED BY <1>2, LiveInList

\* The thread being created is changed in its place.
LEMMA ChangedLive ==
  ASSUME Lists, who \in Pds, threads[who] # <<>>, NEW t \in Record, t.pd = who,
         t \notin Live \ {New}, threads' = Changed(t), who' = who
  PROVE  /\ Lists' /\ Live' = (Live \ {New}) \union {t}
         /\ threads'[who'] # <<>> /\ New' = t /\ Len(threads'[who']) = Len(threads[who])
<1>1. \A u : u \in ToSet(threads[who]) <=> u \in Live /\ u.pd = who
  BY LiveInList
<1> DEFINE s == ReplaceAt(threads[who], Len(threads[who]), t)
<1>2. threads[who] \in Seq(Record) /\ IsInjective(threads[who])
  BY DEF Lists
<1>3. t \notin ToSet(threads[who]) \ {Last(threads[who])}
  BY <1>1 DEF New
<1>4. /\ s \in Seq(Record) /\ IsInjective(s) /\ s # <<>>
      /\ ToSet(s) = (ToSet(threads[who]) \ {New}) \union {t}
      /\ Last(s) = t /\ Len(s) = Len(threads[who])
  BY <1>2, <1>3, ReplaceLast DEF New
<1>5. threads' = [threads EXCEPT ![who] = s]
  BY DEF Changed
<1> HIDE DEF s
<1>6. Lists' /\ Live' = {u \in Live : u.pd # who} \union ToSet(s)
  BY <1>1, <1>4, <1>5, OneListChanges
<1>7. threads'[who'] = s
  BY <1>5 DEF Lists
<1>8. New.pd = who
  BY NewLive
<1>9. Live' = (Live \ {New}) \union {t}
  BY <1>1, <1>4, <1>6, <1>8
<1>10. New' = t
  BY <1>4, <1>7 DEF New
<1> QED BY <1>4, <1>6, <1>7, <1>9, <1>10

\* sys$pd_create_thread links a new thread.
LEMMA AppendLive ==
  ASSUME Lists, NEW pd \in Pds, NEW t \in Record, t.pd = pd, t \notin Live,
         threads' = [threads EXCEPT ![pd] = Append(@, t)], who' = pd
  PROVE  Lists' /\ Live' = Live \union {t} /\ threads'[who'] # <<>> /\ New' = t
<1>1. \A u : u \in ToSet(threads[pd]) <=> u \in Live /\ u.pd = pd
  BY LiveInList
<1> DEFINE s == Append(threads[pd], t)
<1>2. threads[pd] \in Seq(Record) /\ IsInjective(threads[pd])
  BY DEF Lists
<1>3. t \notin ToSet(threads[pd])
  BY <1>1
<1>4. /\ s \in Seq(Record) /\ IsInjective(s) /\ s # <<>> /\ Last(s) = t
      /\ ToSet(s) = ToSet(threads[pd]) \union {t}
  BY <1>2, <1>3, AppendOnce, AppendLast
<1>5. threads' = [threads EXCEPT ![pd] = s]
  OBVIOUS
<1> HIDE DEF s
<1>6. Lists' /\ Live' = {u \in Live : u.pd # pd} \union ToSet(s)
  BY <1>1, <1>4, <1>5, OneListChanges
<1>7. threads'[who'] = s
  BY <1>5 DEF Lists
<1>8. Live' = Live \union {t}
  BY <1>1, <1>4, <1>6
<1>9. New' = t
  BY <1>4, <1>7 DEF New
<1> QED BY <1>4, <1>6, <1>7, <1>8, <1>9

-----------------------------------------------------------------------------
(***************************************************************************)
(* The steps                                                               *)
(***************************************************************************)

\* It holds when nothing has been created.
LEMMA InitTInv == ASSUME Init PROVE TInv
<1>1. \A pd \in Pds : threads[pd] = <<>> /\ ToSet(threads[pd]) = {}
  BY DEF Init, ToSet
<1>2. Live = {}
  BY <1>1 DEF Live
<1>3. Lists
  <2>1. threads \in [Pds -> Seq(Record)]
    BY DEF Init
  <2> QED BY <1>1, <2>1 DEF Lists, IsInjective
<1>4. FreeNumbers
  <2>1. MinNo \in Nat /\ TOTAL_KTCBS \in Nat /\ MinNo <= TOTAL_KTCBS
    BY ThreadsAssumption
  <2>2. Canon(thread_list) /\ Covered(thread_list) = MinNo .. TOTAL_KTCBS
    BY <2>1, OneRange DEF Init, MaxNo
  <2> QED BY <1>2, <2>2 DEF Init, FreeNumbers, Numbers, MaxNo
<1>5. FreeSlots
  BY <1>2 DEF Init, FreeSlots, Ready
<1>6. Kernel
  BY <1>2 DEF Init, Kernel, NoTcb, Settled
<1> QED BY <1>2, <1>3, <1>4, <1>5, <1>6
        DEF TInv, Init, Owned, Distinct, Hashed, Creating, HaltsExplained, Midway, Steps, Halts

\* A thread that is unlinked leaves its numbers and slots distinct.
LEMMA FewerThreads ==
  ASSUME Live' \subseteq Live, state' = state, Distinct, Owned
  PROVE  Distinct' /\ Owned'
  BY DEF Distinct, Owned

\* A state that is not a halt needs no explanation.
LEMMA StepsAndHalts ==
  ASSUME pc' \notin Halts PROVE HaltsExplained'
  BY DEF HaltsExplained, Halts

\* The slot of a thread that goes is free again.
LEMMA SlotFreed ==
  ASSUME Lists, Distinct, Owned, FreeSlots, NEW t \in Live, t.slot # -1,
         local' = [local EXCEPT ![t.pd] = @ \union {t.slot}],
         Live' = Live \ {t}, state' = state
  PROVE  FreeSlots'
<1>1. /\ t.pd \in Pds /\ \A u \in Live : u.pd \in Pds
      /\ state[t.pd] \in Ready /\ t.slot \in Slots(t.pd) /\ local[t.pd] # NULL
      /\ local \in [Pds -> SUBSET Int] /\ local[t.pd] \subseteq Slots(t.pd)
  BY LiveInList DEF FreeSlots, Owned
<1>2. /\ local'[t.pd] = local[t.pd] \union {t.slot}
      /\ \A pd \in Pds : pd # t.pd => local'[pd] = local[pd]
  BY <1>1
<1>3. t.slot \in Int /\ \A pd \in Pds : -1 \notin Slots(pd)
  BY <1>1, ThreadsAssumption DEF Slots
<1>4. local' \in [Pds -> SUBSET Int]
  BY <1>1, <1>3
<1>5. local'[t.pd] \subseteq Slots(t.pd) /\ local'[t.pd] # NULL
  BY <1>1, <1>2, <1>3 DEF NULL
<1>6. \A s \in Slots(t.pd) : s \in local'[t.pd] <=> \A u \in Live' : u.pd = t.pd => u.slot # s
  BY <1>1, <1>2 DEF FreeSlots, Distinct
<1>7. ASSUME NEW pd \in Pds, pd # t.pd, state[pd] \in Ready, local[pd] # NULL
      PROVE  \A s \in Slots(pd) : s \in local'[pd] <=> \A u \in Live' : u.pd = pd => u.slot # s
  BY <1>2, <1>7 DEF FreeSlots
<1>8. \A pd \in Pds : Slots(pd)' = Slots(pd)
  BY DEF Slots
<1>9. NULL' = NULL
  BY DEF NULL
<1> QED BY <1>1, <1>2, <1>4, <1>5, <1>6, <1>7, <1>8, <1>9 DEF FreeSlots

\* The number of a thread that goes is free again or lost, and the hash table forgets it.
LEMMA NumberFreed ==
  ASSUME Distinct, FreeNumbers, Hashed, NEW t \in Live, t.no \in Numbers,
         ThreadFree(t.no), Live' = Live \ {t}
  PROVE  FreeNumbers' /\ Hashed'
<1> DEFINE n == t.no
<1>1. n \in Nat /\ n > 0
  BY ThreadsAssumption DEF Numbers, MaxNo
<1>2. PICK memory \in Memory :
        /\ thread_list' = FreeNumber(thread_list, n, memory).list
        /\ lost' = IF memory = "both" THEN lost ELSE lost \union ({n} \ Covered(thread_list'))
  BY DEF ThreadFree
<1>3. Freed(thread_list, n, memory, FreeNumber(thread_list, n, memory))
  BY <1>1, FreeNumberKeeps DEF FreeNumbers
<1>4. n \notin Covered(thread_list)
  BY DEF FreeNumbers
<1>5. /\ Canon(thread_list')
      /\ \/ Covered(thread_list') = Covered(thread_list) \union {n}
         \/ memory # "both" /\ thread_list' = thread_list
  BY <1>2, <1>3, <1>4 DEF Freed
<1>6. /\ Covered(thread_list') \subseteq Covered(thread_list) \union {n}
      /\ Covered(thread_list) \subseteq Covered(thread_list')
      /\ lost \subseteq lost' /\ lost' \subseteq lost \union {n}
      /\ n \in Covered(thread_list') \/ n \in lost'
  BY <1>2, <1>5
<1>7. Covered(thread_list)' = Covered(thread_list')
  BY DEF Covered
<1>8. Numbers' = Numbers
  BY DEF Numbers, MaxNo
<1>9. FreeNumbers'
  BY <1>5, <1>6, <1>7, <1>8 DEF FreeNumbers, Distinct
<1>10. Hashed'
  BY DEF ThreadFree, HashRemove, Found, Hashed, Distinct
<1> QED BY <1>9, <1>10

\* sys$pd_create, with or without its bit list and its UTCB area.
LEMMA PdCreateStep == ASSUME TInv, NEW pd \in Pds, PdCreate(pd) PROVE TInv'
<1> USE DEF TInv
<1>1. Live' = Live /\ Lists' /\ pc = "idle" /\ pc' = "idle" /\ Settled' = Settled
  BY DEF PdCreate, Live, Lists, Settled
<1>2. PICK s \in Ready \union {"leaked"}, bits \in {Slots(pd), NULL} :
        /\ state' = [state EXCEPT ![pd] = s] /\ local' = [local EXCEPT ![pd] = bits]
  BY DEF PdCreate, Ready
<1>3. \A t \in Live : t.pd # pd /\ t.pd \in Pds
  BY LiveInList DEF PdCreate, Owned, Ready
<1>4. state' \in [Pds -> {"none", "leaked", "pd_empty", "pd_active"}]
  BY <1>2 DEF Ready
<1>5. Owned'
  BY <1>1, <1>2, <1>3 DEF Owned
<1>6. FreeSlots'
  <2>1. Slots(pd) \subseteq Int /\ NULL \subseteq Int
    BY DEF Slots, NULL
  <2>2. local' \in [Pds -> SUBSET Int]
    BY <1>2, <2>1 DEF FreeSlots
  <2>3. local'[pd] = bits /\ \A other \in Pds : other # pd => local'[other] = local[other]
    BY <1>2 DEF FreeSlots
  <2>4. \A other \in Pds : Slots(other)' = Slots(other)
    BY DEF Slots
  <2> QED BY <1>1, <1>2, <1>3, <2>2, <2>3, <2>4 DEF FreeSlots, NULL
<1>7. FreeNumbers' /\ Distinct' /\ Hashed'
  <2>1. thread_list' = thread_list /\ lost' = lost /\ hash' = hash
    BY DEF PdCreate
  <2>2. Canon(thread_list)' = Canon(thread_list) /\ Covered(thread_list)' = Covered(thread_list)
    BY <2>1 DEF Canon, Covered
  <2>3. Numbers' = Numbers
    BY DEF Numbers, MaxNo
  <2>4. FreeNumbers'
    BY <1>1, <2>1, <2>2, <2>3 DEF FreeNumbers
  <2>5. Distinct'
    BY <1>1 DEF Distinct
  <2>6. Hashed'
    BY <1>1, <2>1 DEF Hashed
  <2> QED BY <2>4, <2>5, <2>6
<1>8. Kernel' /\ Creating'
  BY <1>1 DEF PdCreate, Kernel, Creating, Midway, Steps
<1>9. HaltsExplained'
  BY <1>1, StepsAndHalts DEF Halts
<1> QED BY <1>1, <1>4, <1>5, <1>6, <1>7, <1>8, <1>9 DEF PdCreate

\* sys$pd_create_thread begins: the new thread has neither slot nor number.
LEMMA CreateStep == ASSUME TInv, NEW pd \in Pds, Create(pd) PROVE TInv'
<1> USE DEF TInv
<1> DEFINE t == [pd |-> pd, no |-> 0, slot |-> -1, hashed |-> FALSE]
<1>1. /\ t \in Record /\ t.pd = pd /\ t.no = 0 /\ t.slot = -1 /\ t.hashed = FALSE
      /\ 0 \notin Numbers /\ \A other \in Pds : -1 \notin Slots(other)
  BY ThreadsAssumption DEF Record, Numbers, MaxNo, Slots
<1>2. /\ pc = "idle" /\ pc' = "slot" /\ who' = pd /\ state[pd] \in Ready
      /\ threads' = [threads EXCEPT ![pd] = Append(@, t)]
      /\ UNCHANGED <<state, local, thread_list, hash, tcb, lost>>
  BY DEF Create, Ready
<1> HIDE DEF t
<1>3. \A u \in Live : u.no \in MinNo .. TOTAL_KTCBS - 1 /\ u.no # 0 /\ u.slot # -1
  <2>1. \A u \in Live : u.no \in MinNo .. TOTAL_KTCBS - 1 /\ u.slot # -1
    BY <1>2 DEF Kernel, Settled
  <2> QED BY <2>1, ThreadsAssumption
<1>4. t \notin Live
  BY <1>1, <1>3
<1>5. Lists' /\ Live' = Live \union {t} /\ threads'[who'] # <<>> /\ New' = t
  BY <1>1, <1>2, <1>4, AppendLive
<1>6. Settled = Live /\ Settled' = Live
  BY <1>2, <1>4, <1>5 DEF Settled
<1>7. Owned' /\ Distinct'
  BY <1>1, <1>2, <1>3, <1>5 DEF Owned, Distinct
<1>8. FreeNumbers'
  <2>1. Covered(thread_list)' = Covered(thread_list) /\ Canon(thread_list)' = Canon(thread_list)
    BY <1>2 DEF Covered, Canon
  <2> QED BY <1>1, <1>2, <1>5, <2>1 DEF FreeNumbers, Numbers, MaxNo
<1>9. FreeSlots'
  <2>1. \A other \in Pds : Slots(other)' = Slots(other)
    BY DEF Slots
  <2> QED BY <1>1, <1>2, <1>5, <2>1 DEF FreeSlots
<1>10. Hashed'
  BY <1>1, <1>2, <1>5 DEF Hashed
<1>11. Creating'
  BY <1>1, <1>2, <1>5 DEF Creating, Midway, Steps
<1>12. Kernel'
  BY <1>2, <1>6 DEF Kernel, Steps
<1>13. HaltsExplained'
  BY <1>2, StepsAndHalts DEF Halts
<1> QED BY <1>2, <1>5, <1>7, <1>8, <1>9, <1>10, <1>11, <1>12, <1>13 DEF Steps

\* What is known while a thread is being created.
LEMMA NewFacts ==
  ASSUME TInv, pc \in Midway
  PROVE  /\ New \in Live /\ New.pd = who /\ New \in Record /\ who \in Pds
         /\ threads[who] # <<>> /\ Settled = Live \ {New}
         /\ New.no \in Numbers \union {0} /\ New.slot \in Int /\ New.hashed \in BOOLEAN
         /\ New = [pd |-> who, no |-> New.no, slot |-> New.slot, hashed |-> New.hashed]
         /\ state[who] \in Ready
         /\ 0 \notin Numbers /\ \A pd \in Pds : -1 \notin Slots(pd)
<1>1. threads[who] # <<>> /\ who \in Pds /\ Lists
  BY DEF TInv, Creating
<1>2. New \in Live /\ New.pd = who /\ New \in Record
  BY <1>1, NewLive
<1>3. 0 \notin Numbers /\ \A pd \in Pds : -1 \notin Slots(pd)
  BY ThreadsAssumption DEF Numbers, MaxNo, Slots
<1>4. state[who] \in Ready
  BY <1>2 DEF TInv, Owned
<1>5. pc # "idle"
  BY DEF Midway, Steps
<1> QED BY <1>1, <1>2, <1>3, <1>4, <1>5 DEF Record, Settled

\* The thread being created is given up: what it holds besides its number goes back.
LEMMA GivenUp ==
  ASSUME TInv, pc \in Steps, threads' = Unlinked(New), pc' = "idle",
         UNCHANGED <<state, tcb, who>>, FreeNumbers', FreeSlots', Hashed'
  PROVE  TInv'
<1> USE DEF TInv
<1>1. New \in Live /\ Settled = Live \ {New}
  BY NewFacts DEF Midway
<1>2. Lists' /\ Live' = Live \ {New}
  BY <1>1, UnlinkedLive
<1>3. Distinct' /\ Owned'
  BY <1>2, FewerThreads
<1>4. Settled' = Settled
  BY <1>1, <1>2 DEF Settled
<1>5. Kernel'
  BY <1>4 DEF Kernel
<1>6. Creating' /\ HaltsExplained'
  BY StepsAndHalts DEF Creating, Midway, Steps, Halts
<1> QED BY <1>2, <1>3, <1>5, <1>6

\* sys$bfl_alloc: the lowest free slot, or the creation is given up.
LEMMA AllocSlotStep == ASSUME TInv, AllocSlot PROVE TInv'
<1> USE DEF TInv
<1>1. /\ pc = "slot" /\ pc \in Steps /\ pc \in Midway
      /\ UNCHANGED <<state, thread_list, hash, tcb, who, lost>>
  BY DEF AllocSlot, Steps, Midway
<1>2. /\ New \in Live /\ New.pd = who /\ New \in Record /\ who \in Pds
      /\ threads[who] # <<>> /\ Settled = Live \ {New} /\ state[who] \in Ready
      /\ 0 \notin Numbers /\ \A pd \in Pds : -1 \notin Slots(pd)
  BY <1>1, NewFacts
<1>3. New.no = 0 /\ New.slot = -1 /\ ~New.hashed
  BY <1>1 DEF Creating
<1>4. /\ Covered(thread_list)' = Covered(thread_list) /\ Canon(thread_list)' = Canon(thread_list)
      /\ Numbers' = Numbers /\ \A pd \in Pds : Slots(pd)' = Slots(pd)
  BY <1>1 DEF Covered, Canon, Numbers, MaxNo, Slots
<1>5. CASE local[who] = NULL
  <2>1. pc' = "null" /\ UNCHANGED <<local, threads>>
    BY <1>5 DEF AllocSlot, NULL
  <2>2. Live' = Live /\ Lists'
    BY <2>1 DEF Live, Lists
  <2>3. Owned' /\ Distinct' /\ FreeNumbers' /\ FreeSlots' /\ Hashed'
    BY <1>1, <1>4, <2>1, <2>2 DEF Owned, Distinct, FreeNumbers, FreeSlots, Hashed
  <2>4. Creating' /\ HaltsExplained'
    BY <2>1 DEF Creating, Midway, Steps, HaltsExplained
  <2>5. Kernel'
    BY <1>1, <2>1 DEF Kernel, Steps
  <2> QED BY <1>1, <2>1, <2>2, <2>3, <2>4, <2>5 DEF Halts
<1>6. CASE local[who] = {}
  <2>1. threads' = Unlinked(New) /\ pc' = "idle" /\ UNCHANGED local
    BY <1>6 DEF AllocSlot, NULL
  <2>2. Live' = Live \ {New}
    BY <1>2, <2>1, UnlinkedLive
  <2>3. FreeNumbers'
    BY <1>1, <1>2, <1>3, <1>4, <2>2 DEF FreeNumbers
  <2>4. FreeSlots'
    BY <1>1, <1>2, <1>3, <1>4, <2>1, <2>2 DEF FreeSlots
  <2>5. Hashed'
    BY <1>1, <1>3, <2>2 DEF Hashed
  <2> QED BY <1>1, <2>1, <2>3, <2>4, <2>5, GivenUp
<1>7. CASE local[who] \notin {NULL, {}}
  <2> DEFINE m == Min(local[who])
             t == [New EXCEPT !.slot = m]
  <2>1. /\ threads' = Changed(t) /\ pc' = "number"
        /\ local' = [local EXCEPT ![who] = @ \ {m}]
    BY <1>7 DEF AllocSlot, BflAlloc
  <2>2. local[who] \subseteq Slots(who) /\ local[who] # {} /\ local \in [Pds -> SUBSET Int]
    BY <1>2, <1>7 DEF FreeSlots
  <2>3. m \in local[who] /\ m \in Slots(who) /\ m \in Int /\ m # -1
    <3>1. local[who] \subseteq Nat
      BY <2>2, ThreadsAssumption DEF Slots
    <3>2. m \in local[who]
      BY <2>2, <3>1, MinIsLeast
    <3> QED BY <2>2, <3>1, <3>2
  <2> HIDE DEF m
  <2>4. t \in Record /\ t.pd = who /\ t.no = 0 /\ t.slot = m /\ t.hashed = FALSE
    BY <1>2, <1>3, <2>3 DEF Record
  <2> HIDE DEF t
  <2>5. t \notin Live \ {New}
    BY <1>2, <1>3, <2>4 DEF Distinct
  <2>6. /\ Lists' /\ Live' = (Live \ {New}) \union {t}
        /\ threads'[who'] # <<>> /\ New' = t
    BY <1>1, <1>2, <2>1, <2>4, <2>5, ChangedLive
  <2>7. Settled' = Settled
    BY <1>2, <2>1, <2>5, <2>6 DEF Settled
  <2>8. /\ local' \in [Pds -> SUBSET Int] /\ local'[who] = local[who] \ {m}
        /\ \A pd \in Pds : pd # who => local'[pd] = local[pd]
    BY <1>2, <2>1, <2>2
  <2>9. \A u \in Live : u.pd = who => u.slot # m
    BY <1>2, <1>7, <2>3 DEF FreeSlots
  <2>10. Owned' /\ Distinct'
    BY <1>1, <1>2, <1>3, <2>4, <2>6, <2>9 DEF Owned, Distinct
  <2>11. FreeNumbers'
    BY <1>1, <1>2, <1>3, <1>4, <2>4, <2>6 DEF FreeNumbers
  <2>12. FreeSlots'
    <3>1. local'[who] # NULL /\ local'[who] \subseteq Slots(who)
      BY <1>2, <2>2, <2>8 DEF NULL
    <3>2. \A s \in Slots(who) : s \in local'[who] <=> \A u \in Live' : u.pd = who => u.slot # s
      BY <1>2, <1>3, <1>7, <2>3, <2>4, <2>6, <2>8, <2>9 DEF FreeSlots
    <3>3. ASSUME NEW pd \in Pds, pd # who, state[pd] \in Ready, local[pd] # NULL
          PROVE  \A s \in Slots(pd) : s \in local'[pd] <=> \A u \in Live' : u.pd = pd => u.slot # s
      BY <1>2, <2>4, <2>6, <2>8, <3>3 DEF FreeSlots
    <3>4. \A u \in Live' : u.slot # -1 => u.slot \in Slots(u.pd) /\ local'[u.pd] # NULL
      <4>1. \A u \in Live : u.pd \in Pds
        BY LiveInList
      <4> QED BY <1>2, <2>3, <2>4, <2>6, <2>8, <3>1, <4>1 DEF FreeSlots
    <3>5. NULL' = NULL
      BY DEF NULL
    <3>6. \A pd \in Pds : local'[pd] = NULL \/ local'[pd] \subseteq Slots(pd)
      BY <2>8, <3>1 DEF FreeSlots
    <3> HIDE DEF TInv
    <3>7. \A pd \in Pds : state'[pd] \in Ready /\ local'[pd] # NULL =>
            \A s \in Slots(pd) : s \in local'[pd] <=> \A u \in Live' : u.pd = pd => u.slot # s
      BY <1>1, <2>8, <3>2, <3>3
    <3>8. \A u \in Live' : u.pd \in Pds
      BY <2>6, LiveInList, <1>2, <2>4 DEF TInv
    <3> QED BY <1>4, <2>8, <3>4, <3>5, <3>6, <3>7, <3>8 DEF FreeSlots
  <2>13. Hashed'
    BY <1>1, <1>3, <2>4, <2>6 DEF Hashed
  <2>14. Creating'
    BY <2>1, <2>3, <2>4, <2>6 DEF Creating, Midway, Steps
  <2>15. Kernel'
    BY <1>1, <2>1, <2>7 DEF Kernel, Steps
  <2>16. HaltsExplained'
    BY <2>1, StepsAndHalts DEF Halts
  <2> QED BY <1>1, <2>1, <2>6, <2>10, <2>11, <2>12, <2>13, <2>14, <2>15, <2>16 DEF Steps
<1> QED BY <1>5, <1>6, <1>7

\* A thread is changed and keeps its domain and its slot.
LEMMA SameSlot ==
  ASSUME Lists, FreeSlots, Owned, NEW old \in Live, NEW t, t.pd = old.pd, t.slot = old.slot,
         Live' = (Live \ {old}) \union {t}, UNCHANGED <<state, local>>
  PROVE  FreeSlots' /\ Owned'
<1>1. (\A pd \in Pds : Slots(pd)' = Slots(pd)) /\ NULL' = NULL
  BY DEF Slots, NULL
<1>2. \A u \in Live' : u.pd \in Pds
  BY LiveInList
<1>3. \A pd \in Pds : state[pd] \in Ready /\ local[pd] # NULL =>
        \A s \in Slots(pd) : s \in local[pd] <=> \A u \in Live' : u.pd = pd => u.slot # s
  BY DEF FreeSlots
<1>4. \A u \in Live' : u.slot # -1 => u.slot \in Slots(u.pd) /\ local[u.pd] # NULL
  BY DEF FreeSlots
<1>5. Owned'
  BY DEF Owned
<1> QED BY <1>1, <1>2, <1>3, <1>4, <1>5 DEF FreeSlots

\* sys$thread_alloc: the least free number, which nobody holds, or the creation is given
\* up.
LEMMA AllocNumberStep == ASSUME TInv, AllocNumber PROVE TInv'
<1> USE DEF TInv
<1>1. /\ pc = "number" /\ pc \in Steps /\ pc \in Midway
      /\ UNCHANGED <<state, hash, tcb, who, lost>>
  BY DEF AllocNumber, Steps, Midway
<1>2. /\ New \in Live /\ New.pd = who /\ New \in Record /\ who \in Pds
      /\ threads[who] # <<>> /\ Settled = Live \ {New} /\ state[who] \in Ready
      /\ 0 \notin Numbers /\ \A pd \in Pds : -1 \notin Slots(pd)
  BY <1>1, NewFacts
<1>3. New.no = 0 /\ New.slot # -1 /\ ~New.hashed
  BY <1>1 DEF Creating
<1>4. Numbers' = Numbers
  BY DEF Numbers, MaxNo
<1>5. CASE thread_list = <<>>
  <2>1. /\ local' = [local EXCEPT ![New.pd] = @ \union {New.slot}]
        /\ threads' = Unlinked(New) /\ pc' = "idle" /\ UNCHANGED thread_list
    BY <1>2, <1>5 DEF AllocNumber, Undo
  <2>2. Live' = Live \ {New}
    BY <1>2, <2>1, UnlinkedLive
  <2>3. FreeNumbers'
    <3>1. Covered(thread_list)' = Covered(thread_list) /\ Canon(thread_list)' = Canon(thread_list)
      BY <2>1 DEF Covered, Canon
    <3> QED BY <1>1, <1>2, <1>3, <1>4, <2>2, <3>1 DEF FreeNumbers
  <2>4. FreeSlots'
    BY <1>1, <1>2, <1>3, <2>1, <2>2, SlotFreed
  <2>5. Hashed'
    BY <1>1, <1>3, <2>2 DEF Hashed
  <2> QED BY <1>1, <2>1, <2>3, <2>4, <2>5, GivenUp
<1>6. CASE thread_list # <<>>
  <2> DEFINE n == thread_list[1].from
             t == [New EXCEPT !.no = n]
  <2>1. /\ threads' = Changed(t) /\ thread_list' = Rest(thread_list) /\ UNCHANGED local
        /\ pc' = IF Found(n) = {} THEN "hash" ELSE "PANIC_55"
    BY <1>6 DEF AllocNumber
  <2>2. /\ Canon(thread_list') /\ n \in Covered(thread_list)
        /\ Covered(thread_list') = Covered(thread_list) \ {n}
        /\ \A x \in Covered(thread_list) : n <= x
    BY <1>6, <2>1, RestKeeps DEF FreeNumbers
  <2>3. n \in Numbers /\ n # 0 /\ \A u \in Live : u.no # n
    BY <1>2, <2>2 DEF FreeNumbers
  <2> HIDE DEF n
  <2>4. t \in Record /\ t.pd = who /\ t.no = n /\ t.slot = New.slot /\ t.hashed = FALSE
    BY <1>2, <1>3, <2>3 DEF Record
  <2> HIDE DEF t
  <2>5. t \notin Live \ {New}
    BY <2>3, <2>4
  <2>6. /\ Lists' /\ Live' = (Live \ {New}) \union {t}
        /\ threads'[who'] # <<>> /\ New' = t
    BY <1>1, <1>2, <2>1, <2>4, <2>5, ChangedLive
  <2>7. pc' = "hash"
    BY <2>1, <2>3 DEF Found, Hashed
  <2>8. Settled' = Settled
    BY <1>2, <2>5, <2>6, <2>7 DEF Settled
  <2>9. FreeSlots' /\ Owned'
    BY <1>1, <1>2, <2>1, <2>4, <2>6, SameSlot
  <2>10. Distinct'
    BY <1>2, <2>3, <2>4, <2>6 DEF Distinct
  <2>11. FreeNumbers'
    <3>1. Covered(thread_list)' = Covered(thread_list')
      BY DEF Covered
    <3> QED BY <1>1, <1>2, <1>3, <1>4, <2>2, <2>3, <2>4, <2>6, <3>1 DEF FreeNumbers
  <2>12. Hashed'
    BY <1>1, <1>3, <2>4, <2>6 DEF Hashed
  <2>13. Creating'
    <3>1. Covered(thread_list)' = Covered(thread_list')
      BY DEF Covered
    <3>2. n \in Int /\ \A x \in Covered(thread_list) : x \in Int
      BY <2>3, ThreadsAssumption DEF FreeNumbers, Numbers, MaxNo
    <3>3. \A x \in Covered(thread_list') : n < x
      BY <2>2, <3>2
    <3> QED BY <1>3, <2>3, <2>4, <2>6, <2>7, <3>1, <3>3 DEF Creating, Midway, Steps
  <2>14. Kernel'
    BY <1>1, <2>7, <2>8 DEF Kernel, Steps
  <2>15. HaltsExplained'
    BY <2>7, StepsAndHalts DEF Halts
  <2> QED BY <1>1, <2>6, <2>7, <2>9, <2>10, <2>11, <2>12, <2>13, <2>14, <2>15 DEF Steps
<1> QED BY <1>5, <1>6

\* hash_insert, whether or not it succeeds.
LEMMA HashInsertStep == ASSUME TInv, HashInsert PROVE TInv'
<1> USE DEF TInv
<1>1. /\ pc = "hash" /\ pc \in Steps /\ pc \in Midway /\ pc' = "control"
      /\ UNCHANGED <<state, local, thread_list, tcb, who, lost>>
  BY DEF HashInsert, Steps, Midway
<1>2. /\ New \in Live /\ New.pd = who /\ New \in Record /\ who \in Pds
      /\ threads[who] # <<>> /\ Settled = Live \ {New}
      /\ 0 \notin Numbers
  BY <1>1, NewFacts
<1>3. New.no # 0 /\ New.slot # -1 /\ ~New.hashed
  BY <1>1 DEF Creating
<1>4. /\ Covered(thread_list)' = Covered(thread_list) /\ Canon(thread_list)' = Canon(thread_list)
      /\ Numbers' = Numbers
  BY <1>1 DEF Covered, Canon, Numbers, MaxNo
<1>5. PICK ok \in BOOLEAN :
        /\ threads' = Changed([New EXCEPT !.hashed = ok])
        /\ hash' = IF ok THEN hash \union {[New EXCEPT !.hashed = ok]} ELSE hash
  BY DEF HashInsert
<1> DEFINE t == [New EXCEPT !.hashed = ok]
<1>6. t \in Record /\ t.pd = who /\ t.no = New.no /\ t.slot = New.slot /\ t.hashed = ok
  BY <1>2 DEF Record
<1>7. threads' = Changed(t) /\ hash' = IF ok THEN hash \union {t} ELSE hash
  BY <1>5
<1> HIDE DEF t
<1>8. t \notin Live \ {New}
  BY <1>2, <1>6 DEF Distinct
<1>9. /\ Lists' /\ Live' = (Live \ {New}) \union {t}
      /\ threads'[who'] # <<>> /\ New' = t
  BY <1>1, <1>2, <1>6, <1>7, <1>8, ChangedLive
<1>10. Settled' = Settled
  BY <1>1, <1>2, <1>8, <1>9 DEF Settled
<1>11. FreeSlots' /\ Owned'
  BY <1>1, <1>2, <1>6, <1>9, SameSlot
<1>12. Distinct'
  BY <1>2, <1>6, <1>9 DEF Distinct
<1>13. FreeNumbers'
  BY <1>1, <1>2, <1>4, <1>6, <1>9 DEF FreeNumbers
<1>14. Hashed'
  <2>1. hash = {u \in Live \ {New} : u.hashed}
    BY <1>3 DEF Hashed
  <2>2. {u \in (Live \ {New}) \union {t} : u.hashed}
          = IF ok THEN {u \in Live \ {New} : u.hashed} \union {t} ELSE {u \in Live \ {New} : u.hashed}
    BY <1>6
  <2> QED BY <1>7, <1>9, <2>1, <2>2 DEF Hashed
<1>15. Creating'
  BY <1>1, <1>3, <1>4, <1>6, <1>9 DEF Creating, Midway, Steps
<1>16. Kernel'
  BY <1>1, <1>10 DEF Kernel, Steps
<1>17. HaltsExplained'
  BY <1>1, StepsAndHalts DEF Halts
<1> QED BY <1>1, <1>9, <1>11, <1>12, <1>13, <1>14, <1>15, <1>16, <1>17 DEF Steps

\* The lists, the numbers and the slots stay as they are.
LEMMA SameTables ==
  ASSUME TInv, UNCHANGED <<local, threads, thread_list, hash, who, lost>>,
         \A pd \in Pds : state'[pd] \in Ready <=> state[pd] \in Ready
  PROVE  /\ Lists' /\ Owned' /\ Distinct' /\ FreeNumbers' /\ FreeSlots' /\ Hashed'
         /\ Live' = Live /\ New' = New
         /\ Covered(thread_list)' = Covered(thread_list)
<1> USE DEF TInv
<1>1. Live' = Live /\ New' = New /\ Lists'
  BY DEF Live, New, Lists
<1>2. \A t \in Live : t.pd \in Pds
  BY LiveInList
<1>3. /\ Covered(thread_list)' = Covered(thread_list) /\ Canon(thread_list)' = Canon(thread_list)
      /\ Numbers' = Numbers /\ \A pd \in Pds : Slots(pd)' = Slots(pd)
  BY DEF Covered, Canon, Numbers, MaxNo, Slots
<1>4. Owned' /\ Distinct' /\ Hashed'
  BY <1>1, <1>2 DEF Owned, Distinct, Hashed
<1>5. FreeNumbers'
  BY <1>1, <1>3 DEF FreeNumbers
<1>6. FreeSlots'
  BY <1>1, <1>2, <1>3 DEF FreeSlots, NULL
<1> QED BY <1>1, <1>3, <1>4, <1>5, <1>6

\* The first L4_ThreadControl: only a thread that is past its creation is active, so what
\* it meets under the new number is inactive.
LEMMA ControlStep == ASSUME TInv, Control PROVE TInv'
<1> USE DEF TInv
<1> DEFINE n == New.no
<1>1. /\ pc = "control" /\ pc \in Steps /\ pc \in Midway
      /\ UNCHANGED <<state, local, threads, thread_list, hash, who, lost>>
  BY DEF Control, Steps, Midway
<1>2. /\ New \in Live /\ New.pd = who /\ who \in Pds
      /\ threads[who] # <<>> /\ Settled = Live \ {New} /\ state[who] \in Ready
  BY <1>1, NewFacts
<1>3. /\ n # 0 /\ New.slot # -1 /\ n \in Numbers /\ n \in Nat
      /\ \A x \in Covered(thread_list) : n < x
  <2>1. n # 0 /\ New.slot # -1 /\ \A x \in Covered(thread_list) : n < x
    BY <1>1 DEF Creating
  <2>2. n \in Numbers
    BY <1>1, <2>1, NewFacts
  <2> QED BY <2>1, <2>2, ThreadsAssumption DEF Numbers, MaxNo
<1>4. /\ Lists' /\ Owned' /\ Distinct' /\ FreeNumbers' /\ FreeSlots' /\ Hashed'
      /\ Live' = Live /\ New' = New /\ Covered(thread_list)' = Covered(thread_list)
  BY <1>1, SameTables
<1>5. \A t \in Live : t.no = n => t = New
  BY <1>2 DEF Distinct
<1>6. /\ tcb \in [MinNo .. TOTAL_KTCBS - 1 -> [space : Pds \union {Bare, "none"}, active : BOOLEAN]]
      /\ \A t \in Settled : /\ t.no \in MinNo .. TOTAL_KTCBS - 1
                            /\ t.slot # -1
                            /\ tcb[t.no] = [space |-> t.pd, active |-> TRUE]
      /\ \A m \in MinNo .. TOTAL_KTCBS - 1 : tcb[m].active => \E t \in Settled : t.no = m
  BY <1>1 DEF Kernel
<1>7. CASE n >= TOTAL_KTCBS
  <2>1. pc' = "ASSERT" /\ UNCHANGED tcb
    BY <1>3, <1>7, ThreadsAssumption DEF Control
  <2>2. n = TOTAL_KTCBS /\ Covered(thread_list) = {}
    <3>1. \A x \in Covered(thread_list) : x \in MinNo .. TOTAL_KTCBS
      BY DEF FreeNumbers, Numbers, MaxNo
    <3> QED BY <1>3, <1>7, <3>1, ThreadsAssumption DEF Numbers, MaxNo
  <2>3. ASSUME NEW m \in MinNo .. TOTAL_KTCBS - 1
        PROVE  m \in {t.no : t \in Live \ {New}} \union lost
    <3>1. m \in Numbers /\ m # n
      BY <2>2, ThreadsAssumption DEF Numbers, MaxNo
    <3> QED BY <2>2, <3>1 DEF FreeNumbers
  <2>4. HaltsExplained'
    BY <1>1, <1>4, <2>1, <2>3 DEF HaltsExplained
  <2>5. Creating'
    BY <1>1, <1>3, <1>4, <2>1 DEF Creating, Midway, Steps
  <2>6. Kernel'
    BY <1>6, <2>1 DEF Kernel, Steps
  <2> QED BY <1>1, <1>4, <2>1, <2>4, <2>5, <2>6 DEF Halts
<1>8. CASE n < TOTAL_KTCBS
  <2>1. n \in MinNo .. TOTAL_KTCBS - 1
    BY <1>3, <1>8, ThreadsAssumption DEF Numbers, MaxNo
  <2>2. ~tcb[n].active
    BY <1>2, <1>5, <1>6, <2>1
  <2>3. CASE pc' = "PANIC_104" /\ UNCHANGED tcb
    <3>1. HaltsExplained'
      BY <1>4, <1>5, <2>2, <2>3 DEF HaltsExplained
    <3>2. Creating'
      BY <1>1, <1>3, <1>4, <2>3 DEF Creating, Midway, Steps
    <3>3. Kernel'
      BY <1>6, <2>3 DEF Kernel, Steps
    <3> QED BY <1>1, <1>4, <2>3, <3>1, <3>2, <3>3 DEF Halts
  <2>4. ASSUME NEW c \in [space : Pds \union {Bare, "none"}, active : BOOLEAN], ~c.active,
               c.space = who \/ Len(threads[who]) = 1,
               tcb' = [tcb EXCEPT ![n] = c], pc' = "activate"
        PROVE  TInv'
    <3>1. /\ tcb' \in [MinNo .. TOTAL_KTCBS - 1 -> [space : Pds \union {Bare, "none"}, active : BOOLEAN]]
          /\ tcb'[n] = c /\ \A m \in MinNo .. TOTAL_KTCBS - 1 : m # n => tcb'[m] = tcb[m]
      BY <1>6, <2>1, <2>4
    <3>2. Settled' = Settled
      BY <1>2, <1>4, <2>4 DEF Settled
    <3>3. \A t \in Settled : t.no # n
      BY <1>2, <1>5
    <3>4. Kernel'
      BY <1>6, <2>4, <3>1, <3>2, <3>3 DEF Kernel
    <3>5. Creating'
      BY <1>1, <1>2, <1>3, <1>4, <1>8, <2>4, <3>1 DEF Creating, Midway, Steps
    <3>6. HaltsExplained'
      BY <2>4, StepsAndHalts DEF Halts
    <3> QED BY <1>1, <1>4, <2>4, <3>4, <3>5, <3>6 DEF Steps
  <2>5. CASE state[who] = "pd_empty" /\ pc' = "activate"
    <3> DEFINE c == [space |-> who, active |-> FALSE]
    <3>1. tcb' = [tcb EXCEPT ![n] = c]
      BY <1>3, <1>8, <2>5, ThreadsAssumption DEF Control
    <3>2. /\ c \in [space : Pds \union {Bare, "none"}, active : BOOLEAN]
          /\ ~c.active /\ c.space = who
      BY <1>2
    <3> HIDE DEF c
    <3> QED BY <2>4, <2>5, <3>1, <3>2
  <2>6. CASE state[who] = "pd_active"
    <3> DEFINE c == Joined(n)
    <3>1. tcb' = [tcb EXCEPT ![n] = c] /\ pc' = "activate"
      BY <1>3, <1>8, <2>6, ThreadsAssumption DEF Control
    <3>2. CASE Head(threads[who]) = New
      <4>1. Len(threads[who]) = 1
        <5>1. threads[who] \in Seq(Record) /\ IsInjective(threads[who])
          BY <1>2 DEF Lists
        <5> QED BY <1>2, <3>2, <5>1, FirstIsLast DEF New
      <4>2. c \in [space : Pds \union {Bare, "none"}, active : BOOLEAN] /\ ~c.active
        <5>1. c = IF tcb[n] = NoTcb THEN [space |-> Bare, active |-> FALSE] ELSE tcb[n]
          BY <3>2 DEF Joined
        <5>2. [space |-> Bare, active |-> FALSE] \in [space : Pds \union {Bare, "none"}, active : BOOLEAN]
          OBVIOUS
        <5>3. tcb[n] \in [space : Pds \union {Bare, "none"}, active : BOOLEAN]
          BY <1>6, <2>1
        <5>4. CASE tcb[n] = NoTcb
          <6>1. c = [space |-> Bare, active |-> FALSE]
            BY <5>1, <5>4
          <6> HIDE DEF c
          <6> QED BY <5>2, <6>1
        <5>5. CASE tcb[n] # NoTcb
          <6>1. c = tcb[n]
            BY <5>1, <5>5
          <6> HIDE DEF c
          <6> QED BY <2>2, <5>3, <6>1
        <5> QED BY <5>4, <5>5
      <4> HIDE DEF c
      <4> QED BY <2>4, <3>1, <4>1, <4>2
    <3>3. CASE Head(threads[who]) # New
      <4> DEFINE h == Head(threads[who])
      <4>1. h \in Live /\ h.pd = who
        <5>1. threads[who] \in Seq(Record)
          BY <1>2 DEF Lists
        <5>2. h \in ToSet(threads[who])
          BY <1>2, <5>1, HeadIsElement
        <5> QED BY <1>2, <5>2, LiveInList
      <4>2. tcb[h.no].space = who
        <5> HIDE DEF h
        <5>1. h \in Settled
          BY <1>2, <3>3, <4>1 DEF h
        <5>2. tcb[h.no] = [space |-> h.pd, active |-> TRUE]
          BY <1>6, <5>1
        <5> QED BY <4>1, <5>2
      <4>3. c = [space |-> who, active |-> FALSE]
        BY <3>3, <4>2 DEF Joined, FirstSpace
      <4> HIDE DEF c
      <4>4. /\ c \in [space : Pds \union {Bare, "none"}, active : BOOLEAN]
            /\ ~c.active /\ c.space = who
        BY <1>2, <4>3
      <4> QED BY <2>4, <3>1, <4>4
    <3> QED BY <3>2, <3>3
  <2>7. \/ pc' = "PANIC_104" /\ UNCHANGED tcb
        \/ state[who] = "pd_empty" /\ pc' = "activate"
        \/ state[who] = "pd_active"
    BY <1>3, <1>8, ThreadsAssumption DEF Control
  <2> QED BY <2>3, <2>5, <2>6, <2>7
<1> QED BY <1>3, <1>7, <1>8, ThreadsAssumption

\* A thread control block that is activated stays in its space.
LEMMA Activated ==
  ASSUME NEW S, NEW c \in [space : S, active : BOOLEAN]
  PROVE  [c EXCEPT !.active = TRUE] = [space |-> c.space, active |-> TRUE]
<1> DEFINE d == [c EXCEPT !.active = TRUE]
<1>1. d \in [space : S, active : BOOLEAN] /\ d.space = c.space
  OBVIOUS
<1>2. d.active = TRUE
  OBVIOUS
<1> HIDE DEF d
<1>3. d = [space |-> d.space, active |-> d.active]
  BY <1>1
<1> QED BY <1>1, <1>2, <1>3 DEF d

\* The second L4_ThreadControl: the thread is active, or what it took is given back.
LEMMA ActivateStep == ASSUME TInv, Activate PROVE TInv'
<1> USE DEF TInv
<1> DEFINE n == New.no
<1>1. pc = "activate" /\ pc \in Steps /\ pc \in Midway /\ UNCHANGED who
  BY DEF Activate, Steps, Midway
<1>2. /\ New \in Live /\ New.pd = who /\ who \in Pds
      /\ threads[who] # <<>> /\ Settled = Live \ {New} /\ state[who] \in Ready
      /\ n \in Numbers \union {0}
  BY <1>1, NewFacts
<1>3. /\ n # 0 /\ New.slot # -1 /\ n < TOTAL_KTCBS /\ ~tcb[n].active
      /\ tcb[n].space = who \/ Len(threads[who]) = 1
      /\ \A x \in Covered(thread_list) : n < x
  BY <1>1 DEF Creating
<1>4. n \in MinNo .. TOTAL_KTCBS - 1 /\ n \in Numbers
  BY <1>2, <1>3, ThreadsAssumption DEF Numbers, MaxNo
<1>5. /\ tcb \in [MinNo .. TOTAL_KTCBS - 1 -> [space : Pds \union {Bare, "none"}, active : BOOLEAN]]
      /\ \A t \in Settled : /\ t.no \in MinNo .. TOTAL_KTCBS - 1
                            /\ t.slot # -1
                            /\ tcb[t.no] = [space |-> t.pd, active |-> TRUE]
      /\ \A m \in MinNo .. TOTAL_KTCBS - 1 : tcb[m].active => \E t \in Settled : t.no = m
  BY <1>1 DEF Kernel
<1>6. \A t \in Live : t.no = n => t = New
  BY <1>2 DEF Distinct
<1>7. CASE /\ tcb[n].space # who /\ pc' = "PANIC_136"
           /\ UNCHANGED <<state, local, threads, thread_list, hash, tcb, lost>>
  <2>1. /\ Lists' /\ Owned' /\ Distinct' /\ FreeNumbers' /\ FreeSlots' /\ Hashed'
        /\ Live' = Live /\ New' = New /\ Covered(thread_list)' = Covered(thread_list)
    BY <1>1, <1>7, SameTables
  <2>2. HaltsExplained'
    BY <1>1, <1>3, <1>7 DEF HaltsExplained
  <2>3. Creating'
    BY <1>1, <1>2, <1>3, <1>7, <2>1 DEF Creating, Midway, Steps
  <2>4. Kernel'
    BY <1>5, <1>7 DEF Kernel, Steps
  <2> QED BY <1>1, <1>7, <2>1, <2>2, <2>3, <2>4 DEF Halts
<1>8. CASE /\ tcb[n].space = who /\ tcb' = [tcb EXCEPT ![n].active = TRUE]
           /\ state' = [state EXCEPT ![who] = "pd_active"] /\ pc' = "idle"
           /\ UNCHANGED <<local, threads, thread_list, hash, lost>>
  <2>1. \A pd \in Pds : state'[pd] \in Ready <=> state[pd] \in Ready
    BY <1>2, <1>8 DEF Ready
  <2>2. /\ Lists' /\ Owned' /\ Distinct' /\ FreeNumbers' /\ FreeSlots' /\ Hashed'
        /\ Live' = Live
    BY <1>1, <1>8, <2>1, SameTables
  <2>3. state' \in [Pds -> {"none", "leaked", "pd_empty", "pd_active"}]
    BY <1>8
  <2>4. Settled' = Live
    BY <1>8, <2>2 DEF Settled
  <2>5. /\ tcb' \in [MinNo .. TOTAL_KTCBS - 1 -> [space : Pds \union {Bare, "none"}, active : BOOLEAN]]
        /\ tcb'[n] = [space |-> who, active |-> TRUE]
        /\ \A m \in MinNo .. TOTAL_KTCBS - 1 : m # n => tcb'[m] = tcb[m]
    <3>1. tcb[n] \in [space : Pds \union {Bare, "none"}, active : BOOLEAN]
      BY <1>4, <1>5
    <3>2. [tcb[n] EXCEPT !.active = TRUE] = [space |-> who, active |-> TRUE]
      BY <1>8, <3>1, Activated
    <3>3. tcb' = [tcb EXCEPT ![n] = [space |-> who, active |-> TRUE]]
      BY <1>8, <3>2
    <3>4. [space |-> who, active |-> TRUE] \in [space : Pds \union {Bare, "none"}, active : BOOLEAN]
      BY <1>2
    <3> QED BY <1>4, <1>5, <3>3, <3>4
  <2>6. Kernel'
    BY <1>2, <1>3, <1>4, <1>5, <1>6, <2>4, <2>5 DEF Kernel
  <2>7. Creating' /\ HaltsExplained'
    BY <1>8, StepsAndHalts DEF Creating, Midway, Steps, Halts
  <2> QED BY <1>1, <1>8, <2>2, <2>3, <2>6, <2>7
<1>9. CASE tcb[n].space = who /\ ThreadFree(n) /\ Undo /\ UNCHANGED <<state, tcb>>
  <2>1. /\ local' = [local EXCEPT ![New.pd] = @ \union {New.slot}]
        /\ threads' = Unlinked(New) /\ pc' = "idle"
    BY <1>2, <1>9 DEF Undo
  <2>2. Live' = Live \ {New}
    BY <1>2, <2>1, UnlinkedLive
  <2>3. FreeSlots'
    BY <1>2, <1>3, <1>9, <2>1, <2>2, SlotFreed
  <2>4. FreeNumbers' /\ Hashed'
    BY <1>2, <1>4, <1>9, <2>2, NumberFreed
  <2> QED BY <1>1, <1>9, <2>1, <2>3, <2>4, GivenUp
<1> QED BY <1>7, <1>8, <1>9 DEF Activate

\* sys$thread_delete gives back the slot and the number and destroys the thread.
LEMMA DeleteStep == ASSUME TInv, NEW n \in Held, Delete(n) PROVE TInv'
<1> USE DEF TInv
<1>1. pc = "idle" /\ UNCHANGED <<state, who>> /\ Settled = Live
  BY DEF Delete, Settled
<1>2. CASE Found(n) = {}
  <2>1. pc' = "null" /\ UNCHANGED <<local, threads, thread_list, hash, tcb, lost>>
    BY <1>2 DEF Delete
  <2>2. /\ Lists' /\ Owned' /\ Distinct' /\ FreeNumbers' /\ FreeSlots' /\ Hashed'
    BY <1>1, <2>1, SameTables
  <2>3. Creating' /\ HaltsExplained'
    BY <2>1 DEF Creating, Midway, Steps, HaltsExplained
  <2>4. Kernel'
    BY <2>1 DEF Kernel, Steps
  <2> QED BY <1>1, <2>1, <2>2, <2>3, <2>4 DEF Halts
<1>3. CASE Found(n) # {}
  <2> DEFINE t == CHOOSE t \in Found(n) : TRUE
  <2>1. t \in Found(n)
    BY <1>3
  <2>2. /\ tcb' = Destroyed(t) /\ ThreadFree(n) /\ threads' = Unlinked(t) /\ UNCHANGED pc
        /\ local' = [local EXCEPT ![t.pd] = @ \union {FreedSlot(t)}]
    BY <1>3 DEF Delete
  <2> HIDE DEF t
  <2>3. t \in Live /\ t.no = n
    BY <2>1 DEF Found, Hashed
  <2>4. /\ t.no \in MinNo .. TOTAL_KTCBS - 1 /\ t.slot # -1 /\ t \in Record
    BY <1>1, <2>3, LiveInList DEF Kernel
  <2>5. n \in Numbers /\ n \in MinNo .. TOTAL_KTCBS - 1
    BY <2>3, <2>4, ThreadsAssumption DEF Numbers, MaxNo
  <2>6. FreedSlot(t) = t.slot
    <3>1. t.slot \in Int
      BY <2>4 DEF Record
    <3> QED BY <3>1, ThreadsAssumption DEF FreedSlot
  <2>7. Lists' /\ Live' = Live \ {t}
    BY <2>2, <2>3, UnlinkedLive
  <2>8. FreeSlots'
    BY <1>1, <2>2, <2>3, <2>4, <2>6, <2>7, SlotFreed
  <2>9. FreeNumbers' /\ Hashed'
    BY <2>2, <2>3, <2>5, <2>7, NumberFreed
  <2>10. Distinct' /\ Owned'
    BY <1>1, <2>7, FewerThreads
  <2>11. Settled' = Live \ {t}
    BY <1>1, <2>2, <2>7 DEF Settled
  <2>12. Kernel'
    <3>1. /\ tcb \in [MinNo .. TOTAL_KTCBS - 1 -> [space : Pds \union {Bare, "none"}, active : BOOLEAN]]
          /\ NoTcb \in [space : Pds \union {Bare, "none"}, active : BOOLEAN] /\ ~NoTcb.active
      BY DEF Kernel, NoTcb
    <3>2. /\ tcb' \in [MinNo .. TOTAL_KTCBS - 1 -> [space : Pds \union {Bare, "none"}, active : BOOLEAN]]
          /\ tcb'[n] = NoTcb /\ \A m \in MinNo .. TOTAL_KTCBS - 1 : m # n => tcb'[m] = tcb[m]
      BY <2>2, <2>3, <2>5, <3>1 DEF Destroyed
    <3>3. \A u \in Live : u.no = n => u = t
      BY <2>3 DEF Distinct
    <3>4. \A u \in Live \ {t} : /\ u.no \in MinNo .. TOTAL_KTCBS - 1 /\ u.slot # -1
                                /\ tcb'[u.no] = [space |-> u.pd, active |-> TRUE]
      BY <1>1, <3>2, <3>3 DEF Kernel
    <3>5. \A m \in MinNo .. TOTAL_KTCBS - 1 : tcb'[m].active => \E u \in Live \ {t} : u.no = m
      BY <1>1, <2>3, <3>1, <3>2 DEF Kernel
    <3> QED BY <2>11, <3>2, <3>4, <3>5 DEF Kernel
  <2>13. Creating' /\ HaltsExplained'
    BY <1>1, <2>2, StepsAndHalts DEF Creating, Midway, Steps, Halts
  <2> QED BY <1>1, <2>2, <2>7, <2>8, <2>9, <2>10, <2>12, <2>13
<1> QED BY <1>2, <1>3

\* Every step keeps the invariant.
LEMMA NextTInv == ASSUME TInv, [Next]_vars PROVE TInv'
<1>1. CASE UNCHANGED vars
  <2>1. /\ Lists' /\ Owned' /\ Distinct' /\ FreeNumbers' /\ FreeSlots' /\ Hashed'
        /\ Live' = Live /\ New' = New /\ Covered(thread_list)' = Covered(thread_list)
    BY <1>1, SameTables DEF vars
  <2>2. Settled' = Settled
    BY <1>1, <2>1 DEF Settled, vars
  <2>3. Creating' /\ Kernel'
    BY <1>1, <2>1, <2>2 DEF TInv, vars, Creating, Kernel
  <2>4. HaltsExplained'
    BY <1>1, <2>1 DEF TInv, vars, HaltsExplained
  <2> QED BY <1>1, <2>1, <2>3, <2>4 DEF TInv, vars
<1> QED BY <1>1, PdCreateStep, CreateStep, AllocSlotStep, AllocNumberStep, HashInsertStep,
           ControlStep, ActivateStep, DeleteStep DEF Next

\* The invariant holds at all times (sys_thread.c).
THEOREM Invariance == Spec => []TInv
  BY InitTInv, NextTInv, PTL DEF Spec

\* The invariant is stronger than TypeOK.
LEMMA InvTypeOK == ASSUME TInv PROVE TypeOK
<1>1. \A t \in Live : /\ t.no \in Numbers \union {0}
                      /\ t.slot \in Slots(t.pd) \union {-1}
  BY LiveInList DEF TInv, FreeSlots, Record
<1>2. \A n \in DOMAIN tcb : tcb[n].space \in Pds \union {Bare, "none"}
  BY DEF TInv, Kernel
<1> QED BY <1>1, <1>2 DEF TInv, TypeOK, FreeSlots, FreeNumbers, Steps

\* The invariant is stronger than NumbersOnce.
LEMMA InvNumbersOnce == ASSUME TInv PROVE NumbersOnce
<1>1. \A t, u \in Live : t # u => t.no # u.no
  BY DEF TInv, Distinct
<1>2. Held \intersect Covered(thread_list) = {}
  BY DEF TInv, FreeNumbers, Held
<1>3. 0 \notin Numbers
  BY ThreadsAssumption DEF Numbers, MaxNo
<1>4. Numbers \ (Held \union Covered(thread_list)) \subseteq lost
  BY <1>3 DEF TInv, FreeNumbers, Held
<1> QED BY <1>1, <1>2, <1>4 DEF NumbersOnce

\* The slots of a domain's threads are as many as its list is long.
LEMMA SlotsCount ==
  ASSUME Lists, Distinct, NEW pd \in Pds
  PROVE  Cardinality({t.slot : t \in ToSet(threads[pd])}) = Len(threads[pd])
<1> DEFINE s == threads[pd]
           S == {t.slot : t \in ToSet(s)}
           f == [i \in 1 .. Len(s) |-> s[i].slot]
<1>1. s \in Seq(Record) /\ Len(s) \in Nat /\ DOMAIN s = 1 .. Len(s) /\ IsInjective(s)
  BY LenProperties DEF Lists
<1>2. \A i \in 1 .. Len(s) : s[i] \in ToSet(s) /\ s[i] \in Live /\ s[i].pd = pd
  BY <1>1, LiveInList DEF ToSet
<1>3. \A i, j \in 1 .. Len(s) : s[i].slot = s[j].slot => i = j
  BY <1>1, <1>2 DEF Distinct, IsInjective
<1>4. \A x \in S : \E i \in 1 .. Len(s) : s[i].slot = x
  BY <1>1 DEF ToSet
<1>5. \A i \in 1 .. Len(s) : s[i].slot \in S
  BY <1>2
<1> HIDE DEF s, S
<1>6. f \in Bijection(1 .. Len(s), S)
  BY <1>3, <1>4, <1>5 DEF Bijection, Injection, Surjection, IsInjective
<1>7. IsFiniteSet(1 .. Len(s)) /\ Cardinality(1 .. Len(s)) = Len(s)
  BY <1>1, FS_Interval
<1>8. Cardinality(S) = Cardinality(1 .. Len(s))
  BY <1>6, <1>7, FS_Bijection DEF ExistsBijection
<1> QED BY <1>7, <1>8 DEF s, S

\* The invariant is stronger than TablesAgree.
LEMMA InvTablesAgree == ASSUME TInv PROVE TablesAgree
<1> SUFFICES ASSUME pc = "idle"
             PROVE  /\ \A pd \in Pds :
                         state[pd] \in {"pd_empty", "pd_active"} /\ local[pd] # NULL =>
                           /\ local[pd] = Slots(pd) \ {t.slot : t \in ToSet(threads[pd])}
                           /\ Cardinality({t.slot : t \in ToSet(threads[pd])}) = Len(threads[pd])
                    /\ hash = {t \in Live : t.hashed}
                    /\ \A t \in Live : tcb[t.no] = [space |-> t.pd, active |-> TRUE]
  BY DEF TablesAgree
<1>1. ASSUME NEW pd \in Pds, state[pd] \in {"pd_empty", "pd_active"}, local[pd] # NULL
      PROVE  local[pd] = Slots(pd) \ {t.slot : t \in ToSet(threads[pd])}
  <2>1. local[pd] \subseteq Slots(pd)
    BY <1>1 DEF TInv, FreeSlots
  <2>2. \A s \in Slots(pd) : s \in local[pd] <=> \A t \in Live : t.pd = pd => t.slot # s
    BY <1>1 DEF TInv, FreeSlots, Ready
  <2>3. \A t : t \in ToSet(threads[pd]) <=> t \in Live /\ t.pd = pd
    BY LiveInList DEF TInv
  <2>4. \A s : s \in {t.slot : t \in ToSet(threads[pd])} <=> \E t \in Live : t.pd = pd /\ t.slot = s
    BY <2>3
  <2> QED BY <2>1, <2>2, <2>4
<1>2. \A pd \in Pds : Cardinality({t.slot : t \in ToSet(threads[pd])}) = Len(threads[pd])
  BY SlotsCount DEF TInv
<1>3. hash = {t \in Live : t.hashed}
  BY DEF TInv, Hashed
<1>4. \A t \in Live : tcb[t.no] = [space |-> t.pd, active |-> TRUE]
  BY DEF TInv, Kernel, Settled
<1> QED BY <1>1, <1>2, <1>3, <1>4

\* Every variable holds a value of its kind; what sys$thread_delete computes from the
\* address of a UTCB is a slot of the thread's own domain.
THEOREM TypeCorrect == Spec => []TypeOK
  BY Invariance, InvTypeOK, PTL

\* A thread number belongs to one thread, is free, or was lost for want of memory, at
\* every step of every creation and deletion (sys$thread_alloc, sys$thread_free).
THEOREM NumbersHeldOnce == Spec => []NumbersOnce
  BY Invariance, InvNumbersOnce, PTL

\* Between calls the UTCB slots, the hash table and the microkernel agree with the lists
\* of threads, whatever failed on the way (sys$pd_create_thread, sys$thread_delete).
THEOREM TablesAlwaysAgree == Spec => []TablesAgree
  BY Invariance, InvTablesAgree, PTL

\* Each PANIC and ASSERT of the creation of a thread is reached only from the state that
\* explains it, and that of line 55 never (sys_thread.c).
THEOREM OnlyExplainedHalts == Spec => []HaltsExplained
<1>1. TInv => HaltsExplained
  BY DEF TInv
<1> QED BY <1>1, Invariance, PTL

=============================================================================
