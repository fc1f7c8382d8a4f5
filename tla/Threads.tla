------------------------------- MODULE Threads -------------------------------
(***************************************************************************)
(* Protection domains and their threads (sys_thread.c, sys_pd_init.c) over *)
(* the thread numbers (sys_rfl.c, module Ranges), the UTCB slots of a      *)
(* domain (sys_bfl.c), the table of threads by identifier (sys_hash.c) and *)
(* the thread control of the microkernel (pal/src/api/v4/thread.cc).       *)
(*                                                                         *)
(* A creation is a sequence of steps, one for each resource it takes.      *)
(* Every allocation of the heap can fail, and so can the activation of a   *)
(* thread.  A thread's identifier is its number: the version is always 1.  *)
(* pd_suspended, which nothing sets, and sessions, which nothing creates,  *)
(* are left out.                                                           *)
(***************************************************************************)
EXTENDS Integers, Ranges

CONSTANTS Pds,         \* the protection domains besides freevms_pd
          MaxThreads,  \* [Pds -> Nat]: the max_threads they are created with
          MinNo,       \* the first thread number: L4_Myself() + 2
          TOTAL_KTCBS, \* 1 << L4_ThreadIdBits(kip)
          UtcbFactor   \* utcb_size >> utcb_size_log2: 1 on every platform

ASSUME ThreadsAssumption ==
  /\ MinNo \in Nat /\ TOTAL_KTCBS \in Nat /\ 0 < MinNo /\ MinNo < TOTAL_KTCBS
  /\ MaxThreads \in [Pds -> Nat \ {0}]
  /\ UtcbFactor = 1

VARIABLES
  state,        \* of a domain: "none", "leaked" (in its owner's list, but its creation
                \* failed), "pd_empty", "pd_active"
  local,        \* its free UTCB slots (local_threadno)
  threads,      \* its list of threads, records [pd, no, slot, hashed]
  thread_list,  \* the free thread numbers
  hash,         \* l4tid_to_thread
  tcb,          \* the microkernel's threads: [space, active]
  pc, who,      \* the step of a creation and its domain; where the system halted
  lost          \* numbers that could not be given back for want of memory

vars == <<state, local, threads, thread_list, hash, tcb, pc, who, lost>>

\* sys$thread_init: both ends belong to the range.
MaxNo == TOTAL_KTCBS

Numbers == MinNo .. MaxNo

NULL  == {-1}                                    \* a bit list that could not be allocated
NoTcb == [space |-> "none", active |-> FALSE]
Bare  == "bare"                                  \* an address space without a UTCB area

Slots(pd) == 0 .. MaxThreads[pd] - 1
New       == Last(threads[who])                  \* the thread being created
Live      == UNION {ToSet(threads[pd]) : pd \in Pds}
Held      == {t.no : t \in Live} \ {0}
Found(n)  == {t \in hash : t.no = n}

-----------------------------------------------------------------------------
(***************************************************************************)
(* Protection domains                                                      *)
(***************************************************************************)

\* sys$pd_create.  A domain whose UTCB area cannot be created stays in the list of
\* its owner; a bit list that cannot be allocated is not noticed.
PdCreate(pd) ==
  /\ pc = "idle"
  /\ state[pd] = "none"
  /\ \E s \in {"pd_empty", "leaked"}, bits \in {Slots(pd), NULL} :
       /\ state' = [state EXCEPT ![pd] = s]
       /\ local' = [local EXCEPT ![pd] = bits]
  /\ UNCHANGED <<threads, thread_list, hash, tcb, pc, who, lost>>

-----------------------------------------------------------------------------
(***************************************************************************)
(* Creation of a thread                                                    *)
(***************************************************************************)

\* sys$pd_create_thread: a node at the end of the list (nothing happens if there is
\* no memory for it).
Create(pd) ==
  /\ pc = "idle"
  /\ state[pd] \in {"pd_empty", "pd_active"}
  /\ threads' = [threads EXCEPT ![pd] =
                   Append(@, [pd |-> pd, no |-> 0, slot |-> -1, hashed |-> FALSE])]
  /\ pc' = "slot"
  /\ who' = pd
  /\ UNCHANGED <<state, local, thread_list, hash, tcb, lost>>

\* New becomes t, in its place at the end of the list.
Changed(t) == [threads EXCEPT ![who] = ReplaceAt(@, Len(@), t)]

Unlinked(t) == [threads EXCEPT ![t.pd] = RemoveFirst(@, t)]

\* sys$bfl_alloc: the lowest set bit.  The position to start from is always 0,
\* because the test that moves it compares the address of the array with 0.
BflAlloc(pd) == local[pd] \ {Min(local[pd])}

AllocSlot ==
  /\ pc = "slot"
  /\ \/ /\ local[who] = NULL
        /\ pc' = "null"
        /\ UNCHANGED <<local, threads>>
     \/ /\ local[who] = {}
        /\ threads' = Unlinked(New)
        /\ pc' = "idle"
        /\ UNCHANGED local
     \/ /\ local[who] \notin {NULL, {}}
        /\ threads' = Changed([New EXCEPT !.slot = Min(local[who])])
        /\ local' = [local EXCEPT ![who] = BflAlloc(who)]
        /\ pc' = "number"
  /\ UNCHANGED <<state, thread_list, hash, tcb, who, lost>>

\* Mutant of Undo: the slot is not given back.
UndoKeepsSlot ==
  /\ threads' = Unlinked(New)
  /\ pc' = "idle"
  /\ UNCHANGED local

\* thread_error_state_2 of sys$pd_create_thread.
Undo ==
  /\ local' = [local EXCEPT ![who] = @ \union {New.slot}]
  /\ threads' = Unlinked(New)
  /\ pc' = "idle"

\* sys$thread_alloc; without a number the creation is undone.
AllocNumber ==
  /\ pc = "number"
  /\ \/ /\ thread_list = <<>>
        /\ Undo
        /\ UNCHANGED thread_list
     \/ /\ thread_list # <<>>
        /\ thread_list' = Rest(thread_list)
        /\ threads' = Changed([New EXCEPT !.no = thread_list[1].from])
        /\ pc' = IF Found(thread_list[1].from) = {} THEN "hash" ELSE "PANIC_55"
        /\ UNCHANGED local
  /\ UNCHANGED <<state, hash, tcb, who, lost>>

\* hash_insert, whose result sys$thread_alloc ignores.
HashInsert ==
  /\ pc = "hash"
  /\ \E ok \in BOOLEAN :
       LET t == [New EXCEPT !.hashed = ok]
       IN  /\ threads' = Changed(t)
           /\ hash' = IF ok THEN hash \union {t} ELSE hash
  /\ pc' = "control"
  /\ UNCHANGED <<state, local, thread_list, tcb, who, lost>>

\* The space named by pd->threads.first, for a thread other than New itself.
FirstSpace == tcb[Head(threads[who]).no].space

\* L4_ThreadControl of a thread for a domain that is active: it is created in the
\* space of the domain's first thread, or moved there if it exists.  If it is the first
\* itself, it gets a new space, for which no UTCB area is ever set.
Joined(n) ==
  IF Head(threads[who]) = New
    THEN IF tcb[n] = NoTcb THEN [space |-> Bare, active |-> FALSE] ELSE tcb[n]
    ELSE [space |-> FirstSpace, active |-> FALSE]

\* sys$thread_setup, the first L4_ThreadControl and L4_SpaceControl.  The microkernel
\* asserts that the number fits its table; a thread that exists in the space of
\* another domain cannot have its UTCB in this one.
Control ==
  LET n == New.no
  IN  /\ pc = "control"
      /\ \/ /\ n >= TOTAL_KTCBS
            /\ pc' = "ASSERT"
            /\ UNCHANGED tcb
         \/ /\ n < TOTAL_KTCBS
            /\ state[who] = "pd_empty"
            /\ tcb[n] # NoTcb /\ tcb[n].space # who
            /\ pc' = "PANIC_104"
            /\ UNCHANGED tcb
         \/ /\ n < TOTAL_KTCBS
            /\ state[who] = "pd_empty"
            /\ tcb[n] = NoTcb \/ tcb[n].space = who
            /\ tcb' = [tcb EXCEPT ![n] = [space |-> who, active |-> FALSE]]
            /\ pc' = "activate"
         \/ /\ n < TOTAL_KTCBS
            /\ state[who] = "pd_active"
            /\ tcb' = [tcb EXCEPT ![n] = Joined(n)]
            /\ pc' = "activate"
      /\ UNCHANGED <<state, local, threads, thread_list, hash, who, lost>>

HashRemove(n) == hash' = hash \ Found(n)

\* Mutant of ThreadFree: the number is not given back.
ThreadFreeKeeps(n) == HashRemove(n) /\ UNCHANGED <<thread_list, lost>>

\* sys$thread_free: the result of sys$rfl_free is ignored.
ThreadFree(n) ==
  /\ HashRemove(n)
  /\ \E memory \in Memory :
       /\ thread_list' = FreeNumber(thread_list, n, memory).list
       /\ lost' = IF memory = "both" THEN lost ELSE lost \union ({n} \ Covered(thread_list'))

\* The second L4_ThreadControl: the UTCB must lie in the UTCB area of the space.  If
\* the microkernel has no memory, what was taken is given back.
Activate ==
  LET n == New.no
  IN  /\ pc = "activate"
      /\ \/ /\ tcb[n].space # who
            /\ pc' = "PANIC_136"
            /\ UNCHANGED <<state, local, threads, thread_list, hash, tcb, lost>>
         \/ /\ tcb[n].space = who
            /\ tcb' = [tcb EXCEPT ![n].active = TRUE]
            /\ state' = [state EXCEPT ![who] = "pd_active"]
            /\ pc' = "idle"
            /\ UNCHANGED <<local, threads, thread_list, hash, lost>>
         \/ /\ tcb[n].space = who
            /\ ThreadFree(n)
            /\ Undo
            /\ UNCHANGED <<state, tcb>>
      /\ UNCHANGED who

-----------------------------------------------------------------------------
(***************************************************************************)
(* Deletion of a thread                                                    *)
(***************************************************************************)

\* Mutant of FreedSlot: the offset in bytes is taken for the slot.
FreedSlotOffset(t) == t.slot * UtcbFactor * 1024

\* (utcb - utcb_base) >> utcb_size_log2
FreedSlot(t) == t.slot * UtcbFactor

\* Mutant of Destroyed: the microkernel's thread is not deleted.
DestroyedNot(t) == tcb

Destroyed(t) == [tcb EXCEPT ![t.no] = NoTcb]

\* sys$thread_delete(sys$thread_lookup(tid)); NULL is not tested for.
Delete(n) ==
  /\ pc = "idle"
  /\ n \in Held
  /\ IF Found(n) = {}
       THEN /\ pc' = "null"
            /\ UNCHANGED <<local, threads, thread_list, hash, tcb, lost>>
       ELSE LET t == CHOOSE t \in Found(n) : TRUE
            IN  /\ tcb' = Destroyed(t)
                /\ ThreadFree(n)
                /\ local' = [local EXCEPT ![t.pd] = @ \union {FreedSlot(t)}]
                /\ threads' = Unlinked(t)
                /\ UNCHANGED pc
  /\ UNCHANGED <<state, who>>

Init ==
  /\ state = [pd \in Pds |-> "none"]
  /\ local = [pd \in Pds |-> {}]
  /\ threads = [pd \in Pds |-> <<>>]
  /\ thread_list = <<[from |-> MinNo, to |-> MaxNo]>>
  /\ hash = {}
  /\ tcb = [n \in MinNo .. TOTAL_KTCBS - 1 |-> NoTcb]
  /\ pc = "idle"
  /\ who \in Pds
  /\ lost = {}

Next ==
  \/ \E pd \in Pds : PdCreate(pd) \/ Create(pd)
  \/ AllocSlot \/ AllocNumber \/ HashInsert \/ Control \/ Activate
  \/ \E n \in Held : Delete(n)

Spec == Init /\ [][Next]_vars

-----------------------------------------------------------------------------
(***************************************************************************)
(* Properties                                                              *)
(***************************************************************************)

Halts == {"null", "ASSERT", "PANIC_55", "PANIC_104", "PANIC_136"}

\* Every variable holds a value of its kind; in particular what sys$thread_delete computes
\* from the address of a UTCB is a slot of the thread's own domain.
TypeOK ==
  /\ state \in [Pds -> {"none", "leaked", "pd_empty", "pd_active"}]
  /\ \A pd \in Pds : local[pd] = NULL \/ local[pd] \subseteq Slots(pd)
  /\ \A t \in Live : /\ t.no \in Numbers \union {0}
                     /\ t.slot \in Slots(t.pd) \union {-1}
  /\ \A n \in DOMAIN tcb : tcb[n].space \in Pds \union {Bare, "none"}
  /\ pc \in {"idle", "slot", "number", "hash", "control", "activate"} \union Halts
  /\ who \in Pds
  /\ lost \subseteq Numbers

\* A number belongs to one thread, or it is free, or it was lost for want of memory:
\* creations that fail at any step and deletions keep it that way, and no two
\* threads of the system share an identifier.
NumbersOnce ==
  /\ \A t, u \in Live : t # u => t.no # u.no
  /\ Held \intersect Covered(thread_list) = {}
  /\ Numbers \ (Held \union Covered(thread_list)) \subseteq lost

\* Between calls the tables agree on every thread, whatever failed on the way:
\*  - the UTCB slots of a domain are exactly those its threads do not use, one each;
\*  - the hash table holds the threads whose insertion succeeded and no thread that was
\*    freed, so that an identifier never leads to a dangling pointer;
\*  - in the microkernel every thread runs in the address space of its domain, even if
\*    its number was left over from a creation in another one.
TablesAgree ==
  pc = "idle" =>
    /\ \A pd \in Pds :
         state[pd] \in {"pd_empty", "pd_active"} /\ local[pd] # NULL =>
           /\ local[pd] = Slots(pd) \ {t.slot : t \in ToSet(threads[pd])}
           /\ Cardinality({t.slot : t \in ToSet(threads[pd])}) = Len(threads[pd])
    /\ hash = {t \in Live : t.hashed}
    /\ \A t \in Live : tcb[t.no] = [space |-> t.pd, active |-> TRUE]

\* Each way to bring the system down is reached only from the one state that explains it:
\*  - the PANIC of line 136 (a thread activated outside its domain's space) only in a
\*    domain that has been emptied, whose list holds nothing but the new thread;
\*  - the PANIC of line 104 (a thread of another space in the way) only over what a
\*    failed creation left behind, inactive: a thread that ran and was deleted is never
\*    met again, although its number is reused;
\*  - the ASSERT of the microkernel (a number outside its table) only when all others are
\*    in use or lost: a number that was given back is handed out before it;
\*  - the PANIC of line 55 (an identifier that is in the hash table already) never.
HaltsExplained ==
  /\ pc = "PANIC_136" => Len(threads[who]) = 1
  /\ pc = "PANIC_104" => ~tcb[New.no].active /\ \A t \in Live : t.no = New.no => t = New
  /\ pc = "ASSERT" => MinNo .. TOTAL_KTCBS - 1 \subseteq {t.no : t \in Live \ {New}} \union lost
  /\ pc # "PANIC_55"

\* Stated by a comment or an assertion, and violated:
\* "ASSERT(idx < TOTAL_KTCBS)" (pal/src/api/v4/thread.cc:70): the numbers given to the
\* microkernel fit its table.
NumbersFit == pc # "ASSERT"

\* "pd_active,          // has active threads" (sys_thread.h:143)
ActiveHasThreads == pc = "idle" => \A pd \in Pds : state[pd] = "pd_active" => threads[pd] # <<>>

\* "L4 has run out of memory... this is probably very bad, but we want to keep going
\* for as long as we can." (sys_thread.c:130): what a failed activation leaves behind
\* does not stop a later creation.
KeepsGoing == pc # "PANIC_104"
=============================================================================
