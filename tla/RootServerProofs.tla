-------------------------- MODULE RootServerProofs --------------------------
(***************************************************************************)
(* The root task's server loop forgets nobody, never meets a request it    *)
(* cannot serve, and keeps to what it granted, for any number of threads,  *)
(* memsections and capabilities.                                           *)
(*                                                                         *)
(* The three properties hold one another up.  That the loop never replies  *)
(* to a thread that does not wait, or deletes one it does not know, rests  *)
(* on what blocked threads have sent (Calls) and on the thread served      *)
(* being blocked until it is answered (Serving); that is what              *)
(* NoneForgotten says of the others.  What was granted is kept because     *)
(* only a task that has a list can change it (Lists), and the first list   *)
(* that a task is mapped beyond its grants would need a changed one.       *)
(***************************************************************************)
EXTENDS RootServer, ListFacts

\* The labels the loop knows.
Requests == {"PAGEFAULT", "SYSCALL$PRINT", "SYSCALL$EXIT_VALUE", "SYSCALL$KILL_THREAD"}

\* What a thread may have sent last.
Messages == [label : Requests \union {"none"}, word : Sections \union Threads \union {0, NULL}]

\* The calls on their way: who is blocked is known and has sent one of the requests, and
\* whoever asks for a thread to be killed asks for itself.
Calls ==
  /\ call \in [Threads -> Messages]
  /\ \A t \in Threads : blocked[t] # "no" =>
       /\ t \in table
       /\ call[t].label \in Requests
       /\ call[t].label = "SYSCALL$KILL_THREAD" => call[t].word = t

\* The thread served waits for its answer, for ever if its fault halted the root task.
Serving ==
  pc \in {"serve", "PANIC security"} => partner \in Threads /\ blocked[partner] = "reply"

\* A thread that has its list is known to have it, and until there is one the lists are as
\* they were written.
Lists ==
  /\ \A t \in Threads : ListSection[t] \in mapped[t] => t \in own
  /\ own = {} => clist = Clists

\* The inductive invariant.
RInv ==
  /\ NoneForgotten
  /\ queue \in Seq(Threads)
  /\ Calls
  /\ Serving
  /\ ClientsServed
  /\ Lists
  /\ GrantsKept

-----------------------------------------------------------------------------
\* Two ways to speak of the elements of the queue.
LEMMA SequenceRange ==
  ASSUME NEW s
  PROVE  /\ Range(s) = ToSet(s)
         /\ (\A i \in DOMAIN s : s[i] \in table) <=> ToSet(s) \subseteq table
  BY DEF Range, ToSet

\* It holds when the loop starts.
LEMMA InitRInv == ASSUME Init PROVE RInv
<1>1. queue \in Seq(Threads) /\ ToSet(queue) = {} /\ IsInjective(queue)
  BY DEF Init, ToSet, IsInjective
<1>2. TypeOK
  <2>1. Clists \in [Threads -> Seq(Nat)]
    BY ReferencesAssumption
  <2> QED BY <2>1 DEF Init, TypeOK, Idle
<1>3. NoneForgotten
  BY <1>1, <1>2 DEF Init, NoneForgotten
<1>4. Calls /\ Serving /\ ClientsServed /\ Lists /\ GrantsKept
  BY DEF Init, Calls, Serving, ClientsServed, Lists, GrantsKept, Idle, Messages
<1> QED BY <1>1, <1>3, <1>4 DEF RInv

\* What a thread that is running does: it sends a message.
LEMMA SendStep ==
  ASSUME RInv, NEW t \in Threads, NEW label \in Requests,
         NEW word \in Sections \union Threads \union {0, NULL},
         Send(t, label, word),
         label = "SYSCALL$KILL_THREAD" => word = t,
         client' \in [Threads -> {"main", "print", "kill", "spin"}]
  PROVE  RInv'
<1> USE DEF RInv, Send, root
<1>1. t \notin ToSet(queue) /\ IsInjective(queue) /\ t \in table
  BY DEF NoneForgotten
<1>2. /\ queue' \in Seq(Threads) /\ IsInjective(queue')
      /\ ToSet(queue') = ToSet(queue) \union {t}
  BY <1>1, AppendOnce
<1>3. TypeOK'
  <2>1. ToSet(queue') \subseteq table'
    BY <1>1, <1>2, SequenceRange DEF NoneForgotten, TypeOK
  <2>2. \A i \in DOMAIN queue' : queue'[i] \in table'
    BY <2>1 DEF ToSet
  <2>3. \A u \in Threads : call'[u].word \in Sections \union Threads \union {0, NULL}
    BY DEF Calls, Messages
  <2> QED BY <2>2, <2>3 DEF NoneForgotten, TypeOK
<1>4. /\ blocked \in [Threads -> {"no", "send", "reply"}]
      /\ blocked' = [blocked EXCEPT ![t] = "send"] /\ blocked[t] = "no"
  BY DEF NoneForgotten, TypeOK
<1>5. ToSet(queue') = {u \in Threads : blocked'[u] = "send"}
  BY <1>2, <1>4 DEF NoneForgotten
<1>6. NoneForgotten'
  BY <1>2, <1>3, <1>4, <1>5 DEF NoneForgotten
<1>7. Calls'
  BY <1>1, <1>4 DEF Calls, Messages
<1>8. Serving' /\ ClientsServed'
  BY <1>4 DEF Serving, ClientsServed
<1>9. Lists' /\ GrantsKept'
  <2>1. pc = "PANIC security" => partner \in Threads /\ t # partner
    BY DEF Serving
  <2> QED BY <2>1 DEF Lists, GrantsKept, Calls, Granted
<1> QED BY <1>2, <1>6, <1>7, <1>8, <1>9

\* L4_Wait: the thread that has waited longest is served next.
LEMMA ReceiveStep == ASSUME RInv, Receive PROVE RInv'
<1> USE DEF RInv
<1>1. Sender \in Threads /\ Sender \in ToSet(queue) /\ Sender \in table
  <2>1. queue # <<>> /\ queue \in Seq(Threads)
    BY DEF Receive
  <2>2. 1 \in DOMAIN queue /\ Sender = queue[1]
    BY <2>1, HeadTailProperties DEF Sender
  <2> QED BY <2>1, <2>2, ElementOfSeq DEF ToSet, NoneForgotten, TypeOK
<1>2. /\ queue' \in Seq(Threads) /\ IsInjective(queue')
      /\ ToSet(queue') = ToSet(queue) \ {Sender}
  <2>1. queue' = RemoveFirst(queue, Sender) /\ IsInjective(queue)
    BY DEF Receive, Without, NoneForgotten
  <2> HIDE DEF RInv
  <2>2. queue \in Seq(Threads)
    BY DEF RInv
  <2> QED BY <2>1, <2>2, RemoveFirstOnce
<1>3. /\ blocked \in [Threads -> {"no", "send", "reply"}]
      /\ blocked' = [blocked EXCEPT ![Sender] = "reply"] /\ blocked[Sender] = "send"
      /\ partner' = Sender /\ pc = "wait" /\ pc' = "serve"
  BY <1>1 DEF NoneForgotten, TypeOK, Receive
<1>4. TypeOK'
  <2>1. \A i \in DOMAIN queue' : queue'[i] \in table'
    <3>1. ToSet(queue') \subseteq table'
      BY <1>2, SequenceRange DEF NoneForgotten, TypeOK, Receive
    <3> QED BY <3>1 DEF ToSet
  <2> QED BY <1>1, <1>3, <2>1 DEF NoneForgotten, TypeOK, Receive
<1>5. ToSet(queue') = {u \in Threads : blocked'[u] = "send"}
  BY <1>1, <1>2, <1>3 DEF NoneForgotten
<1>6. NoneForgotten'
  BY <1>1, <1>2, <1>3, <1>4, <1>5 DEF NoneForgotten
<1>7. Calls'
  BY <1>1, <1>3 DEF Calls, Receive
<1>8. Serving' /\ ClientsServed'
  BY <1>1, <1>3 DEF Serving, ClientsServed
<1>9. Lists' /\ GrantsKept'
  BY DEF Lists, GrantsKept, Receive, Granted
<1> QED BY <1>2, <1>6, <1>7, <1>8, <1>9

\* The loop is done with the thread it served: it is not in the queue.
LEMMA Served ==
  ASSUME RInv, pc = "serve",
         blocked' = [blocked EXCEPT ![partner] = "no"], queue' = queue,
         pc' = "wait", UNCHANGED <<client, call, partner, clist>>,
         mapped' \in [Threads -> SUBSET Sections], own' \subseteq Threads, Lists', GrantsKept',
         table' \in {table, table \ {partner}}
  PROVE  RInv'
<1> USE DEF RInv
<1>1. /\ partner \in Threads /\ blocked[partner] = "reply"
      /\ blocked \in [Threads -> {"no", "send", "reply"}]
      /\ \A u \in Threads : blocked[u] = "reply" => u = partner
      /\ table \subseteq Threads
  BY DEF Serving, NoneForgotten, TypeOK
<1>2. \A u \in Threads : /\ u # partner => blocked'[u] = blocked[u]
                         /\ blocked'[partner] = "no"
  BY <1>1
<1>3. ToSet(queue') = {u \in Threads : blocked'[u] = "send"}
  BY <1>1, <1>2 DEF NoneForgotten
<1>4. TypeOK'
  <2>1. \A i \in DOMAIN queue' : queue'[i] \in table'
    <3>1. ToSet(queue) \subseteq table /\ partner \notin ToSet(queue)
      BY <1>1, SequenceRange DEF NoneForgotten, TypeOK
    <3> QED BY <3>1 DEF ToSet
  <2> QED BY <1>1, <2>1 DEF NoneForgotten, TypeOK
<1>5. NoneForgotten'
  BY <1>1, <1>2, <1>3, <1>4 DEF NoneForgotten
<1>6. Calls'
  BY <1>1, <1>2 DEF Calls
<1>7. Serving' /\ ClientsServed'
  BY DEF Serving, ClientsServed
<1> QED BY <1>5, <1>6, <1>7

\* The root task halts over a page fault.
LEMMA HaltStep ==
  ASSUME RInv, pc = "serve", pc' \in {"PANIC no memory section", "PANIC security"},
         UNCHANGED <<client, blocked, call, queue, partner, mapped, table, clist, own>>,
         own = {} /\ pc' = "PANIC security" => call[partner].word \notin Granted(partner)
  PROVE  RInv'
<1> USE DEF RInv
<1>1. TypeOK'
  BY DEF NoneForgotten, TypeOK, Halts
<1>2. NoneForgotten'
  BY <1>1 DEF NoneForgotten
<1> QED BY <1>2 DEF Calls, Serving, ClientsServed, Lists, GrantsKept, Granted

\* In a list as it was written, the search finds exactly what was granted.
LEMMA CheckedGranted ==
  ASSUME NEW t \in Threads, NEW s \in Sections, clist = Clists
  PROVE  ValidateAccess(t, s) <=> s \in Granted(t)
<1>1. MasterRef(s) = s
  <2>1. s \in Nat /\ s % 8 = 0
    BY ReferencesAssumption
  <2> QED BY <2>1 DEF MasterRef
<1>2. PICK list \in Seq(Nat \ {InvalidRef}) : list = Clists[t]
  BY ReferencesAssumption
<1>3. /\ DOMAIN list = 1 .. Len(list) /\ Len(list) \in Nat
      /\ \A k \in DOMAIN list : list[k] # InvalidRef
  BY <1>2, LenProperties, ElementOfSeq
<1>4. Reached(t) = Range(list)
  <2>1. \A k \in DOMAIN list : \A j \in 1 .. k : j \in DOMAIN list
    BY <1>3
  <2>2. {k \in DOMAIN list : \A j \in 1 .. k : list[j] # InvalidRef} = DOMAIN list
    BY <1>3, <2>1
  <2> QED BY <1>2, <2>2 DEF Reached, Range
<1> QED BY <1>1, <1>2, <1>4 DEF ValidateAccess, Granted

\* A page fault is answered, or halts the root task (sys$pagefault).
LEMMA ServeFaultStep == ASSUME RInv, ServeFault PROVE RInv'
<1> DEFINE s == call[partner].word
<1>0. /\ partner \in Threads /\ blocked[partner] = "reply" /\ pc = "serve"
      /\ partner \in table /\ mapped \in [Threads -> SUBSET Sections] /\ own \subseteq Threads
  BY DEF RInv, Serving, Calls, NoneForgotten, TypeOK, ServeFault
<1>1. own = {} => clist = Clists
  BY DEF RInv, Lists
<1>2. CASE ~Found(s)
  <2>1. pc' = "PANIC no memory section"
    BY <1>2 DEF ServeFault
  <2> QED BY <1>2, <2>1, HaltStep DEF ServeFault
<1>3. CASE Found(s) /\ ~Check(partner, s)
  <2>1. own = {} => s \notin Granted(partner)
    BY <1>0, <1>1, <1>3, CheckedGranted DEF Check, Found
  <2> QED BY <1>3, <2>1, HaltStep DEF ServeFault
<1>4. CASE Found(s) /\ Check(partner, s)
  <2>1. s \in Sections /\ ValidateAccess(partner, s)
    BY <1>4 DEF Found, Check
  <2>2. /\ mapped' = [mapped EXCEPT ![partner] = @ \union {s}]
        /\ own' = own \union {t \in {partner} : ListSection[t] = s}
        /\ blocked' = [blocked EXCEPT ![partner] = "no"]
        /\ pc' = "wait"
        /\ UNCHANGED <<client, call, queue, partner, table, clist>>
    BY <1>0, <1>4 DEF ServeFault, Reply
  <2>3. own = {} => s \in Granted(partner)
    BY <1>0, <1>1, <2>1, CheckedGranted
  <2>4. mapped' \in [Threads -> SUBSET Sections] /\ own' \subseteq Threads
    BY <1>0, <2>1, <2>2
  <2>5. Lists'
    BY <1>0, <2>2 DEF Lists, RInv
  <2>6. GrantsKept'
    BY <1>0, <2>2, <2>3 DEF GrantsKept, Granted, RInv
  <2> QED BY <1>0, <2>2, <2>4, <2>5, <2>6, Served
<1> QED BY <1>2, <1>3, <1>4

\* A list is only changed by a task that has it, and the first to have one that way has
\* its own.
LEMMA WriteListStep ==
  ASSUME RInv, NEW t \in Threads, NEW u \in Threads, NEW w \in Words,
         NEW k \in DOMAIN clist[u], WriteList(t, u, k, w)
  PROVE  RInv'
<1> USE DEF RInv
<1>1. /\ ListSection[u] \in mapped[t] /\ clist' = [clist EXCEPT ![u][k] = w]
      /\ UNCHANGED <<client, blocked, call, queue, pc, partner, mapped, table, own>>
  BY DEF WriteList
<1>2. own # {}
  <2> SUFFICES ASSUME own = {} PROVE FALSE
    OBVIOUS
  <2>1. ListSection[u] \in Range(Clists[t])
    BY <1>1 DEF GrantsKept, Granted
  <2>2. t = u
    BY <2>1, ReferencesAssumption
  <2> QED BY <1>1, <2>2 DEF Lists
<1>3. clist' \in [Threads -> Seq(Nat)]
  <2>1. clist[u] \in Seq(Nat) /\ w \in Nat /\ clist \in [Threads -> Seq(Nat)]
    BY ReferencesAssumption DEF NoneForgotten, TypeOK
  <2>2. [clist[u] EXCEPT ![k] = w] \in Seq(Nat)
    BY <2>1, ExceptSeq
  <2> QED BY <1>1, <2>1, <2>2
<1>4. NoneForgotten'
  BY <1>1, <1>3 DEF NoneForgotten, TypeOK
<1>5. Calls' /\ Serving' /\ ClientsServed'
  BY <1>1 DEF Calls, Serving, ClientsServed
<1>6. Lists' /\ GrantsKept'
  BY <1>1, <1>2 DEF Lists, GrantsKept
<1> QED BY <1>1, <1>4, <1>5, <1>6

\* SYSCALL$PRINT and SYSCALL$EXIT_VALUE are answered.
LEMMA ServeCallStep == ASSUME RInv, ServeCall PROVE RInv'
<1>1. partner \in Threads /\ blocked[partner] = "reply" /\ pc = "serve"
  BY DEF RInv, Serving, ServeCall
<1>2. /\ blocked' = [blocked EXCEPT ![partner] = "no"] /\ pc' = "wait"
      /\ UNCHANGED <<client, call, queue, partner, mapped, table, clist, own>>
  BY <1>1 DEF ServeCall, Finish, Reply, Answered
<1>3. /\ mapped' \in [Threads -> SUBSET Sections] /\ own' \subseteq Threads
      /\ Lists' /\ GrantsKept'
  BY <1>2 DEF RInv, NoneForgotten, TypeOK, Lists, GrantsKept, Granted
<1> QED BY <1>1, <1>2, <1>3, Served

\* SYSCALL$KILL_THREAD finds the thread, which is the caller, and needs no answer.
LEMMA ServeKillStep == ASSUME RInv, ServeKill PROVE RInv'
<1>1. /\ partner \in Threads /\ blocked[partner] = "reply" /\ pc = "serve"
      /\ mapped \in [Threads -> SUBSET Sections]
  BY DEF RInv, Serving, ServeKill, NoneForgotten, TypeOK
<1>2. call[partner].word = partner /\ partner \in table
  BY <1>1 DEF RInv, Calls, ServeKill
<1>3. /\ queue' = Without(partner) /\ table' = table \ {partner}
      /\ mapped' = [mapped EXCEPT ![partner] = {}]
      /\ Finish([blocked EXCEPT ![partner] = "no"])
      /\ UNCHANGED <<client, call, partner, clist, own>>
  BY <1>2 DEF ServeKill
<1>4. blocked' = [blocked EXCEPT ![partner] = "no"] /\ pc' = "wait"
  BY <1>3 DEF ServeKill, Finish, Answered
<1>5. queue' = queue
  <2>1. partner \notin ToSet(queue) /\ queue \in Seq(Threads)
    BY <1>1 DEF RInv, NoneForgotten
  <2> QED BY <1>3, <2>1 DEF Without, RemoveFirst, ToSet
<1>6. /\ mapped' \in [Threads -> SUBSET Sections] /\ own' \subseteq Threads
      /\ Lists' /\ GrantsKept'
  BY <1>1, <1>3, <1>4 DEF RInv, NoneForgotten, TypeOK, Lists, GrantsKept, Granted
<1> QED BY <1>1, <1>3, <1>4, <1>5, <1>6, Served

\* Every step keeps the invariant.
LEMMA NextRInv == ASSUME RInv, [Next]_vars PROVE RInv'
<1>1. client \in [Threads -> {"main", "print", "kill", "spin"}]
  BY DEF RInv, NoneForgotten, TypeOK
<1>2. ASSUME NEW t \in Threads, NEW s \in Sections \union {0}, Fault(t, s) PROVE RInv'
  BY <1>1, <1>2, SendStep DEF Fault, Requests
<1>3. ASSUME NEW t \in Threads, PrintCall(t) PROVE RInv'
  BY <1>1, <1>3, SendStep DEF PrintCall, Requests
<1>4. ASSUME NEW t \in Threads, Exit(t) PROVE RInv'
  <2>1. client' \in [Threads -> {"main", "print", "kill", "spin"}]
    BY <1>1, <1>4 DEF Exit, AfterExit
  <2> QED BY <1>4, <2>1, SendStep DEF Exit, Requests
<1>5. CASE UNCHANGED vars
  <2>1. NoneForgotten'
    BY <1>5 DEF RInv, vars, NoneForgotten, TypeOK
  <2>2. /\ (queue \in Seq(Threads))' /\ Calls' /\ Serving' /\ ClientsServed'
        /\ Lists' /\ GrantsKept'
    BY <1>5 DEF RInv, vars, Calls, Serving, ClientsServed, Lists, GrantsKept, Granted
  <2> QED BY <2>1, <2>2 DEF RInv
<1> QED BY <1>2, <1>3, <1>4, <1>5, WriteListStep, ReceiveStep, ServeFaultStep, ServeCallStep,
           ServeKillStep DEF Next, Serve

\* The invariant holds at all times (sys$loop).
THEOREM Invariance == Spec => []RInv
  BY InitRInv, NextRInv, PTL DEF Spec

\* Whoever waits for an answer is the thread the loop is serving, and whoever sends is in
\* the queue, once (sys$loop).
THEOREM NobodyForgotten == Spec => []NoneForgotten
<1>1. RInv => NoneForgotten
  BY DEF RInv
<1> QED BY <1>1, Invariance, PTL

\* The clients of the run-time library never make the loop reply to a thread that does not
\* wait or delete a thread it does not know (sys$loop, exit).
THEOREM LoopServes == Spec => []ClientsServed
<1>1. RInv => ClientsServed
  BY DEF RInv
<1> QED BY <1>1, Invariance, PTL

\* Until some task has been mapped its own capability list, the root task maps and
\* refuses by what it granted, whatever is done with lists and pages afterwards
\* (sys$pagefault, sec$check, sec$validate_access).
THEOREM GrantsAreKept == Spec => []GrantsKept
<1>1. RInv => GrantsKept
  BY DEF RInv
<1> QED BY <1>1, Invariance, PTL
=============================================================================
