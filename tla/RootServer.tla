----------------------------- MODULE RootServer -----------------------------
(***************************************************************************)
(* The root task's server loop (sys_loop.c) with the page faults it        *)
(* handles (sys_pagefault.c, sec_caps.c) and the threads that call it: the *)
(* run-time library's print and exit (rtl_print.c, rtl_init.c).            *)
(*                                                                         *)
(* A thread that calls is blocked until the root task has received its     *)
(* message (it is then in the microkernel's queue of senders) and until it *)
(* has an answer.  A page fault is a call the microkernel makes for the    *)
(* thread.  An IPC that fails gives the loop an error tag, whose label is  *)
(* none of the requests.                                                   *)
(***************************************************************************)
EXTENDS Naturals, FiniteSets, SequencesExt

CONSTANTS Threads,      \* the threads of the tasks the root task has started
          Sections,     \* the memsections, as references: addresses of memsection structures
          Clists,       \* [Threads -> Seq(reference)]: the capability list of a thread's
                        \* domain when its task is started
          ListSection,  \* [Threads -> Sections]: the memsection that list is in
          Words,        \* the references a task may write into a list
          MaxChanges,   \* bound: capabilities that differ from what the root task wrote
          ExitMessage,  \* the threads that were given a message to print on exit
          InvalidRef,   \* the reference of an invalid capability
          NULL

\* A memsection structure holds pointers and lies in a slab of its own size, so that its
\* address has no bits where an interface number would be.  The root task writes no
\* invalid capability, and one for the section of a list into that list only.
ASSUME ReferencesAssumption ==
  /\ \A s \in Sections : s \in Nat /\ s % 8 = 0
  /\ Clists \in [Threads -> Seq(Nat \ {InvalidRef})]
  /\ ListSection \in [Threads -> Sections]
  /\ \A t, u \in Threads : ListSection[u] \in Range(Clists[t]) => t = u
  /\ Words \subseteq Nat

VARIABLES
  client,   \* where a thread is in its program: "main", then the calls of exit()
  blocked,  \* "no", "send": in the queue of senders, "reply": waiting for an answer
  call,     \* the message of a blocked thread: [label, word]
  queue,    \* the threads that are sending to the root task
  pc,       \* of the root task: "wait", "serve", or where it halted
  partner,  \* the thread served
  mapped,   \* the memsections of which a thread has pages
  table,    \* the threads sys$thread_lookup finds
  clist,    \* the references in the capability list of a thread's domain
  own       \* history: the threads that have been mapped their own list

vars == <<client, blocked, call, queue, pc, partner, mapped, table, clist, own>>
root == <<pc, partner, mapped, table, clist, own>>

Idle == [label |-> "none", word |-> NULL]

-----------------------------------------------------------------------------
(***************************************************************************)
(* Capabilities                                                            *)
(***************************************************************************)

\* The reference without its three bits of interface number.
MasterRef(ref) == (ref \div 8) * 8

\* The capabilities a search reaches: those before the first invalid one.  The list is as
\* long as its section, which was clear when the root task wrote to it.
Reached(t) ==
  {clist[t][k] : k \in {k \in DOMAIN clist[t] : \A j \in 1 .. k : clist[t][j] # InvalidRef}}

\* Mutant of ValidateAccess: any valid capability will do.
ValidateAccessAny(t, ref) == Reached(t) # {}

\* sec$validate_access, which compares references and not passwords.
ValidateAccess(t, ref) == \E r \in Reached(t) : r \in {ref, MasterRef(ref)}

\* sec$check: the thread must be known, and the memsection structure must itself lie
\* in a memsection, which slab pools are.
Check(t, ref) == t \in table /\ ValidateAccess(t, ref)

-----------------------------------------------------------------------------
(***************************************************************************)
(* The threads                                                             *)
(***************************************************************************)

Send(t, label, word) ==
  /\ blocked[t] = "no"
  /\ t \in table
  /\ blocked' = [blocked EXCEPT ![t] = "send"]
  /\ call' = [call EXCEPT ![t] = [label |-> label, word |-> word]]
  /\ queue' = Append(queue, t)
  /\ UNCHANGED root

\* A page fault at any point of the program, on a page of a memsection or outside all.
Fault(t, s) ==
  /\ client[t] # "spin"
  /\ s \notin mapped[t]
  /\ Send(t, "PAGEFAULT", s)
  /\ UNCHANGED client

\* rtl$print
PrintCall(t) ==
  /\ client[t] = "main"
  /\ Send(t, "SYSCALL$PRINT", NULL)
  /\ UNCHANGED client

\* The capabilities that are not as the root task wrote them.
Changed == {c \in UNION {{t} \X DOMAIN clist[t] : t \in Threads} :
              clist[c[1]][c[2]] # Clists[c[1]][c[2]]}

\* A task that has a page of a list, which is its own by what it was granted, stores a
\* capability in it: sys$pagefault maps pages with the rights that are asked for.
WriteList(t, u, k, w) ==
  /\ blocked[t] = "no"
  /\ t \in table
  /\ client[t] = "main"
  /\ ListSection[u] \in mapped[t]
  /\ <<u, k>> \in Changed \/ Cardinality(Changed) < MaxChanges
  /\ clist' = [clist EXCEPT ![u][k] = w]
  /\ UNCHANGED <<client, blocked, call, queue, pc, partner, mapped, table, own>>

\* Mutant of AfterExit: only a thread that prints a message asks to be killed.
AfterExitSpins(t) == IF t \in ExitMessage THEN "print" ELSE "spin"

\* What exit() does next: print the message, if there is one, or ask to be killed.
AfterExit(t) == IF t \in ExitMessage THEN "print" ELSE "kill"

\* exit(), call by call.
Exit(t) ==
  \/ /\ client[t] = "main"
     /\ client' = [client EXCEPT ![t] = AfterExit(t)]
     /\ Send(t, "SYSCALL$EXIT_VALUE", NULL)
  \/ /\ client[t] = "print"
     /\ client' = [client EXCEPT ![t] = "kill"]
     /\ Send(t, "SYSCALL$PRINT", NULL)
  \/ /\ client[t] = "kill"
     /\ client' = [client EXCEPT ![t] = "spin"]
     /\ Send(t, "SYSCALL$KILL_THREAD", t)

-----------------------------------------------------------------------------
(***************************************************************************)
(* The loop                                                                *)
(***************************************************************************)

\* Mutant of Sender: the latest sender.
SenderLast == queue[Len(queue)]

\* The sender the microkernel lets in: the one that has waited longest.
Sender == Head(queue)

Without(t) == RemoveFirst(queue, t)

\* The receive of L4_Wait and of L4_ReplyWait.
Receive ==
  /\ pc = "wait"
  /\ queue # <<>>
  /\ partner' = Sender
  /\ queue' = Without(Sender)
  /\ blocked' = [blocked EXCEPT ![Sender] = "reply"]
  /\ pc' = "serve"
  /\ UNCHANGED <<client, call, mapped, table, clist, own>>

\* The reply of L4_ReplyWait, after a request that left the threads blocked as b says.
\* If nobody waits for the reply, the tag of the error goes through the switch and
\* ends in its default.
Reply(b) ==
  /\ blocked' = [b EXCEPT ![partner] = "no"]
  /\ pc' = IF b[partner] = "reply" THEN "wait" ELSE "PANIC unknown IPC"

\* Mutant of Answered: an exit value is not answered.
AnsweredNot == {"SYSCALL$PRINT"}

\* Mutant of Answered: reply is not cleared for a thread that was killed.
AnsweredKill == {"SYSCALL$PRINT", "SYSCALL$EXIT_VALUE", "SYSCALL$KILL_THREAD"}

\* The requests that leave reply = 1.
Answered == {"SYSCALL$PRINT", "SYSCALL$EXIT_VALUE"}

\* The end of a request: the reply, if there is one, and the next wait.
Finish(b) ==
  IF call[partner].label \in Answered THEN Reply(b) ELSE pc' = "wait" /\ blocked' = b

\* sys$objtable_lookup finds a memsection at the address.
Found(s) == s \in Sections

\* sys$pagefault and the reply with the page.
ServeFault ==
  LET s == call[partner].word
  IN  /\ pc = "serve"
      /\ call[partner].label = "PAGEFAULT"
      /\ \/ /\ ~Found(s)
            /\ pc' = "PANIC no memory section"
            /\ UNCHANGED <<blocked, mapped, own>>
         \/ /\ Found(s)
            /\ ~Check(partner, s)
            /\ pc' = "PANIC security"
            /\ UNCHANGED <<blocked, mapped, own>>
         \/ /\ Found(s)
            /\ Check(partner, s)
            /\ mapped' = [mapped EXCEPT ![partner] = @ \union {s}]
            /\ own' = own \union {t \in {partner} : ListSection[t] = s}
            /\ Reply(blocked)
      /\ UNCHANGED <<client, call, queue, partner, table, clist>>

\* SYSCALL$PRINT and SYSCALL$EXIT_VALUE
ServeCall ==
  /\ pc = "serve"
  /\ call[partner].label \in {"SYSCALL$PRINT", "SYSCALL$EXIT_VALUE"}
  /\ Finish(blocked)
  /\ UNCHANGED <<client, call, queue, partner, mapped, table, clist, own>>

\* SYSCALL$KILL_THREAD: L4_AbortIpc_and_stop, then sys$thread_delete, which takes the
\* thread out of the table and, with it, the space whose only thread it was.  An
\* identifier that is not found makes sys$thread_delete follow a null pointer.
ServeKill ==
  LET t == call[partner].word
  IN  /\ pc = "serve"
      /\ call[partner].label = "SYSCALL$KILL_THREAD"
      /\ IF t \in table
           THEN /\ queue' = Without(t)
                /\ table' = table \ {t}
                /\ mapped' = [mapped EXCEPT ![t] = {}]
                /\ Finish([blocked EXCEPT ![t] = "no"])
           ELSE /\ pc' = "null"
                /\ UNCHANGED <<blocked, queue, mapped, table>>
      /\ UNCHANGED <<client, call, partner, clist, own>>

Serve == ServeFault \/ ServeCall \/ ServeKill

Init ==
  /\ client = [t \in Threads |-> "main"]
  /\ blocked = [t \in Threads |-> "no"]
  /\ call = [t \in Threads |-> Idle]
  /\ queue = <<>>
  /\ pc = "wait"
  /\ partner = NULL
  /\ mapped = [t \in Threads |-> {}]
  /\ table = Threads
  /\ clist = Clists
  /\ own = {}

Next ==
  \/ \E t \in Threads : PrintCall(t) \/ Exit(t) \/ \E s \in Sections \union {0} : Fault(t, s)
  \/ \E t, u \in Threads, w \in Words : \E k \in DOMAIN clist[u] : WriteList(t, u, k, w)
  \/ Receive
  \/ Serve

\* The root task runs whenever it has a message, and a thread that has begun to exit
\* runs until it is done: the microkernel schedules every thread that is ready.
Fairness ==
  /\ WF_vars(Receive)
  /\ WF_vars(Serve)
  /\ \A t \in Threads : WF_vars(client[t] # "main" /\ Exit(t))

Spec == Init /\ [][Next]_vars /\ Fairness

-----------------------------------------------------------------------------
(***************************************************************************)
(* Properties                                                              *)
(***************************************************************************)

Halts == {"PANIC unknown IPC", "PANIC no memory section", "PANIC security", "null"}
Halted == pc \in Halts

\* Every variable holds a value of its kind (sys_loop.c).
TypeOK ==
  /\ client \in [Threads -> {"main", "print", "kill", "spin"}]
  /\ blocked \in [Threads -> {"no", "send", "reply"}]
  /\ \A t \in Threads : call[t].word \in Sections \union Threads \union {0, NULL}
  /\ \A i \in DOMAIN queue : queue[i] \in table
  /\ pc \in {"wait", "serve"} \union Halts
  /\ partner \in Threads \union {NULL}
  /\ mapped \in [Threads -> SUBSET Sections]
  /\ table \subseteq Threads
  /\ clist \in [Threads -> Seq(Nat)]
  /\ own \subseteq Threads

\* Nobody is forgotten: whoever waits for an answer is the thread the loop is serving
\* (sys$loop keeps a single partner and replies to it, or kills it, before it waits for
\* another), and whoever sends is in the queue once.
NoneForgotten ==
  /\ TypeOK
  /\ \A t \in Threads : blocked[t] = "reply" => pc # "wait" /\ t = partner
  /\ ToSet(queue) = {t \in Threads : blocked[t] = "send"}
  /\ IsInjective(queue)

\* The clients of the run-time library never make the loop reply to a thread that does
\* not wait, or delete a thread that sys$thread_lookup does not know: neither the
\* default of the switch nor the null pointer is reached.
ClientsServed == pc \notin {"PANIC unknown IPC", "null"}

\* The memsections the root task wrote a capability for when it started the thread.
Granted(t) == Sections \intersect Range(Clists[t])

\* Until some task has been mapped its own capability list, the root task keeps to what it
\* granted, whatever the threads fault on and in whatever order: none has a page of
\* another memsection, and it does not halt over a page of one that was granted
\* (sys$pagefault, sec$check, sec$validate_access).  It is all that can be said: the list
\* that is searched lies in a section for which its task is given a capability.
GrantsKept ==
  own = {} => /\ \A t \in Threads : mapped[t] \subseteq Granted(t)
              /\ pc = "PANIC security" => call[partner].word \notin Granted(partner)

\* Every call and every page fault is answered, or its thread killed as it asked, unless
\* the root task halts (sys$loop).
EveryCallAnswered == \A t \in Threads : blocked[t] # "no" ~> blocked[t] = "no" \/ Halted

\* A thread that begins to exit is deleted, whatever it faults on meanwhile, unless the
\* root task halts (exit, SYSCALL$KILL_THREAD).
ExitCompletes == \A t \in Threads : client[t] # "main" ~> t \notin table \/ Halted
=============================================================================
