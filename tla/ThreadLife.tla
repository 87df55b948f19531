------------------------------ MODULE ThreadLife ------------------------------
(***************************************************************************)
(* The life of a thread control block in pvcq (src/src/pvcq/upthread.c):   *)
(* upthread_create, join, exit and detach over TCBs that are recycled on   *)
(* zombie_list.  The code of juggle is the same.                           *)
(*                                                                         *)
(* A thread is an execution, which happens once; a slot is the memory of a *)
(* TCB with its stack, which one thread after another lives in.  The code  *)
(* knows slots only: a upthread_t, a joiner, current_uthread are addresses *)
(* (addr).  owner, which the code does not have, says whose TCB a slot     *)
(* holds, so that the use of a stale address shows.                        *)
(*                                                                         *)
(* The scheduler is what SchedOps promises: a thread is parked, ready or   *)
(* on a vcore, and a callback of uthread_yield holds the vcore of its      *)
(* thread to the end.                                                      *)
(***************************************************************************)
EXTENDS Integers, FiniteSets, Functions

CONSTANTS
  Threads,
  Main,        \* thread0
  Slots,
  MainSlot,    \* the slot thread0 starts in
  NULL,
  MaxZombies,  \* the limit of zombie_list, 1000
  NumVCores    \* max_vcores()

ASSUME ThreadLifeAssumption ==
  /\ Main \in Threads /\ NULL \notin Threads \cup Slots
  /\ IsFiniteSet(Slots) /\ MainSlot \in Slots
  /\ MaxZombies \in Nat /\ NumVCores \in Nat \ {0}

VARIABLES
  zombie_list,               \* a wait-free list: what comes out is any of its slots
  mapped,                    \* the slots whose memory is mapped
  owner,                     \* the thread whose TCB a slot holds
  detached, joiner, retval,  \* fields of struct upthread_tcb, by slot
  addr,                      \* the slot of a thread
  place, pc,                 \* parked, ready or on a vcore; where its code goes on
  target,                    \* the thread it joins, or is creating
  result,                    \* what its join is about to return
  temp_pth,                  \* local of __pth_exit_cb: a slot
  handles,                   \* the joinable threads the client did not join or detach yet
  late                       \* threads detached after their exit had looked

memory == <<zombie_list, mapped, owner>>
fields == <<detached, joiner, retval>>
calls  == <<target, result, temp_pth>>
client == <<handles, late>>
vars   == <<memory, fields, addr, place, pc, calls, client>>

Labels == {"unborn", "client", "publish", "join_cb", "join_read", "join_free", "join_insert",
           "exit_cb", "exit_swap", "exit_wake", "exit_free", "exit_insert", "exited"}

Exiting  == {"exit_cb", "exit_swap", "exit_wake", "exit_free", "exit_insert"}
Joining  == {"join_cb", "join_read", "join_free", "join_insert"}
----------------------------------------------------------------------------
(* upthread_lib_init: thread0 runs, detached, in a slot mapped for it.      *)
Init ==
  /\ zombie_list = {} /\ mapped = {MainSlot}
  /\ owner = [s \in Slots |-> IF s = MainSlot THEN Main ELSE NULL]
  /\ detached = [s \in Slots |-> s = MainSlot]
  /\ joiner = [s \in Slots |-> NULL]
  /\ retval = [s \in Slots |-> NULL]
  /\ addr = [t \in Threads |-> IF t = Main THEN MainSlot ELSE NULL]
  /\ place = [t \in Threads |-> IF t = Main THEN "vcore" ELSE "parked"]
  /\ pc = [t \in Threads |-> IF t = Main THEN "client" ELSE "unborn"]
  /\ target = [t \in Threads |-> NULL] /\ result = [t \in Threads |-> NULL]
  /\ temp_pth = [t \in Threads |-> NULL]
  /\ handles = {} /\ late = {}

At(t, l) == place[t] = "vcore" /\ pc[t] = l

Goto(t, l) == pc' = [pc EXCEPT ![t] = l]

Running == {t \in Threads : place[t] = "vcore"}

\* upthread_create stored the handle of u.
Published(u) == \A t \in Threads : pc[t] = "publish" => target[t] # u
----------------------------------------------------------------------------
(* Seeded faults: an operation with one plausible mistake each.  No        *)
(* specification uses them; in place of the operation, each makes the      *)
(* property it is paired with fail.                                        *)

\* Creation relies on the joiner field being zero, as in fresh memory.
Create_KeepsJoiner(t, u, s, det) ==
  /\ At(t, "client") /\ pc[u] = "unborn"
  /\ IF zombie_list # {} THEN s \in zombie_list ELSE s \notin mapped
  /\ zombie_list' = zombie_list \ {s}
  /\ mapped' = mapped \cup {s}
  /\ owner' = [owner EXCEPT ![s] = u]
  /\ detached' = [detached EXCEPT ![s] = det]
  /\ addr' = [addr EXCEPT ![u] = s]
  /\ place' = [place EXCEPT ![u] = "ready"]
  /\ pc' = [pc EXCEPT ![u] = "client", ![t] = "publish"]
  /\ target' = [target EXCEPT ![t] = u]
  /\ handles' = IF det THEN handles ELSE handles \cup {u}
  /\ UNCHANGED <<joiner, retval, result, temp_pth, late>>

\* The join callback wakes its thread whatever it found.
JoinSwap_NoWait(t) ==
  /\ At(t, "join_cb")
  /\ joiner' = [joiner EXCEPT ![addr[target[t]]] = addr[t]]
  /\ place' = [place EXCEPT ![t] = "ready"]
  /\ Goto(t, "join_read")
  /\ UNCHANGED <<memory, detached, retval, addr, calls, client>>

\* The exit callback treats every thread as joinable.
ExitTest_Joinable(t) ==
  /\ At(t, "exit_cb")
  /\ Goto(t, "exit_swap")
  /\ UNCHANGED <<memory, fields, addr, place, calls, client>>

\* The exit callback forgets the joiner it found.
ExitSwap_NoWake(t) ==
  /\ At(t, "exit_swap")
  /\ joiner' = [joiner EXCEPT ![addr[t]] = addr[t]]
  /\ place' = [place EXCEPT ![t] = "parked"]
  /\ Goto(t, "exited")
  /\ UNCHANGED <<memory, detached, retval, addr, calls, client>>
----------------------------------------------------------------------------
(* Creation.                                                               *)

\* __upthread_alloc: a zombie if there is one, else memory from mmap.
Alloc(s) ==
  /\ IF zombie_list # {} THEN s \in zombie_list ELSE s \notin mapped
  /\ zombie_list' = zombie_list \ {s}
  /\ mapped' = mapped \cup {s}

\* upthread_create as far as uthread_runnable.
Create(t, u, s, det) ==
  /\ At(t, "client") /\ pc[u] = "unborn"
  /\ Alloc(s)
  /\ owner' = [owner EXCEPT ![s] = u]
  /\ detached' = [detached EXCEPT ![s] = det]
  /\ joiner' = [joiner EXCEPT ![s] = NULL]
  /\ addr' = [addr EXCEPT ![u] = s]
  /\ place' = [place EXCEPT ![u] = "ready"]
  /\ pc' = [pc EXCEPT ![u] = "client", ![t] = "publish"]
  /\ target' = [target EXCEPT ![t] = u]
  /\ handles' = IF det THEN handles ELSE handles \cup {u}
  /\ UNCHANGED <<retval, result, temp_pth, late>>

\* *thread = upthread: the new thread may have exited by now, and a detached one
\* may be gone, so that the client does not use a detached thread's handle.
Publish(t) ==
  /\ At(t, "publish")
  /\ target' = [target EXCEPT ![t] = NULL]
  /\ Goto(t, "client")
  /\ UNCHANGED <<memory, fields, addr, place, result, temp_pth, client>>
----------------------------------------------------------------------------
(* Joining.                                                                *)

\* upthread_join up to the callback, or past it if the target exited already.
\* Each joinable thread is joined once, by any thread that can see its handle.
JoinCall(t, u) ==
  /\ At(t, "client") /\ u \in handles \ {t} /\ Published(u)
  /\ ~detached[addr[u]]
  /\ handles' = handles \ {u}
  /\ target' = [target EXCEPT ![t] = u]
  /\ Goto(t, IF joiner[addr[u]] = NULL THEN "join_cb" ELSE "join_read")
  /\ UNCHANGED <<memory, fields, addr, place, result, temp_pth, late>>

\* Joining a detached thread, while there is one, returns -1.
JoinDetached(t, u) ==
  /\ At(t, "client") /\ u # t /\ pc[u] = "client" /\ Published(u)
  /\ detached[addr[u]]
  /\ UNCHANGED vars

\* __pth_join_cb: the joiner waits, or it came too late and wakes itself.
JoinSwap(t) ==
  /\ At(t, "join_cb")
  /\ LET s == addr[target[t]] IN
       /\ joiner' = [joiner EXCEPT ![s] = addr[t]]
       /\ place' = [place EXCEPT ![t] = IF joiner[s] = NULL THEN "parked" ELSE "ready"]
  /\ Goto(t, "join_read")
  /\ UNCHANGED <<memory, detached, retval, addr, calls, client>>

JoinRead(t) ==
  /\ At(t, "join_read")
  /\ result' = [result EXCEPT ![t] = retval[addr[target[t]]]]
  /\ Goto(t, "join_free")
  /\ UNCHANGED <<memory, fields, addr, place, target, temp_pth, client>>
----------------------------------------------------------------------------
(* Exiting and detaching.                                                  *)

\* upthread_exit up to the callback.
Exit(t) ==
  /\ At(t, "client")
  /\ retval' = [retval EXCEPT ![addr[t]] = t]
  /\ Goto(t, "exit_cb")
  /\ UNCHANGED <<memory, detached, joiner, addr, place, calls, client>>

\* __pth_exit_cb reads the flag that upthread_detach may be writing.
ExitTest(t) ==
  /\ At(t, "exit_cb")
  /\ Goto(t, IF detached[addr[t]] THEN "exit_free" ELSE "exit_swap")
  /\ UNCHANGED <<memory, fields, addr, place, calls, client>>

ExitSwap(t) ==
  /\ At(t, "exit_swap")
  /\ LET s == addr[t] IN
       /\ joiner' = [joiner EXCEPT ![s] = s]
       /\ temp_pth' = [temp_pth EXCEPT ![t] = joiner[s]]
       /\ IF joiner[s] = NULL
          THEN Goto(t, "exited") /\ place' = [place EXCEPT ![t] = "parked"]
          ELSE Goto(t, "exit_wake") /\ UNCHANGED place
  /\ UNCHANGED <<memory, detached, retval, addr, target, result, client>>

\* uthread_runnable, on an address.
ExitWake(t) ==
  /\ At(t, "exit_wake")
  /\ place' = [place EXCEPT ![t] = "parked", ![owner[temp_pth[t]]] = "ready"]
  /\ temp_pth' = [temp_pth EXCEPT ![t] = NULL]
  /\ Goto(t, "exited")
  /\ UNCHANGED <<memory, fields, addr, target, result, client>>

\* upthread_detach, by anybody, the thread itself included: a plain write.
Detach(t, u) ==
  /\ At(t, "client") /\ u \in handles /\ (u = t \/ Published(u))
  /\ detached' = [detached EXCEPT ![addr[u]] = TRUE]
  /\ handles' = handles \ {u}
  /\ late' = IF pc[u] \in {"exit_swap", "exited"} THEN late \cup {u} ELSE late
  /\ UNCHANGED <<memory, joiner, retval, addr, place, pc, calls>>
----------------------------------------------------------------------------
(* __upthread_free, by the joiner or in the exit callback: the size of     *)
(* zombie_list is read first and the slot inserted later.                  *)

FreeSlot(t) == IF pc[t] \in Exiting THEN addr[t] ELSE addr[target[t]]

\* Back to the client, or to the scheduler for good.
FreeDone(t) ==
  /\ owner' = [owner EXCEPT ![FreeSlot(t)] = NULL]
  /\ Goto(t, IF pc[t] \in Exiting THEN "exited" ELSE "client")
  /\ place' = [place EXCEPT ![t] = IF pc[t] \in Exiting THEN "parked" ELSE "vcore"]
  /\ target' = [target EXCEPT ![t] = NULL]
  /\ result' = [result EXCEPT ![t] = NULL]

FreeTest(t) ==
  /\ At(t, "join_free") \/ At(t, "exit_free")
  /\ Cardinality(zombie_list) < MaxZombies
  /\ Goto(t, IF pc[t] = "join_free" THEN "join_insert" ELSE "exit_insert")
  /\ UNCHANGED <<memory, fields, addr, place, calls, client>>

\* wfl_insert
FreeInsert(t) ==
  /\ At(t, "join_insert") \/ At(t, "exit_insert")
  /\ zombie_list' = zombie_list \cup {FreeSlot(t)}
  /\ FreeDone(t)
  /\ UNCHANGED <<mapped, fields, addr, temp_pth, client>>

\* munmap
FreeUnmap(t) ==
  /\ At(t, "join_free") \/ At(t, "exit_free")
  /\ Cardinality(zombie_list) >= MaxZombies
  /\ mapped' = mapped \ {FreeSlot(t)}
  /\ FreeDone(t)
  /\ UNCHANGED <<zombie_list, fields, addr, temp_pth, client>>
----------------------------------------------------------------------------
(* The scheduler.                                                          *)

Dispatch(t) ==
  /\ place[t] = "ready" /\ Cardinality(Running) < NumVCores
  /\ place' = [place EXCEPT ![t] = "vcore"]
  /\ UNCHANGED <<memory, fields, addr, pc, calls, client>>

Yield(t) ==
  /\ At(t, "client")
  /\ place' = [place EXCEPT ![t] = "ready"]
  /\ UNCHANGED <<memory, fields, addr, pc, calls, client>>

\* Nothing runs or is ready to.
Finished ==
  /\ \A t \in Threads : place[t] = "parked"
  /\ UNCHANGED vars
----------------------------------------------------------------------------
CallStep(t) ==
  \/ Publish(t)
  \/ JoinSwap(t)
  \/ JoinRead(t)
  \/ ExitTest(t)
  \/ ExitSwap(t)
  \/ ExitWake(t)
  \/ FreeTest(t)
  \/ FreeInsert(t)
  \/ FreeUnmap(t)

ClientStep(t) ==
  \/ \E u \in Threads, s \in Slots, det \in BOOLEAN : Create(t, u, s, det)
  \/ \E u \in Threads : JoinCall(t, u) \/ JoinDetached(t, u) \/ Detach(t, u)
  \/ Exit(t)
  \/ Yield(t)

Next ==
  \/ \E t \in Threads : CallStep(t) \/ ClientStep(t) \/ Dispatch(t)
  \/ Finished

Spec == Init /\ [][Next]_vars

(* A vcore goes on with the code it has, and client code that makes no     *)
(* other call yields; the scheduler runs every ready thread, as ReadyRuns  *)
(* of the schedulers says.                                                 *)
Fairness ==
  \A t \in Threads : WF_vars(CallStep(t) \/ Yield(t)) /\ SF_vars(Dispatch(t))

FairSpec == Spec /\ Fairness
----------------------------------------------------------------------------
(* Properties.                                                             *)

\* Every variable keeps to its type.
TypeOK ==
  /\ zombie_list \subseteq Slots /\ mapped \subseteq Slots
  /\ owner \in [Slots -> Threads \cup {NULL}]
  /\ detached \in [Slots -> BOOLEAN] /\ joiner \in [Slots -> Slots \cup {NULL}]
  /\ retval \in [Slots -> Threads \cup {NULL}]
  /\ addr \in [Threads -> Slots \cup {NULL}]
  /\ place \in [Threads -> {"parked", "ready", "vcore"}] /\ pc \in [Threads -> Labels]
  /\ target \in [Threads -> Threads \cup {NULL}] /\ result \in [Threads -> Threads \cup {NULL}]
  /\ temp_pth \in [Threads -> Slots \cup {NULL}]
  /\ handles \subseteq Threads /\ late \subseteq Threads

\* t's TCB is where its address says, and nobody has it for a new thread.
Alive(t) == addr[t] \in mapped \ zombie_list /\ owner[addr[t]] = t

\* No step of a thread, of its callbacks or of a joiner follows the address of a
\* TCB that was freed, or that belongs to another thread by now: whoever still has
\* to use a TCB finds its own thread in it.  The exit callback's last use of its
\* own TCB is its swap, and the joiner it wakes then still waits for it.
NoStaleTcb ==
  /\ \A t \in Threads : pc[t] \notin {"unborn", "exit_wake", "exited"} => Alive(t)
  /\ \A t \in Threads : pc[t] \in Joining => Alive(target[t])
  /\ \A t \in Threads : pc[t] = "exit_wake" =>
       \E j \in Threads : /\ Alive(j) /\ addr[j] = temp_pth[t]
                         /\ pc[j] = "join_read" /\ place[j] = "parked" /\ target[j] = t
  /\ \A u \in handles : Alive(u)

\* upthread_join returns the return value of the thread it was called for, though
\* TCBs change hands.
JoinGetsResult ==
  \A t \in Threads : pc[t] \in {"join_free", "join_insert"} => result[t] = target[t]

\* The memory of every thread that is gone comes back: a TCB is kept for a thread
\* that still runs or can be joined, and lost only when upthread_detach came after the exit callback
\* had read the flag.  zombie_list exceeds its limit by less than one slot for each vcore.
MemoryAccounted ==
  /\ \A t \in Threads : pc[t] = "exited" /\ addr[t] # NULL /\ owner[addr[t]] = t =>
       t \in handles \/ t \in late \/ \E j \in Threads : pc[j] \in Joining /\ target[j] = t
  /\ \A s \in mapped \ zombie_list : owner[s] # NULL
  /\ Cardinality(zombie_list) + Cardinality({t \in Threads : pc[t] \in {"join_insert", "exit_insert"}})
       <= MaxZombies + NumVCores - 1

\* Join and exit may meet in any order, also with the TCBs of both recycled from
\* others: once the target is in its exit, its joiner returns.
JoinReturns ==
  \A t \in Threads :
    pc[t] \in Joining /\ pc[target[t]] \in Exiting \cup {"exited"} ~> pc[t] = "client"
============================================================================
