------------------------------- MODULE Futex -------------------------------
(***************************************************************************)
(* The user-level futex (src/src/common/futex.c) on one word.  A table     *)
(* `futex_lists` maps the word to a queue of elements; an element lives on *)
(* the stack of the thread that waits, and is named by that thread here.   *)
(*                                                                         *)
(* This module has the steps of the two operations; Semaphore calls them.  *)
(* futex_wake_one and futex_wake_all are futex_wake_some for one and for   *)
(* as many threads as there are.                                           *)
(***************************************************************************)
EXTENDS Naturals, Sequences, Functions

CONSTANT Threads

VARIABLES
  word,        \* *uaddr
  lists,       \* the queues the table holds for this word, oldest first
  fpc,         \* where each thread is in its futex call
  flist,       \* the list get_futex_list gave the thread, 0 for none yet
  unblocked,   \* elements a waker took off a list and has still to read and wake
  run          \* "running", or "blocked" between has_blocked and runnable

futexVars == <<lists, fpc, flist, unblocked, run>>

\* out: in no futex call.  *_find, *_create: in get_futex_list, without and with
\* futex_lists_lock.  block: in __futex_block.  parked: in a list, or taken off
\* one.  take: in futex_wake_some, before the list lock.  wake, wake_one: in
\* unblock_futex_queue, before the next element is read, and after.
FutexLabels == {"out", "wait_find", "wait_create", "block", "parked",
                "wake_find", "wake_create", "take", "wake", "wake_one"}

FutexInit ==
  /\ lists = <<>>
  /\ fpc = [t \in Threads |-> "out"]
  /\ flist = [t \in Threads |-> 0]
  /\ unblocked = [t \in Threads |-> <<>>]
  /\ run = [t \in Threads |-> "running"]

FGoto(t, l) == fpc' = [fpc EXCEPT ![t] = l]
----------------------------------------------------------------------------
(* Seeded faults: an operation with one plausible mistake each.  No        *)
(* specification uses them; in place of the operation, each makes the      *)
(* property it is paired with fail.                                        *)

\* get_futex_list creates a list without looking again under the lock.
CreateList_NoRecheck(t, next) ==
  /\ lists' = Append(lists, <<>>)
  /\ flist' = [flist EXCEPT ![t] = Len(lists) + 1]
  /\ FGoto(t, next)
  /\ UNCHANGED <<unblocked, run>>

\* unblock_futex_queue wakes first and reads the next element afterwards, from the
\* element of a thread that may have gone.
UnblockOne_WakesFirst(t) ==
  /\ fpc[t] \in {"wake", "wake_one"} /\ unblocked[t] # <<>>
  /\ LET e == Head(unblocked[t]) IN
       /\ run' = [run EXCEPT ![e] = "running"]
       /\ fpc' = [fpc EXCEPT ![e] = "out", ![t] = "wake"]
       /\ flist' = [flist EXCEPT ![e] = 0]
  /\ unblocked' = IF fpc[t] = "wake" THEN unblocked ELSE [unblocked EXCEPT ![t] = Tail(@)]
  /\ UNCHANGED <<word, lists>>
----------------------------------------------------------------------------
(* get_futex_list                                                          *)

\* The scan without a lock; `next` is where the caller goes on.
FindList(t, create, next) ==
  /\ IF lists = <<>>
     THEN FGoto(t, create) /\ UNCHANGED flist
     ELSE FGoto(t, next) /\ flist' = [flist EXCEPT ![t] = 1]
  /\ UNCHANGED <<lists, unblocked, run>>

\* The second scan and the insertion, under futex_lists_lock.
CreateList(t, next) ==
  /\ lists' = IF lists = <<>> THEN <<(<<>>)>> ELSE lists
  /\ flist' = [flist EXCEPT ![t] = 1]
  /\ FGoto(t, next)
  /\ UNCHANGED <<unblocked, run>>

GetFutexList(t) ==
  /\ \/ fpc[t] = "wait_find"   /\ FindList(t, "wait_create", "block")
     \/ fpc[t] = "wait_create" /\ CreateList(t, "block")
     \/ fpc[t] = "wake_find"   /\ FindList(t, "wake_create", "take")
     \/ fpc[t] = "wake_create" /\ CreateList(t, "take")
  /\ UNCHANGED word
----------------------------------------------------------------------------
(* futex_wait and its callback                                             *)

\* The first look at the word.
WaitCall(t, val) ==
  /\ fpc[t] = "out"
  /\ IF word = val THEN FGoto(t, "wait_find") ELSE UNCHANGED fpc
  /\ UNCHANGED <<word, lists, flist, unblocked, run>>

\* __futex_block, under the lock of the list: look at the word again, and block
\* or go straight back to the ready queue (uthread_paused).
Block(t, val) ==
  /\ fpc[t] = "block"
  /\ IF word = val
     THEN /\ lists' = [lists EXCEPT ![flist[t]] = Append(@, t)]
          /\ run' = [run EXCEPT ![t] = "blocked"]
          /\ FGoto(t, "parked")
          /\ UNCHANGED flist
     ELSE /\ FGoto(t, "out")
          /\ flist' = [flist EXCEPT ![t] = 0]
          /\ UNCHANGED <<lists, run>>
  /\ UNCHANGED <<word, unblocked>>
----------------------------------------------------------------------------
(* futex_wake_some                                                         *)

WakeCall(t) ==
  /\ fpc[t] = "out"
  /\ FGoto(t, "wake_find")
  /\ UNCHANGED <<lists, flist, unblocked, run>>

\* Up to n elements move to a queue of the waker's own.
TakeElements(t, n) ==
  /\ fpc[t] = "take"
  /\ LET q == lists[flist[t]]
         k == IF n < Len(q) THEN n ELSE Len(q) IN
       /\ unblocked' = [unblocked EXCEPT ![t] = SubSeq(q, 1, k)]
       /\ lists' = [lists EXCEPT ![flist[t]] = SubSeq(q, k + 1, Len(q))]
  /\ FGoto(t, "wake")
  /\ UNCHANGED <<word, flist, run>>

\* unblock_futex_queue.  The elements in `unblocked` are those it has still to read,
\* each on the stack of a thread that waits: the link to the next one is read
\* (n = STAILQ_NEXT(e, next)) ...
ReadNext(t) ==
  /\ fpc[t] = "wake" /\ unblocked[t] # <<>>
  /\ FGoto(t, "wake_one")
  /\ UNCHANGED <<word, lists, flist, unblocked, run>>

\* ... before the thread is woken: it may return from futex_wait at once, and the
\* element is gone.
UnblockOne(t) ==
  /\ fpc[t] = "wake_one" /\ unblocked[t] # <<>>
  /\ LET e == Head(unblocked[t]) IN
       /\ run' = [run EXCEPT ![e] = "running"]
       /\ fpc' = [fpc EXCEPT ![e] = "out", ![t] = "wake"]
       /\ flist' = [flist EXCEPT ![e] = 0]
  /\ unblocked' = [unblocked EXCEPT ![t] = Tail(@)]
  /\ UNCHANGED <<word, lists>>

WakeDone(t) ==
  /\ fpc[t] = "wake" /\ unblocked[t] = <<>>
  /\ FGoto(t, "out")
  /\ flist' = [flist EXCEPT ![t] = 0]
  /\ UNCHANGED <<word, lists, unblocked, run>>
----------------------------------------------------------------------------
\* The queue of list i, and all elements some thread may still touch.
InList(t)  == \E i \in DOMAIN lists : t \in Range(lists[i])
InHands(t) == \E s \in Threads : t \in Range(unblocked[s])
============================================================================
