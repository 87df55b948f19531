------------------------------- MODULE Mutex -------------------------------
(***************************************************************************)
(* upthread_mutex_t (src/src/common/mutex.c): a spinlock, a count, an      *)
(* owner and a FIFO queue of blocked threads.                              *)
(*                                                                         *)
(* mutex->lock stays held from the test of mutex->locked until the         *)
(* callback of uthread_yield, on the vcore, has enqueued the thread; every *)
(* other critical section is one step.  The scheduler is what SchedOps     *)
(* promises: a blocked thread runs again after uthread_runnable, once.     *)
(***************************************************************************)
EXTENDS Naturals, Sequences, Functions

CONSTANTS
  Threads,
  NULL,
  Recursive,  \* attr.type = UPTHREAD_MUTEX_RECURSIVE
  MaxDepth,   \* how often a thread locks a recursive mutex over (a bound)
  Rounds      \* how many lock and trylock calls each thread makes (a bound)

ASSUME MutexAssumption ==
  /\ NULL \notin Threads
  /\ Recursive \in BOOLEAN
  /\ MaxDepth \in Nat \ {0}
  /\ Recursive \/ MaxDepth = 1
  /\ Rounds \in Nat

VARIABLES
  lock,     \* mutex->lock: the thread that holds the spinlock across a step
  locked,   \* mutex->locked
  owner,    \* mutex->owner
  queue,    \* mutex->queue
  mpc,      \* where each thread is in its mutex call
  wake,     \* the local `upthread` of upthread_mutex_unlock
  run,      \* the scheduler's view: has_blocked happened, runnable did not
  held,     \* ghost: acquisitions that returned and were not undone
  rounds    \* calls each thread has left

mutex == <<lock, locked, owner, queue>>
vars  == <<mutex, mpc, wake, run, held, rounds>>

\* idle: outside, or at the first instruction of a call.  block: in the callback,
\* the spinlock held.  parked: in the queue, or just popped.  woken: runnable, to
\* take the spinlock again (line 103).  unlock_wake: spinlock released, a popped
\* thread to wake (line 127).
Labels == {"idle", "block", "parked", "woken", "unlock_wake"}

Init ==
  /\ lock = NULL /\ locked = 0 /\ owner = NULL /\ queue = <<>>
  /\ mpc = [t \in Threads |-> "idle"]
  /\ wake = [t \in Threads |-> NULL]
  /\ run = [t \in Threads |-> "running"]
  /\ held = [t \in Threads |-> 0]
  /\ rounds = [t \in Threads |-> Rounds]
----------------------------------------------------------------------------
(* The pieces of the operations.                                           *)

\* The spinlock is free: a critical section may start.
SpinFree == lock = NULL

OwnRecursive(t) == Recursive /\ owner = t

\* The thread has the mutex: set the owner, count, return.
Take(t) ==
  /\ owner' = t
  /\ locked' = locked + 1
  /\ held' = [held EXCEPT ![t] = @ + 1]
  /\ mpc' = [mpc EXCEPT ![t] = "idle"]
  /\ UNCHANGED <<lock, queue, wake, run>>
----------------------------------------------------------------------------
(* Seeded faults: an operation with one plausible mistake each.  No        *)
(* specification uses them; in place of the operation, each makes the      *)
(* property it is paired with fail.                                        *)

\* `if (mutex->locked)` for `while`: a woken thread does not test again.
LockTake_NoRetest(t) ==
  /\ SpinFree
  /\ mpc[t] = "woken" \/ (mpc[t] = "idle" /\ (locked = 0 \/ OwnRecursive(t)))
  /\ Take(t)

\* The spinlock is released before the thread is in the queue.
StartBlocking_Unlocked(t) ==
  /\ run' = [run EXCEPT ![t] = "blocked"]
  /\ mpc' = [mpc EXCEPT ![t] = "block"]
  /\ UNCHANGED <<mutex, wake, held>>

\* uthread_has_blocked is forgotten.
StartBlocking_NotBlocked(t) ==
  /\ lock' = t
  /\ mpc' = [mpc EXCEPT ![t] = "block"]
  /\ UNCHANGED <<locked, owner, queue, wake, run, held>>

\* The owner field is not reset.
Free_KeepsOwner(t) ==
  /\ locked' = 0
  /\ IF queue = <<>>
     THEN UNCHANGED <<owner, queue, wake, mpc>>
     ELSE /\ queue' = Tail(queue)
          /\ wake' = [wake EXCEPT ![t] = Head(queue)]
          /\ mpc' = [mpc EXCEPT ![t] = "unlock_wake"]
          /\ UNCHANGED owner

\* The popped thread is not made runnable.
UnlockWake_Forgotten(t) ==
  /\ mpc[t] = "unlock_wake"
  /\ mpc' = [mpc EXCEPT ![t] = "idle"]
  /\ wake' = [wake EXCEPT ![t] = NULL]
  /\ UNCHANGED <<mutex, run, held>>
----------------------------------------------------------------------------
(* The two ends of holding the mutex.                                      *)

\* Off the vcore with the spinlock still held; uthread_has_blocked comes first.
StartBlocking(t) ==
  /\ lock' = t
  /\ run' = [run EXCEPT ![t] = "blocked"]
  /\ mpc' = [mpc EXCEPT ![t] = "block"]
  /\ UNCHANGED <<locked, owner, queue, wake, held>>

\* The last unlock: free the mutex and pop the first thread of the queue, if any.
Free(t) ==
  /\ locked' = 0
  /\ owner' = NULL
  /\ IF queue = <<>>
     THEN UNCHANGED <<queue, wake, mpc>>
     ELSE /\ queue' = Tail(queue)
          /\ wake' = [wake EXCEPT ![t] = Head(queue)]
          /\ mpc' = [mpc EXCEPT ![t] = "unlock_wake"]

----------------------------------------------------------------------------
(* upthread_mutex_lock.  Only a fresh call takes the recursive shortcut;   *)
(* a thread that was woken goes round the while loop.                      *)

LockTake(t) ==
  /\ SpinFree
  /\ \/ mpc[t] \in {"idle", "woken"} /\ locked = 0
     \/ mpc[t] = "idle" /\ OwnRecursive(t)
  /\ Take(t)

LockBlock(t) ==
  /\ SpinFree
  /\ mpc[t] = "woken" \/ (mpc[t] = "idle" /\ ~OwnRecursive(t))
  /\ locked # 0
  /\ StartBlocking(t)

\* The end of the callback: into the queue, and release the spinlock.
BlockInsert(t) ==
  /\ mpc[t] = "block"
  /\ queue' = Append(queue, t)
  /\ lock' = NULL
  /\ mpc' = [mpc EXCEPT ![t] = "parked"]
  /\ UNCHANGED <<locked, owner, wake, run, held>>

\* upthread_mutex_trylock: the same, but EBUSY where lock would block.
TryLock(t) ==
  /\ mpc[t] = "idle" /\ SpinFree
  /\ IF locked = 0 \/ OwnRecursive(t)
     THEN Take(t)
     ELSE UNCHANGED <<mutex, mpc, wake, run, held>>

(* upthread_mutex_unlock.  It tests nothing about its caller: that the     *)
(* caller holds the mutex is the client's part.                            *)
Unlock(t) ==
  /\ mpc[t] = "idle" /\ SpinFree /\ held[t] > 0
  /\ held' = [held EXCEPT ![t] = @ - 1]
  /\ IF locked = 1
     THEN Free(t)
     ELSE locked' = locked - 1 /\ UNCHANGED <<owner, queue, wake, mpc>>
  /\ UNCHANGED <<lock, run>>

\* uthread_runnable, after the spinlock was released.
UnlockWake(t) ==
  /\ mpc[t] = "unlock_wake"
  /\ run' = [run EXCEPT ![wake[t]] = "running"]
  /\ mpc' = [mpc EXCEPT ![t] = "idle", ![wake[t]] = "woken"]
  /\ wake' = [wake EXCEPT ![t] = NULL]
  /\ UNCHANGED <<mutex, held>>
----------------------------------------------------------------------------
(* Clients: each makes at most Rounds calls, locks no mutex of the default *)
(* type that it holds already, and none deeper than MaxDepth.              *)

MayLock(t) == rounds[t] > 0 /\ held[t] < MaxDepth
Spend(t)   == rounds' = [rounds EXCEPT ![t] = @ - 1]

ClientCall(t) ==
  /\ mpc[t] = "idle" /\ MayLock(t) /\ Spend(t)
  /\ \/ LockTake(t)
     \/ LockBlock(t)
     \/ TryLock(t)

\* A call in progress goes on.
Continue(t) ==
  /\ \/ mpc[t] = "woken" /\ LockTake(t)
     \/ mpc[t] = "woken" /\ LockBlock(t)
     \/ BlockInsert(t)
     \/ UnlockWake(t)
  /\ UNCHANGED rounds

Release(t) == Unlock(t) /\ UNCHANGED rounds

\* All calls made, all locks undone.
Finished ==
  /\ \A t \in Threads : rounds[t] = 0 /\ held[t] = 0 /\ mpc[t] = "idle"
  /\ UNCHANGED vars

Next ==
  \/ \E t \in Threads : ClientCall(t)
  \/ \E t \in Threads : Continue(t)
  \/ \E t \in Threads : Release(t)
  \/ Finished

Spec == Init /\ [][Next]_vars

(* Fairness: a runnable thread gets to run and the callback completes      *)
(* (ReadyRuns of the scheduler); a thread that holds the mutex unlocks it. *)
Fairness == \A t \in Threads : WF_vars(Continue(t)) /\ WF_vars(Release(t))

FairSpec == Spec /\ Fairness
----------------------------------------------------------------------------
(* Properties.                                                             *)

TypeOK ==
  /\ lock \in Threads \cup {NULL}
  /\ locked \in 0 .. MaxDepth
  /\ owner \in Threads \cup {NULL}
  /\ queue \in Seq(Threads)
  /\ mpc \in [Threads -> Labels]
  /\ wake \in [Threads -> Threads \cup {NULL}]
  /\ run \in [Threads -> {"running", "blocked"}]
  /\ held \in [Threads -> 0 .. MaxDepth]
  /\ rounds \in [Threads -> 0 .. Rounds]

\* Two threads never both hold the mutex, whatever the interleaving of lock,
\* trylock, unlock, and of threads woken late, after someone barged in.
MutualExclusion ==
  \A t, u \in Threads : held[t] > 0 /\ held[u] > 0 => t = u

\* The fields agree with what the clients hold: a free mutex has no owner (a
\* stale one would let a recursive lock through), a held one counts right.
OwnerAgrees ==
  /\ owner = NULL <=> locked = 0
  /\ \A t \in Threads : IF owner = t THEN held[t] = locked ELSE held[t] = 0

\* No wakeup is lost: while the mutex is free and threads are queued, one that
\* left the queue is still on its way to try again, and its unlock will pop the next.
NoLostWakeup ==
  locked = 0 /\ queue # <<>> =>
    \E t \in Threads : mpc[t] \in {"woken", "unlock_wake"}

\* A thread is made runnable only after uthread_has_blocked, by one thread, and
\* not while it is in the queue: mutex->lock covers the way from the test of
\* locked to the insertion.
WakesOnlyBlocked ==
  \A t \in Threads : mpc[t] = "unlock_wake" =>
    /\ run[wake[t]] = "blocked" /\ mpc[wake[t]] = "parked"
    /\ wake[t] \notin Range(queue)
    /\ \A u \in Threads : u # t => wake[u] # wake[t]

\* The mutex implements the abstract lock, whose holder is what clients see.
holderOf == IF \E t \in Threads : held[t] > 0
            THEN CHOOSE t \in Threads : held[t] > 0 ELSE NULL
Abstract == INSTANCE LockSpec WITH holder <- holderOf, depth <- locked
LockContract == Abstract!Spec

\* Every call of upthread_mutex_lock returns with the mutex, if every holder
\* unlocks and calls do not barge in for ever (Rounds bounds them).
LockReturns ==
  \A t \in Threads :
    mpc[t] \in {"block", "parked", "woken"} ~> mpc[t] = "idle" /\ held[t] > 0
============================================================================
