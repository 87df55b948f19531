------------------------------- MODULE CondVar -------------------------------
(***************************************************************************)
(* upthread_cond_t (src/src/common/condvar.c) over an upthread_mutex_t of  *)
(* the default type, used as a monitor: consumers wait until there is an   *)
(* item, producers add one and then signal or broadcast, while they hold   *)
(* the mutex or after they released it.                                    *)
(*                                                                         *)
(* A waiter holds c->lock from upthread_cond_wait through the callback of  *)
(* uthread_yield, in which its vcore unlocks the mutex for it; every other *)
(* critical section under c->lock is one step.                             *)
(***************************************************************************)
EXTENDS Naturals, Sequences, Functions

CONSTANTS Consumers, Producers, NULL

Threads == Consumers \cup Producers

ASSUME CondVarAssumption ==
  /\ Consumers \cap Producers = {}
  /\ NULL \notin Threads

VARIABLES
  lock, locked, owner, queue, mpc, wake, run, held,   \* the mutex, see Mutex
  c_lock,          \* the thread that holds c->lock across a step
  c_queue,         \* c->queue
  waiting_qnode,   \* c->waiting_qnode: whose queue node it points to
  pc,              \* where each thread is in its program
  c_wake,          \* the local `upthread` of signal and broadcast
  items,           \* what consumers wait for
  inside           \* which producers notify while they hold the mutex

mutexVars == <<lock, locked, owner, queue, mpc, wake, run, held>>
condVars  == <<c_lock, c_queue, waiting_qnode, c_wake>>
vars      == <<mutexVars, condVars, pc, items, inside>>

M == INSTANCE Mutex WITH Recursive <- FALSE, MaxDepth <- 1, Rounds <- 0,
                         rounds <- [t \in Threads |-> 0]

\* start, relock: in upthread_mutex_lock.  test: a consumer looks for an item.
\* unlock_mutex, unlock_cond, parked: in the callback of cond_wait, then in
\* c->queue or just popped.  produce, notify, signal_wake, broadcast,
\* broadcast_wake: a producer.  leave: about to unlock.
Labels == {"start", "test", "unlock_mutex", "unlock_cond", "parked", "relock", "produce",
           "notify", "signal_wake", "broadcast", "broadcast_wake", "leave", "done"}

Init ==
  /\ M!Init
  /\ c_lock = NULL /\ c_queue = <<>> /\ waiting_qnode = NULL
  /\ pc = [t \in Threads |-> "start"]
  /\ c_wake = [t \in Threads |-> NULL]
  /\ items = 0
  /\ inside \in SUBSET Producers

Goto(t, l) == pc' = [pc EXCEPT ![t] = l]

\* t is in no mutex call.
OutOfMutex(t) == mpc[t] = "idle"

\* Where a producer goes after it notified.
AfterNotify(t) == IF t \in inside THEN "leave" ELSE "done"
----------------------------------------------------------------------------
(* Seeded faults: an operation with one plausible mistake each.  No        *)
(* specification uses them; in place of the operation, each makes the      *)
(* property it is paired with fail.                                        *)

\* cond_wait publishes its queue node before it has c->lock.
WaitCall_EarlyNode(t) ==
  /\ pc[t] = "test" /\ items = 0 /\ OutOfMutex(t)
  /\ waiting_qnode' = t
  /\ IF c_lock = NULL
     THEN /\ c_lock' = t
          /\ c_queue' = Append(c_queue, t)
          /\ run' = [run EXCEPT ![t] = "blocked"]
          /\ Goto(t, "unlock_mutex")
     ELSE UNCHANGED <<c_lock, c_queue, run, pc>>
  /\ UNCHANGED <<lock, locked, owner, queue, mpc, wake, held, c_wake, items, inside>>

\* The signalled thread returns without the mutex.
Relock_Forgotten(t) ==
  /\ pc[t] = "relock"
  /\ Goto(t, "test")
  /\ UNCHANGED <<mutexVars, condVars, items, inside>>

\* The signal does not take c->lock, and meets a waiter that has not unlocked the mutex.
Signal_NoLock(t) ==
  /\ pc[t] = "notify" /\ OutOfMutex(t) /\ c_queue # <<>>
  /\ c_queue' = Tail(c_queue)
  /\ c_wake' = [c_wake EXCEPT ![t] = Head(c_queue)]
  /\ Goto(t, "signal_wake")
  /\ UNCHANGED <<mutexVars, c_lock, waiting_qnode, items, inside>>

\* The popped thread is not made runnable.
SignalWake_Forgotten(t) ==
  /\ pc[t] = "signal_wake"
  /\ c_wake' = [c_wake EXCEPT ![t] = NULL]
  /\ Goto(t, AfterNotify(t))
  /\ UNCHANGED <<mutexVars, c_lock, c_queue, waiting_qnode, items, inside>>

\* The broadcast looks at the first thread without removing it.
BroadcastPop_NoRemove(t) ==
  /\ pc[t] = "broadcast" /\ c_lock = NULL /\ c_queue # <<>>
  /\ c_wake' = [c_wake EXCEPT ![t] = Head(c_queue)]
  /\ Goto(t, "broadcast_wake")
  /\ UNCHANGED <<mutexVars, c_lock, c_queue, waiting_qnode, items, inside>>
----------------------------------------------------------------------------
(* upthread_cond_wait                                                      *)

\* Take c->lock, publish the queue node, leave the vcore; has_blocked and the
\* insertion into c->queue, still under c->lock.
WaitCall(t) ==
  /\ pc[t] = "test" /\ items = 0 /\ OutOfMutex(t) /\ c_lock = NULL
  /\ c_lock' = t /\ waiting_qnode' = t
  /\ run' = [run EXCEPT ![t] = "blocked"]
  /\ c_queue' = Append(c_queue, t)
  /\ Goto(t, "unlock_mutex")
  /\ UNCHANGED <<lock, locked, owner, queue, mpc, wake, held, c_wake, items, inside>>

\* upthread_mutex_unlock in the callback, by the vcore that ran the waiter.
WaitUnlockMutex(t) ==
  /\ pc[t] = "unlock_mutex"
  /\ M!Unlock(t)
  /\ Goto(t, "unlock_cond")
  /\ UNCHANGED <<condVars, items, inside>>

\* mcs_pdr_unlock with the node that c->waiting_qnode points to: it releases the
\* lock only if that is the node it was taken with.
WaitUnlockCond(t) ==
  /\ pc[t] = "unlock_cond" /\ OutOfMutex(t)
  /\ c_lock' = IF waiting_qnode = c_lock THEN NULL ELSE c_lock
  /\ Goto(t, "parked")
  /\ UNCHANGED <<mutexVars, c_queue, waiting_qnode, c_wake, items, inside>>

\* The way back, after a signal: upthread_mutex_lock.
Relock(t) ==
  /\ pc[t] = "relock"
  /\ \/ M!LockTake(t) /\ Goto(t, "test")
     \/ M!LockBlock(t) /\ UNCHANGED pc
  /\ UNCHANGED <<condVars, items, inside>>
----------------------------------------------------------------------------
(* upthread_cond_signal and upthread_cond_broadcast                        *)

Pop(t) ==
  /\ c_queue' = Tail(c_queue)
  /\ c_wake' = [c_wake EXCEPT ![t] = Head(c_queue)]

\* uthread_runnable on the popped thread, after c->lock was released.
MakeRunnable(t) ==
  /\ run' = [run EXCEPT ![c_wake[t]] = "running"]
  /\ c_wake' = [c_wake EXCEPT ![t] = NULL]

Signal(t) ==
  /\ pc[t] = "notify" /\ OutOfMutex(t) /\ c_lock = NULL
  /\ IF c_queue = <<>>
     THEN UNCHANGED <<c_queue, c_wake>> /\ Goto(t, AfterNotify(t))
     ELSE Pop(t) /\ Goto(t, "signal_wake")
  /\ UNCHANGED <<mutexVars, c_lock, waiting_qnode, items, inside>>

SignalWake(t) ==
  /\ pc[t] = "signal_wake"
  /\ MakeRunnable(t)
  /\ pc' = [pc EXCEPT ![t] = AfterNotify(t), ![c_wake[t]] = "relock"]
  /\ UNCHANGED <<lock, locked, owner, queue, mpc, wake, held, c_lock, c_queue, waiting_qnode,
                 items, inside>>

Broadcast(t) ==
  /\ pc[t] = "notify" /\ OutOfMutex(t)
  /\ Goto(t, "broadcast")
  /\ UNCHANGED <<mutexVars, condVars, items, inside>>

\* One turn of the loop: pop a thread and wake it, until the queue is empty.
BroadcastPop(t) ==
  /\ pc[t] = "broadcast" /\ c_lock = NULL /\ c_queue # <<>>
  /\ Pop(t)
  /\ Goto(t, "broadcast_wake")
  /\ UNCHANGED <<mutexVars, c_lock, waiting_qnode, items, inside>>

BroadcastWake(t) ==
  /\ pc[t] = "broadcast_wake"
  /\ MakeRunnable(t)
  /\ pc' = [pc EXCEPT ![t] = "broadcast", ![c_wake[t]] = "relock"]
  /\ UNCHANGED <<lock, locked, owner, queue, mpc, wake, held, c_lock, c_queue, waiting_qnode,
                 items, inside>>

BroadcastDone(t) ==
  /\ pc[t] = "broadcast" /\ c_lock = NULL /\ c_queue = <<>>
  /\ Goto(t, AfterNotify(t))
  /\ UNCHANGED <<mutexVars, condVars, items, inside>>
----------------------------------------------------------------------------
(* The monitor's program, and the mutex calls in progress.                 *)

Start(t) ==
  /\ pc[t] = "start"
  /\ \/ M!LockTake(t) /\ Goto(t, IF t \in Consumers THEN "test" ELSE "produce")
     \/ M!LockBlock(t) /\ UNCHANGED pc
  /\ UNCHANGED <<condVars, items, inside>>

Consume(t) ==
  /\ pc[t] = "test" /\ items > 0
  /\ items' = items - 1
  /\ Goto(t, "leave")
  /\ UNCHANGED <<mutexVars, condVars, inside>>

Produce(t) ==
  /\ pc[t] = "produce"
  /\ items' = items + 1
  /\ Goto(t, IF t \in inside THEN "notify" ELSE "leave")
  /\ UNCHANGED <<mutexVars, condVars, inside>>

Leave(t) ==
  /\ pc[t] = "leave"
  /\ M!Unlock(t)
  /\ Goto(t, IF t \in Producers \ inside THEN "notify" ELSE "done")
  /\ UNCHANGED <<condVars, items, inside>>

MutexStep(t) ==
  /\ M!BlockInsert(t) \/ M!UnlockWake(t)
  /\ UNCHANGED <<condVars, pc, items, inside>>

Finished ==
  /\ \A t \in Threads : pc[t] = "done"
  /\ UNCHANGED vars

ThreadStep(t) ==
  \/ Start(t)
  \/ Consume(t)
  \/ Produce(t)
  \/ Leave(t)
  \/ MutexStep(t)
  \/ WaitCall(t)
  \/ WaitUnlockMutex(t)
  \/ WaitUnlockCond(t)
  \/ Relock(t)
  \/ Signal(t)
  \/ SignalWake(t)
  \/ Broadcast(t)
  \/ BroadcastPop(t)
  \/ BroadcastWake(t)
  \/ BroadcastDone(t)

Next == (\E t \in Threads : ThreadStep(t)) \/ Finished

Spec == Init /\ [][Next]_vars

\* A thread that can run does run, and so does a vcore in a callback.
FairSpec == Spec /\ \A t \in Threads : WF_vars(ThreadStep(t))
----------------------------------------------------------------------------
(* Properties.                                                             *)

\* cond_wait returns with the mutex: two threads are never both between a lock,
\* or the return of a wait, and the next unlock or wait.
MonitorExclusion ==
  \A t, u \in Threads :
    /\ pc[t] \in {"test", "produce", "leave"} => held[t] = 1
    /\ held[t] = 1 /\ held[u] = 1 => t = u

\* Releasing the mutex and starting to wait are one step for everybody else: a
\* waiter that no longer has the mutex is in the queue, where a signal finds it,
\* until a signal took it out.
NoSignalGap ==
  \A t \in Threads :
    pc[t] \in {"unlock_mutex", "unlock_cond", "parked"} /\ held[t] = 0 =>
      \/ t \in Range(c_queue)
      \/ \E s \in Threads : c_wake[s] = t

\* A signal hands each waiter on once: no thread is in the queue twice, or in the
\* queue and woken, and the woken one, if there is any, is off its vcore.
WokenOnce ==
  /\ IsInjective(c_queue)
  /\ \A s \in Threads : pc[s] \in {"signal_wake", "broadcast_wake"} => c_wake[s] # NULL
  /\ \A s \in Threads : c_wake[s] # NULL =>
       /\ c_wake[s] \notin Range(c_queue)
       /\ run[c_wake[s]] = "blocked" /\ pc[c_wake[s]] = "parked"
       /\ \A t \in Threads : t # s => c_wake[t] # c_wake[s]

\* The callback releases c->lock with the node of the thread it runs for, though
\* it finds the node in a field all waiters share (lines 53 and 40).
CallbackUsesOwnNode ==
  \A t \in Threads : pc[t] \in {"unlock_mutex", "unlock_cond"} =>
    c_lock = t /\ waiting_qnode = t

\* The monitor keeps the promises of MonitorSpec.  A thread that has joined the queue
\* waits from the moment its callback unlocked the mutex; it is notified when it was
\* popped, and until it has the mutex again.
holderOf == IF \E t \in Threads : held[t] = 1
            THEN CHOOSE t \in Threads : held[t] = 1 ELSE NULL
waitingOf == IF \E t \in Threads : pc[t] = "unlock_mutex"
             THEN SubSeq(c_queue, 1, Len(c_queue) - 1) ELSE c_queue
notifiedOf == {t \in Threads : pc[t] = "relock" \/ \E s \in Threads : c_wake[s] = t}
Abstract == INSTANCE MonitorSpec WITH holder <- holderOf, waiting <- waitingOf, notified <- notifiedOf
MonitorContract == Abstract!Spec

Broadcasting(t) == pc[t] \in {"broadcast", "broadcast_wake"}

\* No wakeup is lost: with an item for each, every consumer gets through, if
\* nobody broadcasts without the mutex.
ConsumersServed ==
  [](\A t \in Producers : Broadcasting(t) => t \in inside)
    => \A t \in Consumers : <>(pc[t] = "done")

\* A broadcast made under the mutex comes to its end, whatever the others do.  One
\* made without it need not: a thread it woke may find nothing, wait again, and be
\* popped again by the same broadcast, for ever.
BroadcastReturns ==
  \A t \in Producers : Broadcasting(t) /\ t \in inside ~> pc[t] = "leave"
============================================================================
