---------------------------- MODULE CondVarProofs ----------------------------
(***************************************************************************)
(* Proofs about CondVar, for any sets of consumers and producers.  What is *)
(* proved of the mutex in MutexProofs is used here of the monitor's mutex. *)
(***************************************************************************)
EXTENDS CondVar, SeqFacts, TLAPS

MP == INSTANCE MutexProofs WITH Recursive <- FALSE, MaxDepth <- 1, Rounds <- 0,
                                rounds <- [t \in Threads |-> 0]

(***************************************************************************)
(* The inductive invariant: that of the mutex; where a thread is in its    *)
(* program, in the mutex and with the mutex held; and the condition        *)
(* variable, whose lock covers the way from the test to the queue.         *)
(***************************************************************************)
Waits == {"unlock_mutex", "unlock_cond", "parked"}
Wakes == {"signal_wake", "broadcast_wake"}

Types ==
  /\ pc \in [Threads -> Labels] /\ items \in Nat
  /\ c_queue \in Seq(Threads) /\ c_wake \in [Threads -> Threads \cup {NULL}]
  /\ c_lock \in Threads \cup {NULL}

PlaceFits(t) ==
  /\ mpc[t] \in {"block", "parked", "woken"} => pc[t] \in {"start", "relock"}
  /\ mpc[t] = "unlock_wake" => pc[t] \in {"unlock_cond", "notify", "done"}
  /\ pc[t] \in {"test", "produce", "leave", "unlock_mutex"} => held[t] = 1
  /\ pc[t] \in {"notify", "broadcast"} \cup Wakes => held[t] = IF t \in inside THEN 1 ELSE 0
  /\ pc[t] \in {"start", "unlock_cond", "parked", "relock", "done"} => held[t] = 0

CondFits ==
  /\ \A t \in Threads : pc[t] \in {"unlock_mutex", "unlock_cond"} <=> c_lock = t
  /\ \A t \in Threads : c_lock = t => waiting_qnode = t
  /\ IsInjective(c_queue)
  /\ \A t \in Threads : pc[t] \in Waits <=> t \in Range(c_queue) \/ \E s \in Threads : c_wake[s] = t
  /\ \A s \in Threads : c_wake[s] # NULL <=> pc[s] \in Wakes
  /\ \A s \in Threads : c_wake[s] # NULL => c_wake[s] \notin Range(c_queue) /\ pc[c_wake[s]] = "parked"
  /\ \A r, s \in Threads : c_wake[r] # NULL /\ c_wake[r] = c_wake[s] => r = s
  /\ \A t \in Threads : pc[t] \in Waits => run[t] = "blocked"

IInv == MP!IInv /\ Types /\ (\A t \in Threads : PlaceFits(t)) /\ CondFits
----------------------------------------------------------------------------
(* The mutex calls of the monitor keep the mutex's invariant, by the       *)
(* lemmas of MutexProofs.                                                  *)

LEMMA MutexHolds == MP!MutexAssumption
BY CondVarAssumption DEF CondVarAssumption, MP!MutexAssumption

LEMMA NoRounds == UNCHANGED [t \in Threads |-> 0]
BY DEF Threads

\* What the rest needs to know of the mutex.
LEMMA MutexFacts ==
  ASSUME MP!IInv
  PROVE  /\ held \in [Threads -> 0 .. 1] /\ mpc \in [Threads -> M!Labels]
         /\ run \in [Threads -> {"running", "blocked"}]
         /\ \A t, u \in Threads : held[t] = 1 /\ held[u] = 1 => t = u
         /\ \A t \in Threads : held[t] = 1 <=> owner = t
         /\ locked = 0 => \A t \in Threads : held[t] = 0
         /\ \A t \in Threads : mpc[t] = "unlock_wake" =>
              wake[t] \in Threads /\ mpc[wake[t]] = "parked"
<1>1. /\ held \in [Threads -> 0 .. 1] /\ mpc \in [Threads -> M!Labels]
      /\ run \in [Threads -> {"running", "blocked"}]
      /\ wake \in [Threads -> Threads \cup {NULL}]
  BY DEF MP!IInv, MP!TypeOK, MP!Labels, M!Labels
<1>2. NULL \notin Threads BY CondVarAssumption DEF CondVarAssumption
<1>3. \A t \in Threads : held[t] = 1 <=> owner = t
  BY <1>1, <1>2 DEF MP!IInv, MP!TypeOK, MP!OwnerAgrees
<1>4. locked = 0 => \A t \in Threads : held[t] = 0
  BY <1>2 DEF MP!IInv, MP!TypeOK, MP!OwnerAgrees
<1>5. \A t \in Threads : mpc[t] = "unlock_wake" =>
        wake[t] \in Threads /\ mpc[wake[t]] = "parked"
  BY <1>1 DEF MP!IInv, MP!WhereBlocked
<1> QED BY <1>1, <1>3, <1>4, <1>5

\* The condition variable's own steps leave the mutex alone, ...
LEMMA MutexStays ==
  ASSUME MP!IInv, UNCHANGED mutexVars
  PROVE  MP!IInv'
BY NoRounds DEF mutexVars, MP!IInv, MP!TypeOK, MP!OwnerAgrees, MP!SpinHeld, MP!BlockingIsHeld,
  MP!WhereBlocked, MP!NoLostWakeup

\* ... or block or wake a thread that is in no mutex call.
LEMMA RunChanges ==
  ASSUME MP!IInv, NEW w \in Threads, NEW r \in {"running", "blocked"}, mpc[w] = "idle",
         run' = [run EXCEPT ![w] = r],
         UNCHANGED <<lock, locked, owner, queue, mpc, wake, held>>
  PROVE  MP!IInv'
<1>1. MP!TypeOK' BY NoRounds DEF MP!IInv, MP!TypeOK
<1>2. MP!WhereBlocked' BY DEF MP!IInv, MP!WhereBlocked, MP!TypeOK
<1>3. MP!OwnerAgrees' /\ MP!SpinHeld' /\ MP!BlockingIsHeld' /\ MP!NoLostWakeup'
  BY DEF MP!IInv, MP!OwnerAgrees, MP!SpinHeld, MP!BlockingIsHeld, MP!NoLostWakeup
<1> QED BY <1>1, <1>2, <1>3 DEF MP!IInv

LEMMA LockTakes ==
  ASSUME MP!IInv, NEW t \in Threads, M!LockTake(t)
  PROVE  /\ MP!IInv' /\ UNCHANGED run
         /\ held' = [held EXCEPT ![t] = 1] /\ mpc' = [mpc EXCEPT ![t] = "idle"]
<1>1. M!SpinFree /\ M!Take(t) /\ locked = 0 /\ mpc[t] \in {"idle", "woken"}
  BY DEF M!LockTake, M!OwnRecursive
<1>2. MP!SpinFree /\ MP!Take(t)
  BY <1>1 DEF M!SpinFree, MP!SpinFree, M!Take, MP!Take
<1>3. [u \in Threads |-> 0]' \in [Threads -> 0 .. 0] BY NoRounds
<1>4. MP!IInv' BY <1>1, <1>2, <1>3, MutexHolds, MP!TakeInvariant
<1>5. held[t] = 0 BY <1>1, MutexFacts
<1> QED BY <1>1, <1>4, <1>5 DEF M!Take

LEMMA LockBlocks ==
  ASSUME MP!IInv, NEW t \in Threads, M!LockBlock(t)
  PROVE  /\ MP!IInv' /\ UNCHANGED held
         /\ run' = [run EXCEPT ![t] = "blocked"] /\ mpc' = [mpc EXCEPT ![t] = "block"]
<1>1. MP!LockBlock(t)
  BY DEF M!LockBlock, MP!LockBlock, M!SpinFree, MP!SpinFree, M!OwnRecursive, MP!OwnRecursive,
    M!StartBlocking, MP!StartBlocking
<1>2. [u \in Threads |-> 0]' \in [Threads -> 0 .. 0] BY NoRounds
<1>3. MP!IInv' BY <1>1, <1>2, MutexHolds, MP!LockBlockInvariant
<1> QED BY <1>3 DEF M!LockBlock, M!StartBlocking

LEMMA Unlocks ==
  ASSUME MP!IInv, NEW t \in Threads, M!Unlock(t)
  PROVE  /\ MP!IInv' /\ UNCHANGED run /\ mpc[t] = "idle" /\ held[t] = 1
         /\ held' = [held EXCEPT ![t] = 0]
         /\ mpc' = mpc \/ mpc' = [mpc EXCEPT ![t] = "unlock_wake"]
<1>1. MP!Unlock(t)
  BY DEF M!Unlock, MP!Unlock, M!Free, MP!Free, M!SpinFree, MP!SpinFree
<1>2. MP!IInv' BY <1>1, NoRounds, MutexHolds, MP!UnlockInvariant
<1>3. held[t] = 1 BY MutexFacts DEF M!Unlock
<1>4. held' = [held EXCEPT ![t] = 0] BY <1>3 DEF M!Unlock
<1>5. mpc' = mpc \/ mpc' = [mpc EXCEPT ![t] = "unlock_wake"]
  BY DEF M!Unlock, M!Free
<1> QED BY <1>2, <1>3, <1>4, <1>5 DEF M!Unlock

LEMMA BlockInserts ==
  ASSUME MP!IInv, NEW t \in Threads, M!BlockInsert(t)
  PROVE  /\ MP!IInv' /\ UNCHANGED <<run, held>>
         /\ mpc[t] = "block" /\ mpc' = [mpc EXCEPT ![t] = "parked"]
<1>1. MP!BlockInsert(t) BY DEF M!BlockInsert, MP!BlockInsert
<1>2. MP!IInv' BY <1>1, NoRounds, MutexHolds, MP!BlockInsertInvariant
<1> QED BY <1>2 DEF M!BlockInsert

LEMMA UnlockWakes ==
  ASSUME MP!IInv, NEW t \in Threads, M!UnlockWake(t)
  PROVE  /\ MP!IInv' /\ UNCHANGED held /\ mpc[t] = "unlock_wake"
         /\ \E w \in Threads : /\ mpc[w] = "parked"
                               /\ run' = [run EXCEPT ![w] = "running"]
                               /\ mpc' = [mpc EXCEPT ![t] = "idle", ![w] = "woken"]
<1>1. MP!UnlockWake(t) BY DEF M!UnlockWake, MP!UnlockWake, M!mutex, MP!mutex
<1>2. MP!IInv' BY <1>1, NoRounds, MutexHolds, MP!UnlockWakeInvariant
<1>3. mpc[t] = "unlock_wake" /\ wake[t] \in Threads /\ mpc[wake[t]] = "parked"
  BY MutexFacts DEF M!UnlockWake
<1>4. PICK w \in Threads : w = wake[t] BY <1>3
<1>5. /\ mpc[w] = "parked" /\ run' = [run EXCEPT ![w] = "running"]
      /\ mpc' = [mpc EXCEPT ![t] = "idle", ![w] = "woken"]
  BY <1>3, <1>4 DEF M!UnlockWake
<1> QED BY <1>2, <1>3, <1>5 DEF M!UnlockWake
----------------------------------------------------------------------------
(* What a step keeps of the rest.                                          *)

LEMMA InitInvariant == Init => IInv
<1> SUFFICES ASSUME Init PROVE IInv OBVIOUS
<1> USE CondVarAssumption DEF CondVarAssumption
<1>1. MP!IInv
  <2>1. MP!Init BY DEF Init, M!Init, MP!Init
  <2> QED BY <2>1, MutexHolds, MP!InitInvariant
<1>2. Types BY DEF Init, Types, Labels
<1>3. \A t \in Threads : PlaceFits(t)
  BY DEF Init, M!Init, PlaceFits, Wakes
<1>4. CondFits
  <2>1. Range(c_queue) = {} /\ IsInjective(c_queue)
    BY DEF Init, Range, IsInjective
  <2> QED BY <2>1 DEF Init, CondFits, Waits, Wakes
<1> QED BY <1>1, <1>2, <1>3, <1>4 DEF IInv

\* A step of one thread leaves the places of the others.
LEMMA PlacesKept ==
  ASSUME \A u \in Threads : PlaceFits(u), NEW t \in Threads, UNCHANGED inside,
         \A u \in Threads : u # t => pc'[u] = pc[u] /\ mpc'[u] = mpc[u] /\ held'[u] = held[u],
         PlaceFits(t)'
  PROVE  (\A u \in Threads : PlaceFits(u))'
<1>1. ASSUME NEW u \in Threads, u # t PROVE PlaceFits(u)'
  BY <1>1 DEF PlaceFits
<1> QED BY <1>1

\* A step outside wait and the wakeups, that wakes no waiter, leaves the
\* condition variable as it was.
LEMMA CondKept ==
  ASSUME IInv, NEW t \in Threads, UNCHANGED condVars,
         \A u \in Threads : u # t => pc'[u] = pc[u],
         pc[t] \notin Waits \cup Wakes, pc'[t] \notin Waits \cup Wakes,
         \A u \in Threads : pc[u] \in Waits => run'[u] = run[u]
  PROVE  CondFits'
<1> USE DEF IInv, CondFits, condVars
<1>1. /\ \A u \in Threads : pc'[u] \in Waits <=> pc[u] \in Waits
      /\ \A u \in Threads : pc'[u] \in Wakes <=> pc[u] \in Wakes
      /\ \A u \in Threads : pc'[u] \in {"unlock_mutex", "unlock_cond"}
                             <=> pc[u] \in {"unlock_mutex", "unlock_cond"}
      /\ \A u \in Threads : pc[u] = "parked" => pc'[u] = "parked"
  BY DEF Waits, Wakes
<1>2. \A s \in Threads : c_wake[s] # NULL => c_wake[s] \in Threads
  BY DEF Types
<1> QED BY <1>1, <1>2

\* Going to a label of the program.
LEMMA GotoFits ==
  ASSUME Types, NEW t \in Threads, NEW l \in Labels, Goto(t, l)
  PROVE  /\ pc' \in [Threads -> Labels] /\ pc'[t] = l
         /\ \A u \in Threads : u # t => pc'[u] = pc[u]
BY DEF Types, Goto

LEMMA MutexTypes ==
  ASSUME MP!IInv, NEW t \in Threads
  PROVE  /\ mpc[t] \in {"idle", "block", "parked", "woken", "unlock_wake"}
         /\ held[t] \in {0, 1} /\ run[t] \in {"running", "blocked"}
BY MutexFacts DEF M!Labels
----------------------------------------------------------------------------
(* The steps of the monitor's program.                                     *)

\* start and relock: a call of upthread_mutex_lock.
LEMMA LockCall ==
  ASSUME IInv, NEW t \in Threads, pc[t] \in {"start", "relock"}, UNCHANGED <<condVars, items, inside>>,
         \/ M!LockTake(t) /\ \E l \in {"test", "produce"} : Goto(t, l)
         \/ M!LockBlock(t) /\ UNCHANGED pc
  PROVE  IInv'
<1> USE DEF IInv
<1>1. CASE M!LockTake(t) /\ \E l \in {"test", "produce"} : Goto(t, l)
  <2>1. PICK l \in {"test", "produce"} : Goto(t, l) BY <1>1
  <2>2. /\ MP!IInv' /\ UNCHANGED run
        /\ held' = [held EXCEPT ![t] = 1] /\ mpc' = [mpc EXCEPT ![t] = "idle"]
    BY <1>1, LockTakes
  <2>3. /\ pc' \in [Threads -> Labels] /\ pc'[t] = l
        /\ \A u \in Threads : u # t => pc'[u] = pc[u]
    BY <2>1, GotoFits DEF Labels
  <2>4. /\ held'[t] = 1 /\ mpc'[t] = "idle"
        /\ \A u \in Threads : u # t => held'[u] = held[u] /\ mpc'[u] = mpc[u]
    BY <2>2, MutexFacts
  <2>5. PlaceFits(t)' BY <2>3, <2>4 DEF PlaceFits, Wakes
  <2>6. (\A u \in Threads : PlaceFits(u))' BY <2>3, <2>4, <2>5, PlacesKept
  <2>7. CondFits' BY <2>2, <2>3, CondKept DEF Waits, Wakes
  <2>8. Types' BY <2>3 DEF Types, condVars
  <2> QED BY <2>2, <2>6, <2>7, <2>8
<1>2. CASE M!LockBlock(t) /\ UNCHANGED pc
  <2>1. /\ MP!IInv' /\ UNCHANGED held
        /\ run' = [run EXCEPT ![t] = "blocked"] /\ mpc' = [mpc EXCEPT ![t] = "block"]
    BY <1>2, LockBlocks
  <2>2. mpc'[t] = "block" /\ \A u \in Threads : u # t => mpc'[u] = mpc[u] /\ run'[u] = run[u]
    BY <2>1, MutexFacts
  <2>3. PlaceFits(t)' BY <1>2, <2>1, <2>2 DEF PlaceFits, Wakes
  <2>4. (\A u \in Threads : PlaceFits(u))' BY <1>2, <2>1, <2>2, <2>3, PlacesKept
  <2>5. CondFits' BY <1>2, <2>2, CondKept DEF Waits, Wakes
  <2>6. Types' BY <1>2 DEF Types, condVars
  <2> QED BY <2>1, <2>4, <2>5, <2>6
<1> QED BY <1>1, <1>2

LEMMA StartInvariant ==
  ASSUME IInv, NEW t \in Threads, Start(t) PROVE IInv'
<1>1. \/ M!LockTake(t) /\ \E l \in {"test", "produce"} : Goto(t, l)
      \/ M!LockBlock(t) /\ UNCHANGED pc
  BY DEF Start
<1> QED BY <1>1, LockCall DEF Start

LEMMA RelockInvariant ==
  ASSUME IInv, NEW t \in Threads, Relock(t) PROVE IInv'
<1>1. \/ M!LockTake(t) /\ \E l \in {"test", "produce"} : Goto(t, l)
      \/ M!LockBlock(t) /\ UNCHANGED pc
  BY DEF Relock
<1> QED BY <1>1, LockCall DEF Relock

\* Steps that touch neither the mutex nor the condition variable.
LEMMA PlainStep ==
  ASSUME IInv, NEW t \in Threads, NEW l \in Labels, Goto(t, l), UNCHANGED <<mutexVars, condVars, inside>>,
         items' \in Nat, pc[t] \notin Waits \cup Wakes, l \notin Waits \cup Wakes,
         PlaceFits(t)'
  PROVE  IInv'
<1> USE DEF IInv
<1>1. MP!IInv' BY MutexStays
<1>2. /\ pc' \in [Threads -> Labels] /\ pc'[t] = l
      /\ \A u \in Threads : u # t => pc'[u] = pc[u]
  BY GotoFits
<1>3. UNCHANGED <<mpc, held, run>> BY DEF mutexVars
<1>4. (\A u \in Threads : PlaceFits(u))' BY <1>2, <1>3, PlacesKept
<1>5. CondFits' BY <1>2, <1>3, CondKept
<1>6. Types' BY <1>2 DEF Types, condVars
<1> QED BY <1>1, <1>4, <1>5, <1>6

\* Where a producer is after it notified.
LEMMA AfterFits ==
  ASSUME NEW t \in Threads
  PROVE  /\ AfterNotify(t) \in {"leave", "done"}
         /\ AfterNotify(t) = "leave" <=> t \in inside
BY DEF AfterNotify

LEMMA ConsumeInvariant ==
  ASSUME IInv, NEW t \in Threads, Consume(t) PROVE IInv'
<1> USE DEF IInv, Consume
<1>1. PlaceFits(t)'
  <2>1. pc'[t] = "leave" /\ UNCHANGED <<mpc, held>> BY DEF Types, Goto, mutexVars
  <2> QED BY <2>1 DEF PlaceFits, Wakes
<1>2. items' \in Nat BY DEF Types
<1> QED BY <1>1, <1>2, PlainStep DEF Labels, Waits, Wakes

LEMMA ProduceInvariant ==
  ASSUME IInv, NEW t \in Threads, Produce(t) PROVE IInv'
<1> USE DEF IInv, Produce
<1>1. PICK l \in {"notify", "leave"} : Goto(t, l) /\ (l = "notify" => t \in inside)
  BY DEF Goto
<1>2. PlaceFits(t)'
  <2>1. pc'[t] = l /\ UNCHANGED <<mpc, held, inside>> BY <1>1 DEF Types, Goto, mutexVars
  <2> QED BY <1>1, <2>1 DEF PlaceFits, Wakes
<1>3. items' \in Nat BY DEF Types
<1> QED BY <1>1, <1>2, <1>3, PlainStep DEF Labels, Waits, Wakes

LEMMA BroadcastInvariant ==
  ASSUME IInv, NEW t \in Threads, Broadcast(t) PROVE IInv'
<1> USE DEF IInv, Broadcast
<1>1. PlaceFits(t)'
  <2>1. pc'[t] = "broadcast" /\ UNCHANGED <<mpc, held, inside>> BY DEF Types, Goto, mutexVars
  <2> QED BY <2>1 DEF PlaceFits, Wakes, OutOfMutex
<1>2. items' \in Nat BY DEF Types
<1> QED BY <1>1, <1>2, PlainStep DEF Labels, Waits, Wakes

\* Nobody left to wake: signal and broadcast return.
LEMMA NotifyReturns ==
  ASSUME IInv, NEW t \in Threads, pc[t] \in {"notify", "broadcast"}, Goto(t, AfterNotify(t)),
         OutOfMutex(t) \/ pc[t] = "broadcast", UNCHANGED <<mutexVars, condVars, items, inside>>
  PROVE  IInv'
<1> USE DEF IInv
<1>1. PICK l \in {"leave", "done"} : l = AfterNotify(t) /\ (l = "leave" <=> t \in inside)
  BY AfterFits
<1>2. PlaceFits(t)'
  <2>1. pc'[t] = l /\ UNCHANGED <<mpc, held, inside>> BY <1>1 DEF Types, Goto, mutexVars
  <2> QED BY <1>1, <2>1 DEF PlaceFits, Wakes, OutOfMutex
<1>3. items' \in Nat BY DEF Types
<1> QED BY <1>1, <1>2, <1>3, PlainStep DEF Labels, Waits, Wakes

LEMMA LeaveInvariant ==
  ASSUME IInv, NEW t \in Threads, Leave(t) PROVE IInv'
<1> USE DEF IInv, Leave
<1>1. PICK l \in {"notify", "done"} : Goto(t, l) /\ (l = "notify" => t \notin inside)
  BY DEF Goto
<1>2. /\ MP!IInv' /\ UNCHANGED run /\ mpc[t] = "idle" /\ held[t] = 1
      /\ held' = [held EXCEPT ![t] = 0]
      /\ mpc' = mpc \/ mpc' = [mpc EXCEPT ![t] = "unlock_wake"]
  BY Unlocks
<1>3. /\ pc' \in [Threads -> Labels] /\ pc'[t] = l
      /\ \A u \in Threads : u # t => pc'[u] = pc[u]
  BY <1>1, GotoFits DEF Labels
<1>4. /\ held'[t] = 0 /\ mpc'[t] \in {"idle", "unlock_wake"}
      /\ \A u \in Threads : u # t => held'[u] = held[u] /\ mpc'[u] = mpc[u]
  BY <1>2, MutexFacts
<1>5. PlaceFits(t)' BY <1>1, <1>3, <1>4 DEF PlaceFits, Wakes
<1>6. (\A u \in Threads : PlaceFits(u))' BY <1>3, <1>4, <1>5, PlacesKept
<1>7. CondFits' BY <1>2, <1>3, CondKept DEF Waits, Wakes
<1>8. Types' BY <1>3 DEF Types, condVars
<1> QED BY <1>2, <1>6, <1>7, <1>8

\* The end of a lock's callback, and the wakeup after an unlock: the thread woken
\* is in start or relock, so it is no waiter of the condition variable.
LEMMA MutexStepInvariant ==
  ASSUME IInv, NEW t \in Threads, MutexStep(t) PROVE IInv'
<1> USE DEF IInv, MutexStep
<1>1. CASE M!BlockInsert(t)
  <2>1. /\ MP!IInv' /\ UNCHANGED <<run, held>>
        /\ mpc[t] = "block" /\ mpc' = [mpc EXCEPT ![t] = "parked"]
    BY <1>1, BlockInserts
  <2>2. mpc'[t] = "parked" /\ \A u \in Threads : u # t => mpc'[u] = mpc[u]
    BY <2>1, MutexFacts
  <2>3. pc[t] \in {"start", "relock"} BY <2>1 DEF PlaceFits
  <2>4. PlaceFits(t)' BY <2>1, <2>2, <2>3 DEF PlaceFits, Wakes
  <2>5. (\A u \in Threads : PlaceFits(u))' BY <2>1, <2>2, <2>4, PlacesKept
  <2>6. CondFits' BY <2>1, <2>3, CondKept DEF Waits, Wakes
  <2>7. Types' BY DEF Types, condVars
  <2> QED BY <2>1, <2>5, <2>6, <2>7
<1>2. CASE M!UnlockWake(t)
  <2>1. MP!IInv' /\ UNCHANGED held /\ mpc[t] = "unlock_wake"
    BY <1>2, UnlockWakes
  <2>2. PICK w \in Threads : /\ mpc[w] = "parked"
                             /\ run' = [run EXCEPT ![w] = "running"]
                             /\ mpc' = [mpc EXCEPT ![t] = "idle", ![w] = "woken"]
    BY <1>2, UnlockWakes
  <2>3. pc[w] \in {"start", "relock"} BY <2>2 DEF PlaceFits
  <2>4. /\ w # t /\ mpc'[w] = "woken" /\ mpc'[t] = "idle"
        /\ \A u \in Threads : u # t /\ u # w => mpc'[u] = mpc[u]
        /\ \A u \in Threads : u # w => run'[u] = run[u]
    BY <2>1, <2>2, MutexFacts
  <2>5. ASSUME NEW u \in Threads PROVE PlaceFits(u)'
    <3>1. CASE u = w BY <2>1, <2>3, <2>4, <3>1 DEF PlaceFits, Wakes
    <3>2. CASE u # w BY <2>1, <2>4, <3>2 DEF PlaceFits
    <3> QED BY <3>1, <3>2
  <2>6. CondFits' BY <2>3, <2>4, CondKept DEF Waits, Wakes
  <2>7. Types' BY DEF Types, condVars
  <2> QED BY <2>1, <2>5, <2>6, <2>7
<1> QED BY <1>1, <1>2
----------------------------------------------------------------------------
(* upthread_cond_wait                                                      *)

\* c->lock was free, so no other thread is between its test and the queue; the
\* thread is new in the queue, because it was not waiting.
LEMMA WaitCallInvariant ==
  ASSUME IInv, NEW t \in Threads, WaitCall(t) PROVE IInv'
<1> USE DEF IInv, WaitCall
<1>1. MP!IInv' BY RunChanges DEF OutOfMutex
<1>2. /\ pc' \in [Threads -> Labels] /\ pc'[t] = "unlock_mutex"
      /\ \A u \in Threads : u # t => pc'[u] = pc[u]
  BY GotoFits DEF Labels
<1>3. PlaceFits(t)' BY <1>2 DEF PlaceFits, Wakes, OutOfMutex
<1>4. (\A u \in Threads : PlaceFits(u))' BY <1>2, <1>3, PlacesKept
<1>5. t \notin Range(c_queue) /\ \A s \in Threads : c_wake[s] # t
  BY DEF CondFits, Waits
<1>6. /\ c_queue' \in Seq(Threads) /\ Range(c_queue') = Range(c_queue) \cup {t}
      /\ IsInjective(c_queue')
  BY <1>5, AppendRange, AppendNew DEF Types, CondFits
<1>7. CondFits'
  <2>1. \A u \in Threads : pc'[u] \in {"unlock_mutex", "unlock_cond"} <=> c_lock' = u
    BY <1>2, CondVarAssumption DEF CondFits, CondVarAssumption
  <2>2. \A u \in Threads : c_lock' = u => waiting_qnode' = u OBVIOUS
  <2>3. \A u \in Threads : pc'[u] \in Waits
                          <=> u \in Range(c_queue') \/ \E s \in Threads : c_wake'[s] = u
    BY <1>2, <1>6 DEF CondFits, Waits
  <2>4. \A s \in Threads : c_wake'[s] # NULL <=> pc'[s] \in Wakes
    BY <1>2 DEF CondFits, Wakes
  <2>5. \A s \in Threads : c_wake'[s] # NULL =>
          c_wake'[s] \notin Range(c_queue') /\ pc'[c_wake'[s]] = "parked"
    BY <1>2, <1>5, <1>6 DEF CondFits, Types
  <2>6. \A u \in Threads : pc'[u] \in Waits => run'[u] = "blocked"
    BY <1>2, MutexFacts DEF CondFits
  <2> QED BY <1>6, <2>1, <2>2, <2>3, <2>4, <2>5, <2>6 DEF CondFits
<1>8. Types' BY <1>2, <1>6 DEF Types
<1> QED BY <1>1, <1>4, <1>7, <1>8

LEMMA WaitUnlockMutexInvariant ==
  ASSUME IInv, NEW t \in Threads, WaitUnlockMutex(t) PROVE IInv'
<1> USE DEF IInv, WaitUnlockMutex
<1>1. /\ MP!IInv' /\ UNCHANGED run /\ mpc[t] = "idle" /\ held[t] = 1
      /\ held' = [held EXCEPT ![t] = 0]
      /\ mpc' = mpc \/ mpc' = [mpc EXCEPT ![t] = "unlock_wake"]
  BY Unlocks
<1>2. /\ pc' \in [Threads -> Labels] /\ pc'[t] = "unlock_cond"
      /\ \A u \in Threads : u # t => pc'[u] = pc[u]
  BY GotoFits DEF Labels
<1>3. /\ held'[t] = 0 /\ mpc'[t] \in {"idle", "unlock_wake"}
      /\ \A u \in Threads : u # t => held'[u] = held[u] /\ mpc'[u] = mpc[u]
  BY <1>1, MutexFacts
<1>4. PlaceFits(t)' BY <1>2, <1>3 DEF PlaceFits, Wakes
<1>5. (\A u \in Threads : PlaceFits(u))' BY <1>2, <1>3, <1>4, PlacesKept
<1>6. CondFits'
  <2>1. /\ \A u \in Threads : pc'[u] \in Waits <=> pc[u] \in Waits
        /\ \A u \in Threads : pc'[u] \in Wakes <=> pc[u] \in Wakes
        /\ \A u \in Threads : pc'[u] \in {"unlock_mutex", "unlock_cond"}
                               <=> pc[u] \in {"unlock_mutex", "unlock_cond"}
        /\ \A u \in Threads : pc[u] = "parked" => pc'[u] = "parked"
    BY <1>2 DEF Waits, Wakes
  <2>2. \A s \in Threads : c_wake[s] # NULL => c_wake[s] \in Threads BY DEF Types
  <2> QED BY <1>1, <2>1, <2>2 DEF CondFits, condVars
<1>7. Types' BY <1>2 DEF Types, condVars
<1> QED BY <1>1, <1>5, <1>6, <1>7

\* The node is the one c->lock was taken with, so the lock is released.
LEMMA WaitUnlockCondInvariant ==
  ASSUME IInv, NEW t \in Threads, WaitUnlockCond(t) PROVE IInv'
<1> USE DEF IInv, WaitUnlockCond
<1>1. MP!IInv' BY MutexStays
<1>2. /\ pc' \in [Threads -> Labels] /\ pc'[t] = "parked"
      /\ \A u \in Threads : u # t => pc'[u] = pc[u]
  BY GotoFits DEF Labels
<1>3. UNCHANGED <<mpc, held, run>> BY DEF mutexVars
<1>4. PlaceFits(t)' BY <1>2, <1>3 DEF PlaceFits, Wakes, OutOfMutex
<1>5. (\A u \in Threads : PlaceFits(u))' BY <1>2, <1>3, <1>4, PlacesKept
<1>6. c_lock = t /\ waiting_qnode = t /\ c_lock' = NULL BY DEF CondFits
<1>7. CondFits'
  <2>1. \A u \in Threads : u # NULL BY CondVarAssumption DEF CondVarAssumption
  <2>2. \A u \in Threads : pc'[u] \notin {"unlock_mutex", "unlock_cond"}
    BY <1>2, <1>6 DEF CondFits
  <2>3. /\ \A u \in Threads : pc'[u] \in Waits <=> pc[u] \in Waits
        /\ \A u \in Threads : pc'[u] \in Wakes <=> pc[u] \in Wakes
        /\ \A u \in Threads : pc[u] = "parked" => pc'[u] = "parked"
    BY <1>2 DEF Waits, Wakes
  <2>4. \A s \in Threads : c_wake[s] # NULL => c_wake[s] \in Threads BY DEF Types
  <2> QED BY <1>3, <1>6, <2>1, <2>2, <2>3, <2>4 DEF CondFits
<1>8. Types' BY <1>2, <1>6 DEF Types
<1> QED BY <1>1, <1>5, <1>7, <1>8
----------------------------------------------------------------------------
(* upthread_cond_signal and upthread_cond_broadcast                        *)

\* The first waiter leaves the queue and becomes the one this thread will wake.
\* c->lock is free, so every thread in the queue is off its vcore for good.
LEMMA PopStep ==
  ASSUME IInv, NEW t \in Threads, NEW l \in Wakes, c_queue # <<>>, c_lock = NULL,
         pc[t] \notin Waits \cup Wakes, Pop(t), Goto(t, l), PlaceFits(t)',
         UNCHANGED <<mutexVars, c_lock, waiting_qnode, items, inside>>
  PROVE  IInv'
<1> USE DEF IInv
<1>1. MP!IInv' BY MutexStays
<1>2. /\ pc' \in [Threads -> Labels] /\ pc'[t] = l
      /\ \A u \in Threads : u # t => pc'[u] = pc[u]
  BY GotoFits DEF Labels, Wakes
<1>3. UNCHANGED <<mpc, held, run>> BY DEF mutexVars
<1>4. (\A u \in Threads : PlaceFits(u))' BY <1>2, <1>3, PlacesKept
<1>5. PICK w \in Threads : w = Head(c_queue)
  BY PopRange DEF Types, CondFits
<1>6. /\ w \in Range(c_queue) /\ c_queue' \in Seq(Threads) /\ IsInjective(c_queue')
      /\ Range(c_queue') = Range(c_queue) \ {w}
  BY <1>5, PopRange DEF Types, CondFits, Pop
<1>7. /\ c_wake' \in [Threads -> Threads \cup {NULL}] /\ c_wake'[t] = w /\ c_wake[t] = NULL
      /\ \A s \in Threads : s # t => c_wake'[s] = c_wake[s]
  BY <1>5 DEF Pop, Types, CondFits
<1>8. pc[w] = "parked" /\ \A s \in Threads : c_wake[s] # w
  <2>1. pc[w] \in Waits BY <1>6 DEF CondFits
  <2>2. c_lock # w BY CondVarAssumption DEF CondVarAssumption
  <2> QED BY <1>6, <2>1, <2>2, CondVarAssumption DEF CondFits, Waits, CondVarAssumption
<1>9. /\ w # t /\ w # NULL
      /\ \A u \in Threads : pc'[u] \in Waits <=> pc[u] \in Waits
      /\ \A u \in Threads : pc'[u] \in {"unlock_mutex", "unlock_cond"}
                             <=> pc[u] \in {"unlock_mutex", "unlock_cond"}
      /\ \A u \in Threads : pc[u] = "parked" => pc'[u] = "parked"
  BY <1>2, <1>8, CondVarAssumption DEF Waits, Wakes, CondVarAssumption
<1>10. CondFits'
  <2>1. \A u \in Threads : pc'[u] \in {"unlock_mutex", "unlock_cond"} <=> c_lock' = u
    BY <1>9 DEF CondFits
  <2>2. \A u \in Threads : pc'[u] \in Waits
                          <=> u \in Range(c_queue') \/ \E s \in Threads : c_wake'[s] = u
    <3> SUFFICES ASSUME NEW u \in Threads
                 PROVE  pc'[u] \in Waits
                          <=> u \in Range(c_queue') \/ \E s \in Threads : c_wake'[s] = u
      OBVIOUS
    <3>1. CASE u = w BY <1>6, <1>7, <1>9, <3>1 DEF CondFits
    <3>2. CASE u # w
      <4>1. (\E s \in Threads : c_wake'[s] = u) <=> \E s \in Threads : c_wake[s] = u
        BY <1>7, <3>2, CondVarAssumption DEF CondVarAssumption
      <4> QED BY <1>6, <1>9, <3>2, <4>1 DEF CondFits
    <3> QED BY <3>1, <3>2
  <2>3. \A s \in Threads : c_wake'[s] # NULL <=> pc'[s] \in Wakes
    BY <1>2, <1>7, <1>9 DEF CondFits
  <2>4. \A s \in Threads : c_wake'[s] # NULL =>
          c_wake'[s] \notin Range(c_queue') /\ pc'[c_wake'[s]] = "parked"
    BY <1>6, <1>7, <1>8, <1>9 DEF CondFits, Types
  <2>5. \A r, s \in Threads : c_wake'[r] # NULL /\ c_wake'[r] = c_wake'[s] => r = s
    BY <1>7, <1>8 DEF CondFits
  <2>6. \A u \in Threads : pc'[u] \in Waits => run'[u] = "blocked"
    BY <1>3, <1>9 DEF CondFits
  <2>7. \A u \in Threads : c_lock' = u => waiting_qnode' = u BY DEF CondFits
  <2> QED BY <1>6, <2>1, <2>2, <2>3, <2>4, <2>5, <2>6, <2>7 DEF CondFits
<1>11. Types' BY <1>2, <1>6, <1>7 DEF Types
<1> QED BY <1>1, <1>4, <1>10, <1>11

LEMMA SignalInvariant ==
  ASSUME IInv, NEW t \in Threads, Signal(t) PROVE IInv'
<1>1. CASE c_queue = <<>>
  BY <1>1, NotifyReturns DEF Signal, condVars
<1>2. CASE c_queue # <<>>
  <2>1. Pop(t) /\ Goto(t, "signal_wake") BY <1>2 DEF Signal
  <2>2. PlaceFits(t)'
    <3>1. pc'[t] = "signal_wake" /\ UNCHANGED <<mpc, held, inside>>
      BY <2>1 DEF Signal, IInv, Types, Goto, mutexVars
    <3> QED BY <3>1 DEF Signal, IInv, PlaceFits, Wakes, OutOfMutex
  <2> QED BY <1>2, <2>1, <2>2, PopStep DEF Signal, Waits, Wakes
<1> QED BY <1>1, <1>2

LEMMA BroadcastPopInvariant ==
  ASSUME IInv, NEW t \in Threads, BroadcastPop(t) PROVE IInv'
<1>1. PlaceFits(t)'
  <2>1. pc'[t] = "broadcast_wake" /\ UNCHANGED <<mpc, held, inside>>
    BY DEF BroadcastPop, IInv, Types, Goto, mutexVars
  <2> QED BY <2>1 DEF BroadcastPop, IInv, PlaceFits, Wakes
<1> QED BY <1>1, PopStep DEF BroadcastPop, Waits, Wakes

LEMMA BroadcastDoneInvariant ==
  ASSUME IInv, NEW t \in Threads, BroadcastDone(t) PROVE IInv'
BY NotifyReturns DEF BroadcastDone

\* The popped thread runs again: it was in no mutex call, and nobody else has it.
LEMMA WakeStep ==
  ASSUME IInv, NEW t \in Threads, pc[t] \in Wakes, MakeRunnable(t),
         NEW l \in {"broadcast", "leave", "done"},
         l = "broadcast" \/ (l = "leave" <=> t \in inside),
         pc' = [pc EXCEPT ![t] = l, ![c_wake[t]] = "relock"],
         UNCHANGED <<lock, locked, owner, queue, mpc, wake, held, c_lock, c_queue,
                     waiting_qnode, items, inside>>
  PROVE  IInv'
<1> USE DEF IInv
<1>1. c_wake[t] # NULL /\ c_wake[t] \in Threads BY DEF CondFits, Types
<1>2. PICK w \in Threads : w = c_wake[t] BY <1>1
<1>3. /\ pc[w] = "parked" /\ w # t /\ w \notin Range(c_queue)
      /\ \A s \in Threads : s # t => c_wake[s] # w
  BY <1>1, <1>2 DEF CondFits, Wakes
<1>4. mpc[w] = "idle" /\ held[w] = 0
  BY <1>3, MutexTypes DEF PlaceFits
<1>5. /\ run' = [run EXCEPT ![w] = "running"] /\ c_wake' = [c_wake EXCEPT ![t] = NULL]
      /\ pc' = [pc EXCEPT ![t] = l, ![w] = "relock"]
  BY <1>2 DEF MakeRunnable
<1>6. MP!IInv' BY <1>4, <1>5, RunChanges
<1>7. /\ pc' \in [Threads -> Labels] /\ pc'[t] = l /\ pc'[w] = "relock"
      /\ \A u \in Threads : u # t /\ u # w => pc'[u] = pc[u]
  BY <1>3, <1>5 DEF Types, Labels
<1>8. /\ c_wake' \in [Threads -> Threads \cup {NULL}] /\ c_wake'[t] = NULL
      /\ \A s \in Threads : s # t => c_wake'[s] = c_wake[s]
      /\ \A u \in Threads : u # w => run'[u] = run[u]
  BY <1>5, MutexFacts DEF Types
<1>9. ASSUME NEW u \in Threads PROVE PlaceFits(u)'
  <2>1. CASE u = w BY <1>4, <1>7, <2>1 DEF PlaceFits, Wakes
  <2>2. CASE u = t
    <3>1. held[t] = IF t \in inside THEN 1 ELSE 0 BY DEF PlaceFits
    <3>2. mpc[t] = "idle" BY MutexTypes DEF PlaceFits, Wakes
    <3> QED BY <1>7, <2>2, <3>1, <3>2 DEF PlaceFits, Wakes
  <2>3. CASE u # w /\ u # t BY <1>7, <2>3 DEF PlaceFits
  <2> QED BY <2>1, <2>2, <2>3
<1>10. CondFits'
  <2>1. /\ \A u \in Threads : pc'[u] \in Waits <=> pc[u] \in Waits /\ u # w
        /\ \A u \in Threads : pc'[u] \in Wakes <=> pc[u] \in Wakes /\ u # t
        /\ \A u \in Threads : pc'[u] \in {"unlock_mutex", "unlock_cond"}
                               <=> pc[u] \in {"unlock_mutex", "unlock_cond"}
        /\ \A u \in Threads : pc[u] = "parked" /\ u # w => pc'[u] = "parked"
    BY <1>3, <1>7 DEF Waits, Wakes
  <2>2. \A u \in Threads : pc'[u] \in {"unlock_mutex", "unlock_cond"} <=> c_lock' = u
    BY <2>1 DEF CondFits
  <2>3. \A u \in Threads : pc'[u] \in Waits
                          <=> u \in Range(c_queue') \/ \E s \in Threads : c_wake'[s] = u
    <3> SUFFICES ASSUME NEW u \in Threads
                 PROVE  pc'[u] \in Waits
                          <=> u \in Range(c_queue) \/ \E s \in Threads : c_wake'[s] = u
      OBVIOUS
    <3>0. u # NULL /\ w # NULL BY CondVarAssumption DEF CondVarAssumption
    <3>1. CASE u = w BY <1>3, <1>8, <2>1, <3>0, <3>1
    <3>2. CASE u # w
      <4>1. (\E s \in Threads : c_wake'[s] = u) <=> \E s \in Threads : c_wake[s] = u
        BY <1>2, <1>8, <3>0, <3>2
      <4> QED BY <2>1, <3>2, <4>1 DEF CondFits
    <3> QED BY <3>1, <3>2
  <2>4. \A s \in Threads : c_wake'[s] # NULL <=> pc'[s] \in Wakes
    <3>1. \A s \in Threads : c_wake[s] # NULL <=> pc[s] \in Wakes BY DEF CondFits
    <3>2. \A s \in Threads : pc'[s] \in Wakes <=> pc[s] \in Wakes /\ s # t BY <2>1
    <3> HIDE DEF IInv
    <3> QED BY <1>8, <3>1, <3>2
  <2>5. \A s \in Threads : c_wake'[s] # NULL =>
          c_wake'[s] \notin Range(c_queue') /\ pc'[c_wake'[s]] = "parked"
    BY <1>3, <1>8, <2>1 DEF CondFits, Types
  <2>6. \A r, s \in Threads : c_wake'[r] # NULL /\ c_wake'[r] = c_wake'[s] => r = s
    BY <1>8 DEF CondFits
  <2>7. \A u \in Threads : pc'[u] \in Waits => run'[u] = "blocked"
    BY <1>8, <2>1 DEF CondFits
  <2>8. \A u \in Threads : c_lock' = u => waiting_qnode' = u BY DEF CondFits
  <2>9. IsInjective(c_queue') BY DEF CondFits
  <2> QED BY <2>2, <2>3, <2>4, <2>5, <2>6, <2>7, <2>8, <2>9 DEF CondFits
<1>11. Types' BY <1>7, <1>8 DEF Types
<1> QED BY <1>6, <1>9, <1>10, <1>11

LEMMA SignalWakeInvariant ==
  ASSUME IInv, NEW t \in Threads, SignalWake(t) PROVE IInv'
<1>1. PICK l \in {"leave", "done"} : l = AfterNotify(t) /\ (l = "leave" <=> t \in inside)
  BY AfterFits
<1> QED BY <1>1, WakeStep DEF SignalWake, Wakes

LEMMA BroadcastWakeInvariant ==
  ASSUME IInv, NEW t \in Threads, BroadcastWake(t) PROVE IInv'
BY WakeStep DEF BroadcastWake, Wakes
----------------------------------------------------------------------------
LEMMA NextInvariant == IInv /\ [Next]_vars => IInv'
<1> SUFFICES ASSUME IInv, [Next]_vars PROVE IInv'
  OBVIOUS
<1>1. ASSUME NEW t \in Threads, ThreadStep(t) PROVE IInv'
  BY <1>1, StartInvariant, ConsumeInvariant, ProduceInvariant, LeaveInvariant,
    MutexStepInvariant, WaitCallInvariant, WaitUnlockMutexInvariant, WaitUnlockCondInvariant,
    RelockInvariant, SignalInvariant, SignalWakeInvariant, BroadcastInvariant,
    BroadcastPopInvariant, BroadcastWakeInvariant, BroadcastDoneInvariant
  DEF ThreadStep
<1>2. CASE UNCHANGED vars
  <2>1. UNCHANGED <<mutexVars, condVars, pc, items, inside>> BY <1>2 DEF vars
  <2>2. MP!IInv' BY <2>1, MutexStays DEF IInv
  <2>3. Types' BY <2>1 DEF IInv, Types, condVars
  <2>4. (\A t \in Threads : PlaceFits(t))' BY <2>1 DEF IInv, PlaceFits, mutexVars
  <2>5. CondFits' BY <2>1 DEF IInv, CondFits, condVars, mutexVars
  <2> QED BY <2>2, <2>3, <2>4, <2>5 DEF IInv
<1> QED BY <1>1, <1>2 DEF Next, Finished

THEOREM Invariance == Spec => []IInv
BY InitInvariant, NextInvariant, PTL DEF Spec
----------------------------------------------------------------------------
(* What follows from the invariant.                                        *)

\* cond_wait returns with the mutex, and no two threads are inside the monitor
\* together, however many signals and broadcasts come between.
THEOREM WaitReturnsLocked == Spec => []MonitorExclusion
<1>1. IInv => MonitorExclusion
  <2> SUFFICES ASSUME IInv PROVE MonitorExclusion OBVIOUS
  <2>1. \A t \in Threads : pc[t] \in {"test", "produce", "leave"} => held[t] = 1
    BY DEF IInv, PlaceFits
  <2>2. \A t, u \in Threads : held[t] = 1 /\ held[u] = 1 => t = u
    BY MutexFacts DEF IInv
  <2> QED BY <2>1, <2>2 DEF MonitorExclusion
<1> QED BY <1>1, Invariance, PTL

\* cond_wait gives up the mutex and joins the queue as one step: a signal that
\* comes after the mutex is free finds every waiter.
THEOREM WaitIsAtomic == Spec => []NoSignalGap
<1>1. IInv => NoSignalGap
  BY DEF IInv, CondFits, Waits, NoSignalGap
<1> QED BY <1>1, Invariance, PTL

\* signal and broadcast hand each waiter on once, when it is off its vcore.
THEOREM EachWaiterWokenOnce == Spec => []WokenOnce
<1>1. IInv => WokenOnce
  <2> SUFFICES ASSUME IInv PROVE WokenOnce OBVIOUS
  <2>1. \A s \in Threads : c_wake[s] # NULL => c_wake[s] \in Threads
    BY DEF IInv, Types
  <2>2. \A s \in Threads : c_wake[s] # NULL =>
          /\ c_wake[s] \notin Range(c_queue) /\ pc[c_wake[s]] = "parked"
          /\ run[c_wake[s]] = "blocked"
    BY <2>1 DEF IInv, CondFits, Waits
  <2>3. \A s \in Threads : pc[s] \in {"signal_wake", "broadcast_wake"} => c_wake[s] # NULL
    BY DEF IInv, CondFits, Wakes
  <2>4. \A s, t \in Threads : c_wake[s] # NULL /\ t # s => c_wake[t] # c_wake[s]
    BY DEF IInv, CondFits
  <2> QED BY <2>2, <2>3, <2>4 DEF WokenOnce, IInv, CondFits
<1> QED BY <1>1, Invariance, PTL

\* The callback releases c->lock with the node it was taken with, though it reads
\* the node from a field that all waiters share.
THEOREM CallbackNodeRight == Spec => []CallbackUsesOwnNode
<1>1. IInv => CallbackUsesOwnNode
  BY DEF IInv, CondFits, CallbackUsesOwnNode
<1> QED BY <1>1, Invariance, PTL
----------------------------------------------------------------------------
(* The refinement of MonitorSpec: what each step is to the abstract        *)
(* monitor.                                                                *)

\* Whoever is about to unlock the mutex in its callback joined the queue last,
\* since nobody else had c->lock meanwhile.
LastWaits ==
  \A t \in Threads : pc[t] = "unlock_mutex" =>
    c_queue # <<>> /\ c_queue[Len(c_queue)] = t

LEMMA LastWaitsNext == IInv /\ LastWaits /\ [Next]_vars => LastWaits'
<1> SUFFICES ASSUME IInv, LastWaits, [Next]_vars, NEW u \in Threads, pc'[u] = "unlock_mutex"
             PROVE  c_queue' # <<>> /\ c_queue'[Len(c_queue')] = u
  BY DEF LastWaits
<1>1. ASSUME NEW t \in Threads, WaitCall(t)
      PROVE  c_queue' # <<>> /\ c_queue'[Len(c_queue')] = u
  <2>1. u = t
    BY <1>1, CondVarAssumption DEF WaitCall, Goto, IInv, Types, CondFits, CondVarAssumption
  <2>2. c_queue \in Seq(Threads) /\ c_queue' = Append(c_queue, t)
    BY <1>1 DEF WaitCall, IInv, Types
  <2> QED BY <2>1, <2>2
<1>2. CASE pc[u] = "unlock_mutex" /\ c_queue' = c_queue
  BY <1>2 DEF LastWaits
<1>3. ASSUME NEW t \in Threads, ThreadStep(t), ~ WaitCall(t)
      PROVE  pc[u] = "unlock_mutex" /\ c_queue' = c_queue
  <2>1. pc[u] = "unlock_mutex"
    BY <1>3 DEF ThreadStep, Start, Consume, Produce, Leave, MutexStep, WaitUnlockMutex,
      WaitUnlockCond, Relock, Signal, SignalWake, Broadcast, BroadcastPop, BroadcastWake,
      BroadcastDone, Goto, AfterNotify, IInv, Types
  <2>2. c_lock # NULL
    BY <2>1, CondVarAssumption DEF IInv, CondFits, CondVarAssumption
  <2>3. c_queue' = c_queue
    BY <1>3, <2>2 DEF ThreadStep, Start, Consume, Produce, Leave, MutexStep, WaitUnlockMutex,
      WaitUnlockCond, Relock, Signal, SignalWake, Broadcast, BroadcastPop, BroadcastWake,
      BroadcastDone, condVars
  <2> QED BY <2>1, <2>3
<1>4. CASE UNCHANGED vars
  BY <1>2, <1>4 DEF vars, condVars
<1> QED BY <1>1, <1>2, <1>3, <1>4 DEF Next, Finished

\* The abstract state in terms of the concrete one.
LEMMA WaitingIs ==
  ASSUME IInv, c_lock = NULL
  PROVE  waitingOf = c_queue
BY CondVarAssumption DEF IInv, CondFits, waitingOf, CondVarAssumption

LEMMA WaitingKept ==
  ASSUME UNCHANGED c_queue, \A u \in Threads : pc'[u] = "unlock_mutex" <=> pc[u] = "unlock_mutex"
  PROVE  UNCHANGED waitingOf
<1>1. (\E u \in Threads : pc'[u] = "unlock_mutex") <=> \E u \in Threads : pc[u] = "unlock_mutex"
  OBVIOUS
<1> QED BY <1>1 DEF waitingOf

LEMMA NotifiedKept ==
  ASSUME UNCHANGED c_wake, \A u \in Threads : pc'[u] = "relock" <=> pc[u] = "relock"
  PROVE  UNCHANGED notifiedOf
BY DEF notifiedOf

LEMMA HolderKept ==
  ASSUME UNCHANGED held
  PROVE  UNCHANGED holderOf
BY DEF holderOf

LEMMA HolderEnters ==
  ASSUME IInv, NEW t \in Threads, \A u \in Threads : held[u] = 0,
         held' = [held EXCEPT ![t] = 1]
  PROVE  holderOf = NULL /\ holderOf' = t
<1>1. \A u \in Threads : held'[u] = 1 <=> u = t
  BY MutexFacts DEF IInv
<1>2. holderOf' = CHOOSE u \in Threads : held'[u] = 1
  BY <1>1 DEF holderOf
<1>3. holderOf' = t BY <1>1, <1>2
<1> QED BY <1>3 DEF holderOf

LEMMA HolderLeaves ==
  ASSUME IInv, NEW t \in Threads, held[t] = 1, held' = [held EXCEPT ![t] = 0]
  PROVE  holderOf = t /\ holderOf' = NULL
<1>1. \A u \in Threads : held[u] = 1 <=> u = t
  BY MutexFacts DEF IInv
<1>2. holderOf = CHOOSE u \in Threads : held[u] = 1
  BY <1>1 DEF holderOf
<1>3. holderOf = t BY <1>1, <1>2
<1>4. \A u \in Threads : held'[u] # 1
  BY <1>1, MutexFacts DEF IInv
<1> QED BY <1>3, <1>4 DEF holderOf

\* A thread that is in its program neither waits nor is notified.
LEMMA NotWaiting ==
  ASSUME IInv, NEW t \in Threads, pc[t] \notin Waits
  PROVE  /\ t \notin Range(c_queue) /\ \A s \in Threads : c_wake[s] # t
         /\ t \notin Range(waitingOf)
<1>1. t \notin Range(c_queue) /\ \A s \in Threads : c_wake[s] # t
  BY DEF IInv, CondFits
<1>2. Range(waitingOf) \subseteq Range(c_queue)
  BY ButLast DEF IInv, Types, waitingOf
<1> QED BY <1>1, <1>2

Stays == UNCHANGED <<holderOf, waitingOf, notifiedOf>>

\* A return of upthread_mutex_lock, at the start or after a wait, enters.
LEMMA LockEnters ==
  ASSUME IInv, NEW t \in Threads, pc[t] \in {"start", "relock"}, UNCHANGED <<condVars, items, inside>>,
         \/ M!LockTake(t) /\ \E l \in {"test", "produce"} : Goto(t, l)
         \/ M!LockBlock(t) /\ UNCHANGED pc
  PROVE  Abstract!Enter(t) \/ Stays
<1>1. CASE M!LockTake(t) /\ \E l \in {"test", "produce"} : Goto(t, l)
  <2>1. PICK l \in {"test", "produce"} : Goto(t, l) BY <1>1
  <2>2. /\ pc'[t] = l /\ \A u \in Threads : u # t => pc'[u] = pc[u]
    BY <2>1 DEF IInv, Types, Goto
  <2>3. \A u \in Threads : held[u] = 0
    BY <1>1, MutexFacts DEF IInv, M!LockTake, M!OwnRecursive
  <2>4. holderOf = NULL /\ holderOf' = t
    BY <1>1, <2>3, LockTakes, HolderEnters DEF IInv
  <2>5. waitingOf' = waitingOf BY <2>2, WaitingKept DEF condVars
  <2>6. t \notin Range(waitingOf) /\ \A s \in Threads : c_wake[s] # t
    BY NotWaiting DEF Waits
  <2>7. notifiedOf' = notifiedOf \ {t}
    BY <2>2, <2>6 DEF notifiedOf, condVars
  <2> QED BY <2>4, <2>5, <2>6, <2>7 DEF Abstract!Enter, Abstract!Range, Range
<1>2. CASE M!LockBlock(t) /\ UNCHANGED pc
  <2>1. UNCHANGED held BY <1>2, LockBlocks DEF IInv
  <2> QED BY <1>2, <2>1, HolderKept, WaitingKept, NotifiedKept DEF Stays, condVars
<1> QED BY <1>1, <1>2

\* An unlock at the end of the program leaves.
LEMMA UnlockLeaves ==
  ASSUME IInv, NEW t \in Threads, Leave(t)
  PROVE  Abstract!Leave(t)
<1>1. held[t] = 1 /\ held' = [held EXCEPT ![t] = 0]
  BY Unlocks DEF IInv, Leave
<1>2. holderOf = t /\ holderOf' = NULL BY <1>1, HolderLeaves
<1>3. /\ pc[t] = "leave" /\ pc'[t] \in {"notify", "done"} /\ UNCHANGED condVars
      /\ \A u \in Threads : u # t => pc'[u] = pc[u]
  BY DEF IInv, Types, Leave, Goto
<1>4. UNCHANGED <<waitingOf, notifiedOf>>
  BY <1>3, WaitingKept, NotifiedKept DEF condVars
<1> QED BY <1>2, <1>4 DEF Abstract!Leave

\* The unlock in the callback of a wait is the abstract Wait: the thread is in
\* the queue already, where nobody could see it.
LEMMA UnlockWaits ==
  ASSUME IInv, LastWaits, NEW t \in Threads, WaitUnlockMutex(t)
  PROVE  Abstract!Wait(t)
<1>1. held[t] = 1 /\ held' = [held EXCEPT ![t] = 0]
  BY Unlocks DEF IInv, WaitUnlockMutex
<1>2. holderOf = t /\ holderOf' = NULL BY <1>1, HolderLeaves
<1>3. /\ pc[t] = "unlock_mutex" /\ pc'[t] = "unlock_cond" /\ UNCHANGED condVars
      /\ \A u \in Threads : u # t => pc'[u] = pc[u]
  BY DEF IInv, Types, WaitUnlockMutex, Goto
<1>4. \A u \in Threads : pc'[u] # "unlock_mutex"
  BY <1>3 DEF IInv, CondFits
<1>5. c_queue # <<>> /\ c_queue[Len(c_queue)] = t /\ c_queue \in Seq(Threads)
  BY <1>3 DEF LastWaits, IInv, Types
<1>6. waitingOf = SubSeq(c_queue, 1, Len(c_queue) - 1) /\ waitingOf' = c_queue
  BY <1>3, <1>4 DEF waitingOf, condVars
<1>7. waitingOf' = Append(waitingOf, t)
  BY <1>5, <1>6, ButLast
<1>8. UNCHANGED notifiedOf BY <1>3, NotifiedKept DEF condVars
<1> QED BY <1>2, <1>7, <1>8 DEF Abstract!Wait

\* A thread that is popped is notified; signal and broadcast make it runnable later.
LEMMA PopNotifies ==
  ASSUME IInv, NEW t \in Threads, pc[t] \in {"notify", "broadcast"}, NEW l \in Wakes,
         c_queue # <<>>, c_lock = NULL, Pop(t), Goto(t, l),
         UNCHANGED <<mutexVars, c_lock, waiting_qnode, items, inside>>
  PROVE  Abstract!Notify(t)
<1>1. /\ pc'[t] = l /\ \A u \in Threads : u # t => pc'[u] = pc[u]
  BY DEF IInv, Types, Goto
<1>2. waitingOf = c_queue /\ \A u \in Threads : pc[u] # "unlock_mutex"
  BY WaitingIs, CondVarAssumption DEF IInv, CondFits, CondVarAssumption
<1>3. waitingOf' = Tail(waitingOf)
  <2>1. \A u \in Threads : pc'[u] # "unlock_mutex" BY <1>1, <1>2 DEF Wakes
  <2> QED BY <1>2, <2>1 DEF waitingOf, Pop
<1>4. t \notin Range(waitingOf) \cup notifiedOf
  BY NotWaiting DEF Waits, notifiedOf
<1>5. PICK w \in Threads : w = Head(c_queue)
  BY PopRange DEF IInv, Types, CondFits
<1>6. /\ c_wake'[t] = w /\ c_wake[t] = NULL
      /\ \A s \in Threads : s # t => c_wake'[s] = c_wake[s]
  BY <1>5 DEF Pop, IInv, Types, CondFits, Wakes
<1>7. notifiedOf' = notifiedOf \cup {w}
  <2>1. ASSUME NEW u \in Threads
        PROVE  (\E s \in Threads : c_wake'[s] = u) <=> u = w \/ \E s \in Threads : c_wake[s] = u
    BY <1>6, CondVarAssumption DEF CondVarAssumption
  <2>2. \A u \in Threads : pc'[u] = "relock" <=> pc[u] = "relock"
    BY <1>1 DEF Wakes
  <2> QED BY <2>1, <2>2 DEF notifiedOf
<1>8. UNCHANGED holderOf BY HolderKept DEF mutexVars
<1> QED BY <1>2, <1>3, <1>4, <1>5, <1>7, <1>8 DEF Abstract!Notify, Abstract!Range, Range

\* To make the popped thread runnable is no step of the abstract monitor.
LEMMA WakeStays ==
  ASSUME IInv, NEW t \in Threads, pc[t] \in Wakes, MakeRunnable(t),
         NEW l \in {"broadcast", "leave", "done"},
         pc' = [pc EXCEPT ![t] = l, ![c_wake[t]] = "relock"], UNCHANGED <<held, c_queue>>
  PROVE  Stays
<1>1. c_wake[t] # NULL /\ c_wake[t] \in Threads BY DEF IInv, CondFits, Types
<1>2. PICK w \in Threads : w = c_wake[t] BY <1>1
<1>3. pc[w] = "parked" /\ w # t
  BY <1>1, <1>2 DEF IInv, CondFits, Wakes
<1>4. /\ pc'[t] = l /\ pc'[w] = "relock"
      /\ \A u \in Threads : u # t /\ u # w => pc'[u] = pc[u]
  BY <1>2, <1>3 DEF IInv, Types
<1>5. c_wake'[t] = NULL /\ \A s \in Threads : s # t => c_wake'[s] = c_wake[s]
  BY DEF MakeRunnable, IInv, Types
<1>6. ASSUME NEW u \in Threads
      PROVE  (pc'[u] = "relock" \/ \E s \in Threads : c_wake'[s] = u)
               <=> pc[u] = "relock" \/ \E s \in Threads : c_wake[s] = u
  <2>1. CASE u = w BY <1>2, <1>4, <2>1
  <2>2. CASE u # w
    <3>1. (\E s \in Threads : c_wake'[s] = u) <=> \E s \in Threads : c_wake[s] = u
      BY <1>2, <1>5, <2>2, CondVarAssumption DEF CondVarAssumption
    <3>2. pc'[u] = "relock" <=> pc[u] = "relock" BY <1>4, <2>2 DEF Wakes
    <3> QED BY <3>1, <3>2
  <2> QED BY <2>1, <2>2
<1>7. UNCHANGED notifiedOf BY <1>6 DEF notifiedOf
<1>8. UNCHANGED waitingOf BY <1>3, <1>4, WaitingKept DEF Wakes
<1> QED BY <1>7, <1>8, HolderKept DEF Stays

\* To join the queue is none either, as long as the mutex is held.
LEMMA WaitCallStays ==
  ASSUME IInv, NEW t \in Threads, WaitCall(t)
  PROVE  Stays
<1>1. /\ pc[t] = "test" /\ pc'[t] = "unlock_mutex"
      /\ \A u \in Threads : u # t => pc'[u] = pc[u]
  BY DEF WaitCall, IInv, Types, Goto
<1>2. waitingOf = c_queue BY WaitingIs DEF WaitCall
<1>3. waitingOf' = SubSeq(Append(c_queue, t), 1, Len(Append(c_queue, t)) - 1)
  BY <1>1 DEF waitingOf, WaitCall
<1>4. UNCHANGED waitingOf BY <1>2, <1>3, ButLast DEF IInv, Types
<1> QED BY <1>1, <1>4, HolderKept, NotifiedKept DEF Stays, WaitCall

\* All other steps leave the abstract monitor alone.
LEMMA OthersStay ==
  ASSUME IInv, NEW t \in Threads, UNCHANGED <<held, c_queue, c_wake>>,
         \/ UNCHANGED pc
         \/ \E l \in Labels \ {"relock", "unlock_mutex"} :
              Goto(t, l) /\ pc[t] \notin {"relock", "unlock_mutex"}
  PROVE  Stays
<1>1. \A u \in Threads : /\ pc'[u] = "relock" <=> pc[u] = "relock"
                         /\ pc'[u] = "unlock_mutex" <=> pc[u] = "unlock_mutex"
  BY DEF Goto, IInv, Types
<1> QED BY <1>1, HolderKept, WaitingKept, NotifiedKept DEF Stays

LEMMA MonitorStep == IInv /\ LastWaits /\ [Next]_vars => Abstract!Next \/ Stays
<1> SUFFICES ASSUME IInv, LastWaits, [Next]_vars PROVE Abstract!Next \/ Stays
  OBVIOUS
<1> DEFINE Does(t) == Abstract!Enter(t) \/ Abstract!Leave(t) \/ Abstract!Wait(t) \/ Abstract!Notify(t)
<1>1. ASSUME NEW t \in Threads, ThreadStep(t) PROVE Does(t) \/ Stays
  <2>1. CASE Start(t) \/ Relock(t)
    <3>1. /\ pc[t] \in {"start", "relock"} /\ UNCHANGED <<condVars, items, inside>>
          /\ \/ M!LockTake(t) /\ \E l \in {"test", "produce"} : Goto(t, l)
             \/ M!LockBlock(t) /\ UNCHANGED pc
      BY <2>1 DEF Start, Relock
    <3> QED BY <3>1, LockEnters
  <2>2. CASE Leave(t) BY <2>2, UnlockLeaves
  <2>3. CASE WaitUnlockMutex(t) BY <2>3, UnlockWaits
  <2>4. CASE WaitCall(t) BY <2>4, WaitCallStays
  <2>5. CASE Signal(t) /\ c_queue # <<>>
    BY <2>5, PopNotifies DEF Signal, Wakes
  <2>6. CASE BroadcastPop(t)
    BY <2>6, PopNotifies DEF BroadcastPop, Wakes
  <2>7. CASE SignalWake(t)
    <3>1. AfterNotify(t) \in {"broadcast", "leave", "done"} BY AfterFits
    <3> QED BY <2>7, <3>1, WakeStays DEF SignalWake, Wakes
  <2>8. CASE BroadcastWake(t)
    BY <2>8, WakeStays DEF BroadcastWake, Wakes
  <2>9. CASE MutexStep(t)
    <3>1. UNCHANGED held BY <2>9, BlockInserts, UnlockWakes DEF MutexStep, IInv
    <3> QED BY <2>9, <3>1, OthersStay DEF MutexStep, condVars
  <2>10. CASE (Signal(t) /\ c_queue = <<>>) \/ BroadcastDone(t)
    <3>1. AfterNotify(t) \in Labels \ {"relock", "unlock_mutex"} BY AfterFits DEF Labels
    <3>2. UNCHANGED <<held, c_queue, c_wake>> /\ Goto(t, AfterNotify(t))
          /\ pc[t] \in {"notify", "broadcast"}
      BY <2>10 DEF Signal, BroadcastDone, condVars, mutexVars
    <3> QED BY <3>1, <3>2, OthersStay
  <2>11. CASE Consume(t) \/ Produce(t) \/ WaitUnlockCond(t) \/ Broadcast(t)
    <3>1. PICK l \in {"leave", "notify", "parked", "broadcast"} : Goto(t, l)
      BY <2>11 DEF Consume, Produce, WaitUnlockCond, Broadcast
    <3>2. UNCHANGED <<held, c_queue, c_wake>>
          /\ pc[t] \in {"test", "produce", "unlock_cond", "notify"}
      BY <2>11 DEF Consume, Produce, WaitUnlockCond, Broadcast, condVars, mutexVars
    <3> QED BY <3>1, <3>2, OthersStay DEF Labels
  <2> QED BY <1>1, <2>1, <2>2, <2>3, <2>4, <2>5, <2>6, <2>7, <2>8, <2>9, <2>10, <2>11
      DEF ThreadStep
<1>2. CASE UNCHANGED vars
  <2>1. UNCHANGED <<held, c_queue, c_wake, pc>> BY <1>2 DEF vars, mutexVars, condVars
  <2> QED BY <2>1, HolderKept, WaitingKept, NotifiedKept DEF Stays
<1> QED BY <1>1, <1>2 DEF Next, Finished, Abstract!Next

LEMMA MonitorInit == Init => Abstract!Init /\ LastWaits
<1> SUFFICES ASSUME Init PROVE Abstract!Init /\ LastWaits OBVIOUS
<1>1. LastWaits BY DEF Init, LastWaits
<1>2. holderOf = NULL BY DEF Init, M!Init, holderOf
<1>3. waitingOf = <<>> BY DEF Init, waitingOf
<1>4. notifiedOf = {} BY CondVarAssumption DEF Init, notifiedOf, CondVarAssumption
<1> QED BY <1>1, <1>2, <1>3, <1>4 DEF Abstract!Init

\* upthread_cond_t keeps what a condition variable promises: no gap between unlocking
\* and waiting, threads notified in the order in which they came, no return from a wait
\* without a notification, and none without the mutex.
THEOREM ImplementsMonitor == Spec => MonitorContract
<1>1. Init => Abstract!Init /\ LastWaits BY MonitorInit
<1>2. IInv /\ LastWaits /\ [Next]_vars => LastWaits' BY LastWaitsNext
<1>3. IInv /\ LastWaits /\ [Next]_vars => [Abstract!Next]_<<holderOf, waitingOf, notifiedOf>>
  BY MonitorStep DEF Stays
<1> QED BY <1>1, <1>2, <1>3, Invariance, PTL DEF Spec, MonitorContract, Abstract!Spec
=============================================================================
