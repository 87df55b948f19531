----------------------------- MODULE MutexProofs -----------------------------
(***************************************************************************)
(* Proofs about Mutex, for any set of threads, any recursion depth and any *)
(* number of calls.                                                        *)
(***************************************************************************)
EXTENDS Mutex, SeqFacts

(***************************************************************************)
(* The inductive invariant.  OwnerAgrees is what makes the mutex exclude;  *)
(* SpinHeld and BlockingIsHeld say what mutex->lock protects between the   *)
(* test of locked and the insertion; WhereBlocked ties each blocked thread *)
(* to the one place that will make it run again.                           *)
(***************************************************************************)
SpinHeld == \A t \in Threads : mpc[t] = "block" <=> lock = t

BlockingIsHeld == \A t \in Threads : mpc[t] = "block" => locked # 0

WhereBlocked ==
  /\ IsInjective(queue)
  /\ \A t \in Threads : t \in Range(queue) => mpc[t] = "parked"
  /\ \A t \in Threads : mpc[t] = "unlock_wake" <=> wake[t] # NULL
  /\ \A t \in Threads : wake[t] # NULL =>
       mpc[wake[t]] = "parked" /\ wake[t] \notin Range(queue)
  /\ \A t, u \in Threads : wake[t] # NULL /\ wake[t] = wake[u] => t = u
  /\ \A t \in Threads : mpc[t] \in {"block", "parked"} => run[t] = "blocked"

IInv ==
  /\ TypeOK
  /\ OwnerAgrees
  /\ SpinHeld
  /\ BlockingIsHeld
  /\ WhereBlocked
  /\ NoLostWakeup

\* The steps of a thread, as the proofs below split Next.
Step(t) ==
  \/ LockTake(t) /\ (mpc[t] = "idle" => held[t] < MaxDepth) /\ rounds' \in [Threads -> 0 .. Rounds]
  \/ LockBlock(t) /\ rounds' \in [Threads -> 0 .. Rounds]
  \/ TryLock(t) /\ held[t] < MaxDepth /\ rounds' \in [Threads -> 0 .. Rounds]
  \/ BlockInsert(t) /\ UNCHANGED rounds
  \/ Unlock(t) /\ UNCHANGED rounds
  \/ UnlockWake(t) /\ UNCHANGED rounds

\* Every step of the specification is one of those or changes nothing.
LEMMA NextIsStep ==
  ASSUME TypeOK, [Next]_vars
  PROVE  (\E t \in Threads : Step(t)) \/ UNCHANGED vars
<1> USE MutexAssumption
<1>1. ASSUME NEW t \in Threads, ClientCall(t) PROVE Step(t)
  <2>1. rounds' \in [Threads -> 0 .. Rounds]
    BY <1>1 DEF ClientCall, MayLock, Spend, TypeOK
  <2> QED BY <1>1, <2>1 DEF ClientCall, MayLock, Step
<1>2. ASSUME NEW t \in Threads, Continue(t) PROVE Step(t)
  BY <1>2 DEF Continue, Step, TypeOK
<1>3. ASSUME NEW t \in Threads, Release(t) PROVE Step(t)
  BY <1>3 DEF Release, Step
<1>4. CASE Finished
  BY <1>4 DEF Finished
<1>5. CASE UNCHANGED vars
  BY <1>5
<1> QED BY <1>1, <1>2, <1>3, <1>4, <1>5 DEF Next

LEMMA InitInvariant == Init => IInv
<1> SUFFICES ASSUME Init PROVE IInv
  OBVIOUS
<1> USE MutexAssumption DEF Init
<1>1. TypeOK
  BY DEF TypeOK, Labels
<1>2. OwnerAgrees
  BY DEF OwnerAgrees
<1>3. SpinHeld /\ BlockingIsHeld
  BY DEF SpinHeld, BlockingIsHeld
<1>4. WhereBlocked
  BY DEF WhereBlocked, IsInjective, Range
<1>5. NoLostWakeup
  BY DEF NoLostWakeup
<1> QED BY <1>1, <1>2, <1>3, <1>4, <1>5 DEF IInv

(***************************************************************************)
(* Preservation, one lemma for each way to end up holding or not holding   *)
(* the mutex.                                                              *)
(***************************************************************************)

\* Taking the mutex: in lock, after a wakeup, or in trylock.
LEMMA TakeInvariant ==
  ASSUME IInv, NEW t \in Threads, SpinFree, Take(t),
         mpc[t] \in {"idle", "woken"},
         \/ locked = 0
         \/ OwnRecursive(t) /\ held[t] < MaxDepth,
         rounds' \in [Threads -> 0 .. Rounds]
  PROVE  IInv'
<1> USE MutexAssumption DEF IInv, Take
<1>1. locked \in Nat /\ held[t] \in Nat /\ MaxDepth \in Nat /\ MaxDepth >= 1
  BY DEF TypeOK
<1>2. held[t] = locked /\ locked + 1 \in 0 .. MaxDepth
  BY <1>1 DEF OwnerAgrees, OwnRecursive, TypeOK
<1>3. TypeOK'
  BY <1>2 DEF TypeOK, Labels
<1>4. \A u \in Threads : u # t => held[u] = 0
  BY DEF OwnerAgrees, OwnRecursive
<1>5. OwnerAgrees'
  BY <1>1, <1>2, <1>4 DEF OwnerAgrees, TypeOK
<1>6. SpinHeld' /\ BlockingIsHeld'
  BY <1>1 DEF SpinHeld, BlockingIsHeld, SpinFree, TypeOK
<1>7. WhereBlocked'
  BY DEF WhereBlocked, TypeOK
<1>8. NoLostWakeup'
  BY <1>1 DEF NoLostWakeup
<1> QED BY <1>3, <1>5, <1>6, <1>7, <1>8

\* Going to sleep: the spinlock is kept.
LEMMA LockBlockInvariant ==
  ASSUME IInv, NEW t \in Threads, LockBlock(t), rounds' \in [Threads -> 0 .. Rounds]
  PROVE  IInv'
<1> USE MutexAssumption DEF IInv, LockBlock, StartBlocking
<1>1. TypeOK'
  BY DEF TypeOK, Labels
<1>2. OwnerAgrees'
  BY DEF OwnerAgrees
<1>3. SpinHeld' /\ BlockingIsHeld'
  BY DEF SpinHeld, BlockingIsHeld, SpinFree, TypeOK
<1>4. WhereBlocked'
  BY DEF WhereBlocked, TypeOK
<1>5. NoLostWakeup'
  BY DEF NoLostWakeup
<1> QED BY <1>1, <1>2, <1>3, <1>4, <1>5

\* The insertion into the queue; the mutex is still taken then.
LEMMA BlockInsertInvariant ==
  ASSUME IInv, NEW t \in Threads, BlockInsert(t), UNCHANGED rounds
  PROVE  IInv'
<1> USE MutexAssumption DEF IInv, BlockInsert
<1>1. queue \in Seq(Threads) /\ IsInjective(queue) /\ t \notin Range(queue) /\ wake[t] = NULL
  BY DEF TypeOK, WhereBlocked
<1>2. /\ queue' \in Seq(Threads)
      /\ Range(queue') = Range(queue) \cup {t}
      /\ IsInjective(queue')
  BY <1>1, AppendRange, AppendNew
<1>3. TypeOK'
  BY <1>2 DEF TypeOK, Labels
<1>4. OwnerAgrees'
  BY DEF OwnerAgrees
<1>5. SpinHeld' /\ BlockingIsHeld'
  BY DEF SpinHeld, BlockingIsHeld, TypeOK
<1>6. WhereBlocked'
  <2>1. \A u \in Threads : wake[u] # t
    BY DEF WhereBlocked
  <2> QED BY <1>1, <1>2, <2>1 DEF WhereBlocked, TypeOK
<1>7. NoLostWakeup'
  BY DEF NoLostWakeup, BlockingIsHeld
<1> QED BY <1>3, <1>4, <1>5, <1>6, <1>7

\* An unlock; the last one pops the next thread.
LEMMA UnlockInvariant ==
  ASSUME IInv, NEW t \in Threads, Unlock(t), UNCHANGED rounds
  PROVE  IInv'
<1> USE MutexAssumption DEF IInv, Unlock
<1>1. owner = t /\ held[t] = locked /\ locked \in 1 .. MaxDepth /\ MaxDepth \in Nat
  BY DEF OwnerAgrees, TypeOK
<1>2. \A u \in Threads : u # t => held[u] = 0
  BY <1>1 DEF OwnerAgrees
<1>3. \A u \in Threads : mpc[u] # "block"
  BY DEF SpinHeld, SpinFree
<1>4. CASE locked # 1
  <2>1. UNCHANGED <<owner, queue, wake, mpc, lock, run>> /\ locked' = locked - 1
        /\ locked' \in 1 .. MaxDepth
    BY <1>1, <1>4
  <2>2. TypeOK'
    BY <2>1, <1>1 DEF TypeOK
  <2>3. OwnerAgrees'
    BY <2>1, <1>1, <1>2 DEF OwnerAgrees, TypeOK
  <2>4. SpinHeld' /\ BlockingIsHeld' /\ NoLostWakeup'
    BY <2>1 DEF SpinHeld, BlockingIsHeld, NoLostWakeup
  <2>5. WhereBlocked'
    BY <2>1 DEF WhereBlocked
  <2> QED BY <2>2, <2>3, <2>4, <2>5
<1>5. CASE locked = 1
  <2> USE <1>5 DEF Free
  <2>1. OwnerAgrees'
    BY <1>1, <1>2 DEF OwnerAgrees, TypeOK
  <2>2. CASE queue = <<>>
    <3>1. TypeOK'
      BY <2>2, <1>1 DEF TypeOK
    <3>2. SpinHeld' /\ BlockingIsHeld' /\ NoLostWakeup'
      BY <2>2, <1>3 DEF SpinHeld, BlockingIsHeld, NoLostWakeup
    <3>3. WhereBlocked'
      BY <2>2 DEF WhereBlocked
    <3> QED BY <2>1, <3>1, <3>2, <3>3
  <2>3. CASE queue # <<>>
    <3> DEFINE h == Head(queue)
    <3>1. /\ queue' = Tail(queue)
          /\ wake' = [wake EXCEPT ![t] = h]
          /\ mpc' = [mpc EXCEPT ![t] = "unlock_wake"]
          /\ held' = [held EXCEPT ![t] = @ - 1]
          /\ locked' = 0 /\ owner' = NULL
          /\ UNCHANGED <<lock, run, rounds>>
          /\ mpc[t] = "idle"
      BY <2>3
    <3>2. TypeOK /\ WhereBlocked /\ SpinHeld
      OBVIOUS
    <3> HIDE DEF IInv, Unlock, Free
    <3>3. /\ h \in Threads /\ h \in Range(queue)
          /\ queue' \in Seq(Threads) /\ IsInjective(queue')
          /\ Range(queue') = Range(queue) \ {h}
      BY <2>3, <3>1, <3>2, PopRange DEF TypeOK, WhereBlocked
    <3> HIDE DEF h
    <3>4. mpc[h] = "parked" /\ wake[t] = NULL /\ \A u \in Threads : wake[u] # h
      BY <3>1, <3>2, <3>3 DEF WhereBlocked
    <3>5. TypeOK'
      BY <3>1, <3>2, <3>3, <1>1 DEF TypeOK, Labels
    <3>6. SpinHeld' /\ BlockingIsHeld' /\ NoLostWakeup'
      BY <1>3, <3>1, <3>2 DEF SpinHeld, BlockingIsHeld, NoLostWakeup, TypeOK
    <3>7. WhereBlocked'
      <4>1. h # NULL /\ h # t /\ run[h] = "blocked"
        BY <3>1, <3>2, <3>3, <3>4 DEF WhereBlocked
      <4>2. \A u \in Threads : wake'[u] = IF u = t THEN h ELSE wake[u]
        BY <3>1, <3>2 DEF TypeOK
      <4>3. \A u \in Threads : mpc'[u] = IF u = t THEN "unlock_wake" ELSE mpc[u]
        BY <3>1, <3>2 DEF TypeOK
      <4>4. \A u \in Threads : u \in Range(queue') => u \in Range(queue) /\ u # h
        BY <3>3
      <4>5. \A u \in Threads : u \in Range(queue') => mpc'[u] = "parked"
        BY <3>1, <3>2, <4>3, <4>4 DEF WhereBlocked
      <4>6. \A u \in Threads : wake'[u] # NULL =>
              mpc'[wake'[u]] = "parked" /\ wake'[u] \notin Range(queue')
        BY SMTT(30), <3>1, <3>2, <3>3, <3>4, <4>1, <4>2, <4>3, <4>4 DEF WhereBlocked, TypeOK
      <4>7. \A u, x \in Threads : wake'[u] # NULL /\ wake'[u] = wake'[x] => u = x
        BY <3>2, <3>4, <4>2 DEF WhereBlocked
      <4> QED BY <3>1, <3>2, <3>3, <4>1, <4>2, <4>3, <4>5, <4>6, <4>7 DEF WhereBlocked
    <3> QED BY <2>1, <3>5, <3>6, <3>7 DEF IInv
  <2> QED BY <2>2, <2>3
<1> QED BY <1>4, <1>5

\* The wakeup, after the spinlock was released.
LEMMA UnlockWakeInvariant ==
  ASSUME IInv, NEW t \in Threads, UnlockWake(t), UNCHANGED rounds
  PROVE  IInv'
<1> USE MutexAssumption DEF IInv
<1>1. PICK w \in Threads : w = wake[t]
  BY DEF UnlockWake, WhereBlocked, TypeOK
<1>2. /\ mpc[t] = "unlock_wake" /\ w # t /\ mpc[w] = "parked" /\ w \notin Range(queue)
      /\ \A u \in Threads : u # t => wake[u] # w
  BY <1>1 DEF UnlockWake, WhereBlocked
<1>3. /\ run' = [run EXCEPT ![w] = "running"]
      /\ mpc' = [mpc EXCEPT ![t] = "idle", ![w] = "woken"]
      /\ wake' = [wake EXCEPT ![t] = NULL]
      /\ UNCHANGED <<lock, locked, owner, queue, held, rounds>>
  BY <1>1 DEF UnlockWake, mutex
<1>4. TypeOK'
  BY <1>2, <1>3 DEF TypeOK, Labels
<1>5. OwnerAgrees'
  BY <1>3 DEF OwnerAgrees
<1>6. SpinHeld' /\ BlockingIsHeld'
  BY <1>2, <1>3 DEF SpinHeld, BlockingIsHeld, TypeOK
<1>7. WhereBlocked'
  BY SMTT(30), <1>2, <1>3 DEF WhereBlocked, TypeOK
<1>8. NoLostWakeup'
  BY <1>2, <1>3 DEF NoLostWakeup, TypeOK
<1> QED BY <1>4, <1>5, <1>6, <1>7, <1>8

LEMMA NextInvariant == IInv /\ [Next]_vars => IInv'
<1> SUFFICES ASSUME IInv, [Next]_vars PROVE IInv'
  OBVIOUS
<1>1. ASSUME NEW t \in Threads, Step(t) PROVE IInv'
  <2>1. CASE LockTake(t) /\ (mpc[t] = "idle" => held[t] < MaxDepth)
             /\ rounds' \in [Threads -> 0 .. Rounds]
    BY <2>1, TakeInvariant DEF LockTake
  <2>2. CASE LockBlock(t) /\ rounds' \in [Threads -> 0 .. Rounds]
    BY <2>2, LockBlockInvariant
  <2>3. CASE TryLock(t) /\ held[t] < MaxDepth /\ rounds' \in [Threads -> 0 .. Rounds]
    <3>1. CASE locked = 0 \/ OwnRecursive(t)
      BY <2>3, <3>1, TakeInvariant DEF TryLock
    <3>2. CASE ~(locked = 0 \/ OwnRecursive(t))
      BY <2>3, <3>2 DEF TryLock, mutex, IInv, TypeOK, OwnerAgrees, SpinHeld, BlockingIsHeld,
                        WhereBlocked, NoLostWakeup
    <3> QED BY <3>1, <3>2
  <2>4. CASE BlockInsert(t) /\ UNCHANGED rounds
    BY <2>4, BlockInsertInvariant
  <2>5. CASE Unlock(t) /\ UNCHANGED rounds
    BY <2>5, UnlockInvariant
  <2>6. CASE UnlockWake(t) /\ UNCHANGED rounds
    BY <2>6, UnlockWakeInvariant DEF UnlockWake
  <2> QED BY <1>1, <2>1, <2>2, <2>3, <2>4, <2>5, <2>6 DEF Step
<1>2. CASE UNCHANGED vars
  BY <1>2 DEF vars, mutex, IInv, TypeOK, OwnerAgrees, SpinHeld, BlockingIsHeld,
              WhereBlocked, NoLostWakeup
<1> QED BY <1>1, <1>2, NextIsStep DEF IInv

THEOREM Invariance == Spec => []IInv
BY InitInvariant, NextInvariant, PTL DEF Spec
----------------------------------------------------------------------------
(* What follows from the invariant.                                        *)

\* mutex.c keeps its fields and its callers in range: in particular `locked`
\* never exceeds the depth of one thread's nesting.
THEOREM TypeCorrect == Spec => []TypeOK
<1>1. IInv => TypeOK
  BY DEF IInv
<1> QED BY <1>1, Invariance, PTL

\* Two threads never both hold the mutex: lock, trylock and a late wakeup
\* included.
THEOREM Exclusion == Spec => []MutualExclusion
<1>1. IInv => MutualExclusion
  <2> SUFFICES ASSUME IInv, NEW t \in Threads, NEW u \in Threads, held[t] > 0, held[u] > 0
               PROVE t = u
    BY DEF MutualExclusion
  <2>1. owner = t /\ owner = u
    BY DEF IInv, OwnerAgrees
  <2> QED BY <2>1
<1> QED BY <1>1, Invariance, PTL

\* The owner and locked fields agree with what the clients hold.
THEOREM OwnerCorrect == Spec => []OwnerAgrees
<1>1. IInv => OwnerAgrees
  BY DEF IInv
<1> QED BY <1>1, Invariance, PTL

\* While the mutex is free and threads are queued, one is on its way to retry.
THEOREM WakeupNotLost == Spec => []NoLostWakeup
<1>1. IInv => NoLostWakeup
  BY DEF IInv
<1> QED BY <1>1, Invariance, PTL

\* unlock makes a thread runnable only when it is off its vcore, out of the
\* queue, and nobody else's to wake.
THEOREM WakeupCorrect == Spec => []WakesOnlyBlocked
<1>1. IInv => WakesOnlyBlocked
  BY DEF IInv, WakesOnlyBlocked, WhereBlocked, TypeOK
<1> QED BY <1>1, Invariance, PTL
----------------------------------------------------------------------------
(* The mutex implements the abstract lock.                                 *)

LEMMA HolderIsOwner == IInv => holderOf = owner
<1> SUFFICES ASSUME IInv PROVE holderOf = owner
  OBVIOUS
<1> USE MutexAssumption
<1>1. \A t \in Threads : held[t] > 0 <=> owner = t
  BY DEF IInv, TypeOK, OwnerAgrees
<1>2. owner \in Threads \cup {NULL}
  BY DEF IInv, TypeOK
<1>3. CASE owner = NULL
  BY <1>1, <1>3 DEF holderOf
<1>4. CASE owner \in Threads
  BY <1>1, <1>4 DEF holderOf
<1> QED BY <1>2, <1>3, <1>4

LEMMA StepImplements ==
  ASSUME IInv, IInv', [Next]_vars
  PROVE  [Abstract!Next]_<<holderOf, locked>>
<1> USE MutexAssumption
<1>1. holderOf = owner /\ holderOf' = owner'
  <2>1. (IInv => holderOf = owner)'
    BY HolderIsOwner, PTL
  <2> QED BY <2>1, HolderIsOwner
<1>2. ASSUME NEW t \in Threads, SpinFree, Take(t), locked = 0 \/ OwnRecursive(t)
      PROVE Abstract!Acquire(t)
  BY <1>1, <1>2 DEF Take, OwnRecursive, IInv, OwnerAgrees, Abstract!Acquire
<1>3. ASSUME NEW t \in Threads, Unlock(t)
      PROVE Abstract!Release(t)
  <2>1. owner = t
    BY <1>3 DEF Unlock, IInv, OwnerAgrees
  <2>2. CASE locked = 1
    BY <1>1, <1>3, <2>1, <2>2 DEF Unlock, Free, Abstract!Release
  <2>3. CASE locked # 1
    BY <1>1, <1>3, <2>1, <2>3 DEF Unlock, Abstract!Release
  <2> QED BY <2>2, <2>3
<1>4. ASSUME NEW t \in Threads, Step(t)
      PROVE [Abstract!Next]_<<holderOf, locked>>
  <2>1. CASE LockTake(t)
    BY <1>2, <2>1 DEF LockTake, Abstract!Next
  <2>2. CASE LockBlock(t) \/ BlockInsert(t) \/ UnlockWake(t)
    BY <1>1, <2>2 DEF LockBlock, StartBlocking, BlockInsert, UnlockWake, mutex
  <2>3. CASE TryLock(t)
    BY <1>1, <1>2, <2>3 DEF TryLock, mutex, Abstract!Next
  <2>4. CASE Unlock(t)
    BY <1>3, <2>4 DEF Abstract!Next
  <2> QED BY <1>4, <2>1, <2>2, <2>3, <2>4 DEF Step
<1>5. CASE UNCHANGED vars
  BY <1>1, <1>5 DEF vars, mutex
<1> QED BY <1>4, <1>5, NextIsStep DEF IInv

\* What clients see of the mutex, who holds it and how deep, is a behaviour of
\* the abstract lock: every lock acquires it free (or again, if recursive), and
\* every unlock undoes one acquisition.
THEOREM Implementation == Spec => LockContract
<1>1. Init => Abstract!Init
  <2> SUFFICES ASSUME Init PROVE holderOf = NULL /\ locked = 0
    BY DEF Abstract!Init
  <2>1. IInv
    BY InitInvariant
  <2> QED BY <2>1, HolderIsOwner DEF Init
<1> QED BY <1>1, StepImplements, Invariance, PTL DEF Spec, LockContract, Abstract!Spec
============================================================================
