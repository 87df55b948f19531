------------------------------ MODULE Semaphore ------------------------------
(***************************************************************************)
(* upthread_sem_t (src/src/common/semaphore.c) over the futex on its value *)
(* field: waiters decrement it or wait until a post makes it positive.     *)
(* nwaiters only ever grows; MaxWaits keeps it below the width of an int.  *)
(***************************************************************************)
EXTENDS Integers, Sequences, FiniteSets, Functions

CONSTANTS
  Waiters, Posters,
  InitialValue,   \* the count given to upthread_sem_init
  MaxWaits,       \* upthread_sem_wait calls of each waiter (a bound)
  MaxPosts        \* upthread_sem_post calls of each poster (a bound)

Threads == Waiters \cup Posters

ASSUME SemaphoreAssumption ==
  /\ IsFiniteSet(Waiters) /\ IsFiniteSet(Posters) /\ Waiters \cap Posters = {}
  /\ InitialValue \in Nat /\ MaxWaits \in Nat /\ MaxPosts \in Nat

VARIABLES
  value,                                  \* sem->value, the futex word
  lists, fpc, flist, unblocked, run,      \* the futex, see Futex
  nwaiters,                               \* sem->nwaiters
  spc,                                    \* where each thread is in its call
  seen,                                   \* the value a thread read
  acquired, posted                        \* ghost: calls that took and gave

F == INSTANCE Futex WITH word <- value

futexVars == <<lists, fpc, flist, unblocked, run>>
vars == <<value, futexVars, nwaiters, spc, seen, acquired, posted>>

\* out: between calls.  try, try_cas: the first atomic_decrement_if_positive,
\* after the read with a positive value.  count: about to count itself in.
\* wait: in futex(FUTEX_WAIT).  retry, retry_cas: the decrement of the loop.
\* check: a poster about to look at nwaiters.  wake: in futex(FUTEX_WAKE).
Labels == {"out", "try", "try_cas", "count", "wait_call", "wait", "retry", "retry_cas", "check",
           "wake"}

Init ==
  /\ value = InitialValue
  /\ F!FutexInit
  /\ nwaiters = 0
  /\ spc = [t \in Threads |-> "out"]
  /\ seen = [t \in Threads |-> 0]
  /\ acquired = [t \in Threads |-> 0]
  /\ posted = [t \in Threads |-> 0]

Goto(t, l) == spc' = [spc EXCEPT ![t] = l]
----------------------------------------------------------------------------
(* Seeded faults: an operation with one plausible mistake each.  No        *)
(* specification uses them; in place of the operation, each makes the      *)
(* property it is paired with fail.                                        *)

\* The decrement writes what it read minus one, without comparing.
DecrementCas_Blind(t, now, again) ==
  /\ spc[t] = now
  /\ value' = seen[t] - 1
  /\ acquired' = [acquired EXCEPT ![t] = @ + 1]
  /\ Goto(t, "out")
  /\ UNCHANGED <<futexVars, nwaiters, seen, posted>>

\* nwaiters is never counted up, so that a post finds nobody to wake.
CountIn_Forgotten(t) ==
  /\ spc[t] = "count"
  /\ Goto(t, "wait_call")
  /\ UNCHANGED <<value, futexVars, nwaiters, seen, acquired, posted>>
----------------------------------------------------------------------------
(* atomic_decrement_if_positive: a read and a compare-and-swap.            *)

DecrementRead(t, now, cas, fail) ==
  /\ spc[t] = now
  /\ seen' = [seen EXCEPT ![t] = IF value > 0 THEN value ELSE 0]
  /\ Goto(t, IF value > 0 THEN cas ELSE fail)
  /\ UNCHANGED <<value, futexVars, nwaiters, acquired, posted>>

DecrementCas(t, now, again) ==
  /\ spc[t] = now
  /\ seen' = [seen EXCEPT ![t] = 0]
  /\ IF value = seen[t]
     THEN /\ value' = value - 1
          /\ acquired' = [acquired EXCEPT ![t] = @ + 1]
          /\ Goto(t, "out")
     ELSE /\ Goto(t, again)
          /\ UNCHANGED <<value, acquired>>
  /\ UNCHANGED <<futexVars, nwaiters, posted>>
----------------------------------------------------------------------------
(* upthread_sem_wait                                                       *)

WaitStart(t) ==
  /\ t \in Waiters /\ spc[t] = "out" /\ acquired[t] < MaxWaits
  /\ Goto(t, "try")
  /\ UNCHANGED <<value, futexVars, nwaiters, seen, acquired, posted>>

TryDecrement(t) ==
  DecrementRead(t, "try", "try_cas", "count") \/ DecrementCas(t, "try_cas", "try")

\* nwaiters is counted up and never down.
CountIn(t) ==
  /\ spc[t] = "count"
  /\ nwaiters' = nwaiters + 1
  /\ Goto(t, "wait_call")
  /\ UNCHANGED <<value, futexVars, seen, acquired, posted>>

\* futex(&sem->value, FUTEX_WAIT, 0)
FutexWait(t) ==
  /\ \/ spc[t] = "wait_call" /\ F!WaitCall(t, 0) /\ Goto(t, "wait")
     \/ spc[t] = "wait" /\ F!Block(t, 0) /\ UNCHANGED spc
     \/ spc[t] = "wait" /\ fpc[t] = "out" /\ Goto(t, "retry") /\ UNCHANGED <<value, futexVars>>
  /\ UNCHANGED <<nwaiters, seen, acquired, posted>>

RetryDecrement(t) ==
  DecrementRead(t, "retry", "retry_cas", "wait_call") \/ DecrementCas(t, "retry_cas", "retry")
----------------------------------------------------------------------------
(* upthread_sem_post                                                       *)

PostAdd(t) ==
  /\ t \in Posters /\ spc[t] = "out" /\ posted[t] < MaxPosts
  /\ value' = value + 1
  /\ posted' = [posted EXCEPT ![t] = @ + 1]
  /\ Goto(t, "check")
  /\ UNCHANGED <<futexVars, nwaiters, seen, acquired>>

PostCheck(t) ==
  /\ spc[t] = "check"
  /\ IF nwaiters > 0
     THEN F!WakeCall(t) /\ Goto(t, "wake")
     ELSE Goto(t, "out") /\ UNCHANGED futexVars
  /\ UNCHANGED <<value, nwaiters, seen, acquired, posted>>

\* futex(&sem->value, FUTEX_WAKE, 1)
FutexWake(t) ==
  /\ spc[t] = "wake"
  /\ \/ F!TakeElements(t, 1) /\ UNCHANGED spc
     \/ F!ReadNext(t) /\ UNCHANGED spc
     \/ F!UnblockOne(t) /\ UNCHANGED spc
     \/ F!WakeDone(t) /\ Goto(t, "out")
  /\ UNCHANGED <<nwaiters, seen, acquired, posted>>

FindList(t) ==
  F!GetFutexList(t) /\ UNCHANGED <<nwaiters, spc, seen, acquired, posted>>
----------------------------------------------------------------------------
\* Waiters and posters have made their calls, or wait for posts that never come.
Finished ==
  /\ \A t \in Posters : spc[t] = "out" /\ posted[t] = MaxPosts
  /\ \A t \in Waiters : fpc[t] = "parked" \/ (spc[t] = "out" /\ acquired[t] = MaxWaits)
  /\ UNCHANGED vars

ThreadStep(t) ==
  \/ WaitStart(t)
  \/ TryDecrement(t)
  \/ CountIn(t)
  \/ FutexWait(t)
  \/ RetryDecrement(t)
  \/ PostAdd(t)
  \/ PostCheck(t)
  \/ FutexWake(t)
  \/ FindList(t)

Next == (\E t \in Threads : ThreadStep(t)) \/ Finished

Spec == Init /\ [][Next]_vars

\* A runnable thread runs.
FairSpec == Spec /\ \A t \in Threads : WF_vars(ThreadStep(t))
----------------------------------------------------------------------------
(* Properties.                                                             *)

\* The calls counted in `made`, each named by its thread and its number.
Calls(made) == UNION {{t} \X (1 .. made[t]) : t \in Threads}

\* Each post lets one wait through, no more and no less, however the decrements
\* and the additions interleave, and none takes what is not there.
CountKept ==
  value >= 0 /\ value = InitialValue + Cardinality(Calls(posted)) - Cardinality(Calls(acquired))

\* An element is in one queue at a time, and its thread is blocked as long as a
\* queue holds, or a waker has still to read, the element on its stack: no link is
\* read after its thread was woken.
ElementsAlive ==
  \A t \in Threads :
    /\ F!InList(t) \/ F!InHands(t) => run[t] = "blocked" /\ fpc[t] = "parked"
    /\ fpc[t] = "parked" =>
         Cardinality({i \in DOMAIN lists : t \in Range(lists[i])})
           + Cardinality({s \in Threads : t \in Range(unblocked[s])}) = 1

\* A count is never left beside a sleeping waiter: there is a waker or a woken
\* waiter on its way for each.
NoLostPost ==
  value > 0 /\ (\E t \in Waiters : F!InList(t)) =>
    Cardinality({t \in Posters : spc[t] = "check" \/ fpc[t] \in {"wake_find", "wake_create", "take"}})
      + Cardinality({t \in Waiters : spc[t] \in {"try", "try_cas", "retry", "retry_cas", "wait_call"}
                                     \/ (spc[t] = "wait" /\ ~F!InList(t))}) >= value

\* With a post for each, every wait returns.
WaitReturns ==
  \A t \in Waiters : spc[t] = "try" ~> spc[t] = "out"
============================================================================
