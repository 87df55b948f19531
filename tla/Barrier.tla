------------------------------ MODULE Barrier ------------------------------
(***************************************************************************)
(* upthread_barrier_t (src/src/common/barrier.c): N threads meet again and *)
(* again.  The last to arrive flips `wait`, signals every slot and makes   *)
(* the threads that blocked runnable; the others spin on their slot for a  *)
(* while and then block.  Two queues take turns, selected by the value     *)
(* `wait` had when a thread came in.                                       *)
(*                                                                         *)
(* N is the number of threads: with more, an arrival between the last one  *)
(* of a round and the reset would have no slot.                            *)
(***************************************************************************)
EXTENDS Integers, Sequences, FiniteSets

CONSTANTS
  Threads, NULL,
  Rounds          \* upthread_barrier_wait calls of each thread (a bound)

ASSUME BarrierAssumption ==
  /\ IsFiniteSet(Threads) /\ Threads # {} /\ NULL \notin Threads
  /\ Rounds \in Nat

N == Cardinality(Threads)
Slots == 0 .. N - 1

VARIABLES
  arrived, wait,     \* fields of the barrier
  signals,           \* barrier->signals, one flag per slot
  blocked,           \* the two queues of blocked threads
  mtx,               \* who holds the lock of each queue
  pc, id, mywait,    \* per thread: where it is, and the locals `id` and `wait`
  index,             \* per thread: the loop variable of the releasing thread
  run,               \* "running", or "blocked" between has_blocked and runnable
  entered, passed    \* ghost: calls each thread began and completed

barrier == <<arrived, wait, signals, blocked, mtx>>
locals  == <<id, mywait, index>>
vars    == <<barrier, pc, locals, run, entered, passed>>

Labels == {"out", "arrive", "reset", "flip", "signal", "release_lock", "release",
           "spin", "block_lock", "recheck", "block"}

Init ==
  /\ arrived = 0
  /\ wait = FALSE
  /\ signals = [i \in Slots |-> FALSE]
  /\ blocked = [b \in BOOLEAN |-> <<>>]
  /\ mtx = [b \in BOOLEAN |-> NULL]
  /\ pc = [t \in Threads |-> "out"]
  /\ id = [t \in Threads |-> 0]
  /\ mywait = [t \in Threads |-> FALSE]
  /\ index = [t \in Threads |-> 0]
  /\ run = [t \in Threads |-> "running"]
  /\ entered = [t \in Threads |-> 0]
  /\ passed = [t \in Threads |-> 0]

Goto(t, l) == pc' = [pc EXCEPT ![t] = l]

\* The thread is on a vcore and its next statement is at l.
At(t, l) == pc[t] = l /\ run[t] = "running"

\* The return from upthread_barrier_wait; the locals are gone.
Return(t) ==
  /\ Goto(t, "out")
  /\ id' = [id EXCEPT ![t] = 0]
  /\ mywait' = [mywait EXCEPT ![t] = FALSE]
  /\ index' = [index EXCEPT ![t] = 0]
  /\ passed' = [passed EXCEPT ![t] = @ + 1]

Signalled(t) == signals[id[t]] # mywait[t]
----------------------------------------------------------------------------
(* Seeded faults: an operation with one plausible mistake each.  No        *)
(* specification uses them; in place of the operation, each makes the      *)
(* property it is paired with fail.                                        *)

\* The flag is not turned for the next round.
Flip_Forgotten(t) ==
  /\ At(t, "flip")
  /\ Goto(t, "signal")
  /\ UNCHANGED <<barrier, locals, run, entered, passed>>

\* The last thread empties no queue.
ReleaseDone_KeepsLength(t) ==
  /\ At(t, "release") /\ index[t] = Len(blocked[mywait[t]])
  /\ mtx' = [mtx EXCEPT ![mywait[t]] = NULL]
  /\ Return(t)
  /\ UNCHANGED <<arrived, wait, signals, blocked, run, entered>>

\* A thread blocks on the strength of the test it made without the lock.
Recheck_Skipped(t) ==
  /\ At(t, "recheck")
  /\ Goto(t, "block")
  /\ UNCHANGED <<barrier, locals, run, entered, passed>>

\* The callback puts the thread in the queue without having marked it blocked.
BlockCallback_NotBlocked(t) ==
  /\ At(t, "block")
  /\ blocked' = [blocked EXCEPT ![mywait[t]] = Append(@, t)]
  /\ mtx' = [mtx EXCEPT ![mywait[t]] = NULL]
  /\ Goto(t, "spin")
  /\ UNCHANGED <<arrived, wait, signals, run, locals, entered, passed>>
----------------------------------------------------------------------------
(* Coming in.                                                              *)

\* Lines 60-61: the sense of this round is read before the arrival.
WaitCall(t) ==
  /\ At(t, "out") /\ entered[t] < Rounds
  /\ entered' = [entered EXCEPT ![t] = @ + 1]
  /\ mywait' = [mywait EXCEPT ![t] = wait]
  /\ Goto(t, "arrive")
  /\ UNCHANGED <<barrier, id, index, run, passed>>

\* Lines 63-67.
Arrive(t) ==
  /\ At(t, "arrive")
  /\ id' = [id EXCEPT ![t] = arrived]
  /\ arrived' = arrived + 1
  /\ Goto(t, IF arrived = N - 1 THEN "reset" ELSE "spin")
  /\ UNCHANGED <<wait, signals, blocked, mtx, mywait, index, run, entered, passed>>
----------------------------------------------------------------------------
(* The last thread releases the others.                                    *)

Reset(t) ==
  /\ At(t, "reset")
  /\ arrived' = 0
  /\ Goto(t, "flip")
  /\ UNCHANGED <<wait, signals, blocked, mtx, locals, run, entered, passed>>

Flip(t) ==
  /\ At(t, "flip")
  /\ wait' = ~wait
  /\ Goto(t, "signal")
  /\ UNCHANGED <<arrived, signals, blocked, mtx, locals, run, entered, passed>>

\* One slot at a time, without a lock: a released thread may be back in the
\* barrier before the loop ends.
Signal(t) ==
  /\ At(t, "signal")
  /\ signals' = [signals EXCEPT ![index[t]] = ~mywait[t]]
  /\ IF index[t] = N - 1
     THEN Goto(t, "release_lock") /\ index' = [index EXCEPT ![t] = 0]
     ELSE index' = [index EXCEPT ![t] = @ + 1] /\ UNCHANGED pc
  /\ UNCHANGED <<arrived, wait, blocked, mtx, id, mywait, run, entered, passed>>

LockQueue(t, from, to) ==
  /\ At(t, from) /\ mtx[mywait[t]] = NULL
  /\ mtx' = [mtx EXCEPT ![mywait[t]] = t]
  /\ Goto(t, to)
  /\ UNCHANGED <<arrived, wait, signals, blocked, locals, run, entered, passed>>

ReleaseLock(t) == LockQueue(t, "release_lock", "release")

\* One thread of the queue is made runnable; it runs while the loop goes on.
ReleaseOne(t) ==
  /\ At(t, "release") /\ index[t] < Len(blocked[mywait[t]])
  /\ run' = [run EXCEPT ![blocked[mywait[t]][index[t] + 1]] = "running"]
  /\ index' = [index EXCEPT ![t] = @ + 1]
  /\ UNCHANGED <<barrier, pc, id, mywait, entered, passed>>

ReleaseDone(t) ==
  /\ At(t, "release") /\ index[t] = Len(blocked[mywait[t]])
  /\ blocked' = [blocked EXCEPT ![mywait[t]] = <<>>]
  /\ mtx' = [mtx EXCEPT ![mywait[t]] = NULL]
  /\ Return(t)
  /\ UNCHANGED <<arrived, wait, signals, run, entered>>
----------------------------------------------------------------------------
(* The others wait.                                                        *)

SpinEnds(t) ==
  /\ At(t, "spin") /\ Signalled(t)
  /\ Return(t)
  /\ UNCHANGED <<barrier, run, entered>>

\* MAXSTALLS turns of the loop stand for any number of them.
Stalled(t) ==
  /\ At(t, "spin") /\ ~Signalled(t)
  /\ Goto(t, "block_lock")
  /\ UNCHANGED <<barrier, locals, run, entered, passed>>

BlockLock(t) == LockQueue(t, "block_lock", "recheck")

\* With the lock held: block, or let the lock go and look at the slot again.
Recheck(t) ==
  /\ At(t, "recheck")
  /\ \/ /\ ~Signalled(t)
        /\ Goto(t, "block")
        /\ UNCHANGED mtx
     \/ /\ Signalled(t)
        /\ Goto(t, "spin")
        /\ mtx' = [mtx EXCEPT ![mywait[t]] = NULL]
  /\ UNCHANGED <<arrived, wait, signals, blocked, locals, run, entered, passed>>

\* __barrier_block, on the vcore, once the thread is off its stack.
BlockCallback(t) ==
  /\ At(t, "block")
  /\ run' = [run EXCEPT ![t] = "blocked"]
  /\ blocked' = [blocked EXCEPT ![mywait[t]] = Append(@, t)]
  /\ mtx' = [mtx EXCEPT ![mywait[t]] = NULL]
  /\ Goto(t, "spin")
  /\ UNCHANGED <<arrived, wait, signals, locals, entered, passed>>
----------------------------------------------------------------------------
ThreadStep(t) ==
  \/ Arrive(t)
  \/ Reset(t)
  \/ Flip(t)
  \/ Signal(t)
  \/ ReleaseLock(t)
  \/ ReleaseOne(t)
  \/ ReleaseDone(t)
  \/ SpinEnds(t)
  \/ Stalled(t)
  \/ BlockLock(t)
  \/ Recheck(t)
  \/ BlockCallback(t)

\* Every thread has made its calls.
Finished ==
  /\ \A t \in Threads : pc[t] = "out" /\ entered[t] = Rounds
  /\ UNCHANGED vars

Next ==
  \/ \E t \in Threads : WaitCall(t)
  \/ \E t \in Threads : ThreadStep(t)
  \/ Finished

Spec == Init /\ [][Next]_vars

(* Fairness.  A runnable thread runs and calls the barrier again; the MCS  *)
(* locks of the queues are granted in the order of their requests, so a    *)
(* thread that asks for one gets it.                                       *)
Fairness ==
  \A t \in Threads :
    /\ WF_vars(WaitCall(t)) /\ WF_vars(ThreadStep(t))
    /\ SF_vars(ReleaseLock(t)) /\ SF_vars(BlockLock(t))

FairSpec == Spec /\ Fairness
----------------------------------------------------------------------------
(* Properties.                                                             *)

\* Nobody leaves the barrier of a round that somebody has not come to, even when
\* the first threads are back in it before the release loop reached every slot.
BarrierSync == \A t, u \in Threads : passed[t] <= entered[u]

\* No array is overrun, whatever is left in it from the rounds before: every thread inside
\* has a slot of the signals array, and the assertion of __barrier_block holds for the
\* array of a queue.
ArraysFit ==
  /\ arrived <= N /\ \A t \in Threads : id[t] \in Slots
  /\ \A t \in Threads : pc[t] = "block" => Len(blocked[mywait[t]]) < N

\* The release loop makes only blocked threads runnable, and each once.
WakesOnlyBlocked ==
  \A t \in Threads : At(t, "release") =>
    \A i \in index[t] + 1 .. Len(blocked[mywait[t]]) :
      LET u == blocked[mywait[t]][i] IN
        run[u] = "blocked" /\ \A j \in 1 .. i - 1 : blocked[mywait[t]][j] # u

\* No release passes by a thread: one that is off its vcore though its round is over
\* is still ahead of the release loop.  A thread that was told to block before the
\* release, but joins the queue after it, would stay there.
NobodyLeftBlocked ==
  \A t \in Threads : run[t] = "blocked" /\ mywait[t] # wait =>
    \E u \in Threads :
      \/ pc[u] \in {"signal", "release_lock"}
      \/ /\ pc[u] = "release" /\ mywait[u] = mywait[t]
         /\ \E i \in index[u] + 1 .. Len(blocked[mywait[u]]) : blocked[mywait[u]][i] = t

\* Whoever enters gets out again: no release passes by a thread that is about to
\* block.
AllPass == \A t \in Threads : pc[t] = "arrive" ~> pc[t] = "out"
============================================================================
