# upthread in TLA+

A verification development for upthread, the user-level thread library in `src/`.
It holds TLA+ modules of the schedulers and of the blocking primitives, TLC
configurations that check them on small instances, and TLAPS proofs.

Contents: [the system](#the-system) - [modules](#modules-and-how-they-correspond-to-the-code) -
[runs](#runs-bounds-and-what-they-show) - [fairness](#fairness) - [proofs](#proofs) -
[what the models showed](#what-the-models-showed) - [not modelled](#not-modelled) - [plan](#plan)

## The system

upthread runs pthread-like user threads on *vcores*, pinned kernel threads that
parlib (a library outside this repository) hands out. parlib calls the
scheduler through the table `struct schedule_ops`, and the scheduler, a
*second-level scheduler* (2LS), decides which thread runs on which vcore. The
repository has four backends, one of which is built into a library at a time,
and one set of synchronisation primitives above them.

| part | state | operations | how it interacts |
|---|---|---|---|
| **gq scheduler** `gq/upthread.c` | one ready queue and one active queue with two counters under `queue_lock`; per thread: state, detached, joiner, retval | `pth_sched_entry`, `pth_thread_runnable`, `_paused`, `_has_blocked`, `pth_blockon_syscall`, `pth_handle_syscall`; `upthread_create`, `join`, `exit`, `yield`, `can_vcore_request` | called by parlib on vcore entry, on events, and in the callback of `uthread_yield`; calls `vcore_request` and `vcore_yield` |
| **pvcq scheduler** `pvcq/upthread.c` | one ready queue, lock and length for each vcore (`vc_mgmt`), `next_queue_id`, `nr_vcores`, three switches; per thread also `preferred_vcq` | as gq, and placing of new threads, stealing, `upthread_set_num_vcores` and the other tunables, `upthread_detach`, recycling of TCBs | as gq; `vcore_request_specific` |
| **juggle scheduler** `juggle/upthread.c` | as pvcq, and one alarm per vcore | as pvcq, and preemption by the alarm | as pvcq; parlib's alarms call back |
| **lithe backend** `lithe/` | contexts of Lithe's fork-join scheduler, the number of harts asked for | create, join, exit, detach, yield, over Lithe contexts | Lithe runs the contexts; its mutex, condvar and barrier are wrapped |
| **mutex** `common/mutex.c` | spinlock, `locked`, `owner`, FIFO queue | lock, trylock, unlock; default and recursive | blocks with `uthread_yield(block)`, wakes with `uthread_runnable` |
| **condition variable** `common/condvar.c` | MCS lock, queue, `waiting_mutex`, `waiting_qnode` | wait, signal, broadcast | its callback unlocks the mutex for the waiter |
| **futex** `common/futex.c` | a list of queues, one per address, each with a spinlock; queue elements on the stacks of the waiters | wait, wake | used by the semaphore |
| **semaphore** `common/semaphore.c` | `value`, `nwaiters` | wait, post | futex on `value` |
| **barrier** `common/barrier.c` | `arrived`, `wait`, one signal flag per slot, two queues | wait | spins, then blocks |
| dtls, attributes, stubs | none of their own | wrappers of parlib calls | |

What is hard in this code is that an operation of a thread is cut into pieces
that run in different places: the thread itself, the callback of
`uthread_yield` which runs on the vcore once the thread is off its stack, and the
scheduler. From the moment a callback has published a thread (in a queue, in a
`joiner` field), another vcore may run, finish and free it while the callback is
still executing. Locks are taken in one piece and released in another. Vcores
come and go, and a vcore that found nothing to do must not go away beside a
thread that was just made ready. There is no persistence and no network, so there
are no crashes to recover from.

What makes each part correct:

* *schedulers*: a thread is in one place only; it is made runnable only from a
  state in which somebody recorded why it stopped; the TCB is not used after it was
  freed; counters agree with queues; no ready thread is left without a vcore that
  will look for it; ready threads run.
* *thread life cycle* (gq, and with recycled TCBs pvcq, juggle and lithe): no step follows
  the address of a TCB that was freed or belongs to another thread; a join returns, with the
  right result; memory comes back; the harts asked for follow the contexts.
* *juggle*: no alarm, storage or pointer leads to freed alarm data, and nothing but the
  callback that freed them touches them; a preemption at any point keeps what the scheduler
  promises.
* *mutex*: exclusion, right owner and count, no lost wakeup, lock returns.
* *condition variable*: no gap between unlocking and waiting, each waiter woken
  once, wait returns with the mutex.
* *futex and semaphore*: no count lost or used twice, no sleeping waiter beside a
  positive count, no use of a dead queue element.
* *barrier*: nobody leaves a round before all entered it, over many rounds, and
  nobody is left behind.

`PROJECT.json` lists the hazards line by line with the properties that cover them.

## Modules, and how they correspond to the code

| module | models | refines / uses |
|---|---|---|
| `SchedOps` | what any 2LS promises: each thread goes unborn, parked, runnable, running, dead, along fixed edges, and at most as many run as there are vcores | |
| `GlobalQueue` | `gq/upthread.c` | implements `SchedOps` (`SchedContract`) |
| `GlobalQueueProofs` | proofs about `GlobalQueue`: types and the forgotten thread; the inductive invariant and the safety properties; the refinement | |
| `PerVcoreQueue` | `pvcq/upthread.c`, the queues | implements `SchedOps` (`SchedContract`) |
| `Juggle` | `juggle/upthread.c`: the alarms, over the same queues | extends `PerVcoreQueue`, implements `SchedOps` |
| `PerVcoreQueueProofs` | proofs about `PerVcoreQueue` and `Juggle` | |
| `ThreadLife` | `pvcq/upthread.c`: create, join, exit, detach, the recycling of TCBs | uses the scheduler as `SchedOps` has it |
| `LitheThreads` | `lithe/upthread.c` | extends `ThreadLife` |
| `ThreadLifeProofs` | proofs about `ThreadLife` and `LitheThreads` | |
| `LockSpec` | what a mutex promises | |
| `Mutex` | `common/mutex.c` | implements `LockSpec` (`LockContract`) |
| `MutexProofs`, `SeqFacts` | proofs about `Mutex`; facts about queues | |
| `MonitorSpec` | what a condition variable promises the threads of a monitor | |
| `CondVar` | `common/condvar.c` in a monitor | instantiates `Mutex`, implements `MonitorSpec` (`MonitorContract`) |
| `CondVarProofs` | proofs about `CondVar` | instantiates `MutexProofs` for the monitor's mutex |
| `Futex` | `common/futex.c` | |
| `Semaphore` | `common/semaphore.c` | instantiates `Futex` |
| `SemaphoreProofs` | proofs about `Semaphore` and the futex under it | |
| `Barrier` | `common/barrier.c` | |
| `BarrierProofs` | proofs about `Barrier` | |
| `MC...` | instances for TLC | |

**Steps.** A step is a stretch of code nobody else can observe half done: a
critical section with the accesses to private memory around it, one atomic
instruction, one plain access to shared memory, one call into parlib. A lock that
is taken and released within one function is not a variable; one that is held
from a test to a callback (`mutex->lock`, `c->lock`, a queue lock of the barrier)
is.

**Schedulers.** Each vcore has a program counter (`vpc`) and the thread it runs
(`current` for `current_uthread`). `uthread` means that it executes client code;
the other labels are points of the runtime. `pth_thread_runnable` is a subroutine:
`arg` is its thread, `ret` the label it returns to. What parlib does is external
and is modelled from the way the code uses it:

* `vcore_request` is remembered until a vcore comes up (`wanted`); `vcore_yield`
  returns at once when an event is pending.
* vcore entry handles pending events before it calls `pth_sched_entry`
  (`SchedEntry` requires that none is left). Events are handled in order of arrival.
* the kernel completes a system call only after `pth_blockon_syscall` stored the
  thread in it.
* the client joins a joinable thread at most once, and only the creator joins; a second
  join is a use of freed memory which the code cannot detect. A join of a detached thread is
  refused as long as there is one (`JoinDetached`; gq tests in lines 363-366, pvcq in 531-537);
  afterwards the test itself reads freed memory, and the client does not make the call.

`spin_count--` is tested for zero and decremented even below. A vcore that came
back from `vcore_yield` therefore does not yield again during this visit; the model
has -1 for every negative value.

**GlobalQueue** has every operation of gq. `JoinCall`, `JoinSwap`, `JoinDone`,
`Exit`, `ExitSync` are the two sides of the atomic swap on `joiner`. `Create` and
`Publish` are the two halves of `upthread_create`: the thread can run, and exit,
before its creator has the handle. `NoUseAfterFree` speaks of the TCBs that the next step of a
vcore uses, and of the handles of joinable threads, also of the one that is still to be stored;
that of a detached thread may lead to freed memory by then, and is never followed.

**PerVcoreQueue** is about the queues. Join, exit and detach are in `ThreadLife`; here a
thread blocks, is woken by somebody, and dies. `tqsize` is the length of the
queue: it changes under the lock together with the queue, and a reader
without the lock sees one of the lengths the queue had. The random choice of a victim
is any queue; the fallback loop over all vcores is `NextVictim` and `ScanVictim`. The
stolen threads move one by one (`StealNext`, `StealPut`). `get_next_queue_id_basic`
is `ReadId`, `ReadNr` and `CasId`, its accesses of shared variables one by one, and
`upthread_set_num_vcores` is `SetNumVCores` and `ResetQueueId`, as neither takes a lock.
`current_uthread` is the variable of parlib; `current`, the thread a vcore executes, differs
from it only in juggle's alarm callback, from the moment the thread is paused (`Pausing`).

**Juggle** adds the alarm data on the heap (`allocated`, and `armed` for the field of that
name) and, for each vcore, what leads to them: `dtls` (the storage under `alarm_dtls_key`),
`adata` (the local of `pth_sched_entry`), `timers` (the data whose alarm is set with
parlib) and `awaiter` (the argument of the `alarm_callback` in progress). An alarm is never cancelled,
only disarmed: it fires all the same, and `alarm_callback` then frees its data. parlib handles
events, alarms included, at vcore entry, in `handle_events()` and when a notification interrupts
client code; `AlarmFires` is enabled there. The callback has two halves:

* armed (`Preempt`): lines 273-274. `pth_thread_paused` makes the thread runnable, with all the steps of
  `pth_thread_runnable` (enqueue, request), and only then `ClearCurrent` clears `current_uthread`. In between the
  thread may be dispatched on another vcore, or be stolen, while its old vcore still has it in `current_uthread`.
* disarmed (`Discard`): lines 276-277, the data are freed.

Then `UnlockAwaiter` is the `spinlock_unlock` of line 279, a step of its own, in data that `Discard` has
freed. By then `malloc` may have given them to another vcore (`Mallocable`). All data in use belong to
one vcore, so that nobody ever waits for their lock, and the late write to it changes nothing for alarm
data; other owners of the memory are not in the model. See below.

Data that nothing leads to any more are taken for freed, so that the number of data is bounded (`Data`) by
the number of alarms one vcore may have pending beside its present one (`MaxTimers`, a guard of
`JSchedEntry`). Periods only grow (a bound). What juggle shares with pvcq is written as the actions of
`PerVcoreQueue` beside unchanged alarms (`JMakeRunnable`, `JDequeue` and so on); the two files have
the same lines there.

**ThreadLife** tells threads from *slots*. A thread is an execution and happens once. A slot
is a TCB with its stack, in which one thread after another lives. The code has addresses only,
and so `joiner`, `temp_pth` and `addr` hold slots. `owner`, a ghost, says whose TCB a slot
holds: a stale address is one that leads to a slot of somebody else. `late`, the other
ghost, has the threads whose `upthread_detach` came after the exit callback had read the flag.
`ExitTest`, `ExitSwap`, `ExitWake` are the three accesses of `__pth_exit_cb`; `JoinCall`,
`JoinSwap`, `JoinRead` those of `upthread_join`, which looks at `joiner` once before
it blocks. `__upthread_free` reads the size of `zombie_list` in one step (`FreeTest`) and inserts in
another (`FreeInsert`), or unmaps (`FreeUnmap`). A callback holds the vcore of its thread to
its end; otherwise the scheduler is `SchedOps`: a thread is parked, ready or on one of
`NumVCores` vcores. The client joins or detaches each joinable thread at most once, from
any thread that can see its handle.

**LitheThreads** has the same code over contexts, and `harts`, the sum of the hart requests
made of Lithe. What Lithe does with them is external.

**Mutex.** `mpc` says where a thread is in its call; `run` is the scheduler's view
(blocked between `uthread_has_blocked` and `uthread_runnable`); `held` is a ghost
that counts acquisitions. What a scheduler does between `uthread_runnable` and the
moment the thread runs is one step here: that is what `SchedOps` and `ReadyRuns` promise.

**CondVar** is checked as what it is for, a monitor: consumers wait in a `while`
for an item, producers add one and signal or broadcast, holding the mutex or not.
Its mutex is the module `Mutex`, with all its steps. Under `MonitorContract` a thread waits from the
moment its callback unlocked the mutex, though it joined the queue before, and is notified from the
moment it was popped until it has the mutex again.

**Futex and Semaphore.** The list of a word is looked up without a lock and created
under one (`FindList`, `CreateList`). A queue element is identified with its
thread, since it lives on that thread's stack. A waker takes elements off the list into a queue of its own,
`unblocked`, which runs through the stacks of the waiters: it reads the link of an element (`ReadNext`)
before it wakes the thread (`UnblockOne`), and has no business with the element afterwards. `ElementsAlive`
says so. `nwaiters` grows only.

**Barrier** has as many threads as the count says, which is its contract. Slots are
signalled one by one; a thread released early may be back in the barrier while the
loop runs. It is then safe because the ids of the next round are handed out from 0
upward, below the index of the loop.

**Seeded faults.** Each module has a section of operations with one plausible mistake
(a dropped test, a forgotten wakeup, a swapped order). No specification uses them. With
a fault in place of its operation, the property it is paired with in `PROJECT.json`
fails, so that the property says something about the code.

## Runs, bounds, and what they show

| run | instance | shows |
|---|---|---|
| `gq` | 3 threads, 2 vcores, every operation, 1.4 million states up to symmetry | a thread is in one place; no "Odd state"; no TCB used after it was freed, and no handle of a joinable thread leads to one; join sees a finished exit; counters honest; a ready thread is never left without a vcore that will look; implements `SchedOps` |
| `gq_live` | 3 threads, 2 vcores; create, yield, exit, syscall | ready threads run; a thread whose call completed runs again although the queue need never be empty |
| `mutex` | 4 threads, 3 calls each, recursive | exclusion and owner, no lost wakeup, wakes only blocked threads, implements `LockSpec`, every lock returns |
| `condvar` | 2 consumers, 2 producers, notifying in and outside the mutex | monitor exclusion, woken once, callback finds its own node; no gap between unlocking and waiting, as it implements `MonitorSpec`; with broadcasts under the mutex every consumer is served and such a broadcast ends |
| `semaphore` | 2 waiters, 2 posters, 2 calls each | count kept, no element used once its thread was woken, no post lost, waits return |
| `barrier` | 3 threads, 3 rounds | nobody leaves early, arrays never overflow, wakes only blocked, no release passes by a blocked thread, all pass |
| `pvcq` | 2 threads, 2 vcores; all calls but those that turn stealing off or set the number of vcores | implements `SchedOps` |
| `pvcq_live` | 3 threads, 2 vcores; create, yield, block, wake, `set_num_vcores`, stealing on and off | one place per thread while several are stolen at once; no thread forgotten; ready threads run |
| `pvcq_set_num` | 3 vcores; create, `set_num_vcores` | violation: see below |
| `juggle` | 3 threads, 2 vcores, 2 periods, one late alarm per vcore, `MaxSpin` 1, up to the names of the alarm data; create, yield, exit, `set_sched_period` | freed alarm data are unlocked by the callback that freed them and by nothing else touched, also when an alarm fires in the loop before the disarm; implements `SchedOps` under preemption, with the window before `current_uthread` is cleared |
| `juggle_alarm` | the same code, a smaller workload | violation: see below |
| `life` | 4 threads, 3 slots, 2 vcores, one zombie allowed; contexts of lithe | no stale address; a join returns the result of its thread; memory and harts accounted for; joins return |

Why the bounds are enough. Two vcores and three threads give the interesting
encounters of the schedulers: a joiner, its target and a bystander; a thief, its
victim's owner and a thread that is placed; a vcore that gives itself back
while the other enqueues. Stealing takes half of a queue, rounded up, so that a thief moves a
second thread only from a queue of three: `pvcq_live` gets there, when a thread is woken
into the queue it once ran from. In `juggle` a thread may be stolen and run while its old vcore still has it as
current, and while the third thread waits in a queue. No theft there takes two threads; the proofs cover those.
`MaxSpin` 0 or 1 has the code yield at the first or the second
empty look; more only repeats the loop. An alarm fires in `handle_events()` before the loop disarms
it only with 1, so `juggle` has 1. Three lock calls for each of four threads let
a woken thread lose the mutex to a barging one and sleep again. Three rounds
of the barrier use both queues and come back to the first. Two waiters and two
posters race for the creation of the futex list and for the count. In `juggle` a second period
makes juggle replace armed data, and one late alarm fires beside the new one; its eight data are enough for
`malloc` always to find one. With four
threads in three slots, joiner and target both live in recycled TCBs; a limit of one zombie
has `zombie_list` full, so that the other freed slot is unmapped, or pass its limit.
TLC explores each instance completely. The view `UpToNames` of `juggle` takes two states for one when they differ
only in which data have which role: the data are addresses, and neither an action nor a property tells one from another. Threads other than thread0 are interchangeable, and so are the
vcores of gq, but not those of pvcq, which are numbered; symmetry is used in runs without
liveness properties only. `ClientOps` selects the calls the client's threads make, so that
each run stays within minutes; `gq` has them all, and the two pvcq runs share them
out. `CHECK_DEADLOCK` is never switched off: the states in which the system may rest
are named (`Finished`).

## Fairness

* A vcore in runtime code goes on executing it; a runnable thread that holds nothing
  up goes on (weak fairness of `RuntimeStep`, `Continue`, `ThreadStep`).
* `VCoreUp`: parlib grants requested vcores in the end.
* `KernelCompletes`: system calls end.
* gq and pvcq never preempt, so whether others run is up to the thread on the
  vcore: it makes, now and then, a call that gives up the vcore (strong fairness of
  `LeaveVCore`, since such a call may be disabled in between). Nothing is assumed of
  the other calls, which may be made or not.
* `ThreadLife` takes the scheduler at its word: a ready thread runs in the end (strong
  fairness of `Dispatch`, as vcores may be taken meanwhile; `ReadyRuns` of gq and pvcq is what
  justifies it), and client code that makes no other call yields.
* A thread that holds a mutex unlocks it.
* Nothing is assumed of the short circuit of yield in `pvcq_live`: it stays on, as the library has it by default;
  `pvcq` switches it.
* `ConsumersServed` and `BroadcastReturns` are stated for broadcasts made under the mutex; see
  below for the others.
* The queue locks of the barrier are MCS locks, which are granted in the order of
  the requests (strong fairness of taking them).

What is not assumed: that notifications stop. An unbounded storm of them would keep a
thread from executing an instruction, so `notify` is not in the live runs. A mutex
admits barging; its liveness holds because `Rounds` bounds the calls of the others.

## Proofs

**The mutex.** `MutexProofs` proves, for any set of threads, any `MaxDepth`, any `Rounds` and both mutex
types, that every behaviour of `Spec` satisfies `TypeOK`, `MutualExclusion`,
`OwnerAgrees`, `NoLostWakeup`, `WakesOnlyBlocked`, and that `Mutex` implements
`LockSpec`. The only assumption is `MutexAssumption` on the constants.

None of the safety properties is inductive by itself. Exclusion rests on `owner`
and `locked` agreeing with what is held (`OwnerAgrees`). That nobody's wakeup is lost
rests on two facts about the spinlock: whoever is between the test of `locked` and the
insertion holds it (`SpinHeld`), and the mutex is still taken then
(`BlockingIsHeld`), since an unlock would need the spinlock. That each wakeup hits a
blocked thread rests on `WhereBlocked`: a parked thread is in the queue or in the hands
of one unlocker, never both. `IInv` is the conjunction. There is one lemma for each way
to change the mutex (`TakeInvariant`, `LockBlockInvariant`, `BlockInsertInvariant`,
`UnlockInvariant`, `UnlockWakeInvariant`), and `Invariance` combines them with one case per action. For
the refinement, the holder is the thread with `held > 0`, unique by `OwnerAgrees`; taking
maps to `Acquire`, unlocking to `Release`, every other step to a stutter.

**The gq scheduler.** For any set of threads, any finite set of vcores, any `MaxSpin` and
any `ClientOps`, and from `GlobalQueueAssumption` only, every behaviour of `Spec` satisfies all
the safety properties that the run `gq` checks, `SomeVCoreWillLook`, `OnePlacePerThread`, `NoOddWake`,
`NoUseAfterFree`, `JoinSeesExit` and `Accounting`, and `TypeOK`; and `GlobalQueue` implements `SchedOps`.

`SomeVCoreWillLook` needs no more than the types: whoever enqueues a thread is itself a
vcore that still has to look, and a vcore stops looking only at an empty queue. The
other properties are not inductive, as each rests on what the others say of
the same thread. `IInv` is the conjunction of

* `StateFitsPlace`: the `state` field tells in which kind of place a thread is. So a thread
  cannot be in places of two kinds, such as queued and in a system call;
* `PlacesDisjoint`: within a kind a thread is in one place only;
* `LoopRunsNothing`: a vcore in the dispatch loop or in a callback has no current thread;
* `TcbAlive`: a TCB is live from creation until its exit callback is past the last use
  (`Exited`), and as long as somebody has its handle or joins it;
* `HandlesUnique`: a handle has one owner, who gives it up to join, so that a thread has
  one joiner, who frees it once;
* `JoinerFits`: what the `joiner` field can hold. Before the exit: nothing, or a joiner
  that is parked and in nobody's hands. After it: something. A joiner that is not
  parked, or is being woken, has a target that exited;
* `Counts`: the counters and the active queue.

`JoinerFits` is the heart of it: at the swap of either side, the old value tells for certain who came
first, so exactly one side wakes the joiner (`JoinSwapInvariant`, `ExitSyncInvariant`). There
is one lemma for each operation, and common ones for steps that move no thread
(`QuietInvariant`), that put a thread into the hands of a vcore (`HandOver`), and that take
a thread off its vcore (`ParkInvariant`); `CurrentThread` says what is known of a running
thread. `NextInvariant` puts them together. Types of the next state come from `NextType`.

The refinement maps a thread to a phase by four conditions, which exclude each other under `IInv`
(`PhaseIs`). A step then moves one thread (`OneMoves`) or none (`NoMove`). That a dispatch finds
a free vcore is counting: the active threads inject into the other vcores
(`RoomToDispatch`).

**The thread life cycle.** From `ThreadLifeAssumption` only, hence for any set of threads, any
finite set of slots, any limit of `zombie_list` and any number of vcores, every behaviour of
`ThreadLife` satisfies `TypeOK`, `NoStaleTcb`, `JoinGetsResult` and `MemoryAccounted`
(`ThreadLifeProofs`). In `GlobalQueue` a TCB dies once; here its slot goes on to another thread, so
that an address proves nothing and each conjunct must say whose TCB the slot holds. `IInv` is the
conjunction of

* `TcbsAlive`: the slot of a thread holds its TCB as long as its own code, a joiner or a
  handle leads to it;
* `OneClaim`: a TCB is freed by one party: who has the handle, the one joiner, or the exit
  callback of a detached thread. This is what keeps a slot from being freed twice;
* `JoinerFits`: what the `joiner` field can hold, as for gq. It is why recycling must clear
  the field: a joiner left from the slot's last thread would satisfy neither case;
* `ResultKept`: the return value stays in the TCB from the exit to the joiner's read.

`MemoryAccounted` needs a second invariant, `MInv`, on top of it. `ClaimsKept` says that for every TCB which
is not detached, or whose exit callback is past its test, somebody is still to free it, unless the detach
was late. `Counts` bounds the list: whoever is between the test of
its size and the insertion is on a vcore, and it saw room, with at most `NumVCores - 1` others in the same
position.

`LitheIsThreadLife` shows that the lithe backend only takes steps of `ThreadLife`, so that all
of this holds of it. `HartsMatchContexts` adds that the harts asked for are exactly the contexts that can use one
(`HartsCounted`); these are finitely many since each has a slot of its own (`ActiveFit`).

**The pvcq and juggle schedulers.** `PerVcoreQueueProofs` proves, for any finite set of threads, any number
of vcores, any `MaxSpin` and any workload, `TypeOK`, `OnePlacePerThread` and that `PerVcoreQueue`
implements `SchedOps`. There is one hypothesis beside the assumption on the constants, `NumStays`: `upthread_set_num_vcores`
is not called with less than the number of vcores there are. It cannot be dropped: without it the queue ids leave
the array, as the run `pvcq_set_num` shows. `NoneForgotten` needs `AdjustStays` as well, that nobody switches
`can_vcore_request`: while it is off a thread may become ready with no vcore requested for it.

A thread of pvcq may be in no queue though it is ready: in the hands of a thief, or of a
vcore that is placing it. `HandsFit` says that it is in the hands of one vcore then, and in no queue;
`QueuesFit` that queues hold ready threads, none twice and none in two queues; `WakeFits` that whoever is about to be made
runnable stopped before, and that nobody else will wake it; `RunFits` that a vcore in the dispatch loop runs
nothing. The lemmas follow what is done to a thread: a vcore gets it (`HandsOver`), moves it on (`Moves`) or
leaves it (`Leaves`), whichever queue it is in. Each of them also gives
the step of `SchedOps` it is (`ContractStep`), so that invariant and refinement are
proved together. `NoneForgotten` is inductive once the switch is known to be on.

juggle takes the same steps beside its alarms, so its theorem `JuggleImplementsContract` rests on the lemmas of
pvcq; preemption is one more way to leave a vcore. The invariant speaks of `current`, the thread a
vcore executes. A thread stops executing when the callback pauses it; from then on it is one that is being
made runnable, whoever runs it next, and what its old vcore still has in `current_uthread` is followed by nobody
until `ClearCurrent`, which changes no `current` (`CurrentStays`, `ClearInvariant`). The seeded fault `ClearCurrent_Forgotten`, with which the vcore goes on with
the thread, breaks the contract. juggle's part of the model does not call
`set_num_vcores` or switch `can_vcore_request`, and no hypothesis is needed, neither there nor for
`NoneForgotten` (`JuggleForgetsNobody`): the callback makes its thread ready by the steps of pvcq, and its vcore
goes on into the scheduler.

`FreedAlarmsOnlyUnlocked` proves `FreedOnlyUnlocked`: what a vcore's storage, the scheduler's local and the pending
alarms lead to is allocated and belongs to that vcore, and of it only the present data can be armed (`AliveAt`); a
scheduler that has disarmed its alarm has left no armed data behind in its loop (`LoopAt`); and a callback that is
not at its last line works on the present data of its vcore. `malloc` may return what a callback has freed and not yet
unlocked, so nothing is said of that last step but that it is the only one: see below.

**The semaphore and the futex.** `SemaphoreProofs` proves `CountKept`, `ElementsAlive` and `NoLostPost`, for any finite
sets of waiters and posters, any initial value and any number of calls. `CountKept` compares the value with the
number of completed calls. It counts the set of the calls, `Calls`, since a sum over threads
would need induction over data. `ElementsAlive` rests on `Elements`: an element is in the queue of the word or in that
of one waker, as long as its thread sleeps in the futex, and a waker holds elements only in `unblock_futex_queue`
(`Waking`), before it has woken their threads. For `NoLostPost` the invariant says more than the
property, `PostsKept`: beside a sleeping waiter the positive value is at most the number
of those on the way, of posters that have not yet taken their element (`Wakers`) and waiters that will
look at the value again (`Wokens`). Each post adds one to both sides; a waiter that goes to sleep saw
the value at zero under the lock of the queue; a poster that finds `nwaiters` at zero has no
sleeping waiter, as each counts itself in first (`CallFits`).

**The condition variable.** `CondVarProofs` proves `MonitorExclusion`, `NoSignalGap`, `WokenOnce`, `CallbackUsesOwnNode`
and `MonitorContract`, for any disjoint sets of consumers and producers. Its mutex is not proved again: the
module instantiates `MutexProofs` and cites the lemma of each operation, after showing that a
mutex call of the monitor is one of them. What is added is where a thread is in its program and in the mutex
(`PlaceFits`) and the condition variable itself (`CondFits`). At its centre is that the owner of `c->lock` across a step is the
thread in the callback of a wait, and `waiting_qnode` its node: so nobody pops while a waiter is
in the queue and still has the mutex.

The refinement of `MonitorSpec` has one lemma for each abstract action. The abstract `Wait` is the unlock in the callback
(`UnlockWaits`): the thread that unlocks is the last of the queue (`LastWaits`), where nobody could see it before.
`Notify` is the pop, not the wakeup after it (`PopNotifies`, `WakeStays`), and `Enter` is the return of
`upthread_mutex_lock` at the start as after a wait (`LockEnters`).

**The barrier.** `BarrierProofs` proves `BarrierSync`, `ArraysFit`, `WakesOnlyBlocked` and `NobodyLeftBlocked`, for any
finite set of threads and any number of rounds. The difficulty is that two rounds overlap. A thread inside is *new* if its
sense is the barrier's, *old* if not; old ones have been released and are on their way out. Two facts keep
the rounds apart. The old ones are one call behind (`RoundsFit`). And while the loop signals slots, every slot it has not
reached belongs to an old thread, while the new ones are in slots it has passed
(`SlotsTaken`). The lemma `SlotIsSet` gets this by counting: the threads that came back had
slots that were signalled, so they are no more than these, and they take their new ids from 0
upward. So a new thread always finds its flag set to the sense it waits against, and does not pass through.
`QueuesFit` and `BlockedFits` say the same of the queues: whoever is off its vcore is in the part of its queue
that the release has still to come to, and if its round is over the release is not through.
`NobodyLeftBlocked` follows; it is the safety half of `AllPass`.

`SeqFacts` has the lemmas on sequences without duplicates: what appending, prepending and popping
do to the set of the elements, and that such a sequence is no longer than there are elements.

**Assumptions.** Beside `NumStays` and `AdjustStays`, the theorems assume only the named assumptions on the
constants, which say that the constants are of their types, that `NULL` is no thread, and that the threads are
finitely many where threads or their calls are counted.

**Model-checked only**: the liveness properties, `ReadyRuns`, `SyscallReturns`, `LockReturns`,
`ConsumersServed`, `BroadcastReturns`, `WaitReturns`, `AllPass` and `JoinReturns` (fairness and `ENABLED` are beyond the
prover), and the two violations. Every invariant and every refinement that a run checks is proved.
A few invariants are proved and have no run of their own: the type invariants that every proof starts from;
`MutualExclusion` of `Mutex`, which `OwnerAgrees` implies; `NoSignalGap` of `CondVar`, which
`MonitorContract` implies; and `NoneForgotten` under preemption, which `pvcq_live` checks without it.

## What the models showed

* **`upthread_set_num_vcores` races with the placing of threads** (run `pvcq_set_num`).
  The compare-and-swap in `get_next_queue_id_basic` (`pvcq/upthread.c:105-113`) compares
  `next_queue_id` only. If `set_num_vcores` shrinks `nr_vcores` and puts `next_queue_id`
  back to the value the creator had read, the swap succeeds with a successor computed from
  the old `nr_vcores`. As the wrap is a test for equality, the ids then run past the number
  of vcores to consider, and past the array `vc_mgmt`. `juggle/upthread.c` has the same
  lines. The other pvcq runs call `set_num_vcores` with the present number only, or not at all.
* **A broadcast made without the mutex may never return** (comment at
  `BroadcastReturns`): the loop pops until the queue is empty, and a thread it woke may be
  back in it.
* **juggle runs threads without the alarm it means to have** (run `juggle_alarm`). The comment in
  `pth_sched_entry` says that the alarm is started if there is none, but the test is made
  once, at entry. The dispatch loop disarms the alarm before `vcore_yield`, which may
  return, and the next thread then runs until it gives up its vcore by itself. That is the trace of the
  run. By reading, an alarm that fires in the `handle_events()` of the loop has the same effect. (thread0 runs without an alarm as well, until its
  vcore first enters the scheduler; the property leaves that out.)
* **juggle loses alarm data**: if the alarm fired in the loop before the yield, the data the
  yield replaces have no alarm left that would free them (`juggle/upthread.c:348-352`).
* **juggle unlocks a lock in memory it has freed**: the callback of a disarmed alarm frees its data in line
  277 and unlocks the lock in them in line 279. Between the two another vcore may get the memory from `malloc`.
  `FreedOnlyUnlocked` and its theorem say that this is the only use of freed alarm data, not that it is harmless. If
  the memory has become alarm data again, the write makes a lock free that is free or, if the other
  vcore is inside its own callback or entry at that moment, held without a contender; anything else
  that the memory has become is overwritten. No document of the repository says otherwise, so there is no run
  that refutes one.
* **A late detach keeps its TCB for ever**: `upthread_detach` only sets a flag. If the exit callback read
  it before, nobody frees the TCB; `MemoryAccounted` names exactly these (`late`).
* **`zombie_list` may exceed its limit**, by less than the number of vcores, as the size is read before the
  insertion without a lock.
* **The TCB of thread0 is recycled** with the stack of the process when main exits by
  `upthread_exit`, or unmapped.
* **Switching `can_vcore_request` off and on again while stealing is off can strand a
  thread** in the queue of a vcore nobody asks for. The runs for `NoneForgotten` and `ReadyRuns`
  leave the switch on.
* **Threads that return from system calls go to the head of their queue** and can starve
  those behind them; `ReadyRuns` of pvcq is for clients without system calls.
* **gq sees completed system calls only at vcore entry while its queue is busy**: the
  loop handles events when the queue is empty. `SyscallReturns` relies on parlib for the rest.

## Not modelled

Stack allocation and its failure; thread ids; attributes; `getattr_np`; TLS; statistics
and debug output; parlib itself; Lithe itself, and the files of `lithe/` that wrap its primitives;
tests and build. Of juggle: system calls, blocking and the tunables, which are the code of
pvcq and are modelled there. Barrier and semaphore destruction, and a barrier with more
threads than its count. `get_next_queue_id_tls_aware` has no caller. An unlock by a thread that does not hold the mutex, a second join,
a join of a detached thread that has exited: undefined by the interface, and undetected by the code (the join of
a detached thread that still exists is refused, and modelled).
`nwaiters` overflows after 2^31 waits; the bound on waits is far below.

## Plan

Written: `GlobalQueue` over `SchedOps`; `Mutex` over `LockSpec`; `CondVar` over `MonitorSpec`; `Futex`, `Semaphore`,
`Barrier`; `PerVcoreQueue` and `Juggle` over `SchedOps`; `ThreadLife` and `LitheThreads`; the proofs of all
their invariants and refinements.

Next, in this order:

1. The safety halves of the liveness properties, as `NobodyLeftBlocked` is that of `AllPass`: what
   `ReadyRuns`, `WaitReturns` and `JoinReturns` rest on at each point where a thread waits.
2. `PerVcoreQueue` for a number of vcores that grows while threads are placed: which ids are
   handed out, from which `NumStays` could be weakened.
