----------------------------- MODULE GlobalQueue -----------------------------
(***************************************************************************)
(* The gq scheduler (src/src/gq/upthread.c): one ready queue for all       *)
(* vcores, and the life of a thread from upthread_create to upthread_join. *)
(*                                                                         *)
(* A step is a stretch of code that other vcores cannot observe half done: *)
(* a critical section under queue_lock with the accesses to thread-private *)
(* memory around it, one atomic swap, one call into parlib.                *)
(***************************************************************************)
EXTENDS Integers, Sequences, FiniteSets, Functions

CONSTANTS
  Threads,    \* every thread there can be, thread0 included
  Main,       \* thread0
  VCores,
  NULL,
  MaxSpin,    \* max_spin_count, UPTHREAD_SPIN_COUNT
  ClientOps   \* the calls the client's threads make (bounds the workload)

AllOps == {"create", "create_detached", "join", "yield", "exit", "block", "wake",
           "syscall", "notify", "pause", "adjust"}

ASSUME GlobalQueueAssumption ==
  /\ Main \in Threads
  /\ VCores # {} /\ IsFiniteSet(VCores)
  /\ NULL \notin Threads
  /\ MaxSpin \in Nat
  /\ ClientOps \subseteq AllOps

VARIABLES
  \* globals of gq/upthread.c, under queue_lock (can_adjust_vcores is not)
  ready_queue, active_queue, threads_ready, threads_active, can_adjust_vcores,
  \* struct upthread_tcb: is it allocated, and its fields
  tcb, state, detached, joiner, retval,
  \* on the threads' stacks: the handles each thread may still join, and the
  \* thread it is inside upthread_join for
  handles, joining,
  \* per vcore: current_uthread, program counter, the thread an operation in
  \* progress is about, where that operation returns, the spin_count local
  current, vpc, arg, ret, spin_count,
  \* outside the scheduler: threads parked by an external blocker, threads
  \* in the kernel, syscall events not handled yet (first come, first handled),
  \* a vcore_request pending
  waiters, syscalls, events, wanted

globals  == <<ready_queue, active_queue, threads_ready, threads_active>>
tcbs     == <<tcb, state, detached, joiner, retval>>
stacks   == <<handles, joining>>
vcores   == <<current, vpc, arg, ret, spin_count>>
external == <<waiters, syscalls, events, wanted>>
vars     == <<globals, can_adjust_vcores, tcbs, stacks, vcores, external>>

Blocked == {"CREATED", "BLK_YIELDING", "BLK_JOINING", "BLK_SYSC", "BLK_PAUSED",
            "BLK_MUTEX"}
States  == Blocked \cup {"UNUSED", "RUNNABLE", "RUNNING", "EXITING"}

Labels == {"offline", "entry", "dequeue", "idle", "events", "uthread", "runnable",
           "request", "publish", "join_swap", "exit_sync"}
----------------------------------------------------------------------------
(* upthread_lib_init: thread0 is detached, running and active on one vcore. *)
Init ==
  \E v0 \in VCores :
  /\ ready_queue = <<>>
  /\ active_queue = {Main}
  /\ threads_ready = 0
  /\ threads_active = 1
  /\ can_adjust_vcores = TRUE
  /\ tcb = [t \in Threads |-> IF t = Main THEN "live" ELSE "unborn"]
  /\ state = [t \in Threads |-> IF t = Main THEN "RUNNING" ELSE "UNUSED"]
  /\ detached = [t \in Threads |-> t = Main]
  /\ joiner = [t \in Threads |-> NULL]
  /\ retval = [t \in Threads |-> FALSE]
  /\ handles = [t \in Threads |-> {}]
  /\ joining = [t \in Threads |-> NULL]
  /\ current = [v \in VCores |-> IF v = v0 THEN Main ELSE NULL]
  /\ vpc = [v \in VCores |-> IF v = v0 THEN "uthread" ELSE "offline"]
  /\ arg = [v \in VCores |-> NULL]
  /\ ret = [v \in VCores |-> "entry"]
  /\ spin_count = [v \in VCores |-> MaxSpin]
  /\ waiters = {}
  /\ syscalls = {}
  /\ events = <<>>
  /\ wanted = FALSE
----------------------------------------------------------------------------
(* Helpers.                                                                *)

Goto(v, l) == vpc' = [vpc EXCEPT ![v] = l]

\* uthread_runnable(t), which comes back to label l when it is done.
CallRunnable(v, t, l) ==
  /\ Goto(v, "runnable")
  /\ arg' = [arg EXCEPT ![v] = t]
  /\ ret' = [ret EXCEPT ![v] = l]

\* A callback of uthread_yield that has nothing more to do.
CallbackDone(v) ==
  /\ Goto(v, "entry")
  /\ arg' = [arg EXCEPT ![v] = NULL]
  /\ UNCHANGED ret

\* __upthread_generic_yield, when v has left the context of t.
GenericYield(v, t) ==
  /\ active_queue' = active_queue \ {t}
  /\ threads_active' = threads_active - 1
  /\ current' = [current EXCEPT ![v] = NULL]
  /\ UNCHANGED <<ready_queue, threads_ready>>

\* v executes the code of thread t, outside of upthread_join.
Executes(v, t) == vpc[v] = "uthread" /\ current[v] = t /\ t # NULL /\ joining[t] = NULL

Allowed(op) == op \in ClientOps
----------------------------------------------------------------------------
(* Seeded faults.  Each is an operation below with one plausible mistake;  *)
(* no specification uses them.  They measure the properties: with the      *)
(* fault in place of the operation, the property it is paired with fails.  *)

JoinSwap_Waking(v, wakes(_), whom(_)) ==
  /\ vpc[v] = "join_swap"
  /\ LET t == arg[v]  u == joining[t] IN
       /\ joiner' = [joiner EXCEPT ![u] = t]
       /\ IF wakes(u) THEN CallRunnable(v, whom(t), "entry") ELSE CallbackDone(v)
  /\ UNCHANGED <<globals, can_adjust_vcores, tcb, state, detached, retval, stacks, external,
                 current, spin_count>>

\* The joiner wakes itself whether or not it won the race.
JoinSwap_Always(v) == JoinSwap_Waking(v, LAMBDA u : TRUE, LAMBDA t : t)

\* The joiner wakes itself exactly when it should wait.
JoinSwap_Inverted(v) == JoinSwap_Waking(v, LAMBDA u : joiner[u] = NULL, LAMBDA t : t)

\* The joiner wakes "the exited one" (line 351).
JoinSwap_WrongThread(v) ==
  JoinSwap_Waking(v, LAMBDA u : joiner[u] # NULL, LAMBDA t : joiner[joining[t]])

JoinCall_When(v, t, u, exited, newstate) ==
  /\ Allowed("join") /\ Executes(v, t) /\ u \in handles[t]
  /\ handles' = [handles EXCEPT ![t] = @ \ {u}]
  /\ joining' = [joining EXCEPT ![t] = u]
  /\ \/ /\ ~exited
        /\ GenericYield(v, t)
        /\ state' = [state EXCEPT ![t] = newstate]
        /\ Goto(v, "join_swap")
        /\ arg' = [arg EXCEPT ![v] = t]
     \/ exited /\ UNCHANGED <<globals, state, current, vpc, arg>>
  /\ UNCHANGED <<can_adjust_vcores, tcb, detached, joiner, retval, external, ret, spin_count>>

\* The early check looks at the state instead of the joiner field.
JoinCall_StateCheck(v, t, u) ==
  JoinCall_When(v, t, u, state[u] = "EXITING", "BLK_JOINING")

\* The callback does not record why the thread stopped.
JoinCall_NoState(v, t, u) == JoinCall_When(v, t, u, joiner[u] # NULL, state[t])

\* A blocking system call forgets the active count.
Syscall_NoCount(v, t) ==
  /\ Allowed("syscall") /\ Executes(v, t)
  /\ active_queue' = active_queue \ {t}
  /\ current' = [current EXCEPT ![v] = NULL]
  /\ state' = [state EXCEPT ![t] = "BLK_SYSC"]
  /\ syscalls' = syscalls \cup {t}
  /\ Goto(v, "entry")
  /\ UNCHANGED <<ready_queue, threads_ready, threads_active, can_adjust_vcores, tcb, detached,
                 joiner, retval, stacks, arg, ret, waiters, events, wanted, spin_count>>

\* After the events the loop yields again without another look at the queue.
EventsDone_NoLook(v) ==
  /\ vpc[v] = "events" /\ events = <<>>
  /\ Goto(v, "idle")
  /\ UNCHANGED <<globals, can_adjust_vcores, tcbs, stacks, external, current, arg, ret,
                 spin_count>>

\* A woken thread goes to the front of the queue.
Runnable_AtHead(v) ==
  /\ vpc[v] = "runnable"
  /\ state' = [state EXCEPT ![arg[v]] = "RUNNABLE"]
  /\ ready_queue' = <<arg[v]>> \o ready_queue
  /\ threads_ready' = threads_ready + 1
  /\ Goto(v, "request")
  /\ UNCHANGED <<active_queue, threads_active, can_adjust_vcores, tcb, detached, joiner,
                 retval, stacks, external, current, arg, ret, spin_count>>

\* Vcore entry goes to the scheduler without handling the events first.
SchedEntry_NoEvents(v) ==
  /\ vpc[v] = "entry"
  /\ IF current[v] # NULL
     THEN Goto(v, "uthread") /\ UNCHANGED spin_count
     ELSE Goto(v, "dequeue") /\ spin_count' = [spin_count EXCEPT ![v] = MaxSpin]
  /\ UNCHANGED <<globals, can_adjust_vcores, tcbs, stacks, external, current, arg, ret>>
----------------------------------------------------------------------------
(* pth_sched_entry                                                         *)

\* parlib's vcore entry has handled the events.  run_current_uthread() goes back
\* to the thread that was interrupted; otherwise the dispatch loop starts with a
\* fresh spin_count.
SchedEntry(v) ==
  /\ vpc[v] = "entry" /\ events = <<>>
  /\ IF current[v] # NULL
     THEN Goto(v, "uthread") /\ UNCHANGED spin_count
     ELSE Goto(v, "dequeue") /\ spin_count' = [spin_count EXCEPT ![v] = MaxSpin]
  /\ UNCHANGED <<globals, can_adjust_vcores, tcbs, stacks, external, current, arg, ret>>

\* A thread is there: from the ready to the active queue, and run.  The state
\* field stays UPTH_RUNNABLE while the thread runs.  The local spin_count is dead
\* from here on, and is kept at MaxSpin.
DequeueThread(v) ==
  /\ vpc[v] = "dequeue" /\ ready_queue # <<>>
  /\ LET t == Head(ready_queue) IN
       /\ active_queue' = active_queue \cup {t}
       /\ current' = [current EXCEPT ![v] = t]
  /\ ready_queue' = Tail(ready_queue)
  /\ threads_active' = threads_active + 1
  /\ threads_ready' = threads_ready - 1
  /\ Goto(v, "uthread")
  /\ spin_count' = [spin_count EXCEPT ![v] = MaxSpin]
  /\ UNCHANGED <<can_adjust_vcores, tcbs, stacks, external, arg, ret>>

DequeueNothing(v) ==
  /\ vpc[v] = "dequeue" /\ ready_queue = <<>>
  /\ Goto(v, "idle")
  /\ UNCHANGED <<globals, can_adjust_vcores, tcbs, stacks, external, current, arg, ret,
                 spin_count>>

\* Line 92.  Once the count went below zero it never comes back to zero (short
\* of 2^32 rounds), so this visit to sched_entry does not yield again; -1 stands
\* for every negative count.
SpinDown(v) ==
  IF can_adjust_vcores
  THEN spin_count' = [spin_count EXCEPT ![v] = IF @ < 0 THEN -1 ELSE @ - 1]
  ELSE UNCHANGED spin_count

\* Not the time to yield, or vcore_yield() returned because an event came in.
KeepVCore(v) ==
  /\ vpc[v] = "idle"
  /\ SpinDown(v)
  /\ Goto(v, "events")
  /\ UNCHANGED <<globals, can_adjust_vcores, tcbs, stacks, external, current, arg, ret>>

\* vcore_yield() gives the vcore back, unless an event is waiting.
YieldVCore(v) ==
  /\ vpc[v] = "idle"
  /\ can_adjust_vcores /\ spin_count[v] = 0
  /\ events = <<>>
  /\ Goto(v, "offline")
  /\ spin_count' = [spin_count EXCEPT ![v] = MaxSpin]
  /\ UNCHANGED <<globals, can_adjust_vcores, tcbs, stacks, external, current, arg, ret>>

\* handle_events() found nothing more: back to the loop.
EventsDone(v) ==
  /\ vpc[v] = "events" /\ events = <<>>
  /\ Goto(v, "dequeue")
  /\ UNCHANGED <<globals, can_adjust_vcores, tcbs, stacks, external, current, arg, ret,
                 spin_count>>

\* pth_handle_syscall and restart_thread, called by handle_events() in the loop
\* or at vcore entry.
HandleSyscall(v) ==
  /\ vpc[v] \in {"entry", "events"} /\ events # <<>>
  /\ events' = Tail(events)
  /\ CallRunnable(v, Head(events), vpc[v])
  /\ UNCHANGED <<globals, can_adjust_vcores, tcbs, stacks, waiters, syscalls, wanted,
                 current, spin_count>>
----------------------------------------------------------------------------
(* pth_thread_runnable, called by uthread_runnable on a thread or on a     *)
(* vcore.  An unexpected state is reported and the thread enqueued anyway. *)

Runnable(v) ==
  /\ vpc[v] = "runnable"
  /\ state' = [state EXCEPT ![arg[v]] = "RUNNABLE"]
  /\ ready_queue' = Append(ready_queue, arg[v])
  /\ threads_ready' = threads_ready + 1
  /\ Goto(v, "request")
  /\ UNCHANGED <<active_queue, threads_active, can_adjust_vcores, tcb, detached, joiner,
                 retval, stacks, external, current, arg, ret, spin_count>>

\* can_adjust_vcores is read after queue_lock was released.
RequestVCore(v) ==
  /\ vpc[v] = "request"
  /\ wanted' = (wanted \/ can_adjust_vcores)
  /\ Goto(v, ret[v])
  /\ arg' = IF ret[v] = "publish" THEN arg ELSE [arg EXCEPT ![v] = NULL]
  /\ ret' = [ret EXCEPT ![v] = "entry"]
  /\ UNCHANGED <<globals, can_adjust_vcores, tcbs, stacks, waiters, syscalls, events,
                 current, spin_count>>
----------------------------------------------------------------------------
(* upthread_create: the thread is runnable before its handle is stored.    *)

Create(v, t, u, d) ==
  /\ Allowed(IF d THEN "create_detached" ELSE "create")
  /\ Executes(v, t) /\ tcb[u] = "unborn"
  /\ tcb' = [tcb EXCEPT ![u] = "live"]
  /\ state' = [state EXCEPT ![u] = "CREATED"]
  /\ detached' = [detached EXCEPT ![u] = d]
  /\ CallRunnable(v, u, "publish")
  /\ UNCHANGED <<globals, can_adjust_vcores, joiner, retval, stacks, external, current,
                 spin_count>>

\* *thread = upthread: the thread may have run and, if it is detached, be freed by
\* now.  `handles` are the threads a client may still join, each once; the test of
\* `detached` here is the client's, which knows what it created.
Publish(v) ==
  /\ vpc[v] = "publish"
  /\ handles' = IF detached[arg[v]] THEN handles
                ELSE [handles EXCEPT ![current[v]] = @ \cup {arg[v]}]
  /\ Goto(v, "uthread")
  /\ arg' = [arg EXCEPT ![v] = NULL]
  /\ UNCHANGED <<globals, can_adjust_vcores, tcbs, joining, external, current, ret,
                 spin_count>>
----------------------------------------------------------------------------
(* upthread_join and upthread_exit: they meet in the joiner field.         *)

\* The early check of the joiner field; then the front half of __pth_join_cb.
JoinCall(v, t, u) ==
  /\ Allowed("join") /\ Executes(v, t) /\ u \in handles[t]
  /\ handles' = [handles EXCEPT ![t] = @ \ {u}]
  /\ joining' = [joining EXCEPT ![t] = u]
  /\ \/ /\ joiner[u] = NULL
        /\ GenericYield(v, t)
        /\ state' = [state EXCEPT ![t] = "BLK_JOINING"]
        /\ Goto(v, "join_swap")
        /\ arg' = [arg EXCEPT ![v] = t]
     \/ /\ joiner[u] # NULL
        /\ UNCHANGED <<globals, state, current, vpc, arg>>
  /\ UNCHANGED <<can_adjust_vcores, tcb, detached, joiner, retval, external, ret, spin_count>>

\* A join of a detached thread, as long as there is one, is refused with -1.  After
\* that it reads freed memory, which a client must not ask for (lines 359-361).
JoinDetached(v, t, u) ==
  /\ Allowed("join") /\ Executes(v, t)
  /\ tcb[u] = "live" /\ detached[u]
  /\ UNCHANGED vars

\* The swap of __pth_join_cb.  Something in the slot means that the target
\* exited first and that the joiner wakes itself.
JoinSwap(v) ==
  /\ vpc[v] = "join_swap"
  /\ LET t == arg[v]  u == joining[t] IN
       /\ joiner' = [joiner EXCEPT ![u] = t]
       /\ IF joiner[u] # NULL THEN CallRunnable(v, t, "entry") ELSE CallbackDone(v)
  /\ UNCHANGED <<globals, can_adjust_vcores, tcb, state, detached, retval, stacks, external,
                 current, spin_count>>

\* The end of upthread_join: read retval, free the target.
JoinDone(v) ==
  /\ vpc[v] = "uthread" /\ current[v] # NULL
  /\ LET t == current[v]  u == joining[t] IN
       /\ u # NULL
       /\ tcb' = [tcb EXCEPT ![u] = "freed"]
       /\ joining' = [joining EXCEPT ![t] = NULL]
  /\ UNCHANGED <<globals, can_adjust_vcores, state, detached, joiner, retval, handles, vcores,
                 external>>

\* upthread_exit, and __pth_exit_cb up to the freeing of the stack.
Exit(v, t) ==
  /\ Allowed("exit") /\ Executes(v, t)
  /\ retval' = [retval EXCEPT ![t] = TRUE]
  /\ GenericYield(v, t)
  /\ state' = [state EXCEPT ![t] = "EXITING"]
  /\ Goto(v, "exit_sync")
  /\ arg' = [arg EXCEPT ![v] = t]
  /\ UNCHANGED <<can_adjust_vcores, tcb, detached, joiner, stacks, external, ret, spin_count>>

\* The end of __pth_exit_cb: free a detached thread, or swap the thread into
\* its own slot and wake the joiner that was there.
ExitSync(v) ==
  /\ vpc[v] = "exit_sync"
  /\ LET u == arg[v] IN
       \/ /\ detached[u]
          /\ tcb' = [tcb EXCEPT ![u] = "freed"]
          /\ CallbackDone(v)
          /\ UNCHANGED joiner
       \/ /\ ~detached[u]
          /\ joiner' = [joiner EXCEPT ![u] = u]
          /\ IF joiner[u] # NULL THEN CallRunnable(v, joiner[u], "entry") ELSE CallbackDone(v)
          /\ UNCHANGED tcb
  /\ UNCHANGED <<globals, can_adjust_vcores, state, detached, retval, stacks, external, current,
                 spin_count>>
----------------------------------------------------------------------------
(* The other ways to leave a vcore.                                        *)

\* upthread_yield and __pth_yield_cb.
Yield(v, t) ==
  /\ Allowed("yield") /\ Executes(v, t)
  /\ GenericYield(v, t)
  /\ state' = [state EXCEPT ![t] = "BLK_YIELDING"]
  /\ CallRunnable(v, t, "entry")
  /\ UNCHANGED <<can_adjust_vcores, tcb, detached, joiner, retval, stacks, external, spin_count>>

\* pth_thread_paused: parlib takes the interrupted thread off its vcore,
\* in the context of that vcore.
Pause(v) ==
  /\ Allowed("pause") /\ vpc[v] = "entry" /\ current[v] # NULL
  /\ GenericYield(v, current[v])
  /\ state' = [state EXCEPT ![current[v]] = "BLK_PAUSED"]
  /\ CallRunnable(v, current[v], "entry")
  /\ UNCHANGED <<can_adjust_vcores, tcb, detached, joiner, retval, stacks, external, spin_count>>

\* pth_thread_has_blocked, called by a blocker (a mutex, an alarm) that then
\* keeps the thread.
Block(v, t) ==
  /\ Allowed("block") /\ Executes(v, t)
  /\ GenericYield(v, t)
  /\ state' = [state EXCEPT ![t] = "BLK_MUTEX"]
  /\ waiters' = waiters \cup {t}
  /\ Goto(v, "entry")
  /\ UNCHANGED <<can_adjust_vcores, tcb, detached, joiner, retval, stacks, arg, ret, syscalls,
                 events, wanted, spin_count>>

\* pth_blockon_syscall; the kernel works on the call from then on.
Syscall(v, t) ==
  /\ Allowed("syscall") /\ Executes(v, t)
  /\ GenericYield(v, t)
  /\ state' = [state EXCEPT ![t] = "BLK_SYSC"]
  /\ syscalls' = syscalls \cup {t}
  /\ Goto(v, "entry")
  /\ UNCHANGED <<can_adjust_vcores, tcb, detached, joiner, retval, stacks, arg, ret, waiters,
                 events, wanted, spin_count>>

\* upthread_can_vcore_request
SetCanAdjust(v, t, can) ==
  /\ Allowed("adjust") /\ Executes(v, t)
  /\ can_adjust_vcores' = can
  /\ UNCHANGED <<globals, tcbs, stacks, vcores, external>>
----------------------------------------------------------------------------
(* The world outside: blockers, the kernel, the vcores.                    *)

\* A blocker gives a thread back: a thread that unlocks, or an alarm handler
\* that runs on a vcore.
Wake(v, t) ==
  /\ Allowed("wake") /\ t \in waiters
  /\ vpc[v] \in {"entry", "events"} \/ \E s \in Threads : Executes(v, s)
  /\ waiters' = waiters \ {t}
  /\ CallRunnable(v, t, vpc[v])
  /\ UNCHANGED <<globals, can_adjust_vcores, tcbs, stacks, syscalls, events, wanted, current,
                 spin_count>>

\* A notification interrupts the thread; current_uthread stays set.
Notify(v) ==
  /\ Allowed("notify") /\ vpc[v] = "uthread"
  /\ Goto(v, "entry")
  /\ UNCHANGED <<globals, can_adjust_vcores, tcbs, stacks, external, current, arg, ret,
                 spin_count>>

KernelCompletes(t) ==
  /\ t \in syscalls
  /\ syscalls' = syscalls \ {t}
  /\ events' = Append(events, t)
  /\ UNCHANGED <<globals, can_adjust_vcores, tcbs, stacks, vcores, waiters, wanted>>

\* The runtime grants a vcore that was asked for, or that an event is for.
VCoreUp(v) ==
  /\ vpc[v] = "offline"
  /\ wanted \/ events # <<>> \/ waiters # {}
  /\ wanted' = FALSE
  /\ Goto(v, "entry")
  /\ UNCHANGED <<globals, can_adjust_vcores, tcbs, stacks, waiters, syscalls, events, current,
                 arg, ret, spin_count>>

\* Every thread is gone and every vcore given back: nothing is left to do.
Finished ==
  /\ \A t \in Threads : state[t] \in {"UNUSED", "EXITING"}
  /\ \A v \in VCores : vpc[v] = "offline"
  /\ ~wanted
  /\ UNCHANGED vars
----------------------------------------------------------------------------
\* What a vcore does by itself: the 2LS, and library calls being completed.
RuntimeStep(v) ==
  \/ SchedEntry(v)
  \/ DequeueThread(v)
  \/ DequeueNothing(v)
  \/ KeepVCore(v)
  \/ YieldVCore(v)
  \/ EventsDone(v)
  \/ HandleSyscall(v)
  \/ Runnable(v)
  \/ RequestVCore(v)
  \/ Publish(v)
  \/ JoinSwap(v)
  \/ JoinDone(v)
  \/ ExitSync(v)

\* A call with which the thread gives up its vcore.
LeaveVCore(v) ==
  \E t \in Threads :
    \/ Yield(v, t)
    \/ Block(v, t)
    \/ Syscall(v, t)
    \/ Exit(v, t)

ClientStep(v) ==
  \/ LeaveVCore(v)
  \/ Pause(v)
  \/ Notify(v)
  \/ \E t, u \in Threads : JoinCall(v, t, u) \/ JoinDetached(v, t, u)
  \/ \E t, u \in Threads, d \in BOOLEAN : Create(v, t, u, d)
  \/ \E t \in Threads, can \in BOOLEAN : SetCanAdjust(v, t, can)
  \/ \E t \in Threads : Wake(v, t)

Next ==
  \/ \E v \in VCores : RuntimeStep(v)
  \/ \E v \in VCores : ClientStep(v)
  \/ \E v \in VCores : VCoreUp(v)
  \/ \E t \in Threads : KernelCompletes(t)
  \/ Finished

Spec == Init /\ [][Next]_vars

(* Fairness.  A vcore that holds code keeps executing it; the kernel       *)
(* completes the calls it took; the runtime grants vcores; and, since gq   *)
(* never preempts, every thread gives its vcore up now and then.           *)
Fairness ==
  /\ \A v \in VCores : WF_vars(RuntimeStep(v))
  /\ \A v \in VCores : SF_vars(LeaveVCore(v))
  /\ \A t \in Threads : WF_vars(KernelCompletes(t))
  /\ WF_vars(\E v \in VCores : VCoreUp(v))

FairSpec == Spec /\ Fairness
----------------------------------------------------------------------------
(* Properties.                                                             *)

TypeOK ==
  /\ ready_queue \in Seq(Threads)
  /\ active_queue \subseteq Threads
  /\ threads_ready \in Int /\ threads_active \in Int
  /\ can_adjust_vcores \in BOOLEAN
  /\ tcb \in [Threads -> {"unborn", "live", "freed"}]
  /\ state \in [Threads -> States]
  /\ detached \in [Threads -> BOOLEAN]
  /\ joiner \in [Threads -> Threads \cup {NULL}]
  /\ retval \in [Threads -> BOOLEAN]
  /\ handles \in [Threads -> SUBSET Threads]
  /\ joining \in [Threads -> Threads \cup {NULL}]
  /\ current \in [VCores -> Threads \cup {NULL}]
  /\ vpc \in [VCores -> Labels]
  /\ arg \in [VCores -> Threads \cup {NULL}]
  /\ ret \in [VCores -> {"entry", "events", "uthread", "publish"}]
  /\ spin_count \in [VCores -> -1 .. MaxSpin]
  /\ waiters \subseteq Threads /\ syscalls \subseteq Threads /\ events \in Seq(Threads)
  /\ wanted \in BOOLEAN

\* The places a thread can be in: running on v, queued, with a blocker, in the
\* kernel, in a syscall event, or in the hands of a vcore that is about to
\* enqueue it.
HandedTo(v) == IF vpc[v] = "runnable" THEN {arg[v]} ELSE {}

\* "If you see what looks like the same uthread running in multiple places, your
\* list might be jacked up" (gq/upthread.c:79): no thread is on two vcores, or
\* twice in the queues, or both queued and running, or woken twice at once.
OnePlacePerThread ==
  /\ IsInjective(ready_queue)
  /\ \A v, w \in VCores : v # w /\ current[v] # NULL => current[v] # current[w]
  /\ \A v, w \in VCores : v # w => HandedTo(v) \cap HandedTo(w) = {}
  /\ \A v \in VCores : HandedTo(v) \cap (Range(ready_queue) \cup Range(current)) = {}
  /\ Range(ready_queue) \cap (Range(current) \cup waiters \cup syscalls \cup Range(events)) = {}

\* pth_thread_runnable never meets an "Odd state" (lines 116-127): whoever wakes
\* a thread, a joiner, a blocker or a syscall event, does so after the thread
\* recorded why it stopped.
NoOddWake == \A v \in VCores : vpc[v] = "runnable" => state[arg[v]] \in Blocked

\* The TCBs that the next step of v reads or writes.
Touches(v) ==
  CASE vpc[v] \in {"runnable", "exit_sync"} -> {arg[v]}
    [] vpc[v] = "join_swap" -> {arg[v], joining[arg[v]]}
    [] vpc[v] = "uthread" /\ current[v] # NULL -> {current[v], joining[current[v]]} \ {NULL}
    [] OTHER -> {}

\* Nobody uses a TCB that upthread_join or the exit of a detached thread freed, and
\* none is freed twice; and however fast a joinable thread runs and exits, the handle
\* its creator has still to store, or has stored, leads to its TCB until the join.
NoUseAfterFree ==
  /\ \A v \in VCores : \A t \in Touches(v) : tcb[t] = "live"
  /\ \A v \in VCores : vpc[v] = "publish" /\ ~detached[arg[v]] => tcb[arg[v]] = "live"
  /\ \A t \in Threads : \A u \in handles[t] : tcb[u] = "live"

\* When upthread_join reads retval and frees the target, the target has stored
\* it, is off its stack, and its exit callback no longer needs the TCB.
JoinSeesExit ==
  \A v \in VCores : \A t, u \in Threads :
    vpc[v] = "uthread" /\ current[v] = t /\ joining[t] = u =>
      /\ retval[u] /\ state[u] = "EXITING" /\ joiner[u] # NULL
      /\ \A w \in VCores : w # v => u \notin Touches(w)

\* The counters and the active queue "keep us honest" (lines 322-324): the
\* active threads are exactly the ones on a vcore, however they left it.
Accounting ==
  /\ threads_ready = Len(ready_queue)
  /\ threads_active = Cardinality(active_queue)
  /\ active_queue = Range(current) \ {NULL}

\* A ready thread is never forgotten: while the ready queue holds one, some vcore
\* has still to look at the queue before it can give itself back.
SomeVCoreWillLook ==
  ready_queue # <<>> => \E v \in VCores : vpc[v] \notin {"offline", "idle"}

\* The 2LS contract: every thread goes through the phases of SchedOps, and at
\* most as many run as there are vcores.
phaseOf == [t \in Threads |->
  CASE tcb[t] = "unborn" -> "unborn"
    [] state[t] = "EXITING" -> "dead"
    [] t \in active_queue -> "running"
    [] t \in Range(ready_queue) -> "runnable"
    [] OTHER -> "parked"]

Contract == INSTANCE SchedOps WITH phase <- phaseOf, Capacity <- Cardinality(VCores)
SchedContract == Contract!Spec

\* A thread made runnable gets to run: FIFO order, and no vcore idles for ever
\* beside a ready thread.
ReadyRuns ==
  \A t \in Threads : t \in Range(ready_queue) ~> t \in Range(current)

\* A system call returns: the thread whose call the kernel completed runs again.
SyscallReturns ==
  \A t \in Threads : t \in syscalls \cup Range(events) ~> t \in Range(current)
============================================================================
