---------------------------- MODULE PerVcoreQueue ----------------------------
(***************************************************************************)
(* The pvcq scheduler (src/src/pvcq/upthread.c): one ready queue for each  *)
(* vcore, the placing of new threads, and work stealing.                   *)
(*                                                                         *)
(* The module is about the queues.  Join, exit and detach are those of gq, *)
(* line by line; here a thread blocks (in a join, on a mutex), is woken by *)
(* somebody, and dies.  tqsize(i) is the length of queue i: each changes   *)
(* with the other under tqlock(i), and a reader without the lock sees the  *)
(* length the queue had before or after the section it runs into.          *)
(***************************************************************************)
EXTENDS Integers, Sequences, FiniteSets, Functions

CONSTANTS
  Threads,
  Main,        \* thread0
  NULL,
  MaxVCores,   \* max_vcores()
  MaxSpin,     \* max_spin_count, UPTHREAD_SPIN_COUNT
  SetNums,     \* arguments of upthread_set_num_vcores
  MaxWaiting,  \* a bound: threads that wait for a client's wakeup at once
  ClientOps    \* the calls the client's threads make (bounds the workload)

VCores == 0 .. MaxVCores - 1

AllOps == {"create", "yield", "exit", "block", "wake", "syscall", "pause",
           "set_num", "set_steal", "set_short_circuit", "set_adjust"}

ASSUME PerVcoreQueueAssumption ==
  /\ IsFiniteSet(Threads) /\ Main \in Threads /\ NULL \notin Threads
  /\ MaxVCores \in Nat \ {0} /\ MaxSpin \in Nat
  /\ SetNums \subseteq Nat \ {0} /\ MaxWaiting \in Nat
  /\ ClientOps \subseteq AllOps

VARIABLES
  tqueue, next_queue_id, nr_vcores,             \* the queues and the placing of threads
  can_steal, can_adjust_vcores, ss_yield,       \* tunables
  state, preferred_vcq,                         \* fields of struct upthread_tcb
  \* per vcore: current_uthread, program counter, the thread being made runnable
  \* or moved, where pth_thread_runnable returns, the spin_count local
  current_uthread, vpc, arg, ret, spin_count,
  \* per vcore, locals of __pth_thread_enqueue (id, next_id) and of
  \* __pth_thread_dequeue (vcoreid of steal_threads, the threads left to steal,
  \* the first stolen thread, whether this is the loop over all vcores)
  qid, next_id, victim, num_to_steal, stolen, looping,
  waiters, syscalls, events, wanted             \* outside the scheduler

placing   == <<next_queue_id, nr_vcores>>
tunables  == <<can_steal, can_adjust_vcores, ss_yield>>
enqueuing == <<qid, next_id>>
stealing  == <<victim, num_to_steal, stolen, looping>>
external  == <<waiters, syscalls, events, wanted>>
vars == <<tqueue, placing, tunables, state, preferred_vcq, current_uthread, vpc, arg, ret,
          spin_count, enqueuing, stealing, external>>

Blocked == {"CREATED", "BLK_YIELDING", "BLK_SYSC", "BLK_PAUSED", "BLK_MUTEX"}
States  == Blocked \cup {"UNUSED", "RUNNABLE", "RUNNING", "EXITING"}

\* After an own queue found empty: choose and scan a victim, take its first
\* thread, the next ones, put those in the own queue; idle: about to yield; paused
\* and unlock: only in juggle, where its alarm callback comes back from
\* pth_thread_paused, and where it unlocks.
Labels == {"offline", "entry", "dequeue", "choose", "scan", "steal_first", "steal_next",
           "steal_put", "idle", "events", "uthread", "runnable", "read_id", "read_nr",
           "cas_id", "enqueue", "request", "set_num", "paused", "unlock"}
----------------------------------------------------------------------------
Init ==
  /\ tqueue = [q \in VCores |-> <<>>]
  /\ nr_vcores = MaxVCores
  /\ next_queue_id = IF MaxVCores > 1 THEN 1 ELSE 0
  /\ can_steal = TRUE /\ can_adjust_vcores = TRUE /\ ss_yield = TRUE
  /\ state = [t \in Threads |-> IF t = Main THEN "RUNNING" ELSE "UNUSED"]
  /\ preferred_vcq = [t \in Threads |-> 0]
  /\ current_uthread = [v \in VCores |-> IF v = 0 THEN Main ELSE NULL]
  /\ vpc = [v \in VCores |-> IF v = 0 THEN "uthread" ELSE "offline"]
  /\ arg = [v \in VCores |-> NULL]
  /\ ret = [v \in VCores |-> "entry"]
  /\ spin_count = [v \in VCores |-> MaxSpin]
  /\ qid = [v \in VCores |-> 0] /\ next_id = [v \in VCores |-> 0]
  /\ victim = [v \in VCores |-> 0] /\ num_to_steal = [v \in VCores |-> 0]
  /\ stolen = [v \in VCores |-> NULL] /\ looping = [v \in VCores |-> FALSE]
  /\ waiters = {} /\ syscalls = {} /\ events = <<>> /\ wanted = {}

Goto(v, l) == vpc' = [vpc EXCEPT ![v] = l]

CallRunnable(v, t, l) ==
  /\ Goto(v, "runnable")
  /\ arg' = [arg EXCEPT ![v] = t]
  /\ ret' = [ret EXCEPT ![v] = l]

\* v executes the code of thread t.
Executes(v, t) == vpc[v] = "uthread" /\ current_uthread[v] = t /\ t # NULL

Allowed(op) == op \in ClientOps

\* run_uthread on the thread the dispatch loop came back with.  The locals of the
\* loop and of the steal are gone.
Run(v, t) ==
  /\ state' = [state EXCEPT ![t] = "RUNNING"]
  /\ current_uthread' = [current_uthread EXCEPT ![v] = t]
  /\ Goto(v, "uthread")
  /\ spin_count' = [spin_count EXCEPT ![v] = MaxSpin]
  /\ victim' = [victim EXCEPT ![v] = 0]
  /\ num_to_steal' = [num_to_steal EXCEPT ![v] = 0]
  /\ stolen' = [stolen EXCEPT ![v] = NULL]
  /\ looping' = [looping EXCEPT ![v] = FALSE]
----------------------------------------------------------------------------
(* Seeded faults: an operation with one plausible mistake each.  No        *)
(* specification uses them; in place of the operation, each makes the      *)
(* property it is paired with fail.                                        *)

\* The thief enqueues the stolen threads but leaves them with their owner too.
StealNext_NoRemove(v) ==
  /\ vpc[v] = "steal_next"
  /\ \/ /\ num_to_steal[v] > 0 /\ tqueue[victim[v]] # <<>>
        /\ arg' = [arg EXCEPT ![v] = Head(tqueue[victim[v]])]
        /\ preferred_vcq' = [preferred_vcq EXCEPT ![Head(tqueue[victim[v]])] = v]
        /\ Goto(v, "steal_put")
        /\ UNCHANGED <<tqueue, state, current_uthread, spin_count, stealing>>
     \/ /\ num_to_steal[v] = 0 \/ tqueue[victim[v]] = <<>>
        /\ Run(v, stolen[v])
        /\ UNCHANGED <<tqueue, preferred_vcq, arg>>
  /\ UNCHANGED <<placing, tunables, ret, enqueuing, external>>

\* The thief runs the first thread but leaves it in the queue of its victim.
StealFirst_NoRemove(v) ==
  /\ vpc[v] = "steal_first" /\ tqueue[victim[v]] # <<>>
  /\ preferred_vcq' = [preferred_vcq EXCEPT ![Head(tqueue[victim[v]])] = v]
  /\ stolen' = [stolen EXCEPT ![v] = Head(tqueue[victim[v]])]
  /\ num_to_steal' = [num_to_steal EXCEPT ![v] = @ - 1]
  /\ Goto(v, "steal_next")
  /\ UNCHANGED <<tqueue, placing, tunables, state, current_uthread, arg, ret, spin_count,
                 enqueuing, victim, looping, external>>

\* The vcore asked for is the default 0, not the one of the queue.
RequestVCore_Zero(v) ==
  /\ vpc[v] = "request"
  /\ wanted' = IF can_adjust_vcores THEN wanted \cup {0} ELSE wanted
  /\ Goto(v, ret[v])
  /\ arg' = [arg EXCEPT ![v] = NULL]
  /\ ret' = [ret EXCEPT ![v] = "entry"]
  /\ qid' = [qid EXCEPT ![v] = 0]
  /\ UNCHANGED <<tqueue, placing, tunables, state, preferred_vcq, current_uthread, spin_count,
                 next_id, stealing, waiters, syscalls, events>>

\* Every woken thread goes to the head, as one that made a system call does.
Insert_AtHead(q, t, athead) == [tqueue EXCEPT ![q] = <<t>> \o @]
----------------------------------------------------------------------------
(* __pth_thread_enqueue and get_next_queue_id_basic, called by             *)
(* pth_thread_runnable.                                                    *)

Insert(q, t, athead) ==
  [tqueue EXCEPT ![q] = IF athead THEN <<t>> \o @ ELSE Append(@, t)]

\* A thread that ran before goes to the queue it was last dispatched from, to
\* its head after a system call.  A new one needs a queue first.  A thread in an
\* odd state is reported and goes nowhere.
Runnable(v) ==
  /\ vpc[v] = "runnable"
  /\ LET t == arg[v] IN
       \/ /\ state[t] = "CREATED"
          /\ state' = [state EXCEPT ![t] = "RUNNABLE"]
          /\ Goto(v, "read_id")
          /\ UNCHANGED <<tqueue, qid>>
       \/ /\ state[t] # "CREATED"
          /\ IF state[t] \in Blocked
             THEN /\ state' = [state EXCEPT ![t] = "RUNNABLE"]
                  /\ tqueue' = Insert(preferred_vcq[t], t, state[t] = "BLK_SYSC")
                  /\ qid' = [qid EXCEPT ![v] = preferred_vcq[t]]
             ELSE UNCHANGED <<state, tqueue, qid>>
          /\ Goto(v, "request")
  /\ UNCHANGED <<placing, tunables, preferred_vcq, current_uthread, arg, ret, spin_count, next_id,
                 stealing, external>>

\* next_queue_id and nr_vcores are two reads without a lock.
ReadId(v) ==
  /\ vpc[v] = "read_id"
  /\ qid' = [qid EXCEPT ![v] = next_queue_id]
  /\ Goto(v, "read_nr")
  /\ UNCHANGED <<tqueue, placing, tunables, state, preferred_vcq, current_uthread, arg, ret,
                 spin_count, next_id, stealing, external>>

\* The successor wraps only when it is equal.
ReadNr(v) ==
  /\ vpc[v] = "read_nr"
  /\ next_id' = [next_id EXCEPT ![v] = IF qid[v] + 1 = nr_vcores THEN 0 ELSE qid[v] + 1]
  /\ Goto(v, "cas_id")
  /\ UNCHANGED <<tqueue, placing, tunables, state, preferred_vcq, current_uthread, arg, ret,
                 spin_count, qid, stealing, external>>

CasId(v) ==
  /\ vpc[v] = "cas_id"
  /\ IF next_queue_id = qid[v]
     THEN /\ next_queue_id' = next_id[v]
          /\ preferred_vcq' = [preferred_vcq EXCEPT ![arg[v]] = qid[v]]
          /\ Goto(v, "enqueue")
     ELSE /\ Goto(v, "read_id")
          /\ UNCHANGED <<next_queue_id, preferred_vcq>>
  /\ next_id' = [next_id EXCEPT ![v] = 0]
  /\ UNCHANGED <<tqueue, nr_vcores, tunables, state, current_uthread, arg, ret, spin_count, qid,
                 stealing, external>>

EnqueueNew(v) ==
  /\ vpc[v] = "enqueue"
  /\ tqueue' = Insert(qid[v], arg[v], FALSE)
  /\ Goto(v, "request")
  /\ UNCHANGED <<placing, tunables, state, preferred_vcq, current_uthread, arg, ret, spin_count,
                 enqueuing, stealing, external>>

\* vcore_request_specific(qid)
RequestVCore(v) ==
  /\ vpc[v] = "request"
  /\ wanted' = IF can_adjust_vcores THEN wanted \cup {qid[v]} ELSE wanted
  /\ Goto(v, ret[v])
  /\ arg' = [arg EXCEPT ![v] = NULL]
  /\ ret' = [ret EXCEPT ![v] = "entry"]
  /\ qid' = [qid EXCEPT ![v] = 0]
  /\ UNCHANGED <<tqueue, placing, tunables, state, preferred_vcq, current_uthread, spin_count,
                 next_id, stealing, waiters, syscalls, events>>
----------------------------------------------------------------------------
(* __pth_thread_dequeue                                                    *)

DequeueOwn(v) ==
  /\ vpc[v] = "dequeue" /\ tqueue[v] # <<>>
  /\ tqueue' = [tqueue EXCEPT ![v] = Tail(@)]
  /\ preferred_vcq' = [preferred_vcq EXCEPT ![Head(tqueue[v])] = v]
  /\ Run(v, Head(tqueue[v]))
  /\ UNCHANGED <<placing, tunables, arg, ret, enqueuing, external>>

DequeueNothing(v) ==
  /\ vpc[v] = "dequeue" /\ tqueue[v] = <<>>
  /\ Goto(v, IF can_steal THEN "choose" ELSE "idle")
  /\ UNCHANGED <<tqueue, placing, tunables, state, preferred_vcq, current_uthread, arg, ret,
                 spin_count, enqueuing, stealing, external>>

\* steal_threads() came back from queue q with nothing: the loop over all other
\* vcores.
NextVictim(v, q) ==
  LET next == ((IF looping[v] THEN q ELSE v) + 1) % MaxVCores IN
  IF next = v
  THEN /\ Goto(v, "idle")
       /\ victim' = [victim EXCEPT ![v] = 0]
       /\ looping' = [looping EXCEPT ![v] = FALSE]
  ELSE /\ Goto(v, "scan")
       /\ victim' = [victim EXCEPT ![v] = next]
       /\ looping' = [looping EXCEPT ![v] = TRUE]

\* Half of the threads queue q holds now.
StealFrom(v, q) ==
  /\ LET n == (Len(tqueue[q]) + 1) \div 2 IN
       \/ /\ n > 0
          /\ num_to_steal' = [num_to_steal EXCEPT ![v] = n]
          /\ victim' = [victim EXCEPT ![v] = q]
          /\ Goto(v, "steal_first")
          /\ UNCHANGED looping
       \/ n = 0 /\ NextVictim(v, q) /\ UNCHANGED num_to_steal
  /\ UNCHANGED <<tqueue, placing, tunables, state, preferred_vcq, current_uthread, arg, ret,
                 spin_count, enqueuing, stolen, external>>

\* First the better of two random choices: any queue, the own one included.
ChooseVictim(v) == vpc[v] = "choose" /\ \E q \in VCores : StealFrom(v, q)

ScanVictim(v) == vpc[v] = "scan" /\ StealFrom(v, victim[v])

\* The queue may have been emptied since.
StealFirst(v) ==
  /\ vpc[v] = "steal_first"
  /\ LET q == tqueue[victim[v]] IN
       \/ /\ q # <<>>
          /\ tqueue' = [tqueue EXCEPT ![victim[v]] = Tail(q)]
          /\ preferred_vcq' = [preferred_vcq EXCEPT ![Head(q)] = v]
          /\ stolen' = [stolen EXCEPT ![v] = Head(q)]
          /\ num_to_steal' = [num_to_steal EXCEPT ![v] = @ - 1]
          /\ Goto(v, "steal_next")
          /\ UNCHANGED <<victim, looping>>
       \/ /\ q = <<>>
          /\ NextVictim(v, victim[v])
          /\ num_to_steal' = [num_to_steal EXCEPT ![v] = 0]
          /\ UNCHANGED <<tqueue, preferred_vcq, stolen>>
  /\ UNCHANGED <<placing, tunables, state, current_uthread, arg, ret, spin_count, enqueuing,
                 external>>

\* One more thread, or run the first one.
StealNext(v) ==
  /\ vpc[v] = "steal_next"
  /\ LET q == tqueue[victim[v]] IN
       \/ /\ num_to_steal[v] > 0 /\ q # <<>>
          /\ tqueue' = [tqueue EXCEPT ![victim[v]] = Tail(q)]
          /\ preferred_vcq' = [preferred_vcq EXCEPT ![Head(q)] = v]
          /\ arg' = [arg EXCEPT ![v] = Head(q)]
          /\ Goto(v, "steal_put")
          /\ UNCHANGED <<state, current_uthread, spin_count, stealing>>
       \/ /\ num_to_steal[v] = 0 \/ q = <<>>
          /\ Run(v, stolen[v])
          /\ UNCHANGED <<tqueue, preferred_vcq, arg>>
  /\ UNCHANGED <<placing, tunables, ret, enqueuing, external>>

\* The stolen thread joins the queue of the thief, which requests no vcore.
StealPut(v) ==
  /\ vpc[v] = "steal_put"
  /\ tqueue' = Insert(v, arg[v], FALSE)
  /\ num_to_steal' = [num_to_steal EXCEPT ![v] = @ - 1]
  /\ arg' = [arg EXCEPT ![v] = NULL]
  /\ Goto(v, "steal_next")
  /\ UNCHANGED <<placing, tunables, state, preferred_vcq, current_uthread, ret, spin_count,
                 enqueuing, victim, stolen, looping, external>>
----------------------------------------------------------------------------
(* pth_sched_entry, around the dequeue; as in gq.                          *)

SchedEntry(v) ==
  /\ vpc[v] = "entry" /\ events = <<>>
  /\ IF current_uthread[v] # NULL
     THEN Goto(v, "uthread") /\ UNCHANGED spin_count
     ELSE Goto(v, "dequeue") /\ spin_count' = [spin_count EXCEPT ![v] = MaxSpin]
  /\ UNCHANGED <<tqueue, placing, tunables, state, preferred_vcq, current_uthread, arg, ret,
                 enqueuing, stealing, external>>

\* Not the time to yield, or vcore_yield() returned at once.  A count below zero
\* never comes back to zero; -1 stands for all of them.
KeepVCore(v) ==
  /\ vpc[v] = "idle"
  /\ spin_count' = IF can_adjust_vcores
                   THEN [spin_count EXCEPT ![v] = IF @ < 0 THEN -1 ELSE @ - 1]
                   ELSE spin_count
  /\ Goto(v, "events")
  /\ UNCHANGED <<tqueue, placing, tunables, state, preferred_vcq, current_uthread, arg, ret,
                 enqueuing, stealing, external>>

YieldVCore(v) ==
  /\ vpc[v] = "idle" /\ can_adjust_vcores /\ spin_count[v] = 0 /\ events = <<>>
  /\ Goto(v, "offline")
  /\ spin_count' = [spin_count EXCEPT ![v] = MaxSpin]
  /\ UNCHANGED <<tqueue, placing, tunables, state, preferred_vcq, current_uthread, arg, ret,
                 enqueuing, stealing, external>>

EventsDone(v) ==
  /\ vpc[v] = "events" /\ events = <<>>
  /\ Goto(v, "dequeue")
  /\ UNCHANGED <<tqueue, placing, tunables, state, preferred_vcq, current_uthread, arg, ret,
                 spin_count, enqueuing, stealing, external>>

HandleSyscall(v) ==
  /\ vpc[v] \in {"entry", "events"} /\ events # <<>>
  /\ events' = Tail(events)
  /\ CallRunnable(v, Head(events), vpc[v])
  /\ UNCHANGED <<tqueue, placing, tunables, state, preferred_vcq, current_uthread, spin_count,
                 enqueuing, stealing, waiters, syscalls, wanted>>
----------------------------------------------------------------------------
(* Calls of the client's threads.                                          *)

Create(v, t, u) ==
  /\ Allowed("create") /\ Executes(v, t) /\ state[u] = "UNUSED"
  /\ state' = [state EXCEPT ![u] = "CREATED"]
  /\ CallRunnable(v, u, "uthread")
  /\ UNCHANGED <<tqueue, placing, tunables, preferred_vcq, current_uthread, spin_count, enqueuing,
                 stealing, external>>

\* A thread leaves its vcore: nothing is counted.
Leave(v, t, newstate) ==
  /\ state' = [state EXCEPT ![t] = newstate]
  /\ current_uthread' = [current_uthread EXCEPT ![v] = NULL]
  /\ UNCHANGED <<tqueue, placing, tunables, preferred_vcq, spin_count, enqueuing, stealing>>

\* With the short circuit and an empty queue of its own, upthread_yield does
\* nothing; __pth_yield_cb otherwise.
Yield(v, t) ==
  /\ Allowed("yield") /\ Executes(v, t)
  /\ ss_yield => tqueue[v] # <<>>
  /\ Leave(v, t, "BLK_YIELDING")
  /\ CallRunnable(v, t, "entry")
  /\ UNCHANGED external

\* A notification took the thread off its vcore: pth_thread_paused.
Pause(v, t) ==
  /\ Allowed("pause") /\ Executes(v, t)
  /\ Leave(v, t, "BLK_PAUSED")
  /\ CallRunnable(v, t, "entry")
  /\ UNCHANGED external

\* pth_thread_has_blocked, or a join: somebody else has to wake the thread.
Block(v, t) ==
  /\ Allowed("block") /\ Executes(v, t) /\ Cardinality(waiters) < MaxWaiting
  /\ Leave(v, t, "BLK_MUTEX")
  /\ waiters' = waiters \cup {t}
  /\ Goto(v, "entry")
  /\ UNCHANGED <<arg, ret, syscalls, events, wanted>>

Syscall(v, t) ==
  /\ Allowed("syscall") /\ Executes(v, t)
  /\ Leave(v, t, "BLK_SYSC")
  /\ syscalls' = syscalls \cup {t}
  /\ Goto(v, "entry")
  /\ UNCHANGED <<arg, ret, waiters, events, wanted>>

\* __pth_exit_cb wakes the joiner, when there is one already.
Exit(v, t) ==
  /\ Allowed("exit") /\ Executes(v, t)
  /\ Leave(v, t, "EXITING")
  /\ \/ Goto(v, "entry") /\ UNCHANGED <<arg, ret, waiters>>
     \/ \E u \in waiters : CallRunnable(v, u, "entry") /\ waiters' = waiters \ {u}
  /\ UNCHANGED <<syscalls, events, wanted>>

\* A thread unlocks, signals or posts: it makes a blocked thread runnable.
Wake(v, t, u) ==
  /\ Allowed("wake") /\ Executes(v, t) /\ u \in waiters
  /\ waiters' = waiters \ {u}
  /\ CallRunnable(v, u, "uthread")
  /\ UNCHANGED <<tqueue, placing, tunables, state, preferred_vcq, current_uthread, spin_count,
                 enqueuing, stealing, syscalls, events, wanted>>

\* upthread_set_num_vcores: two plain writes, no lock.
SetNumVCores(v, t, num) ==
  /\ Allowed("set_num") /\ Executes(v, t)
  /\ nr_vcores' = IF num < MaxVCores THEN num ELSE MaxVCores
  /\ Goto(v, "set_num")
  /\ UNCHANGED <<tqueue, next_queue_id, tunables, state, preferred_vcq, current_uthread, arg, ret,
                 spin_count, enqueuing, stealing, external>>

ResetQueueId(v) ==
  /\ vpc[v] = "set_num"
  /\ next_queue_id' = IF nr_vcores > 1 THEN 1 ELSE 0
  /\ Goto(v, "uthread")
  /\ UNCHANGED <<tqueue, nr_vcores, tunables, state, preferred_vcq, current_uthread, arg, ret,
                 spin_count, enqueuing, stealing, external>>

\* The three switches; thread0 turns them, as in the tests (a bound).
SetTunable(v, on) ==
  /\ Executes(v, Main)
  /\ \/ /\ Allowed("set_steal") /\ can_steal' = on
        /\ UNCHANGED <<can_adjust_vcores, ss_yield>>
     \/ /\ Allowed("set_short_circuit") /\ ss_yield' = on
        /\ UNCHANGED <<can_steal, can_adjust_vcores>>
     \/ /\ Allowed("set_adjust") /\ can_adjust_vcores' = on
        /\ UNCHANGED <<can_steal, ss_yield>>
  /\ UNCHANGED <<tqueue, placing, state, preferred_vcq, current_uthread, vpc, arg, ret,
                 spin_count, enqueuing, stealing, external>>
----------------------------------------------------------------------------
(* The kernel and the runtime.                                             *)

KernelCompletes(t) ==
  /\ t \in syscalls
  /\ syscalls' = syscalls \ {t}
  /\ events' = Append(events, t)
  /\ UNCHANGED <<tqueue, placing, tunables, state, preferred_vcq, current_uthread, vpc, arg, ret,
                 spin_count, enqueuing, stealing, waiters, wanted>>

\* A vcore that was asked for comes up, at once or when it next gives itself back.
VCoreUp(v) ==
  /\ vpc[v] = "offline"
  /\ v \in wanted \/ events # <<>>
  /\ wanted' = wanted \ {v}
  /\ Goto(v, "entry")
  /\ UNCHANGED <<tqueue, placing, tunables, state, preferred_vcq, current_uthread, arg, ret,
                 spin_count, enqueuing, stealing, waiters, syscalls, events>>

\* Every vcore is given back and every thread gone, or left waiting by the others.
Finished ==
  /\ \A t \in Threads : state[t] \in {"UNUSED", "EXITING", "BLK_MUTEX"}
  /\ \A v \in VCores : vpc[v] = "offline" /\ v \notin wanted
  /\ UNCHANGED vars
----------------------------------------------------------------------------
RuntimeStep(v) ==
  \/ Runnable(v)
  \/ ReadId(v)
  \/ ReadNr(v)
  \/ CasId(v)
  \/ EnqueueNew(v)
  \/ RequestVCore(v)
  \/ DequeueOwn(v)
  \/ DequeueNothing(v)
  \/ ChooseVictim(v)
  \/ ScanVictim(v)
  \/ StealFirst(v)
  \/ StealNext(v)
  \/ StealPut(v)
  \/ SchedEntry(v)
  \/ KeepVCore(v)
  \/ YieldVCore(v)
  \/ EventsDone(v)
  \/ HandleSyscall(v)
  \/ ResetQueueId(v)

LeaveVCore(v) ==
  \E t \in Threads :
    \/ Yield(v, t)
    \/ Block(v, t)
    \/ Syscall(v, t)
    \/ Exit(v, t)

ClientStep(v) ==
  \/ LeaveVCore(v)
  \/ \E t \in Threads : Pause(v, t)
  \/ \E t, u \in Threads : Create(v, t, u) \/ Wake(v, t, u)
  \/ \E t \in Threads, num \in SetNums : SetNumVCores(v, t, num)
  \/ \E on \in BOOLEAN : SetTunable(v, on)

Next ==
  \/ \E v \in VCores : RuntimeStep(v)
  \/ \E v \in VCores : ClientStep(v)
  \/ \E v \in VCores : VCoreUp(v)
  \/ \E t \in Threads : KernelCompletes(t)
  \/ Finished

Spec == Init /\ [][Next]_vars

(* Fairness.  A vcore that holds code keeps executing it; the runtime      *)
(* brings up each vcore that was asked for; the kernel completes its       *)
(* calls; every thread now and then makes a call that gives its vcore up.  *)
Fairness ==
  /\ \A v \in VCores : WF_vars(RuntimeStep(v)) /\ SF_vars(LeaveVCore(v)) /\ WF_vars(VCoreUp(v))
  /\ \A t \in Threads : WF_vars(KernelCompletes(t))

FairSpec == Spec /\ Fairness
----------------------------------------------------------------------------
(* Properties.                                                             *)

\* Every field keeps to its type; a queue number is always an index of vc_mgmt.
TypeOK ==
  /\ tqueue \in [VCores -> Seq(Threads)]
  /\ next_queue_id \in VCores /\ nr_vcores \in 1 .. MaxVCores
  /\ can_steal \in BOOLEAN /\ can_adjust_vcores \in BOOLEAN /\ ss_yield \in BOOLEAN
  /\ state \in [Threads -> States] /\ preferred_vcq \in [Threads -> VCores]
  /\ current_uthread \in [VCores -> Threads \cup {NULL}]
  /\ vpc \in [VCores -> Labels] /\ arg \in [VCores -> Threads \cup {NULL}]
  /\ ret \in [VCores -> {"entry", "events", "uthread", "paused"}]
  /\ spin_count \in [VCores -> -1 .. MaxSpin]
  /\ qid \in [VCores -> VCores] /\ next_id \in [VCores -> VCores]
  /\ victim \in [VCores -> VCores] /\ num_to_steal \in [VCores -> 0 .. Cardinality(Threads)]
  /\ stolen \in [VCores -> Threads \cup {NULL}] /\ looping \in [VCores -> BOOLEAN]
  /\ waiters \subseteq Threads /\ syscalls \subseteq Threads /\ events \in Seq(Threads)
  /\ wanted \subseteq VCores

\* juggle's alarm callback is between the call of pth_thread_paused, which stops the
\* thread, and its own next line, which clears current_uthread.
Pausing(v) ==
  \/ vpc[v] = "paused"
  \/ vpc[v] \in {"runnable", "read_id", "read_nr", "cas_id", "enqueue", "request"} /\ ret[v] = "paused"

\* The thread whose code each vcore executes: current_uthread, unless that thread was
\* stopped, and may go to other vcores, before the pointer to it is cleared.
current == [v \in VCores |-> IF Pausing(v) THEN NULL ELSE current_uthread[v]]

InQueues == UNION {Range(tqueue[q]) : q \in VCores}

\* The threads vcore v has in its hands, off every queue.
Hands(v) ==
  ({stolen[v]} \cup
   IF vpc[v] \in {"runnable", "read_id", "read_nr", "cas_id", "enqueue", "steal_put"}
   THEN {arg[v]} ELSE {})
  \ {NULL}

\* While threads move between queues, each is in one place: one queue, one vcore,
\* the hands of one vcore that moves it, or somewhere outside the scheduler.
OnePlacePerThread ==
  /\ \A q \in VCores : IsInjective(tqueue[q])
  /\ \A p, q \in VCores : p # q =>
       /\ Range(tqueue[p]) \cap Range(tqueue[q]) = {}
       /\ Hands(p) \cap Hands(q) = {}
       /\ current[p] # NULL => current[p] # current[q]
  /\ LET moved == UNION {Hands(v) : v \in VCores}
         outside == Range(current) \cup waiters \cup syscalls \cup Range(events) IN
       moved \cap InQueues = {} /\ (moved \cup InQueues) \cap outside = {}

\* A ready thread is never forgotten, whoever took it where: each queue that is
\* not empty has an owner that will look into it before it gives itself back, or
\* that was asked for or is about to be.
NoneForgotten ==
  \A q \in VCores : tqueue[q] # <<>> =>
    \/ vpc[q] \notin {"offline", "choose", "scan", "steal_first", "idle"}
    \/ q \in wanted
    \/ \E v \in VCores : vpc[v] = "request" /\ qid[v] = q

\* After upthread_set_num_vcores the queues considered for new threads are the
\* first nr_vcores ones (pvcq/upthread.c:381-382).
NextQueueInRange ==
  (\A v \in VCores : vpc[v] # "set_num") => next_queue_id < nr_vcores

\* The 2LS contract: every thread goes through the phases of SchedOps.
phaseOf == [t \in Threads |->
  CASE state[t] = "UNUSED" -> "unborn"
    [] state[t] = "EXITING" -> "dead"
    [] t \in Range(current) -> "running"
    [] t \in InQueues -> "runnable"
    [] \E v \in VCores : stolen[v] = t \/ (vpc[v] = "steal_put" /\ arg[v] = t) -> "runnable"
    [] OTHER -> "parked"]

Contract == INSTANCE SchedOps WITH phase <- phaseOf, Capacity <- MaxVCores
SchedContract == Contract!Spec

\* Every ready thread gets to run, in its own queue or stolen.
ReadyRuns ==
  \A t \in Threads : t \in InQueues ~> t \in Range(current)
============================================================================
