-------------------------------- MODULE Juggle --------------------------------
(***************************************************************************)
(* The juggle scheduler (src/src/juggle/upthread.c): the queues of pvcq,   *)
(* and an alarm on each vcore that takes the running thread off it.        *)
(*                                                                         *)
(* Each vcore finds its alarm data in its dynamic thread-local storage.    *)
(* An alarm that is no longer wanted is not cancelled but disarmed: it     *)
(* still fires, and its callback then frees its data, and unlocks the      *)
(* lock that is in them.  The callback runs on the vcore that set the      *)
(* alarm, where the runtime handles events.  All alarm data in use belong  *)
(* to one vcore, so that the lock in them is never contended and is left   *)
(* out; the last unlock is a step of its own, since malloc may have given  *)
(* the data to another vcore by then.                                      *)
(***************************************************************************)
EXTENDS PerVcoreQueue

CONSTANTS
  Periods,     \* arguments of upthread_set_sched_period; 1, the default, included
  Data,        \* a bound: the room for alarm data on the heap
  MaxTimers    \* a bound: alarms of one vcore that are disarmed and did not fire yet

ASSUME JuggleAssumption ==
  /\ 1 \in Periods /\ Periods \subseteq Nat
  /\ NULL \notin Data /\ MaxTimers \in Nat \ {0}

VARIABLES
  period, last_period,   \* __preempt_period; last_preempt_period, per vcore
  allocated, armed,      \* the data that are not freed; those with armed set
  dtls,                  \* per vcore, the data under alarm_dtls_key
  adata,                 \* per vcore, the local of pth_sched_entry
  timers,                \* per vcore, the data whose alarm is set
  awaiter                \* per vcore, the argument of the alarm_callback in progress

heap   == <<allocated, armed, dtls, timers>>
alarms == <<heap, adata, awaiter, period, last_period>>
jvars  == <<vars, alarms>>
----------------------------------------------------------------------------
JuggleInit ==
  /\ Init
  /\ period = 1 /\ last_period = [v \in VCores |-> 1]
  /\ allocated = {} /\ armed = {}
  /\ dtls = [v \in VCores |-> NULL] /\ adata = [v \in VCores |-> NULL]
  /\ timers = [v \in VCores |-> {}] /\ awaiter = [v \in VCores |-> NULL]

Referenced(v) == {dtls[v], adata[v]} \cup timers[v]

\* What malloc may return: data that an alarm_callback has freed and still unlocks, or
\* any other; which other one makes no difference.
Mallocable ==
  LET free == Data \ allocated
      unlocked == {awaiter[v] : v \in VCores} IN
  {d \in free : d \in unlocked \/ d = CHOOSE e \in free \ unlocked : TRUE}

\* The local of pth_sched_entry lasts until a thread runs.
LoopKeeps(v) ==
  adata' = IF vpc'[v] = "uthread" THEN [adata EXCEPT ![v] = NULL] ELSE adata
----------------------------------------------------------------------------
(* Seeded faults: an operation with one plausible mistake each.  No        *)
(* specification uses them; in place of the operation, each makes the      *)
(* property it is paired with fail.                                        *)

\* Before vcore_yield the alarm data are freed at once, though the alarm is still set.
Disarm_Frees(v) ==
  \E d \in Mallocable :
    /\ dtls' = [dtls EXCEPT ![v] = d]
    /\ allocated' = (allocated \ {adata[v]}) \cup {d}
    /\ armed' = armed \ {adata[v], d}
    /\ adata' = [adata EXCEPT ![v] = NULL]
    /\ UNCHANGED <<timers, awaiter, period, last_period>>

\* The alarm makes the thread it stopped runnable, and the vcore then goes on with it.
ClearCurrent_Forgotten(v) ==
  /\ vpc[v] = "paused"
  /\ Goto(v, "unlock")
  /\ UNCHANGED <<tqueue, placing, tunables, state, preferred_vcq, current_uthread, arg, ret,
                 spin_count, enqueuing, stealing, external, alarms>>
----------------------------------------------------------------------------
(* pth_sched_entry                                                         *)

\* Data are found or made, data armed for another period are disarmed and replaced, and
\* an alarm is set unless the data are armed.  Then the thread that was interrupted goes
\* on, or the vcore enters its loop.  The first conjunct is the bound.
JSchedEntry(v) ==
  /\ Cardinality(timers[v] \ armed) < MaxTimers
  /\ SchedEntry(v)
  /\ LET replace == dtls[v] \in armed /\ last_period[v] # period IN
     \E d \in IF replace \/ dtls[v] = NULL THEN Mallocable ELSE {dtls[v]} :
       LET left == armed \ (IF d = dtls[v] THEN {} ELSE {dtls[v], d}) IN
         /\ dtls' = [dtls EXCEPT ![v] = d]
         /\ adata' = [adata EXCEPT ![v] = IF current_uthread[v] = NULL THEN d ELSE NULL]
         /\ allocated' = allocated \cup {d}
         /\ armed' = left \cup {d}
         /\ timers' = IF d \in left THEN timers ELSE [timers EXCEPT ![v] = @ \cup {d}]
         /\ last_period' = IF d \in left THEN last_period ELSE [last_period EXCEPT ![v] = period]
  /\ UNCHANGED <<awaiter, period>>

\* Before vcore_yield the alarm is disarmed, and fresh data left for the next entry.  Data
\* whose alarm fired before are lost now, nobody will free them; the model takes them for
\* freed, since nobody will use them either.
Disarm(v) ==
  \E d \in Mallocable :
    /\ dtls' = [dtls EXCEPT ![v] = d]
    /\ allocated' = (allocated \ ({adata[v]} \ timers[v])) \cup {d}
    /\ armed' = armed \ {adata[v], d}
    /\ adata' = [adata EXCEPT ![v] = NULL]
    /\ UNCHANGED <<timers, awaiter, period, last_period>>

\* vcore_yield came back, or it was not the time for it.
JKeepVCore(v) ==
  /\ KeepVCore(v)
  /\ IF can_adjust_vcores /\ spin_count[v] = 0 THEN Disarm(v) ELSE UNCHANGED alarms

JYieldVCore(v) == YieldVCore(v) /\ Disarm(v)
----------------------------------------------------------------------------
(* alarm_callback, run by the runtime where the vcore handles events: it   *)
(* interrupts the client's code or a vcore on its way into the scheduler,  *)
(* or comes in the handle_events() of the loop.  What expired while a      *)
(* vcore was given back is handled before anything else when it comes up.  *)

Interrupted(v) == IF vpc[v] = "uthread" THEN "entry" ELSE vpc[v]

Unlock(v) ==
  /\ Goto(v, "unlock")
  /\ ret' = [ret EXCEPT ![v] = Interrupted(v)]
  /\ UNCHANGED <<state, arg>>

\* Armed: the alarm of this period.  pth_thread_paused makes the thread runnable, with the
\* steps of pth_thread_runnable, before current_uthread is cleared.
Preempt(v, d) ==
  /\ d \in armed
  /\ armed' = armed \ {d}
  /\ UNCHANGED allocated
  /\ \/ /\ current_uthread[v] # NULL
        /\ state' = [state EXCEPT ![current_uthread[v]] = "BLK_PAUSED"]
        /\ CallRunnable(v, current_uthread[v], "paused")
     \/ current_uthread[v] = NULL /\ Unlock(v)

\* Disarmed before it fired.
Discard(v, d) ==
  /\ d \notin armed
  /\ allocated' = allocated \ {d}
  /\ Unlock(v)
  /\ UNCHANGED armed

AlarmFires(v, d) ==
  /\ d \in timers[v] /\ vpc[v] \in {"uthread", "entry", "events"}
  /\ timers' = [timers EXCEPT ![v] = @ \ {d}]
  /\ awaiter' = [awaiter EXCEPT ![v] = d]
  /\ Preempt(v, d) \/ Discard(v, d)
  /\ UNCHANGED <<tqueue, placing, tunables, preferred_vcq, current_uthread, spin_count,
                 enqueuing, stealing, external, dtls, adata, period, last_period>>

\* Meanwhile the thread may run on another vcore.
ClearCurrent(v) ==
  /\ vpc[v] = "paused"
  /\ current_uthread' = [current_uthread EXCEPT ![v] = NULL]
  /\ Goto(v, "unlock")
  /\ UNCHANGED <<tqueue, placing, tunables, state, preferred_vcq, arg, ret, spin_count,
                 enqueuing, stealing, external, alarms>>

\* spinlock_unlock(&awaiter->lock), in data that Discard has freed.  It makes a free lock
\* free, in those data or in those of the vcore they belong to by now.
UnlockAwaiter(v) ==
  /\ vpc[v] = "unlock"
  /\ awaiter' = [awaiter EXCEPT ![v] = NULL]
  /\ Goto(v, ret[v])
  /\ ret' = [ret EXCEPT ![v] = "entry"]
  /\ UNCHANGED <<tqueue, placing, tunables, state, preferred_vcq, current_uthread, arg,
                 spin_count, enqueuing, stealing, external, heap, adata, period, last_period>>
----------------------------------------------------------------------------
(* The rest is the code of pvcq, line by line.                              *)

\* get_next_queue_id_basic, __pth_thread_enqueue, pth_thread_runnable
JMakeRunnable(v) ==
  /\ Runnable(v) \/ ReadId(v) \/ ReadNr(v) \/ CasId(v) \/ EnqueueNew(v) \/ RequestVCore(v)
  /\ UNCHANGED alarms

\* __pth_thread_dequeue, steal_threads, and the thread that was found.
JDequeue(v) ==
  /\ \/ DequeueOwn(v) \/ DequeueNothing(v)
     \/ ChooseVictim(v) \/ ScanVictim(v) \/ StealFirst(v) \/ StealNext(v) \/ StealPut(v)
  /\ LoopKeeps(v)
  /\ UNCHANGED <<heap, awaiter, period, last_period>>

JEventsDone(v)   == EventsDone(v) /\ UNCHANGED alarms
JCreate(v, t, u) == Create(v, t, u) /\ UNCHANGED alarms
JYield(v, t)     == Yield(v, t) /\ UNCHANGED alarms
JExit(v, t)      == Exit(v, t) /\ UNCHANGED alarms
JVCoreUp(v)      == VCoreUp(v) /\ UNCHANGED alarms

\* upthread_set_sched_period and the upthread_yield in it, which may return at once.  Other
\* vcores see the new period when they next enter the scheduler.  Periods only grow (a bound).
SetSchedPeriod(v, t, us) ==
  /\ Executes(v, t) /\ us > period
  /\ period' = us
  /\ Yield(v, t) \/ (ss_yield /\ tqueue[v] = <<>> /\ UNCHANGED vars)
  /\ UNCHANGED <<heap, adata, awaiter, last_period>>
----------------------------------------------------------------------------
JRuntimeStep(v) ==
  \/ JSchedEntry(v)
  \/ JKeepVCore(v)
  \/ JYieldVCore(v)
  \/ JMakeRunnable(v)
  \/ JDequeue(v)
  \/ JEventsDone(v)
  \/ ClearCurrent(v)
  \/ UnlockAwaiter(v)

JClientStep(v) ==
  \/ \E t \in Threads : JYield(v, t) \/ JExit(v, t)
  \/ \E t, u \in Threads : JCreate(v, t, u)
  \/ \E t \in Threads, us \in Periods : SetSchedPeriod(v, t, us)

JuggleNext ==
  \/ \E v \in VCores : JRuntimeStep(v)
  \/ \E v \in VCores : JClientStep(v)
  \/ \E v \in VCores : JVCoreUp(v)
  \/ \E v \in VCores, d \in Data : AlarmFires(v, d)
  \/ Finished /\ UNCHANGED alarms

JuggleSpec == JuggleInit /\ [][JuggleNext]_jvars
----------------------------------------------------------------------------
\* Freed alarm data are only unlocked, by the callback that freed them (juggle/upthread.c:279).
\* Neither the storage of a vcore, nor an alarm that is still set, nor the scheduler's own
\* pointer leads to them, though the callback frees what it finds disarmed and another vcore
\* may get them from malloc; before its last line the callback's data are its vcore's.  No
\* two vcores share data, and a vcore never sets the alarm of its present data twice.
FreedOnlyUnlocked ==
  /\ \A v \in VCores :
       /\ Referenced(v) \subseteq allocated \cup {NULL}
       /\ awaiter[v] \in {dtls[v], NULL} \/ vpc[v] = "unlock"
       /\ armed \cap Referenced(v) = {dtls[v]} \cap timers[v]
  /\ \A v, w \in VCores : v # w => Referenced(v) \cap Referenced(w) \subseteq {NULL}

\* Once a vcore has been through pth_sched_entry, which starts an alarm if there is none
\* (juggle/upthread.c:323), every thread it runs can be preempted.
RunsUnderAlarm ==
  \A v \in VCores : vpc[v] = "uthread" /\ dtls[v] # NULL => dtls[v] \in armed
============================================================================
