-------------------------- MODULE GlobalQueueProofs --------------------------
(***************************************************************************)
(* Proofs about GlobalQueue, for any threads, any vcores, any spin count   *)
(* and any workload.                                                       *)
(***************************************************************************)
EXTENDS GlobalQueue, SeqFacts, FiniteSetTheorems, TLAPS

(***************************************************************************)
(* Type correctness.  A vcore in the middle of an operation on a thread    *)
(* has that thread in arg.                                                 *)
(***************************************************************************)
HasThread == {"runnable", "request", "publish", "join_swap", "exit_sync"}

ArgIsThread == \A v \in VCores : vpc[v] \in HasThread => arg[v] \in Threads

TypeInv == TypeOK /\ ArgIsThread

LEMMA InitType == Init => TypeInv
<1> SUFFICES ASSUME Init PROVE TypeInv
  OBVIOUS
<1> USE GlobalQueueAssumption
<1> PICK v0 \in VCores :
      /\ current = [v \in VCores |-> IF v = v0 THEN Main ELSE NULL]
      /\ vpc = [v \in VCores |-> IF v = v0 THEN "uthread" ELSE "offline"]
  BY DEF Init
<1>1. vpc \in [VCores -> Labels] /\ current \in [VCores -> Threads \cup {NULL}]
  BY DEF Labels
<1>2. state \in [Threads -> States]
  BY DEF Init, States
<1>3. spin_count \in [VCores -> -1 .. MaxSpin]
  BY DEF Init
<1>4. detached \in [Threads -> BOOLEAN] /\ retval \in [Threads -> BOOLEAN]
  <2>1. /\ detached = [t \in Threads |-> t = Main]
        /\ retval = [t \in Threads |-> FALSE]
    BY DEF Init
  <2> QED BY <2>1, Zenon
<1>5. TypeOK
  <2>1. /\ ready_queue \in Seq(Threads) /\ events \in Seq(Threads)
        /\ active_queue \subseteq Threads /\ waiters \subseteq Threads /\ syscalls \subseteq Threads
        /\ threads_ready \in Int /\ threads_active \in Int
    BY DEF Init
  <2>2. /\ tcb \in [Threads -> {"unborn", "live", "freed"}]
        /\ joiner \in [Threads -> Threads \cup {NULL}]
        /\ handles \in [Threads -> SUBSET Threads]
        /\ joining \in [Threads -> Threads \cup {NULL}]
    BY DEF Init
  <2>3. /\ arg \in [VCores -> Threads \cup {NULL}]
        /\ ret \in [VCores -> {"entry", "events", "uthread", "publish"}]
    BY DEF Init
  <2>4. can_adjust_vcores \in BOOLEAN /\ wanted \in BOOLEAN
    BY Zenon DEF Init
  <2> QED BY <1>1, <1>2, <1>3, <1>4, <2>1, <2>2, <2>3, <2>4 DEF TypeOK
<1>6. ArgIsThread
  BY DEF ArgIsThread, HasThread
<1> QED BY <1>5, <1>6 DEF TypeInv

(***************************************************************************)
(* The helpers.                                                            *)
(***************************************************************************)
LEMMA GotoType ==
  ASSUME TypeInv, NEW v \in VCores, NEW l \in Labels, Goto(v, l), arg' = arg,
         l \in HasThread => vpc[v] \in HasThread
  PROVE  vpc' \in [VCores -> Labels] /\ ArgIsThread'
BY DEF TypeInv, TypeOK, ArgIsThread, Goto

LEMMA CallRunnableType ==
  ASSUME TypeInv, NEW v \in VCores, NEW t \in Threads,
         NEW l \in {"entry", "events", "uthread", "publish"}, CallRunnable(v, t, l)
  PROVE  /\ vpc' \in [VCores -> Labels]
         /\ arg' \in [VCores -> Threads \cup {NULL}]
         /\ ret' \in [VCores -> {"entry", "events", "uthread", "publish"}]
         /\ ArgIsThread'
BY DEF TypeInv, TypeOK, ArgIsThread, CallRunnable, Goto, Labels

LEMMA CallbackDoneType ==
  ASSUME TypeInv, NEW v \in VCores, CallbackDone(v)
  PROVE  /\ vpc' \in [VCores -> Labels]
         /\ arg' \in [VCores -> Threads \cup {NULL}]
         /\ ArgIsThread'
BY DEF TypeInv, TypeOK, ArgIsThread, CallbackDone, Goto, Labels, HasThread

LEMMA GenericYieldType ==
  ASSUME TypeInv, NEW v \in VCores, NEW t \in Threads, GenericYield(v, t)
  PROVE  /\ active_queue' \subseteq Threads
         /\ threads_active' \in Int
         /\ current' \in [VCores -> Threads \cup {NULL}]
BY DEF TypeInv, TypeOK, GenericYield

(***************************************************************************)
(* One case for each disjunct of Next.                                     *)
(***************************************************************************)
LEMMA RuntimeStepType ==
  ASSUME TypeInv, NEW v \in VCores, RuntimeStep(v)
  PROVE  TypeInv'
<1> USE GlobalQueueAssumption DEF globals, tcbs, stacks, external
<1>1. CASE SchedEntry(v)
  <2>1. vpc' \in [VCores -> Labels] /\ ArgIsThread'
    BY ZenonT(40), <1>1 DEF SchedEntry, Goto, TypeInv, TypeOK, ArgIsThread, HasThread, Labels
  <2>2. spin_count' \in [VCores -> -1 .. MaxSpin]
    BY <1>1 DEF SchedEntry, Goto, TypeInv, TypeOK
  <2> QED BY <1>1, <2>1, <2>2 DEF SchedEntry, TypeInv, TypeOK
<1>2. CASE DequeueThread(v)
  BY <1>2 DEF DequeueThread, Goto, TypeInv, TypeOK, ArgIsThread, HasThread, Labels
<1>3. CASE DequeueNothing(v)
  BY <1>3 DEF DequeueNothing, Goto, TypeInv, TypeOK, ArgIsThread, HasThread, Labels
<1>4. CASE KeepVCore(v)
  <2>1. vpc' \in [VCores -> Labels] /\ ArgIsThread'
    BY <1>4 DEF KeepVCore, Goto, TypeInv, TypeOK, ArgIsThread, HasThread, Labels
  <2>2. spin_count' \in [VCores -> -1 .. MaxSpin]
    BY <1>4 DEF KeepVCore, SpinDown, TypeInv, TypeOK
  <2> QED BY <1>4, <2>1, <2>2 DEF KeepVCore, TypeInv, TypeOK
<1>5. CASE YieldVCore(v)
  BY <1>5 DEF YieldVCore, Goto, TypeInv, TypeOK, ArgIsThread, HasThread, Labels
<1>6. CASE EventsDone(v)
  BY <1>6 DEF EventsDone, Goto, TypeInv, TypeOK, ArgIsThread, HasThread, Labels
<1>7. CASE HandleSyscall(v)
  <2>1. Head(events) \in Threads /\ Tail(events) \in Seq(Threads)
    BY <1>7 DEF HandleSyscall, TypeInv, TypeOK
  <2> QED BY <1>7, <2>1, CallRunnableType DEF HandleSyscall, TypeInv, TypeOK
<1>8. CASE Runnable(v)
  BY <1>8 DEF Runnable, Goto, TypeInv, TypeOK, ArgIsThread, HasThread, Labels, States, Blocked
<1>9. CASE RequestVCore(v)
  BY <1>9 DEF RequestVCore, Goto, TypeInv, TypeOK, ArgIsThread, HasThread, Labels
<1>10. CASE Publish(v)
  BY <1>10 DEF Publish, Goto, TypeInv, TypeOK, ArgIsThread, HasThread, Labels
<1>11. CASE JoinSwap(v)
  BY <1>11, CallRunnableType, CallbackDoneType
     DEF JoinSwap, CallbackDone, TypeInv, TypeOK, ArgIsThread, HasThread
<1>12. CASE JoinDone(v)
  BY <1>12 DEF JoinDone, vcores, TypeInv, TypeOK, ArgIsThread
<1>13. CASE ExitSync(v)
  BY ZenonT(40), <1>13, CallRunnableType, CallbackDoneType
     DEF ExitSync, CallbackDone, TypeInv, TypeOK, ArgIsThread, HasThread
<1> QED BY <1>1, <1>2, <1>3, <1>4, <1>5, <1>6, <1>7, <1>8, <1>9, <1>10, <1>11, <1>12, <1>13
        DEF RuntimeStep

LEMMA ClientStepType ==
  ASSUME TypeInv, NEW v \in VCores, ClientStep(v)
  PROVE  TypeInv'
<1> USE GlobalQueueAssumption DEF globals, tcbs, stacks, external, Executes
<1>1. ASSUME NEW t \in Threads, Yield(v, t) PROVE TypeInv'
  BY <1>1, CallRunnableType, GenericYieldType
     DEF Yield, GenericYield, TypeInv, TypeOK, States, Blocked
<1>2. ASSUME NEW t \in Threads, Block(v, t) PROVE TypeInv'
  BY <1>2, GenericYieldType
     DEF Block, GenericYield, Goto, TypeInv, TypeOK, ArgIsThread, HasThread, Labels, States, Blocked
<1>3. ASSUME NEW t \in Threads, Syscall(v, t) PROVE TypeInv'
  BY <1>3, GenericYieldType
     DEF Syscall, GenericYield, Goto, TypeInv, TypeOK, ArgIsThread, HasThread, Labels, States, Blocked
<1>4. ASSUME NEW t \in Threads, Exit(v, t) PROVE TypeInv'
  BY <1>4, GenericYieldType
     DEF Exit, GenericYield, Goto, TypeInv, TypeOK, ArgIsThread, Labels, States
<1>5. CASE Pause(v)
  <2>1. current[v] \in Threads
    BY <1>5 DEF Pause, TypeInv, TypeOK
  <2> QED BY <1>5, <2>1, CallRunnableType, GenericYieldType
          DEF Pause, GenericYield, TypeInv, TypeOK, States, Blocked
<1>6. CASE Notify(v)
  BY <1>6 DEF Notify, Goto, TypeInv, TypeOK, ArgIsThread, HasThread, Labels
<1>7. ASSUME NEW t \in Threads, NEW u \in Threads, JoinCall(v, t, u) PROVE TypeInv'
  <2>1. CASE joiner[u] = NULL
    <3>1. vpc' \in [VCores -> Labels] /\ arg' \in [VCores -> Threads \cup {NULL}] /\ ArgIsThread'
      <4>1. vpc' = [vpc EXCEPT ![v] = "join_swap"] /\ arg' = [arg EXCEPT ![v] = t]
        BY <1>7, <2>1 DEF JoinCall, Goto
      <4> QED BY <4>1 DEF TypeInv, TypeOK, ArgIsThread, Labels
    <3>2. state' \in [Threads -> States]
      BY <1>7, <2>1 DEF JoinCall, TypeInv, TypeOK, States, Blocked
    <3> QED BY <1>7, <2>1, <3>1, <3>2, GenericYieldType
            DEF JoinCall, GenericYield, TypeInv, TypeOK
  <2>2. CASE joiner[u] # NULL
    BY <1>7, <2>2 DEF JoinCall, TypeInv, TypeOK, ArgIsThread
  <2> QED BY <2>1, <2>2
<1>8. ASSUME NEW t \in Threads, NEW u \in Threads, NEW d \in BOOLEAN, Create(v, t, u, d)
      PROVE TypeInv'
  BY <1>8, CallRunnableType DEF Create, TypeInv, TypeOK, States, Blocked
<1>9. ASSUME NEW t \in Threads, NEW can \in BOOLEAN, SetCanAdjust(v, t, can) PROVE TypeInv'
  BY <1>9 DEF SetCanAdjust, vcores, TypeInv, TypeOK, ArgIsThread
<1>11. ASSUME UNCHANGED vars PROVE TypeInv'
  BY <1>11 DEF vars, vcores, TypeInv, TypeOK, ArgIsThread
<1>10. ASSUME NEW t \in Threads, Wake(v, t) PROVE TypeInv'
  <2>1. vpc[v] \in {"entry", "events", "uthread"}
    BY <1>10 DEF Wake
  <2> QED BY <1>10, <2>1, CallRunnableType DEF Wake, TypeInv, TypeOK
<1> QED BY <1>1, <1>2, <1>3, <1>4, <1>5, <1>6, <1>7, <1>8, <1>9, <1>10, <1>11
        DEF ClientStep, LeaveVCore, JoinDetached

LEMMA NextType == TypeInv /\ [Next]_vars => TypeInv'
<1> SUFFICES ASSUME TypeInv, [Next]_vars PROVE TypeInv'
  OBVIOUS
<1> USE DEF globals, tcbs, stacks, vcores, external
<1>1. ASSUME NEW v \in VCores, VCoreUp(v) PROVE TypeInv'
  BY <1>1 DEF VCoreUp, Goto, TypeInv, TypeOK, ArgIsThread, HasThread, Labels
<1>2. ASSUME NEW t \in Threads, KernelCompletes(t) PROVE TypeInv'
  BY <1>2 DEF KernelCompletes, TypeInv, TypeOK, ArgIsThread
<1>3. CASE UNCHANGED vars
  BY <1>3 DEF vars, TypeInv, TypeOK, ArgIsThread
<1> QED BY <1>1, <1>2, <1>3, RuntimeStepType, ClientStepType DEF Next, Finished

\* gq keeps its queues, its counters and its threads' fields in range, and no
\* vcore is ever in the middle of an operation on a thread that is not there.
THEOREM TypeCorrect == Spec => []TypeOK
<1>1. TypeInv => TypeOK
  BY DEF TypeInv
<1> QED BY <1>1, InitType, NextType, PTL DEF Spec
----------------------------------------------------------------------------
(***************************************************************************)
(* A ready thread is never forgotten.  Given the types, the property is    *)
(* inductive: the only step that leaves a vcore without a reason to look   *)
(* at the queue is DequeueNothing, which finds the queue empty.            *)
(***************************************************************************)
LEMMA StepWillLook ==
  ASSUME TypeInv, SomeVCoreWillLook, [Next]_vars
  PROVE  SomeVCoreWillLook'
<1> USE DEF globals, tcbs, stacks, external
<1> DEFINE Looks(v) == vpc[v] \notin {"offline", "idle"}
<1>1. ASSUME NEW v \in VCores, vpc' = [vpc EXCEPT ![v] = vpc'[v]], Looks(v)' PROVE SomeVCoreWillLook'
  BY <1>1 DEF SomeVCoreWillLook
<1>2. ASSUME NEW v \in VCores, RuntimeStep(v) PROVE SomeVCoreWillLook'
  <2>1. vpc[v] \in Labels /\ ret[v] \in {"entry", "events", "uthread", "publish"} /\ vpc \in [VCores -> Labels]
    BY DEF TypeInv, TypeOK
  <2>2. CASE YieldVCore(v)
    BY <1>2, <2>1, <2>2 DEF YieldVCore, Goto, SomeVCoreWillLook
  <2>3. CASE DequeueNothing(v)
    BY <2>3 DEF DequeueNothing, SomeVCoreWillLook
  <2>4. CASE JoinDone(v)
    BY <2>4 DEF JoinDone, vcores, SomeVCoreWillLook
  <2>5. CASE SchedEntry(v) \/ DequeueThread(v) \/ KeepVCore(v) \/ EventsDone(v) \/ Runnable(v)
             \/ RequestVCore(v) \/ Publish(v)
    BY <1>1, <2>1, <2>5 DEF SchedEntry, DequeueThread, KeepVCore, EventsDone, Runnable,
                            RequestVCore, Publish, Goto
  <2>6. CASE HandleSyscall(v) \/ JoinSwap(v) \/ ExitSync(v)
    BY <1>1, <2>1, <2>6 DEF HandleSyscall, JoinSwap, ExitSync, CallRunnable, CallbackDone, Goto
  <2> QED BY <1>2, <2>2, <2>3, <2>4, <2>5, <2>6 DEF RuntimeStep
<1>3. ASSUME NEW v \in VCores, ClientStep(v) PROVE SomeVCoreWillLook'
  <2>1. vpc[v] \in Labels /\ vpc \in [VCores -> Labels]
    BY DEF TypeInv, TypeOK
  <2>2. CASE LeaveVCore(v)
    BY <1>1, <2>1, <2>2 DEF LeaveVCore, Yield, Block, Syscall, Exit, CallRunnable, Goto
  <2>3. CASE Pause(v) \/ Notify(v)
    BY <1>1, <2>1, <2>3 DEF Pause, Notify, CallRunnable, Goto
  <2>4. ASSUME NEW t \in Threads, NEW u \in Threads, JoinCall(v, t, u) PROVE SomeVCoreWillLook'
    BY <1>1, <2>1, <2>4 DEF JoinCall, Goto, SomeVCoreWillLook
  <2>8. ASSUME NEW t \in Threads, NEW u \in Threads, JoinDetached(v, t, u)
        PROVE SomeVCoreWillLook'
    BY <2>8 DEF JoinDetached, vars, vcores, SomeVCoreWillLook
  <2>5. ASSUME NEW t \in Threads, NEW u \in Threads, NEW d \in BOOLEAN, Create(v, t, u, d)
        PROVE SomeVCoreWillLook'
    BY <1>1, <2>1, <2>5 DEF Create, CallRunnable, Goto
  <2>6. ASSUME NEW t \in Threads, NEW can \in BOOLEAN, SetCanAdjust(v, t, can)
        PROVE SomeVCoreWillLook'
    BY <2>6 DEF SetCanAdjust, vcores, SomeVCoreWillLook
  <2>7. ASSUME NEW t \in Threads, Wake(v, t) PROVE SomeVCoreWillLook'
    BY <1>1, <2>1, <2>7 DEF Wake, CallRunnable, Goto
  <2> QED BY <1>3, <2>2, <2>3, <2>4, <2>5, <2>6, <2>7, <2>8 DEF ClientStep
<1>4. ASSUME NEW v \in VCores, VCoreUp(v) PROVE SomeVCoreWillLook'
  BY <1>1, <1>4 DEF VCoreUp, Goto, TypeInv, TypeOK
<1>5. ASSUME NEW t \in Threads, KernelCompletes(t) PROVE SomeVCoreWillLook'
  BY <1>5 DEF KernelCompletes, vcores, SomeVCoreWillLook
<1>6. CASE UNCHANGED vars
  BY <1>6 DEF vars, vcores, SomeVCoreWillLook
<1> QED BY <1>2, <1>3, <1>4, <1>5, <1>6 DEF Next, Finished

\* While gq's ready queue holds a thread, some vcore has still to look at it before
\* it can give itself back: a thread made runnable just when a vcore gives up is
\* not stranded.
THEOREM ReadyNotForgotten == Spec => []SomeVCoreWillLook
<1>1. Init => SomeVCoreWillLook
  BY DEF Init, SomeVCoreWillLook
<1>2. TypeInv /\ SomeVCoreWillLook /\ [Next]_vars => SomeVCoreWillLook'
  BY StepWillLook
<1> QED BY <1>1, <1>2, InitType, NextType, PTL DEF Spec
----------------------------------------------------------------------------
(***************************************************************************)
(* The inductive invariant of GlobalQueue behind its safety properties.    *)
(***************************************************************************)

\* t exited, and its exit callback is past the last use of its TCB.
Exited(t) == state[t] = "EXITING" /\ \A v \in VCores : ~(vpc[v] = "exit_sync" /\ arg[v] = t)

\* The vcore is about to enqueue t.
Hands(v, t) == vpc[v] = "runnable" /\ arg[v] = t

\* upthread_create has made a thread runnable and not stored its handle yet.
Publishing(v) == vpc[v] = "publish" \/ (vpc[v] \in {"runnable", "request"} /\ ret[v] = "publish")

(* The state field says in which kind of place a thread is.                *)
StateFitsPlace ==
  /\ \A v \in VCores : current[v] # NULL => state[current[v]] \in {"RUNNABLE", "RUNNING"}
  /\ \A t \in Range(ready_queue) : state[t] = "RUNNABLE"
  /\ \A t \in waiters : state[t] = "BLK_MUTEX"
  /\ \A t \in syscalls \cup Range(events) : state[t] = "BLK_SYSC"
  /\ \A v \in VCores : vpc[v] = "runnable" => state[arg[v]] \in Blocked
  /\ \A v \in VCores : vpc[v] = "join_swap" => state[arg[v]] = "BLK_JOINING"
  /\ \A v \in VCores : vpc[v] = "exit_sync" => state[arg[v]] = "EXITING"

(* Within a kind, a thread is in one place.                                *)
PlacesDisjoint ==
  /\ IsInjective(ready_queue) /\ IsInjective(events)
  /\ \A v, w \in VCores : current[v] # NULL /\ current[v] = current[w] => v = w
  /\ \A v \in VCores : current[v] \notin Range(ready_queue)
  /\ syscalls \cap Range(events) = {}
  /\ \A v \in VCores : vpc[v] = "runnable" => arg[v] \notin waiters \cup syscalls \cup Range(events)
  /\ \A v, w \in VCores :
       vpc[v] \in {"runnable", "join_swap"} /\ vpc[w] \in {"runnable", "join_swap"}
         /\ arg[v] = arg[w] => v = w
  /\ \A v, w \in VCores :
       vpc[v] = "exit_sync" /\ vpc[w] = "exit_sync" /\ arg[v] = arg[w] => v = w

(* A vcore in the dispatch loop, or in a callback, runs no thread.         *)
LoopRunsNothing ==
  \A v \in VCores :
    vpc[v] \in {"offline", "dequeue", "idle", "events", "join_swap", "exit_sync"}
      \/ (vpc[v] \in {"runnable", "request"} /\ ret[v] = "events")
    => current[v] = NULL

(* A TCB is there as long as somebody may use it.                          *)
TcbAlive ==
  /\ \A t \in Threads : tcb[t] = "unborn" <=> state[t] = "UNUSED"
  /\ \A t \in Threads : state[t] # "UNUSED" /\ ~Exited(t) => tcb[t] = "live"
  /\ \A t \in Threads : state[t] = "EXITING" => retval[t]
  /\ \A t, u \in Threads : u \in handles[t] \/ joining[t] = u => tcb[u] = "live" /\ ~detached[u]

(* A handle belongs to one thread, and is given up with the join.          *)
HandlesUnique ==
  /\ \A t, s, u \in Threads : u \in handles[t] => u \notin handles[s] \/ s = t
  /\ \A t, s, u \in Threads : u \in handles[t] => joining[s] # u
  /\ \A t, s \in Threads : joining[t] = joining[s] /\ joining[t] # NULL => s = t
  /\ \A v \in VCores : Publishing(v) =>
       /\ tcb[arg[v]] # "unborn"
       /\ ~detached[arg[v]] => tcb[arg[v]] = "live"
       /\ \A t \in Threads : arg[v] \notin handles[t] /\ joining[t] # arg[v]
       /\ \A w \in VCores : Publishing(w) /\ arg[w] = arg[v] => w = v

(* What the joiner field says.                                             *)
JoinerFits ==
  /\ \A v \in VCores : vpc[v] = "join_swap" =>
       joining[arg[v]] \in Threads /\ joiner[joining[arg[v]]] \in {NULL, joining[arg[v]]}
  /\ \A u \in Threads : ~Exited(u) /\ joiner[u] # NULL =>
       /\ joining[joiner[u]] = u /\ state[joiner[u]] = "BLK_JOINING"
       /\ \A v \in VCores : vpc[v] \in {"runnable", "join_swap"} => arg[v] # joiner[u]
  /\ \A u \in Threads : Exited(u) /\ ~detached[u] => joiner[u] # NULL
  /\ \A t \in Threads :
       joining[t] # NULL /\ (state[t] # "BLK_JOINING" \/ \E v \in VCores : Hands(v, t))
       => Exited(joining[t])

(* The counters and the active queue.                                      *)
Counts ==
  /\ threads_ready = Len(ready_queue)
  /\ IsFiniteSet(active_queue) /\ threads_active = Cardinality(active_queue)
  /\ \A t \in Threads : t \in active_queue <=> \E v \in VCores : current[v] = t

IInv ==
  /\ TypeInv /\ StateFitsPlace /\ PlacesDisjoint /\ LoopRunsNothing
  /\ TcbAlive /\ HandlesUnique /\ JoinerFits /\ Counts
----------------------------------------------------------------------------
LEMMA InitInvariant == Init => IInv
<1> SUFFICES ASSUME Init PROVE IInv
  OBVIOUS
<1> USE GlobalQueueAssumption
<1> PICK v0 \in VCores :
      /\ current = [v \in VCores |-> IF v = v0 THEN Main ELSE NULL]
      /\ vpc = [v \in VCores |-> IF v = v0 THEN "uthread" ELSE "offline"]
  BY DEF Init
<1>1. TypeInv
  BY InitType
<1>2. /\ ready_queue = <<>> /\ events = <<>> /\ waiters = {} /\ syscalls = {}
      /\ active_queue = {Main} /\ threads_ready = 0 /\ threads_active = 1
      /\ state = [t \in Threads |-> IF t = Main THEN "RUNNING" ELSE "UNUSED"]
      /\ tcb = [t \in Threads |-> IF t = Main THEN "live" ELSE "unborn"]
      /\ joiner = [t \in Threads |-> NULL] /\ joining = [t \in Threads |-> NULL]
      /\ handles = [t \in Threads |-> {}]
  BY DEF Init
<1>3. Range(ready_queue) = {} /\ Range(events) = {} /\ IsInjective(ready_queue) /\ IsInjective(events)
  BY <1>2 DEF Range, IsInjective
<1>4. StateFitsPlace /\ PlacesDisjoint
  BY <1>2, <1>3 DEF StateFitsPlace, PlacesDisjoint
<1>5. LoopRunsNothing
  BY DEF LoopRunsNothing
<1>6. TcbAlive
  BY <1>2 DEF TcbAlive, Exited
<1>7. HandlesUnique
  BY <1>2 DEF HandlesUnique, Publishing
<1>8. JoinerFits
  BY <1>2 DEF JoinerFits, Exited
<1>9. Counts
  BY <1>2, FS_Singleton DEF Counts
<1> QED BY <1>1, <1>4, <1>5, <1>6, <1>7, <1>8, <1>9 DEF IInv

(***************************************************************************)
(* Steps that move no thread.                                              *)
(***************************************************************************)
LEMMA QuietInvariant ==
  ASSUME IInv, TypeInv', NEW v \in VCores,
         NEW l \in {"offline", "entry", "dequeue", "idle", "events", "uthread", "publish"},
         UNCHANGED <<globals, tcbs, stacks, current, waiters, syscalls, events>>,
         vpc' = [vpc EXCEPT ![v] = l],
         vpc[v] \notin {"runnable", "join_swap", "exit_sync"},
         \A w \in VCores : w # v => arg'[w] = arg[w] /\ ret'[w] = ret[w],
         l \in {"offline", "dequeue", "idle", "events"} => current[v] = NULL,
         l = "publish" => Publishing(v) /\ arg'[v] = arg[v]
  PROVE  IInv'
<1> USE DEF globals, tcbs, stacks
<1> vpc \in [VCores -> Labels]
  BY DEF IInv, TypeInv, TypeOK
<1>1. \A t \in Threads : Exited(t)' <=> Exited(t)
  BY DEF Exited
<1>2. \A w \in VCores : Publishing(w)' => Publishing(w) /\ arg'[w] = arg[w]
  BY DEF Publishing
<1>3. StateFitsPlace'
  BY DEF IInv, StateFitsPlace
<1>4. PlacesDisjoint'
  BY DEF IInv, PlacesDisjoint
<1>5. LoopRunsNothing'
  BY DEF IInv, LoopRunsNothing
<1>6. TcbAlive'
  BY <1>1 DEF IInv, TcbAlive
<1>7. HandlesUnique'
  BY <1>2 DEF IInv, HandlesUnique
<1>8. JoinerFits'
  BY <1>1 DEF IInv, JoinerFits, Hands, TypeInv, TypeOK
<1>9. Counts'
  BY DEF IInv, Counts
<1> QED BY <1>3, <1>4, <1>5, <1>6, <1>7, <1>8, <1>9 DEF IInv

LEMMA QuietSteps ==
  ASSUME IInv, TypeInv', NEW v \in VCores,
         \/ SchedEntry(v) \/ DequeueNothing(v) \/ KeepVCore(v) \/ YieldVCore(v) \/ EventsDone(v)
         \/ RequestVCore(v) \/ Notify(v) \/ VCoreUp(v)
         \/ \E t \in Threads, can \in BOOLEAN : SetCanAdjust(v, t, can)
  PROVE  IInv'
<1> USE DEF external
<1> vpc \in [VCores -> Labels] /\ ret \in [VCores -> {"entry", "events", "uthread", "publish"}]
    /\ arg \in [VCores -> Threads \cup {NULL}]
  BY DEF IInv, TypeInv, TypeOK
<1> LoopRunsNothing
  BY DEF IInv
<1>1. CASE SchedEntry(v)
  <2>1. CASE current[v] # NULL
    <3>1. vpc' = [vpc EXCEPT ![v] = "uthread"] /\ vpc[v] = "entry" /\ arg' = arg /\ ret' = ret
          /\ UNCHANGED <<globals, tcbs, stacks, current, waiters, syscalls, events>>
      BY <1>1, <2>1 DEF SchedEntry, Goto
    <3> QED BY <3>1, QuietInvariant
  <2>2. CASE current[v] = NULL
    <3>1. vpc' = [vpc EXCEPT ![v] = "dequeue"] /\ vpc[v] = "entry" /\ arg' = arg /\ ret' = ret
          /\ UNCHANGED <<globals, tcbs, stacks, current, waiters, syscalls, events>>
      BY <1>1, <2>2 DEF SchedEntry, Goto
    <3> QED BY <2>2, <3>1, QuietInvariant
  <2> QED BY <2>1, <2>2
<1>2. CASE DequeueNothing(v)
  <2>1. vpc' = [vpc EXCEPT ![v] = "idle"] /\ vpc[v] = "dequeue" /\ arg' = arg /\ ret' = ret
        /\ UNCHANGED <<globals, tcbs, stacks, current, waiters, syscalls, events>>
    BY <1>2 DEF DequeueNothing, Goto
  <2> QED BY <2>1, QuietInvariant DEF LoopRunsNothing
<1>3. CASE KeepVCore(v)
  <2>1. vpc' = [vpc EXCEPT ![v] = "events"] /\ vpc[v] = "idle" /\ arg' = arg /\ ret' = ret
        /\ UNCHANGED <<globals, tcbs, stacks, current, waiters, syscalls, events>>
    BY <1>3 DEF KeepVCore, Goto
  <2> QED BY <2>1, QuietInvariant DEF LoopRunsNothing
<1>4. CASE YieldVCore(v)
  <2>1. vpc' = [vpc EXCEPT ![v] = "offline"] /\ vpc[v] = "idle" /\ arg' = arg /\ ret' = ret
        /\ UNCHANGED <<globals, tcbs, stacks, current, waiters, syscalls, events>>
    BY <1>4 DEF YieldVCore, Goto
  <2> QED BY <2>1, QuietInvariant DEF LoopRunsNothing
<1>5. CASE EventsDone(v)
  <2>1. vpc' = [vpc EXCEPT ![v] = "dequeue"] /\ vpc[v] = "events" /\ arg' = arg /\ ret' = ret
        /\ UNCHANGED <<globals, tcbs, stacks, current, waiters, syscalls, events>>
    BY <1>5 DEF EventsDone, Goto
  <2> QED BY <2>1, QuietInvariant DEF LoopRunsNothing
<1>6. CASE RequestVCore(v)
  <2>1. /\ vpc' = [vpc EXCEPT ![v] = ret[v]] /\ vpc[v] = "request"
        /\ \A w \in VCores : w # v => arg'[w] = arg[w] /\ ret'[w] = ret[w]
        /\ ret[v] = "publish" => arg'[v] = arg[v]
        /\ UNCHANGED <<globals, tcbs, stacks, current, waiters, syscalls, events>>
    BY <1>6 DEF RequestVCore, Goto
  <2>2. ret[v] = "events" => current[v] = NULL
    BY <2>1 DEF LoopRunsNothing
  <2>3. ret[v] = "publish" => Publishing(v)
    BY <2>1 DEF Publishing
  <2> QED BY <2>1, <2>2, <2>3, QuietInvariant
<1>7. CASE Notify(v)
  <2>1. vpc' = [vpc EXCEPT ![v] = "entry"] /\ vpc[v] = "uthread" /\ arg' = arg /\ ret' = ret
        /\ UNCHANGED <<globals, tcbs, stacks, current, waiters, syscalls, events>>
    BY <1>7 DEF Notify, Goto
  <2> QED BY <2>1, QuietInvariant
<1>8. CASE VCoreUp(v)
  <2>1. vpc' = [vpc EXCEPT ![v] = "entry"] /\ vpc[v] = "offline" /\ arg' = arg /\ ret' = ret
        /\ UNCHANGED <<globals, tcbs, stacks, current, waiters, syscalls, events>>
    BY <1>8 DEF VCoreUp, Goto
  <2> QED BY <2>1, QuietInvariant
<1>9. ASSUME NEW t \in Threads, NEW can \in BOOLEAN, SetCanAdjust(v, t, can) PROVE IInv'
  <2>1. vpc' = [vpc EXCEPT ![v] = "uthread"] /\ vpc[v] = "uthread" /\ arg' = arg /\ ret' = ret
        /\ UNCHANGED <<globals, tcbs, stacks, current, waiters, syscalls, events>>
    BY <1>9 DEF SetCanAdjust, Executes, vcores
  <2> QED BY <2>1, QuietInvariant
<1> QED BY <1>1, <1>2, <1>3, <1>4, <1>5, <1>6, <1>7, <1>8, <1>9

(***************************************************************************)
(* The ready queue.                                                        *)
(***************************************************************************)
LEMMA RunnableInvariant ==
  ASSUME IInv, TypeInv', NEW v \in VCores, Runnable(v)
  PROVE  IInv'
<1> USE GlobalQueueAssumption
<1> DEFINE t == arg[v]
<1>1. /\ vpc[v] = "runnable" /\ t \in Threads /\ state[t] \in Blocked
      /\ vpc' = [vpc EXCEPT ![v] = "request"]
      /\ state' = [state EXCEPT ![t] = "RUNNABLE"]
      /\ ready_queue' = Append(ready_queue, t)
      /\ threads_ready' = threads_ready + 1
      /\ UNCHANGED <<active_queue, threads_active, tcb, detached, joiner, retval, handles, joining,
                     current, arg, ret, waiters, syscalls, events>>
  BY DEF Runnable, Goto, IInv, StateFitsPlace, TypeInv, ArgIsThread, HasThread, stacks, external
<1> HIDE DEF t
<1>2. vpc \in [VCores -> Labels] /\ state \in [Threads -> States] /\ ready_queue \in Seq(Threads)
  BY DEF IInv, TypeInv, TypeOK
<1>3. t \notin Range(ready_queue) /\ \A w \in VCores : current[w] # t
  BY <1>1 DEF IInv, StateFitsPlace, Blocked
<1>4. /\ Range(ready_queue') = Range(ready_queue) \cup {t} /\ IsInjective(ready_queue')
      /\ Len(ready_queue') = Len(ready_queue) + 1
  BY <1>1, <1>2, <1>3, AppendRange, AppendNew DEF IInv, PlacesDisjoint
<1>5. \A u \in Threads : Exited(u)' <=> Exited(u)
  BY <1>1, <1>2 DEF Exited, Blocked
<1>6. \A w \in VCores : w # v /\ vpc[w] \in {"runnable", "join_swap"} => arg[w] # t
  BY <1>1 DEF IInv, PlacesDisjoint, t
<1>7. StateFitsPlace'
  BY <1>1, <1>2, <1>3, <1>4, <1>6 DEF IInv, StateFitsPlace, PlacesDisjoint, Blocked, t, TypeInv, ArgIsThread, HasThread
<1>8. PlacesDisjoint'
  BY <1>1, <1>2, <1>3, <1>4 DEF IInv, PlacesDisjoint
<1>9. LoopRunsNothing'
  BY <1>1, <1>2 DEF IInv, LoopRunsNothing
<1>10. TcbAlive'
  BY <1>1, <1>2, <1>5 DEF IInv, TcbAlive, Blocked
<1>11. HandlesUnique'
  BY <1>1, <1>2 DEF IInv, HandlesUnique, Publishing
<1>12. JoinerFits'
  <2> USE DEF JoinerFits, Hands
  <2>1. JoinerFits /\ joiner \in [Threads -> Threads \cup {NULL}]
        /\ joining \in [Threads -> Threads \cup {NULL}]
    BY DEF IInv, TypeInv, TypeOK
  <2>2. \A u \in Threads : ~Exited(u) => joiner[u] # t
    BY <1>1, <2>1 DEF t
  <2>3. joining[t] # NULL => Exited(joining[t])
    BY <1>1, <2>1 DEF t
  <2> QED BY <1>1, <1>2, <1>5, <1>6, <2>1, <2>2, <2>3
<1>13. Counts'
  BY <1>1, <1>4 DEF IInv, Counts
<1> QED BY <1>7, <1>8, <1>9, <1>10, <1>11, <1>12, <1>13 DEF IInv

LEMMA DequeueInvariant ==
  ASSUME IInv, TypeInv', NEW v \in VCores, DequeueThread(v)
  PROVE  IInv'
<1> USE GlobalQueueAssumption
<1> DEFINE t == Head(ready_queue)
<1>1. /\ vpc[v] = "dequeue" /\ vpc' = [vpc EXCEPT ![v] = "uthread"]
      /\ ready_queue # <<>> /\ ready_queue' = Tail(ready_queue)
      /\ current' = [current EXCEPT ![v] = t]
      /\ active_queue' = active_queue \cup {t}
      /\ threads_active' = threads_active + 1 /\ threads_ready' = threads_ready - 1
      /\ UNCHANGED <<tcb, state, detached, joiner, retval, handles, joining, arg, ret, waiters,
                     syscalls, events>>
  BY DEF DequeueThread, Goto, tcbs, stacks, external
<1>2. /\ vpc \in [VCores -> Labels] /\ current \in [VCores -> Threads \cup {NULL}]
      /\ ready_queue \in Seq(Threads) /\ active_queue \subseteq Threads
      /\ current[v] = NULL
  BY <1>1 DEF IInv, TypeInv, TypeOK, LoopRunsNothing
<1>3. /\ t \in Threads /\ t \in Range(ready_queue)
      /\ IsInjective(ready_queue') /\ Range(ready_queue') = Range(ready_queue) \ {t}
      /\ Len(ready_queue') = Len(ready_queue) - 1
  BY <1>1, <1>2, PopRange DEF IInv, PlacesDisjoint
<1> HIDE DEF t
<1>4. state[t] = "RUNNABLE" /\ \A w \in VCores : current[w] # t
  BY <1>3 DEF IInv, StateFitsPlace, PlacesDisjoint
<1>5. \A u \in Threads : Exited(u)' <=> Exited(u)
  BY <1>1, <1>2 DEF Exited
<1>6. StateFitsPlace'
  BY <1>1, <1>2, <1>3, <1>4 DEF IInv, StateFitsPlace
<1>7. PlacesDisjoint'
  BY <1>1, <1>2, <1>3, <1>4 DEF IInv, PlacesDisjoint
<1>8. LoopRunsNothing'
  BY <1>1, <1>2 DEF IInv, LoopRunsNothing
<1>9. TcbAlive'
  BY <1>1, <1>5 DEF IInv, TcbAlive
<1>10. HandlesUnique'
  BY <1>1, <1>2 DEF IInv, HandlesUnique, Publishing
<1>11. JoinerFits'
  <2>1. JoinerFits /\ joining \in [Threads -> Threads \cup {NULL}]
    BY DEF IInv, TypeInv, TypeOK
  <2>2. /\ \A w \in VCores : vpc'[w] = "join_swap" <=> vpc[w] = "join_swap"
        /\ \A w \in VCores : vpc'[w] = "runnable" <=> vpc[w] = "runnable"
    BY <1>1, <1>2
  <2> QED BY <1>1, <1>5, <2>1, <2>2 DEF JoinerFits, Hands
<1>12. Counts'
  <2>1. t \notin active_queue /\ IsFiniteSet(active_queue)
    BY <1>3, <1>4 DEF IInv, Counts
  <2>2. IsFiniteSet(active_queue') /\ Cardinality(active_queue') = Cardinality(active_queue) + 1
    BY <1>1, <2>1, FS_AddElement
  <2>3. \A u \in Threads : u \in active_queue' <=> \E w \in VCores : current'[w] = u
    BY <1>1, <1>2, <1>3 DEF IInv, Counts
  <2> QED BY <1>1, <1>3, <2>2, <2>3 DEF IInv, Counts
<1> QED BY <1>6, <1>7, <1>8, <1>9, <1>10, <1>11, <1>12 DEF IInv

(***************************************************************************)
(* System calls come back, blockers give threads back: a thread goes from  *)
(* outside into the hands of a vcore.                                      *)
(***************************************************************************)
LEMMA HandOver ==
  ASSUME IInv, TypeInv', NEW v \in VCores, NEW t \in Threads, NEW l \in {"entry", "events", "uthread"},
         UNCHANGED <<globals, tcbs, stacks, current>>,
         CallRunnable(v, t, l),
         vpc[v] \notin {"runnable", "join_swap", "exit_sync"},
         l = "events" => current[v] = NULL,
         state[t] \in Blocked \ {"BLK_JOINING"},
         \A w \in VCores : ~Hands(w, t),
         t \notin waiters' \cup syscalls' \cup Range(events'),
         waiters' \subseteq waiters, syscalls' \subseteq syscalls, Range(events') \subseteq Range(events),
         IsInjective(events'), joining[t] # NULL => Exited(joining[t])
  PROVE  IInv'
<1> USE GlobalQueueAssumption DEF globals, tcbs, stacks
<1>1. /\ vpc' = [vpc EXCEPT ![v] = "runnable"] /\ arg' = [arg EXCEPT ![v] = t]
      /\ ret' = [ret EXCEPT ![v] = l]
  BY DEF CallRunnable, Goto
<1>2. /\ vpc \in [VCores -> Labels] /\ arg \in [VCores -> Threads \cup {NULL}]
      /\ ret \in [VCores -> {"entry", "events", "uthread", "publish"}]
  BY DEF IInv, TypeInv, TypeOK
<1>3. \A u \in Threads : Exited(u)' <=> Exited(u)
  BY <1>1, <1>2 DEF Exited
<1>4. StateFitsPlace'
  BY <1>1, <1>2 DEF IInv, StateFitsPlace
<1>5. PlacesDisjoint'
  BY <1>1, <1>2 DEF IInv, PlacesDisjoint, StateFitsPlace, Hands
<1>6. LoopRunsNothing'
  BY <1>1, <1>2 DEF IInv, LoopRunsNothing
<1>7. TcbAlive'
  BY <1>3 DEF IInv, TcbAlive
<1>8. HandlesUnique'
  <2>1. \A w \in VCores : Publishing(w)' => Publishing(w) /\ arg'[w] = arg[w]
    BY <1>1, <1>2 DEF Publishing
  <2> QED BY <2>1 DEF IInv, HandlesUnique
<1>9. JoinerFits'
  BY <1>1, <1>2, <1>3 DEF IInv, JoinerFits, Hands, TypeInv, TypeOK
<1>10. Counts'
  BY DEF IInv, Counts
<1> QED BY <1>4, <1>5, <1>6, <1>7, <1>8, <1>9, <1>10 DEF IInv

LEMMA HandleSyscallInvariant ==
  ASSUME IInv, TypeInv', NEW v \in VCores, HandleSyscall(v)
  PROVE  IInv'
<1> DEFINE t == Head(events)
<1>1. /\ vpc[v] \in {"entry", "events"} /\ events # <<>> /\ events' = Tail(events)
      /\ CallRunnable(v, t, vpc[v])
      /\ UNCHANGED <<globals, tcbs, stacks, current, waiters, syscalls>>
  BY DEF HandleSyscall
<1>2. /\ t \in Threads /\ t \in Range(events) /\ IsInjective(events')
      /\ Range(events') = Range(events) \ {t}
  BY <1>1, PopRange DEF IInv, PlacesDisjoint, TypeInv, TypeOK
<1> HIDE DEF t
<1>3. state[t] = "BLK_SYSC" /\ t \notin waiters /\ t \notin syscalls
  BY <1>2 DEF IInv, StateFitsPlace, PlacesDisjoint
<1>4. \A w \in VCores : ~Hands(w, t)
  BY <1>2 DEF IInv, PlacesDisjoint, Hands
<1>5. joining[t] # NULL => Exited(joining[t])
  BY <1>2, <1>3 DEF IInv, JoinerFits
<1>6. vpc[v] = "events" => current[v] = NULL
  BY DEF IInv, LoopRunsNothing
<1> QED BY <1>1, <1>2, <1>3, <1>4, <1>5, <1>6, HandOver DEF Blocked

LEMMA WakeInvariant ==
  ASSUME IInv, TypeInv', NEW v \in VCores, NEW t \in Threads, Wake(v, t)
  PROVE  IInv'
<1>1. /\ vpc[v] \in {"entry", "events", "uthread"} /\ t \in waiters /\ waiters' = waiters \ {t}
      /\ CallRunnable(v, t, vpc[v])
      /\ UNCHANGED <<globals, tcbs, stacks, current, syscalls, events>>
  BY DEF Wake, Executes
<1>2. state[t] = "BLK_MUTEX" /\ t \notin Range(events) /\ t \notin syscalls
  BY <1>1 DEF IInv, StateFitsPlace
<1>3. \A w \in VCores : ~Hands(w, t)
  BY <1>1 DEF IInv, PlacesDisjoint, Hands
<1>4. joining[t] # NULL => Exited(joining[t])
  BY <1>2 DEF IInv, JoinerFits
<1>5. vpc[v] = "events" => current[v] = NULL
  BY DEF IInv, LoopRunsNothing
<1>6. IsInjective(events')
  BY <1>1 DEF IInv, PlacesDisjoint
<1> QED BY <1>1, <1>2, <1>3, <1>4, <1>5, <1>6, HandOver DEF Blocked

LEMMA KernelInvariant ==
  ASSUME IInv, TypeInv', NEW t \in Threads, KernelCompletes(t)
  PROVE  IInv'
<1> USE DEF globals, tcbs, stacks, vcores
<1>1. /\ t \in syscalls /\ syscalls' = syscalls \ {t} /\ events' = Append(events, t)
      /\ UNCHANGED <<globals, tcbs, stacks, vcores, waiters>>
  BY DEF KernelCompletes
<1>2. t \notin Range(events) /\ IsInjective(events) /\ events \in Seq(Threads)
  BY <1>1 DEF IInv, PlacesDisjoint, TypeInv, TypeOK
<1>3. IsInjective(events') /\ Range(events') = Range(events) \cup {t}
  BY <1>1, <1>2, AppendRange, AppendNew
<1>4. \A u \in Threads : Exited(u)' <=> Exited(u)
  BY <1>1 DEF Exited
<1>5. StateFitsPlace' /\ PlacesDisjoint'
  BY <1>1, <1>3 DEF IInv, StateFitsPlace, PlacesDisjoint
<1>6. LoopRunsNothing' /\ Counts'
  BY <1>1 DEF IInv, LoopRunsNothing, Counts
<1>7. TcbAlive'
  BY <1>1, <1>4 DEF IInv, TcbAlive
<1>8. HandlesUnique'
  BY <1>1 DEF IInv, HandlesUnique, Publishing
<1>9. JoinerFits'
  BY <1>1, <1>4 DEF IInv, JoinerFits, Hands, TypeInv, TypeOK
<1> QED BY <1>5, <1>6, <1>7, <1>8, <1>9 DEF IInv

(***************************************************************************)
(* Threads that leave their vcore.                                         *)
(***************************************************************************)

\* A thread on a vcore is nowhere else, and nobody waits for it to wake up.
LEMMA CurrentThread ==
  ASSUME IInv, NEW v \in VCores, NEW t \in Threads, current[v] = t
  PROVE  /\ state[t] \in {"RUNNABLE", "RUNNING"} /\ ~Exited(t) /\ tcb[t] = "live"
         /\ t \notin Range(ready_queue) /\ t \notin waiters /\ t \notin syscalls
         /\ t \notin Range(events)
         /\ \A w \in VCores : current[w] = t => w = v
         /\ \A w \in VCores : vpc[w] \in {"runnable", "join_swap", "exit_sync"} => arg[w] # t
         /\ joining[t] # NULL => Exited(joining[t])
         /\ \A u \in Threads : ~Exited(u) => joiner[u] # t
<1> USE GlobalQueueAssumption
<1>1. state[t] \in {"RUNNABLE", "RUNNING"}
  BY DEF IInv, StateFitsPlace
<1>2. ~Exited(t) /\ tcb[t] = "live"
  BY <1>1 DEF IInv, TcbAlive, Exited
<1>3. /\ t \notin Range(ready_queue) /\ t \notin waiters /\ t \notin syscalls
      /\ t \notin Range(events)
      /\ \A w \in VCores : current[w] = t => w = v
  BY <1>1 DEF IInv, StateFitsPlace, PlacesDisjoint
<1>4. \A w \in VCores : vpc[w] \in {"runnable", "join_swap", "exit_sync"} => arg[w] # t
  BY <1>1 DEF IInv, StateFitsPlace, Blocked
<1>5. joining[t] # NULL => Exited(joining[t])
  BY <1>1 DEF IInv, JoinerFits
<1>6. \A u \in Threads : ~Exited(u) => joiner[u] # t
  BY <1>1 DEF IInv, JoinerFits
<1> QED BY <1>1, <1>2, <1>3, <1>4, <1>5, <1>6

\* __upthread_generic_yield keeps the counters right.
LEMMA LeaveCounts ==
  ASSUME IInv, NEW v \in VCores, NEW t \in Threads, current[v] = t, GenericYield(v, t)
  PROVE  Counts'
<1>1. /\ active_queue' = active_queue \ {t} /\ threads_active' = threads_active - 1
      /\ current' = [current EXCEPT ![v] = NULL]
      /\ ready_queue' = ready_queue /\ threads_ready' = threads_ready
  BY DEF GenericYield
<1>2. /\ t \in active_queue /\ IsFiniteSet(active_queue)
      /\ threads_active = Cardinality(active_queue) /\ threads_ready = Len(ready_queue)
  BY DEF IInv, Counts
<1>3. IsFiniteSet(active_queue') /\ Cardinality(active_queue') = Cardinality(active_queue) - 1
  BY <1>1, <1>2, FS_RemoveElement
<1>4. \A u \in Threads : u \in active_queue' <=> \E w \in VCores : current'[w] = u
  <2>1. \A w \in VCores : current'[w] = (IF w = v THEN NULL ELSE current[w])
    BY <1>1 DEF IInv, TypeInv, TypeOK
  <2> QED BY <1>1, <2>1, CurrentThread, GlobalQueueAssumption DEF IInv, Counts
<1> QED BY <1>1, <1>2, <1>3, <1>4 DEF Counts

\* upthread_yield, a pause, a blocker, a system call.
LEMMA ParkInvariant ==
  ASSUME IInv, TypeInv', NEW v \in VCores, NEW t \in Threads, current[v] = t,
         vpc[v] \in {"uthread", "entry"}, GenericYield(v, t),
         UNCHANGED <<tcb, detached, joiner, retval, stacks, events>>,
         NEW s \in {"BLK_YIELDING", "BLK_PAUSED", "BLK_MUTEX", "BLK_SYSC"},
         NEW l \in {"runnable", "entry"},
         state' = [state EXCEPT ![t] = s], vpc' = [vpc EXCEPT ![v] = l],
         \A w \in VCores : w # v => arg'[w] = arg[w] /\ ret'[w] = ret[w],
         l = "runnable" => /\ arg'[v] = t /\ ret'[v] = "entry"
                           /\ waiters' = waiters /\ syscalls' = syscalls,
         l = "entry" =>
           \/ s = "BLK_MUTEX" /\ waiters' = waiters \cup {t} /\ syscalls' = syscalls
           \/ s = "BLK_SYSC" /\ syscalls' = syscalls \cup {t} /\ waiters' = waiters
  PROVE  IInv'
<1> USE GlobalQueueAssumption DEF stacks
<1>1. current' = [current EXCEPT ![v] = NULL] /\ ready_queue' = ready_queue
  BY DEF GenericYield
<1>2. /\ vpc \in [VCores -> Labels] /\ current \in [VCores -> Threads \cup {NULL}]
      /\ state \in [Threads -> States]
  BY DEF IInv, TypeInv, TypeOK
<1>3. /\ state[t] \in {"RUNNABLE", "RUNNING"} /\ ~Exited(t) /\ tcb[t] = "live"
      /\ t \notin Range(ready_queue) /\ t \notin waiters /\ t \notin syscalls
      /\ t \notin Range(events)
      /\ \A w \in VCores : current[w] = t => w = v
      /\ \A w \in VCores : vpc[w] \in {"runnable", "join_swap", "exit_sync"} => arg[w] # t
      /\ joining[t] # NULL => Exited(joining[t])
      /\ \A u \in Threads : ~Exited(u) => joiner[u] # t
  BY CurrentThread
<1>4. \A u \in Threads : Exited(u)' <=> Exited(u)
  BY <1>2, <1>3 DEF Exited
<1>5. StateFitsPlace'
  BY <1>1, <1>2, <1>3 DEF IInv, StateFitsPlace, Blocked
<1>6. PlacesDisjoint'
  <2>1. PlacesDisjoint
    BY DEF IInv
  <2>2. \A w \in VCores : current'[w] = (IF w = v THEN NULL ELSE current[w])
    BY <1>1, <1>2
  <2>3. /\ \A w \in VCores : vpc'[w] \in {"join_swap", "exit_sync"} =>
             w # v /\ vpc[w] = vpc'[w] /\ arg'[w] = arg[w]
        /\ \A w \in VCores : vpc'[w] = "runnable" =>
             (w = v /\ arg'[w] = t) \/ (w # v /\ vpc[w] = "runnable" /\ arg'[w] = arg[w])
    BY <1>2
  <2>4. /\ \A w \in VCores : current'[w] \notin Range(ready_queue')
        /\ \A w, x \in VCores : current'[w] # NULL /\ current'[w] = current'[x] => w = x
    <3>1. NULL \notin Range(ready_queue)
      BY DEF IInv, TypeInv, TypeOK, Range
    <3> QED BY <1>1, <2>1, <2>2, <3>1 DEF PlacesDisjoint
  <2>5. /\ \A w \in VCores : vpc'[w] = "runnable" =>
             arg'[w] \notin waiters' \cup syscalls' \cup Range(events')
        /\ syscalls' \cap Range(events') = {}
    <3>1. CASE l = "runnable"
      BY <1>3, <2>1, <2>3, <3>1 DEF PlacesDisjoint
    <3>2. CASE l = "entry"
      <4>1. \A w \in VCores : vpc'[w] = "runnable" => vpc[w] = "runnable" /\ arg'[w] = arg[w]
        BY <1>2, <3>2
      <4> QED BY <1>3, <2>1, <4>1, <3>2 DEF PlacesDisjoint
    <3> QED BY <3>1, <3>2
  <2>6. \A w, x \in VCores :
          vpc'[w] \in {"runnable", "join_swap"} /\ vpc'[x] \in {"runnable", "join_swap"}
            /\ arg'[w] = arg'[x] => w = x
    BY <1>3, <2>1, <2>3 DEF PlacesDisjoint
  <2>7. \A w, x \in VCores :
          vpc'[w] = "exit_sync" /\ vpc'[x] = "exit_sync" /\ arg'[w] = arg'[x] => w = x
    BY <2>1, <2>3 DEF PlacesDisjoint
  <2>8. IsInjective(ready_queue') /\ IsInjective(events')
    BY <1>1, <2>1 DEF PlacesDisjoint
  <2> QED BY <2>4, <2>5, <2>6, <2>7, <2>8 DEF PlacesDisjoint
<1>7. LoopRunsNothing'
  BY <1>1, <1>2 DEF IInv, LoopRunsNothing
<1>8. TcbAlive'
  BY <1>2, <1>3, <1>4 DEF IInv, TcbAlive
<1>9. HandlesUnique'
  <2>1. \A w \in VCores : Publishing(w)' => Publishing(w) /\ arg'[w] = arg[w]
    BY <1>2 DEF Publishing
  <2> QED BY <2>1 DEF IInv, HandlesUnique
<1>10. JoinerFits'
  <2>1. JoinerFits
    BY DEF IInv
  <2>2. /\ \A w \in VCores : vpc'[w] = "join_swap" => vpc[w] = "join_swap" /\ arg'[w] = arg[w]
        /\ \A w \in VCores : vpc'[w] = "runnable" =>
             arg'[w] = t \/ (vpc[w] = "runnable" /\ arg'[w] = arg[w])
    BY <1>2
  <2>3. \A x \in Threads : x # t => state'[x] = state[x]
    BY <1>2
  <2>4. joiner \in [Threads -> Threads \cup {NULL}] /\ joining \in [Threads -> Threads \cup {NULL}]
    BY DEF IInv, TypeInv, TypeOK
  <2> QED BY <1>3, <1>4, <2>1, <2>2, <2>3, <2>4 DEF JoinerFits, Hands
<1>11. Counts'
  BY LeaveCounts
<1> QED BY <1>5, <1>6, <1>7, <1>8, <1>9, <1>10, <1>11 DEF IInv

LEMMA ParkSteps ==
  ASSUME IInv, TypeInv', NEW v \in VCores,
         Pause(v) \/ \E t \in Threads : Yield(v, t) \/ Block(v, t) \/ Syscall(v, t)
  PROVE  IInv'
<1> USE GlobalQueueAssumption
<1>1. /\ arg \in [VCores -> Threads \cup {NULL}]
      /\ ret \in [VCores -> {"entry", "events", "uthread", "publish"}]
      /\ current \in [VCores -> Threads \cup {NULL}]
  BY DEF IInv, TypeInv, TypeOK
<1>2. ASSUME NEW t \in Threads, NEW s \in {"BLK_YIELDING", "BLK_PAUSED"}, current[v] = t,
             vpc[v] \in {"uthread", "entry"}, GenericYield(v, t),
             state' = [state EXCEPT ![t] = s], CallRunnable(v, t, "entry"),
             UNCHANGED <<tcb, detached, joiner, retval, stacks, external>>
      PROVE  IInv'
  <2>1. /\ vpc' = [vpc EXCEPT ![v] = "runnable"] /\ arg' = [arg EXCEPT ![v] = t]
        /\ ret' = [ret EXCEPT ![v] = "entry"]
        /\ UNCHANGED <<tcb, detached, joiner, retval, stacks, waiters, syscalls, events>>
    BY <1>2 DEF CallRunnable, Goto, external
  <2>2. \A w \in VCores : w # v => arg'[w] = arg[w] /\ ret'[w] = ret[w]
    BY <1>1, <2>1
  <2>3. arg'[v] = t /\ ret'[v] = "entry" /\ waiters' = waiters /\ syscalls' = syscalls
    BY <1>1, <2>1
  <2> QED BY <1>2, <2>1, <2>2, <2>3, ParkInvariant
<1>3. CASE Pause(v)
  <2>1. /\ current[v] \in Threads /\ vpc[v] = "entry"
        /\ GenericYield(v, current[v]) /\ CallRunnable(v, current[v], "entry")
        /\ state' = [state EXCEPT ![current[v]] = "BLK_PAUSED"]
        /\ UNCHANGED <<tcb, detached, joiner, retval, stacks, external>>
    BY <1>1, <1>3 DEF Pause
  <2> QED BY <1>2, <2>1
<1>4. ASSUME NEW t \in Threads, Yield(v, t) PROVE IInv'
  <2>1. /\ current[v] = t /\ vpc[v] = "uthread"
        /\ GenericYield(v, t) /\ CallRunnable(v, t, "entry")
        /\ state' = [state EXCEPT ![t] = "BLK_YIELDING"]
        /\ UNCHANGED <<tcb, detached, joiner, retval, stacks, external>>
    BY <1>4 DEF Yield, Executes
  <2> QED BY <1>2, <2>1
<1>5. ASSUME NEW t \in Threads, Block(v, t) PROVE IInv'
  <2>1. /\ current[v] = t /\ vpc[v] = "uthread" /\ GenericYield(v, t)
        /\ state' = [state EXCEPT ![t] = "BLK_MUTEX"]
        /\ vpc' = [vpc EXCEPT ![v] = "entry"] /\ waiters' = waiters \cup {t}
        /\ UNCHANGED <<tcb, detached, joiner, retval, stacks, arg, ret, syscalls, events>>
    BY <1>5 DEF Block, Executes, Goto
  <2> QED BY <2>1, ParkInvariant
<1>6. ASSUME NEW t \in Threads, Syscall(v, t) PROVE IInv'
  <2>1. /\ current[v] = t /\ vpc[v] = "uthread" /\ GenericYield(v, t)
        /\ state' = [state EXCEPT ![t] = "BLK_SYSC"]
        /\ vpc' = [vpc EXCEPT ![v] = "entry"] /\ syscalls' = syscalls \cup {t}
        /\ UNCHANGED <<tcb, detached, joiner, retval, stacks, arg, ret, waiters, events>>
    BY <1>6 DEF Syscall, Executes, Goto
  <2> QED BY <2>1, ParkInvariant
<1> QED BY <1>3, <1>4, <1>5, <1>6

\* upthread_exit: the callback still needs the TCB.
LEMMA ExitInvariant ==
  ASSUME IInv, TypeInv', NEW v \in VCores, NEW t \in Threads, Exit(v, t)
  PROVE  IInv'
<1> USE GlobalQueueAssumption
<1>1. /\ current[v] = t /\ vpc[v] = "uthread" /\ GenericYield(v, t) /\ joining[t] = NULL
      /\ current' = [current EXCEPT ![v] = NULL] /\ ready_queue' = ready_queue
      /\ retval' = [retval EXCEPT ![t] = TRUE] /\ state' = [state EXCEPT ![t] = "EXITING"]
      /\ vpc' = [vpc EXCEPT ![v] = "exit_sync"] /\ arg' = [arg EXCEPT ![v] = t]
      /\ UNCHANGED <<tcb, detached, joiner, handles, joining, waiters, syscalls, events, ret>>
  BY DEF Exit, Executes, Goto, GenericYield, stacks, external
<1>2. /\ vpc \in [VCores -> Labels] /\ current \in [VCores -> Threads \cup {NULL}]
      /\ state \in [Threads -> States] /\ arg \in [VCores -> Threads \cup {NULL}]
      /\ joiner \in [Threads -> Threads \cup {NULL}]
      /\ joining \in [Threads -> Threads \cup {NULL}]
  BY DEF IInv, TypeInv, TypeOK
<1>3. /\ state[t] \in {"RUNNABLE", "RUNNING"} /\ ~Exited(t) /\ tcb[t] = "live"
      /\ t \notin Range(ready_queue) /\ t \notin waiters /\ t \notin syscalls
      /\ t \notin Range(events)
      /\ \A w \in VCores : current[w] = t => w = v
      /\ \A w \in VCores : vpc[w] \in {"runnable", "join_swap", "exit_sync"} => arg[w] # t
      /\ \A u \in Threads : ~Exited(u) => joiner[u] # t
  BY <1>1, CurrentThread
<1>4. \A u \in Threads : Exited(u)' <=> Exited(u)
  BY <1>1, <1>2, <1>3 DEF Exited
<1>5. \A w \in VCores : current'[w] = (IF w = v THEN NULL ELSE current[w])
  BY <1>1, <1>2
<1>6. /\ \A w \in VCores : vpc'[w] \in {"runnable", "join_swap"} =>
           w # v /\ vpc[w] = vpc'[w] /\ arg'[w] = arg[w]
      /\ \A w \in VCores : vpc'[w] = "exit_sync" =>
           (w = v /\ arg'[w] = t) \/ (vpc[w] = "exit_sync" /\ arg'[w] = arg[w])
  BY <1>1, <1>2
<1>7. /\ state'[t] = "EXITING"
      /\ \A x \in Threads : x # t => state'[x] = state[x]
  BY <1>1, <1>2
<1>8. StateFitsPlace'
  BY <1>1, <1>2, <1>3 DEF IInv, StateFitsPlace, Blocked
<1>9. PlacesDisjoint'
  <2>1. PlacesDisjoint /\ NULL \notin Range(ready_queue)
    BY DEF IInv, TypeInv, TypeOK, Range
  <2> QED BY <1>1, <1>3, <1>5, <1>6, <2>1 DEF PlacesDisjoint
<1>10. LoopRunsNothing'
  BY <1>1, <1>2 DEF IInv, LoopRunsNothing
<1>11. TcbAlive'
  <2>1. retval'[t]
    <3>1. retval \in [Threads -> BOOLEAN]
      BY DEF IInv, TypeInv, TypeOK
    <3> QED BY <1>1, <3>1, Zenon
  <2>2. \A x \in Threads : x # t => (retval'[x] <=> retval[x])
    <3>1. retval \in [Threads -> BOOLEAN]
      BY DEF IInv, TypeInv, TypeOK
    <3> QED BY <1>1, <3>1, Zenon
  <2> QED BY <1>1, <1>3, <1>4, <1>7, <2>1, <2>2 DEF IInv, TcbAlive
<1>12. HandlesUnique'
  <2>1. \A w \in VCores : Publishing(w)' => Publishing(w) /\ arg'[w] = arg[w]
    BY <1>1, <1>2 DEF Publishing
  <2> QED BY <1>1, <2>1 DEF IInv, HandlesUnique
<1>13. JoinerFits'
  <2>1. JoinerFits
    BY DEF IInv
  <2> QED BY <1>1, <1>2, <1>3, <1>4, <1>6, <1>7, <2>1 DEF JoinerFits, Hands
<1>14. Counts'
  BY <1>1, LeaveCounts
<1> QED BY <1>8, <1>9, <1>10, <1>11, <1>12, <1>13, <1>14 DEF IInv

\* upthread_join: the handle turns into a wait.
LEMMA JoinCallInvariant ==
  ASSUME IInv, TypeInv', NEW v \in VCores, NEW t \in Threads, NEW u \in Threads,
         JoinCall(v, t, u)
  PROVE  IInv'
<1> USE GlobalQueueAssumption
<1>1. /\ current[v] = t /\ vpc[v] = "uthread" /\ joining[t] = NULL /\ u \in handles[t]
      /\ handles' = [handles EXCEPT ![t] = @ \ {u}]
      /\ joining' = [joining EXCEPT ![t] = u]
      /\ UNCHANGED <<tcb, detached, joiner, retval, waiters, syscalls, events, ret>>
  BY DEF JoinCall, Executes, external
<1>2. /\ vpc \in [VCores -> Labels] /\ current \in [VCores -> Threads \cup {NULL}]
      /\ state \in [Threads -> States] /\ arg \in [VCores -> Threads \cup {NULL}]
      /\ joiner \in [Threads -> Threads \cup {NULL}]
      /\ joining \in [Threads -> Threads \cup {NULL}]
      /\ handles \in [Threads -> SUBSET Threads]
  BY DEF IInv, TypeInv, TypeOK
<1>3. /\ state[t] \in {"RUNNABLE", "RUNNING"} /\ ~Exited(t) /\ tcb[t] = "live"
      /\ t \notin Range(ready_queue) /\ t \notin waiters /\ t \notin syscalls
      /\ t \notin Range(events)
      /\ \A w \in VCores : current[w] = t => w = v
      /\ \A w \in VCores : vpc[w] \in {"runnable", "join_swap", "exit_sync"} => arg[w] # t
      /\ \A x \in Threads : ~Exited(x) => joiner[x] # t
  BY <1>1, CurrentThread
<1>4. /\ tcb[u] = "live" /\ ~detached[u]
      /\ \A s \in Threads : joining[s] # u
      /\ \A s \in Threads : u \in handles[s] => s = t
  BY <1>1 DEF IInv, TcbAlive, HandlesUnique
<1>5. /\ joining'[t] = u /\ handles'[t] = handles[t] \ {u}
      /\ \A x \in Threads : x # t => joining'[x] = joining[x] /\ handles'[x] = handles[x]
  BY <1>1, <1>2
<1>6. CASE joiner[u] = NULL
  <2>1. /\ GenericYield(v, t) /\ current' = [current EXCEPT ![v] = NULL]
        /\ ready_queue' = ready_queue
        /\ state' = [state EXCEPT ![t] = "BLK_JOINING"]
        /\ vpc' = [vpc EXCEPT ![v] = "join_swap"] /\ arg' = [arg EXCEPT ![v] = t]
    BY <1>6 DEF JoinCall, Goto, GenericYield
  <2>2. \A x \in Threads : Exited(x)' <=> Exited(x)
    BY <1>1, <1>2, <1>3, <2>1 DEF Exited
  <2>3. \A w \in VCores : current'[w] = (IF w = v THEN NULL ELSE current[w])
    BY <1>2, <2>1
  <2>4. /\ \A w \in VCores : vpc'[w] \in {"runnable", "exit_sync"} =>
             w # v /\ vpc[w] = vpc'[w] /\ arg'[w] = arg[w]
        /\ \A w \in VCores : vpc'[w] = "join_swap" =>
             (w = v /\ arg'[w] = t) \/ (vpc[w] = "join_swap" /\ arg'[w] = arg[w])
    BY <1>2, <2>1
  <2>5. /\ state'[t] = "BLK_JOINING"
        /\ \A x \in Threads : x # t => state'[x] = state[x]
    BY <1>2, <2>1
  <2>6. StateFitsPlace'
    BY <1>1, <1>2, <1>3, <2>1 DEF IInv, StateFitsPlace, Blocked
  <2>7. PlacesDisjoint'
    <3>1. PlacesDisjoint /\ NULL \notin Range(ready_queue)
      BY DEF IInv, TypeInv, TypeOK, Range
    <3> QED BY <1>1, <1>3, <2>1, <2>3, <2>4, <3>1 DEF PlacesDisjoint
  <2>8. LoopRunsNothing'
    BY <1>1, <1>2, <2>1 DEF IInv, LoopRunsNothing
  <2>9. TcbAlive'
    BY <1>1, <1>3, <1>4, <1>5, <2>2, <2>5 DEF IInv, TcbAlive
  <2>10. HandlesUnique'
    <3>1. \A w \in VCores : Publishing(w)' => Publishing(w) /\ arg'[w] = arg[w] /\ arg[w] # u
      BY <1>1, <1>2, <2>1 DEF Publishing, IInv, HandlesUnique
    <3> QED BY <1>1, <1>4, <1>5, <3>1 DEF IInv, HandlesUnique
  <2>11. JoinerFits'
    <3>1. JoinerFits
      BY DEF IInv
    <3>2. \A x \in Threads : joiner[x] \in Threads \cup {NULL}
      BY <1>2
    <3> QED BY <1>1, <1>2, <1>3, <1>5, <1>6, <2>2, <2>4, <2>5, <3>1 DEF JoinerFits, Hands
  <2>12. Counts'
    BY <1>1, <2>1, LeaveCounts
  <2> QED BY <2>6, <2>7, <2>8, <2>9, <2>10, <2>11, <2>12 DEF IInv
<1>7. CASE joiner[u] # NULL
  <2>1. UNCHANGED <<ready_queue, active_queue, threads_ready, threads_active, state, current, vpc, arg>>
    BY <1>7 DEF JoinCall, globals
  <2>2. \A x \in Threads : Exited(x)' <=> Exited(x)
    BY <2>1 DEF Exited
  <2>3. Exited(u)
    BY <1>2, <1>4, <1>7 DEF IInv, JoinerFits
  <2>4. StateFitsPlace' /\ PlacesDisjoint' /\ LoopRunsNothing' /\ Counts'
    BY <1>1, <2>1 DEF IInv, StateFitsPlace, PlacesDisjoint, LoopRunsNothing, Counts
  <2>5. TcbAlive'
    BY <1>1, <1>4, <1>5, <2>1, <2>2 DEF IInv, TcbAlive
  <2>6. HandlesUnique'
    <3>1. \A w \in VCores : Publishing(w)' => Publishing(w) /\ arg[w] # u
      BY <1>1, <2>1 DEF Publishing, IInv, HandlesUnique
    <3> QED BY <1>1, <1>4, <1>5, <2>1, <3>1 DEF IInv, HandlesUnique
  <2>7. JoinerFits'
    <3>1. JoinerFits
      BY DEF IInv
    <3> QED BY <1>1, <1>2, <1>3, <1>5, <2>1, <2>2, <2>3, <3>1 DEF JoinerFits, Hands
  <2> QED BY <2>4, <2>5, <2>6, <2>7 DEF IInv
<1> QED BY <1>6, <1>7

(***************************************************************************)
(* Join and exit meet in the joiner field.                                 *)
(***************************************************************************)

\* The joiner finds the slot empty, or the thread that exited before it.
LEMMA JoinSwapInvariant ==
  ASSUME IInv, TypeInv', NEW v \in VCores, JoinSwap(v)
  PROVE  IInv'
<1> USE GlobalQueueAssumption
<1> DEFINE t == arg[v]
<1> DEFINE u == joining[t]
<1>1. /\ vpc[v] = "join_swap" /\ t \in Threads /\ u \in Threads /\ joining[t] = u
      /\ arg[v] = t /\ state[t] = "BLK_JOINING" /\ joiner[u] \in {NULL, u}
      /\ joiner' = [joiner EXCEPT ![u] = t]
      /\ UNCHANGED <<ready_queue, active_queue, threads_ready, threads_active, tcb, state, detached,
                     retval, handles, joining, current, waiters, syscalls, events>>
  BY DEF JoinSwap, IInv, StateFitsPlace, JoinerFits, TypeInv, ArgIsThread, HasThread, globals,
         stacks, external
<1>2. \/ /\ joiner[u] # NULL /\ vpc' = [vpc EXCEPT ![v] = "runnable"]
         /\ arg' = [arg EXCEPT ![v] = t] /\ ret' = [ret EXCEPT ![v] = "entry"]
      \/ /\ joiner[u] = NULL /\ vpc' = [vpc EXCEPT ![v] = "entry"]
         /\ arg' = [arg EXCEPT ![v] = NULL] /\ ret' = ret
  BY DEF JoinSwap, CallRunnable, CallbackDone, Goto
<1> HIDE DEF t, u
<1>3. /\ vpc \in [VCores -> Labels] /\ arg \in [VCores -> Threads \cup {NULL}]
      /\ ret \in [VCores -> {"entry", "events", "uthread", "publish"}]
      /\ joiner \in [Threads -> Threads \cup {NULL}]
      /\ joining \in [Threads -> Threads \cup {NULL}]
  BY DEF IInv, TypeInv, TypeOK
<1>4. \A x \in Threads : Exited(x)' <=> Exited(x)
  BY <1>1, <1>2, <1>3 DEF Exited
<1>5. joiner[u] # NULL <=> Exited(u)
  <2>1. ~detached[u]
    BY <1>1 DEF IInv, TcbAlive
  <2>2. Exited(u) => joiner[u] # NULL
    BY <1>1, <2>1 DEF IInv, JoinerFits
  <2>3. ~Exited(u) /\ joiner[u] # NULL => joining[u] = u /\ t # u
    BY <1>1 DEF IInv, JoinerFits
  <2>4. joining[u] = u => t = u
    BY <1>1 DEF IInv, HandlesUnique
  <2> QED BY <2>2, <2>3, <2>4
<1>6. \A w \in VCores : vpc[w] \in {"runnable", "join_swap"} /\ arg[w] = t => w = v
  BY <1>1 DEF IInv, PlacesDisjoint
<1>7. \A w \in VCores : w # v => vpc'[w] = vpc[w] /\ arg'[w] = arg[w] /\ ret'[w] = ret[w]
  BY <1>2, <1>3
<1>8. \/ joiner[u] # NULL /\ vpc'[v] = "runnable" /\ arg'[v] = t /\ ret'[v] = "entry"
      \/ joiner[u] = NULL /\ vpc'[v] = "entry"
  BY <1>2, <1>3
<1>9. StateFitsPlace'
  BY <1>1, <1>7, <1>8 DEF IInv, StateFitsPlace, Blocked
<1>10. PlacesDisjoint'
  <2>1. t \notin waiters \cup syscalls \cup Range(events)
    BY <1>1 DEF IInv, StateFitsPlace
  <2> QED BY <1>1, <1>7, <1>8, <2>1 DEF IInv, PlacesDisjoint
<1>11. LoopRunsNothing'
  BY <1>7, <1>8, <1>1 DEF IInv, LoopRunsNothing
<1>12. TcbAlive'
  BY <1>1, <1>4 DEF IInv, TcbAlive
<1>13. HandlesUnique'
  <2>1. \A w \in VCores : Publishing(w)' => Publishing(w) /\ arg'[w] = arg[w]
    BY <1>7, <1>8 DEF Publishing
  <2> QED BY <1>1, <2>1 DEF IInv, HandlesUnique
<1>14. JoinerFits'
  <2>1. JoinerFits
    BY DEF IInv
  <2>2. /\ joiner'[u] = t
        /\ \A x \in Threads : x # u => joiner'[x] = joiner[x]
    BY <1>1, <1>3
  <2>3. \A w \in VCores : w # v /\ vpc'[w] = "join_swap" =>
          /\ vpc[w] = "join_swap" /\ arg'[w] = arg[w] /\ arg[w] \in Threads
          /\ joining[arg[w]] # u
    <3>1. \A w \in VCores : vpc[w] = "join_swap" => arg[w] \in Threads
      BY DEF IInv, TypeInv, ArgIsThread, HasThread
    <3> QED BY <1>1, <1>6, <1>7, <3>1 DEF IInv, HandlesUnique
  <2>4. \A w \in VCores : vpc'[w] = "join_swap" =>
          joining'[arg'[w]] \in Threads /\ joiner'[joining'[arg'[w]]] \in {NULL, joining'[arg'[w]]}
    BY <1>1, <1>8, <2>1, <2>2, <2>3 DEF JoinerFits
  <2>5. ASSUME NEW x \in Threads, ~Exited(x), joiner'[x] # NULL
        PROVE  /\ joining[joiner'[x]] = x /\ state[joiner'[x]] = "BLK_JOINING"
               /\ \A w \in VCores : vpc'[w] \in {"runnable", "join_swap"} => arg'[w] # joiner'[x]
    <3>1. CASE x = u
      BY <1>1, <1>5, <1>6, <1>7, <1>8, <2>2, <2>5, <3>1
    <3>2. CASE x # u
      <4>1. /\ joiner'[x] = joiner[x]
            /\ joining[joiner[x]] = x /\ state[joiner[x]] = "BLK_JOINING"
            /\ \A w \in VCores : vpc[w] \in {"runnable", "join_swap"} => arg[w] # joiner[x]
        BY <2>1, <2>2, <2>5, <3>2 DEF JoinerFits
      <4>2. t # joiner[x]
        BY <1>1, <4>1
      <4> QED BY <1>7, <1>8, <4>1, <4>2
    <3> QED BY <3>1, <3>2
  <2>6. \A x \in Threads : Exited(x) /\ ~detached[x] => joiner'[x] # NULL
    BY <1>1, <2>1, <2>2 DEF JoinerFits
  <2>7. ASSUME NEW x \in Threads, joining[x] # NULL,
               state[x] # "BLK_JOINING" \/ \E w \in VCores : Hands(w, x)'
        PROVE  Exited(joining[x])
    <3>1. CASE x = t
      BY <1>1, <1>5, <1>6, <1>7, <1>8, <2>7, <3>1 DEF Hands
    <3>2. CASE x # t
      BY <1>7, <1>8, <2>1, <2>7, <3>2 DEF JoinerFits, Hands
    <3> QED BY <3>1, <3>2
  <2> QED BY <1>1, <1>3, <1>4, <2>4, <2>5, <2>6, <2>7 DEF JoinerFits
<1>15. Counts'
  BY <1>1 DEF IInv, Counts
<1> QED BY <1>9, <1>10, <1>11, <1>12, <1>13, <1>14, <1>15 DEF IInv

\* The exiting thread finds its slot empty, or a joiner that is parked.
LEMMA ExitSyncInvariant ==
  ASSUME IInv, TypeInv', NEW v \in VCores, ExitSync(v)
  PROVE  IInv'
<1> USE GlobalQueueAssumption
<1> DEFINE u == arg[v]
<1>1. /\ vpc[v] = "exit_sync" /\ u \in Threads /\ arg[v] = u /\ state[u] = "EXITING"
      /\ UNCHANGED <<ready_queue, active_queue, threads_ready, threads_active, state, detached,
                     retval, handles, joining, current, waiters, syscalls, events>>
  BY DEF ExitSync, IInv, StateFitsPlace, TypeInv, ArgIsThread, HasThread, globals, stacks, external
<1>2. \/ /\ detached[u] /\ tcb' = [tcb EXCEPT ![u] = "freed"] /\ joiner' = joiner
         /\ vpc' = [vpc EXCEPT ![v] = "entry"] /\ arg' = [arg EXCEPT ![v] = NULL] /\ ret' = ret
      \/ /\ ~detached[u] /\ joiner' = [joiner EXCEPT ![u] = u] /\ tcb' = tcb
         /\ joiner[u] = NULL
         /\ vpc' = [vpc EXCEPT ![v] = "entry"] /\ arg' = [arg EXCEPT ![v] = NULL] /\ ret' = ret
      \/ /\ ~detached[u] /\ joiner' = [joiner EXCEPT ![u] = u] /\ tcb' = tcb
         /\ joiner[u] # NULL
         /\ vpc' = [vpc EXCEPT ![v] = "runnable"] /\ arg' = [arg EXCEPT ![v] = joiner[u]]
         /\ ret' = [ret EXCEPT ![v] = "entry"]
  BY DEF ExitSync, CallRunnable, CallbackDone, Goto
<1> HIDE DEF u
<1> DEFINE t == joiner[u]
<1>3. /\ vpc \in [VCores -> Labels] /\ arg \in [VCores -> Threads \cup {NULL}]
      /\ ret \in [VCores -> {"entry", "events", "uthread", "publish"}]
      /\ joiner \in [Threads -> Threads \cup {NULL}]
      /\ joining \in [Threads -> Threads \cup {NULL}]
      /\ tcb \in [Threads -> {"unborn", "live", "freed"}]
  BY DEF IInv, TypeInv, TypeOK
<1>4. ~Exited(u)
  BY <1>1 DEF Exited
<1>5. \A w \in VCores : vpc[w] = "exit_sync" /\ arg[w] = u => w = v
  BY <1>1 DEF IInv, PlacesDisjoint
<1>6. t # NULL => /\ t \in Threads /\ joining[t] = u /\ state[t] = "BLK_JOINING"
                  /\ \A w \in VCores : vpc[w] \in {"runnable", "join_swap"} => arg[w] # t
  BY <1>1, <1>3, <1>4 DEF IInv, JoinerFits
<1>7. \A w \in VCores : w # v => vpc'[w] = vpc[w] /\ arg'[w] = arg[w] /\ ret'[w] = ret[w]
  BY <1>2, <1>3
<1>8. \/ vpc'[v] = "entry"
      \/ ~detached[u] /\ t # NULL /\ vpc'[v] = "runnable" /\ arg'[v] = t /\ ret'[v] = "entry"
  BY <1>2, <1>3
<1>9. \/ detached[u] /\ tcb'[u] = "freed" /\ joiner' = joiner
      \/ ~detached[u] /\ tcb'[u] = tcb[u] /\ joiner'[u] = u
  BY <1>1, <1>2, <1>3
<1>10. \A x \in Threads : x # u => tcb'[x] = tcb[x] /\ joiner'[x] = joiner[x]
  BY <1>1, <1>2, <1>3
<1> HIDE DEF t
<1>11. \A x \in Threads : Exited(x)' <=> Exited(x) \/ x = u
  BY <1>1, <1>5, <1>7, <1>8 DEF Exited
<1>12. StateFitsPlace'
  BY <1>1, <1>6, <1>7, <1>8 DEF IInv, StateFitsPlace, Blocked
<1>13. PlacesDisjoint'
  <2>1. t # NULL => t \notin waiters \cup syscalls \cup Range(events)
    BY <1>6 DEF IInv, StateFitsPlace
  <2> QED BY <1>1, <1>6, <1>7, <1>8, <2>1 DEF IInv, PlacesDisjoint
<1>14. LoopRunsNothing'
  BY <1>7, <1>8, <1>1 DEF IInv, LoopRunsNothing
<1>15. TcbAlive'
  <2>1. TcbAlive
    BY DEF IInv
  <2>2. tcb[u] = "live" /\ tcb'[u] # "unborn"
    BY <1>1, <1>4, <1>9, <2>1 DEF TcbAlive
  <2>3. \A x, y \in Threads : y \in handles[x] \/ joining[x] = y => tcb'[y] = "live" /\ ~detached[y]
    BY <1>1, <1>9, <1>10, <2>1 DEF TcbAlive
  <2> QED BY <1>1, <1>10, <1>11, <2>1, <2>2, <2>3 DEF TcbAlive
<1>16. HandlesUnique'
  <2>1. \A w \in VCores : Publishing(w)' => Publishing(w) /\ arg'[w] = arg[w]
    BY <1>7, <1>8 DEF Publishing
  <2>2. HandlesUnique
    BY DEF IInv
  <2>3. \A w \in VCores : Publishing(w) =>
          /\ tcb'[arg[w]] # "unborn"
          /\ ~detached[arg[w]] => tcb'[arg[w]] = "live"
    <3>1. \A w \in VCores : Publishing(w) => arg[w] \in Threads
      BY DEF IInv, TypeInv, ArgIsThread, HasThread, Publishing
    <3> QED BY <1>9, <1>10, <2>2, <3>1 DEF HandlesUnique
  <2> QED BY <1>1, <2>1, <2>2, <2>3 DEF HandlesUnique
<1>17. JoinerFits'
  <2>1. JoinerFits
    BY DEF IInv
  <2>2. \A w \in VCores : vpc'[w] = "join_swap" => w # v /\ vpc[w] = "join_swap" /\ arg'[w] = arg[w]
    BY <1>7, <1>8
  <2>3. \A w \in VCores : vpc'[w] = "join_swap" =>
          joining'[arg'[w]] \in Threads /\ joiner'[joining'[arg'[w]]] \in {NULL, joining'[arg'[w]]}
    BY <1>1, <1>9, <1>10, <2>1, <2>2 DEF JoinerFits
  <2>4. ASSUME NEW x \in Threads, ~Exited(x)', joiner'[x] # NULL
        PROVE  /\ joining[joiner'[x]] = x /\ state[joiner'[x]] = "BLK_JOINING"
               /\ \A w \in VCores : vpc'[w] \in {"runnable", "join_swap"} => arg'[w] # joiner'[x]
    <3>1. x # u /\ ~Exited(x) /\ joiner'[x] = joiner[x]
      BY <1>10, <1>11, <2>4
    <3>2. /\ joining[joiner[x]] = x /\ state[joiner[x]] = "BLK_JOINING"
          /\ \A w \in VCores : vpc[w] \in {"runnable", "join_swap"} => arg[w] # joiner[x]
      BY <2>1, <2>4, <3>1 DEF JoinerFits
    <3>3. t # NULL => t # joiner[x]
      BY <1>6, <3>1, <3>2
    <3> QED BY <1>7, <1>8, <3>1, <3>2, <3>3
  <2>5. \A x \in Threads : Exited(x)' /\ ~detached[x] => joiner'[x] # NULL
    BY <1>1, <1>9, <1>10, <1>11, <2>1 DEF JoinerFits
  <2>6. ASSUME NEW x \in Threads, joining[x] # NULL,
               state[x] # "BLK_JOINING" \/ \E w \in VCores : Hands(w, x)'
        PROVE  joining[x] \in Threads /\ (joining[x] = u \/ Exited(joining[x]))
    <3>1. joining[x] \in Threads
      BY <1>3, <2>6
    <3>2. CASE joining[x] # u
      <4>1. t # NULL => x # t
        BY <1>6, <3>2
      <4>2. state[x] # "BLK_JOINING" \/ \E w \in VCores : Hands(w, x)
        BY <1>7, <1>8, <2>6, <4>1 DEF Hands
      <4> QED BY <2>1, <2>6, <3>1, <4>2 DEF JoinerFits
    <3> QED BY <3>1, <3>2
  <2> QED BY <1>1, <1>11, <2>3, <2>4, <2>5, <2>6 DEF JoinerFits
<1>18. Counts'
  BY <1>1 DEF IInv, Counts
<1> QED BY <1>12, <1>13, <1>14, <1>15, <1>16, <1>17, <1>18 DEF IInv

\* The joiner that got back frees the target, and only it could.
LEMMA JoinDoneInvariant ==
  ASSUME IInv, TypeInv', NEW v \in VCores, JoinDone(v)
  PROVE  IInv'
<1> USE GlobalQueueAssumption
<1> DEFINE t == current[v]
<1> DEFINE u == joining[t]
<1>1. /\ current[v] = t /\ t \in Threads /\ joining[t] = u /\ u \in Threads
      /\ tcb' = [tcb EXCEPT ![u] = "freed"] /\ joining' = [joining EXCEPT ![t] = NULL]
      /\ UNCHANGED <<ready_queue, active_queue, threads_ready, threads_active, state, detached, joiner,
                     retval, handles, current, vpc, arg, ret, waiters, syscalls, events>>
  <2>1. current[v] \in Threads \cup {NULL} /\ \A x \in Threads : joining[x] \in Threads \cup {NULL}
    BY DEF IInv, TypeInv, TypeOK
  <2> QED BY <2>1 DEF JoinDone, globals, vcores, external
<1> HIDE DEF t, u
<1>2. /\ state[t] \in {"RUNNABLE", "RUNNING"} /\ Exited(u)
      /\ \A w \in VCores : vpc[w] \in {"runnable", "join_swap", "exit_sync"} => arg[w] # t
      /\ \A x \in Threads : ~Exited(x) => joiner[x] # t
  BY <1>1, CurrentThread
<1>3. /\ tcb'[u] = "freed" /\ joining'[t] = NULL
      /\ \A x \in Threads : x # u => tcb'[x] = tcb[x]
      /\ \A x \in Threads : x # t => joining'[x] = joining[x]
  BY <1>1 DEF IInv, TypeInv, TypeOK
<1>4. /\ \A x \in Threads : u \notin handles[x] /\ (joining[x] = u => x = t)
      /\ \A w \in VCores : Publishing(w) => arg[w] # u
  BY <1>1 DEF IInv, HandlesUnique
<1>5. \A x \in Threads : Exited(x)' <=> Exited(x)
  BY <1>1 DEF Exited
<1>6. StateFitsPlace' /\ PlacesDisjoint' /\ LoopRunsNothing' /\ Counts'
  BY <1>1 DEF IInv, StateFitsPlace, PlacesDisjoint, LoopRunsNothing, Counts
<1>7. TcbAlive'
  <2>1. state[u] = "EXITING" /\ TcbAlive
    BY <1>2 DEF Exited, IInv
  <2> QED BY <1>1, <1>2, <1>3, <1>4, <1>5, <2>1 DEF TcbAlive
<1>8. HandlesUnique'
  <2>1. \A w \in VCores : Publishing(w)' <=> Publishing(w)
    BY <1>1 DEF Publishing
  <2>2. \A w \in VCores : Publishing(w) => arg[w] \in Threads
    BY DEF IInv, TypeInv, ArgIsThread, HasThread, Publishing
  <2> QED BY <1>1, <1>3, <1>4, <2>1, <2>2 DEF IInv, HandlesUnique
<1>9. JoinerFits'
  <2>1. JoinerFits
    BY DEF IInv
  <2>2. joining \in [Threads -> Threads \cup {NULL}] /\ joiner \in [Threads -> Threads \cup {NULL}]
    BY DEF IInv, TypeInv, TypeOK
  <2>3. \A w \in VCores : vpc[w] = "join_swap" => arg[w] \in Threads
    BY DEF IInv, TypeInv, ArgIsThread, HasThread
  <2> QED BY <1>1, <1>2, <1>3, <1>5, <2>1, <2>2, <2>3 DEF JoinerFits, Hands
<1> QED BY <1>6, <1>7, <1>8, <1>9 DEF IInv

(***************************************************************************)
(* A thread is born, and its handle is stored.                             *)
(***************************************************************************)
LEMMA CreateInvariant ==
  ASSUME IInv, TypeInv', NEW v \in VCores, NEW t \in Threads, NEW u \in Threads, NEW d \in BOOLEAN,
         Create(v, t, u, d)
  PROVE  IInv'
<1> USE GlobalQueueAssumption
<1>1. /\ vpc[v] = "uthread" /\ tcb[u] = "unborn" /\ tcb' = [tcb EXCEPT ![u] = "live"]
      /\ state' = [state EXCEPT ![u] = "CREATED"] /\ detached' = [detached EXCEPT ![u] = d]
      /\ vpc' = [vpc EXCEPT ![v] = "runnable"] /\ arg' = [arg EXCEPT ![v] = u]
      /\ ret' = [ret EXCEPT ![v] = "publish"]
      /\ UNCHANGED <<ready_queue, active_queue, threads_ready, threads_active, joiner, retval,
                     handles, joining, current, waiters, syscalls, events>>
  BY DEF Create, Executes, CallRunnable, Goto, globals, stacks, external
<1>2. /\ vpc \in [VCores -> Labels] /\ arg \in [VCores -> Threads \cup {NULL}]
      /\ ret \in [VCores -> {"entry", "events", "uthread", "publish"}]
      /\ tcb \in [Threads -> {"unborn", "live", "freed"}] /\ state \in [Threads -> States]
      /\ detached \in [Threads -> BOOLEAN]
      /\ joiner \in [Threads -> Threads \cup {NULL}]
      /\ joining \in [Threads -> Threads \cup {NULL}]
  BY DEF IInv, TypeInv, TypeOK
<1>3. state[u] = "UNUSED" /\ ~Exited(u)
  BY <1>1 DEF IInv, TcbAlive, Exited
<1>4. /\ \A x \in Threads : u \notin handles[x] /\ joining[x] # u
      /\ \A w \in VCores : Publishing(w) => arg[w] # u
  BY <1>1 DEF IInv, TcbAlive, HandlesUnique
<1>5. joiner[u] = NULL /\ \A x \in Threads : ~Exited(x) => joiner[x] # u
  BY <1>2, <1>3, <1>4 DEF IInv, JoinerFits
<1>6. /\ \A w \in VCores : w # v => vpc'[w] = vpc[w] /\ arg'[w] = arg[w] /\ ret'[w] = ret[w]
      /\ vpc'[v] = "runnable" /\ arg'[v] = u /\ ret'[v] = "publish"
  BY <1>1, <1>2
<1>7. /\ tcb'[u] = "live" /\ state'[u] = "CREATED"
      /\ \A x \in Threads : x # u => tcb'[x] = tcb[x] /\ state'[x] = state[x]
  BY <1>1, <1>2
<1>8. \A x \in Threads : x # u => (detached'[x] <=> detached[x])
  BY <1>1, <1>2, Zenon
<1>9. \A x \in Threads : Exited(x)' <=> Exited(x)
  BY <1>1, <1>3, <1>6, <1>7 DEF Exited
<1>10. StateFitsPlace'
  <2>1. /\ Range(ready_queue) \subseteq Threads /\ waiters \subseteq Threads
        /\ syscalls \subseteq Threads /\ Range(events) \subseteq Threads
        /\ \A w \in VCores : current[w] \in Threads \cup {NULL}
        /\ \A w \in VCores : vpc[w] \in HasThread => arg[w] \in Threads
    BY DEF IInv, TypeInv, TypeOK, ArgIsThread, Range
  <2>2. StateFitsPlace
    BY DEF IInv
  <2> QED BY <1>1, <1>3, <1>6, <1>7, <2>1, <2>2 DEF StateFitsPlace, Blocked, HasThread
<1>11. PlacesDisjoint'
  <2>1. /\ u \notin waiters \cup syscalls \cup Range(events)
        /\ \A w \in VCores : vpc[w] \in {"runnable", "join_swap"} => arg[w] # u
    BY <1>3 DEF IInv, StateFitsPlace, Blocked
  <2> QED BY <1>1, <1>6, <2>1 DEF IInv, PlacesDisjoint
<1>12. LoopRunsNothing'
  BY <1>1, <1>6 DEF IInv, LoopRunsNothing
<1>13. TcbAlive'
  <2>1. TcbAlive
    BY DEF IInv
  <2>2. \A x \in Threads : tcb'[x] = "unborn" <=> state'[x] = "UNUSED"
    BY <1>7, <2>1 DEF TcbAlive
  <2>3. \A x \in Threads : state'[x] # "UNUSED" /\ ~Exited(x)' => tcb'[x] = "live"
    BY <1>7, <1>9, <2>1 DEF TcbAlive
  <2>4. \A x \in Threads : state'[x] = "EXITING" => retval'[x]
    BY <1>1, <1>7, <2>1 DEF TcbAlive
  <2>5. \A x, y \in Threads : y \in handles'[x] \/ joining'[x] = y => tcb'[y] = "live" /\ ~detached'[y]
    BY <1>1, <1>4, <1>7, <1>8, <2>1 DEF TcbAlive
  <2> QED BY <2>2, <2>3, <2>4, <2>5 DEF TcbAlive
<1>14. HandlesUnique'
  <2>1. HandlesUnique
    BY DEF IInv
  <2>2. \A w \in VCores : Publishing(w)' => w = v \/ (Publishing(w) /\ arg[w] \in Threads)
    BY <1>6 DEF Publishing, IInv, TypeInv, ArgIsThread, HasThread
  <2>3. \A w \in VCores : Publishing(w)' =>
          /\ tcb'[arg'[w]] # "unborn"
          /\ ~detached'[arg'[w]] => tcb'[arg'[w]] = "live"
    BY <1>4, <1>6, <1>7, <1>8, <2>1, <2>2 DEF HandlesUnique
  <2>4. \A w \in VCores : Publishing(w)' =>
          \A x \in Threads : arg'[w] \notin handles'[x] /\ joining'[x] # arg'[w]
    BY <1>1, <1>4, <1>6, <2>1, <2>2 DEF HandlesUnique
  <2>5. \A w, x \in VCores : Publishing(w)' /\ Publishing(x)' /\ arg'[w] = arg'[x] => w = x
    BY <1>4, <1>6, <2>1, <2>2 DEF HandlesUnique
  <2> QED BY <1>1, <2>1, <2>3, <2>4, <2>5 DEF HandlesUnique
<1>15. JoinerFits'
  <2>1. JoinerFits
    BY DEF IInv
  <2>2. \A w \in VCores : vpc'[w] = "join_swap" =>
          joining'[arg'[w]] \in Threads /\ joiner'[joining'[arg'[w]]] \in {NULL, joining'[arg'[w]]}
    BY <1>1, <1>6, <2>1 DEF JoinerFits
  <2>3. ASSUME NEW x \in Threads, ~Exited(x), joiner[x] # NULL
        PROVE  /\ joining[joiner[x]] = x /\ state'[joiner[x]] = "BLK_JOINING"
               /\ \A w \in VCores : vpc'[w] \in {"runnable", "join_swap"} => arg'[w] # joiner[x]
    BY <1>2, <1>5, <1>6, <1>7, <2>1, <2>3 DEF JoinerFits
  <2>4. \A x \in Threads : Exited(x) /\ ~detached'[x] => joiner[x] # NULL
    BY <1>3, <1>8, <2>1 DEF JoinerFits
  <2>5. ASSUME NEW x \in Threads, joining[x] # NULL,
               state'[x] # "BLK_JOINING" \/ \E w \in VCores : Hands(w, x)'
        PROVE  Exited(joining[x])
    BY <1>3, <1>6, <1>7, <2>1, <2>5 DEF JoinerFits, Hands
  <2> QED BY <1>1, <1>2, <1>9, <2>2, <2>3, <2>4, <2>5 DEF JoinerFits
<1>16. Counts'
  BY <1>1 DEF IInv, Counts
<1> QED BY <1>10, <1>11, <1>12, <1>13, <1>14, <1>15, <1>16 DEF IInv

LEMMA PublishInvariant ==
  ASSUME IInv, TypeInv', NEW v \in VCores, Publish(v)
  PROVE  IInv'
<1> USE GlobalQueueAssumption
<1> DEFINE u == arg[v]
<1> DEFINE t == current[v]
<1>1. /\ vpc[v] = "publish" /\ u \in Threads /\ arg[v] = u
      /\ vpc' = [vpc EXCEPT ![v] = "uthread"] /\ arg' = [arg EXCEPT ![v] = NULL]
      /\ handles' = IF detached[u] THEN handles ELSE [handles EXCEPT ![t] = @ \cup {u}]
      /\ UNCHANGED <<ready_queue, active_queue, threads_ready, threads_active, tcb, state, detached,
                     joiner, retval, joining, current, ret, waiters, syscalls, events>>
  BY DEF Publish, Goto, globals, tcbs, external, IInv, TypeInv, ArgIsThread, HasThread
<1> HIDE DEF u, t
<1>2. /\ vpc \in [VCores -> Labels] /\ arg \in [VCores -> Threads \cup {NULL}]
      /\ handles \in [Threads -> SUBSET Threads]
  BY DEF IInv, TypeInv, TypeOK
<1>3. \A w \in VCores : w # v => vpc'[w] = vpc[w] /\ arg'[w] = arg[w]
  BY <1>1, <1>2
<1>4. \A x, y \in Threads : y \in handles'[x] =>
        y \in handles[x] \/ (y = u /\ x = t /\ ~detached[u])
  BY <1>1, <1>2
<1>5. \A x \in Threads : Exited(x)' <=> Exited(x)
  BY <1>1, <1>2, <1>3 DEF Exited
<1>6. Publishing(v)
  BY <1>1 DEF Publishing
<1>7. /\ ~detached[u] => tcb[u] = "live"
      /\ \A x \in Threads : u \notin handles[x] /\ joining[x] # u
      /\ \A w \in VCores : Publishing(w) /\ arg[w] = u => w = v
  BY <1>1, <1>6 DEF IInv, HandlesUnique
<1>8. StateFitsPlace'
  BY <1>1, <1>2 DEF IInv, StateFitsPlace
<1>9. PlacesDisjoint'
  BY <1>1, <1>2 DEF IInv, PlacesDisjoint
<1>10. LoopRunsNothing'
  BY <1>1, <1>2 DEF IInv, LoopRunsNothing
<1>11. TcbAlive'
  BY <1>1, <1>4, <1>5, <1>7 DEF IInv, TcbAlive
<1>12. HandlesUnique'
  <2>1. \A w \in VCores : Publishing(w)' => w # v /\ Publishing(w) /\ arg'[w] = arg[w] /\ arg[w] \in Threads
    BY <1>1, <1>2 DEF Publishing, IInv, TypeInv, ArgIsThread, HasThread
  <2> QED BY <1>1, <1>4, <1>7, <2>1 DEF IInv, HandlesUnique
<1>13. JoinerFits'
  <2>1. JoinerFits /\ joining \in [Threads -> Threads \cup {NULL}]
    BY DEF IInv, TypeInv, TypeOK
  <2>2. \A w \in VCores : vpc'[w] \in {"runnable", "join_swap"} =>
          vpc[w] = vpc'[w] /\ arg'[w] = arg[w]
    BY <1>1, <1>2
  <2> QED BY <1>1, <1>5, <2>1, <2>2 DEF JoinerFits, Hands
<1>14. Counts'
  BY <1>1 DEF IInv, Counts
<1> QED BY <1>8, <1>9, <1>10, <1>11, <1>12, <1>13, <1>14 DEF IInv

----------------------------------------------------------------------------
LEMMA NextInvariant == IInv /\ [Next]_vars => IInv'
<1> SUFFICES ASSUME IInv, [Next]_vars PROVE IInv'
  OBVIOUS
<1>1. TypeInv'
  BY NextType DEF IInv
<1>2. ASSUME UNCHANGED vars PROVE IInv'
  <2>1. UNCHANGED <<ready_queue, active_queue, threads_ready, threads_active, tcb, state, detached,
                    joiner, retval, handles, joining, current, vpc, arg, ret, waiters, syscalls, events>>
    BY <1>2 DEF vars, globals, tcbs, stacks, vcores, external
  <2>2. \A x \in Threads : Exited(x)' <=> Exited(x)
    BY <2>1 DEF Exited
  <2>3. StateFitsPlace' /\ PlacesDisjoint' /\ LoopRunsNothing' /\ Counts'
    BY <2>1 DEF IInv, StateFitsPlace, PlacesDisjoint, LoopRunsNothing, Counts
  <2>4. TcbAlive'
    BY <2>1, <2>2 DEF IInv, TcbAlive
  <2>5. HandlesUnique'
    BY <2>1 DEF IInv, HandlesUnique, Publishing
  <2>6. JoinerFits'
    BY <2>1, <2>2 DEF IInv, JoinerFits, Hands, TypeInv, TypeOK
  <2> QED BY <1>1, <2>3, <2>4, <2>5, <2>6 DEF IInv
<1>3. ASSUME NEW v \in VCores, RuntimeStep(v) PROVE IInv'
  BY <1>1, <1>3, QuietSteps, DequeueInvariant, HandleSyscallInvariant, RunnableInvariant,
     PublishInvariant, JoinSwapInvariant, JoinDoneInvariant, ExitSyncInvariant DEF RuntimeStep
<1>4. ASSUME NEW v \in VCores, ClientStep(v) PROVE IInv'
  <2>1. CASE LeaveVCore(v)
    BY <1>1, <2>1, ParkSteps, ExitInvariant DEF LeaveVCore
  <2>2. CASE ~LeaveVCore(v)
    BY <1>1, <1>2, <1>4, <2>2, ParkSteps, QuietSteps, JoinCallInvariant, CreateInvariant,
       WakeInvariant DEF ClientStep, JoinDetached
  <2> QED BY <2>1, <2>2
<1>5. ASSUME NEW v \in VCores, VCoreUp(v) PROVE IInv'
  BY <1>1, <1>5, QuietSteps
<1>6. ASSUME NEW t \in Threads, KernelCompletes(t) PROVE IInv'
  BY <1>1, <1>6, KernelInvariant
<1> QED BY <1>2, <1>3, <1>4, <1>5, <1>6 DEF Next, Finished

\* The invariant holds in every reachable state.
THEOREM Invariance == Spec => []IInv
<1>1. Init => IInv
  BY InitInvariant
<1>2. IInv /\ [Next]_vars => IInv'
  BY NextInvariant
<1> QED BY <1>1, <1>2, PTL DEF Spec

(***************************************************************************)
(* What the invariant means for the threads.                               *)
(***************************************************************************)

\* pth_thread_runnable never reports an "Odd state" (lines 116-127), however
\* many threads, vcores and blockers there are.
THEOREM WakesFindParked == Spec => []NoOddWake
<1>1. IInv => NoOddWake
  BY DEF IInv, StateFitsPlace, NoOddWake
<1> QED BY <1>1, Invariance, PTL

\* No thread runs on two vcores, or is queued while it runs (the fear of line
\* 79): what enqueues a thread has taken it from everywhere else.
THEOREM OnePlace == Spec => []OnePlacePerThread
<1>1. ASSUME IInv PROVE OnePlacePerThread
  <2> USE GlobalQueueAssumption
  <2>1. IsInjective(ready_queue) /\ \A v, w \in VCores : v # w /\ current[v] # NULL => current[v] # current[w]
    BY <1>1 DEF IInv, PlacesDisjoint
  <2>2. \A v, w \in VCores : v # w => HandedTo(v) \cap HandedTo(w) = {}
    BY <1>1 DEF IInv, PlacesDisjoint, HandedTo
  <2>3. /\ DOMAIN current = VCores
        /\ \A v \in VCores : current[v] \in Threads \cup {NULL}
        /\ \A v \in VCores : vpc[v] = "runnable" => arg[v] \in Threads
    BY <1>1 DEF IInv, TypeInv, TypeOK, ArgIsThread, HasThread
  <2>4. \A v \in VCores : HandedTo(v) \cap (Range(ready_queue) \cup Range(current)) = {}
    <3>1. ASSUME NEW v \in VCores, vpc[v] = "runnable"
          PROVE  arg[v] \notin Range(ready_queue) /\ \A w \in VCores : current[w] # arg[v]
      BY <1>1, <2>3, <3>1 DEF IInv, StateFitsPlace, Blocked
    <3>2. ASSUME NEW v \in VCores, vpc[v] = "runnable" PROVE arg[v] \notin Range(current)
      BY <2>3, <3>1, <3>2 DEF Range
    <3> QED BY <3>1, <3>2 DEF HandedTo
  <2>5. Range(ready_queue) \cap (Range(current) \cup waiters \cup syscalls \cup Range(events)) = {}
    <3>1. Range(ready_queue) \cap Range(current) = {}
      <4>1. \A t \in Range(ready_queue) : \A v \in VCores : current[v] # t
        BY <1>1 DEF IInv, PlacesDisjoint
      <4> QED BY <2>3, <4>1 DEF Range
    <3>2. Range(ready_queue) \cap (waiters \cup syscalls \cup Range(events)) = {}
      BY <1>1 DEF IInv, StateFitsPlace
    <3> QED BY <3>1, <3>2
  <2> QED BY <2>1, <2>2, <2>4, <2>5 DEF OnePlacePerThread
<1> QED BY <1>1, Invariance, PTL

\* The counters and the active queue keep their promise.
THEOREM HonestCounters == Spec => []Accounting
<1>1. ASSUME IInv PROVE Accounting
  <2>1. threads_ready = Len(ready_queue) /\ threads_active = Cardinality(active_queue)
    BY <1>1 DEF IInv, Counts
  <2>2. /\ DOMAIN current = VCores /\ active_queue \subseteq Threads
        /\ \A v \in VCores : current[v] \in Threads \cup {NULL}
    BY <1>1 DEF IInv, TypeInv, TypeOK
  <2>3. \A t \in Threads : t \in active_queue <=> \E v \in VCores : current[v] = t
    BY <1>1 DEF IInv, Counts
  <2>4. active_queue = Range(current) \ {NULL}
    BY <2>2, <2>3, GlobalQueueAssumption DEF Range
  <2> QED BY <2>1, <2>4 DEF Accounting
<1> QED BY <1>1, Invariance, PTL

\* Nobody touches a freed TCB: not a joiner and the exiting thread it meets in
\* the joiner field, not the wake-up of either, not a second free; and no handle of
\* a joinable thread leads to one.
THEOREM TcbsOutliveUse == Spec => []NoUseAfterFree
<1>1. ASSUME IInv, NEW v \in VCores, NEW t \in Touches(v) PROVE tcb[t] = "live"
  <2> USE GlobalQueueAssumption
  <2>1. /\ \A x \in Threads : state[x] # "UNUSED" /\ ~Exited(x) => tcb[x] = "live"
        /\ \A x, y \in Threads : joining[x] = y => tcb[y] = "live"
    BY <1>1 DEF IInv, TcbAlive
  <2>2. /\ current[v] \in Threads \cup {NULL}
        /\ \A x \in Threads : joining[x] \in Threads \cup {NULL}
        /\ vpc[v] \in HasThread => arg[v] \in Threads
    BY <1>1 DEF IInv, TypeInv, TypeOK, ArgIsThread
  <2>3. CASE vpc[v] = "runnable"
    <3>1. arg[v] \in Threads /\ state[arg[v]] \in Blocked /\ Touches(v) = {arg[v]}
      BY <1>1, <2>2, <2>3 DEF IInv, StateFitsPlace, HasThread, Touches
    <3> QED BY <2>1, <3>1 DEF Exited, Blocked
  <2>4. CASE vpc[v] = "exit_sync"
    <3>1. arg[v] \in Threads /\ state[arg[v]] = "EXITING" /\ Touches(v) = {arg[v]}
      BY <1>1, <2>2, <2>4 DEF IInv, StateFitsPlace, HasThread, Touches
    <3> QED BY <2>1, <2>4, <3>1 DEF Exited
  <2>5. CASE vpc[v] = "join_swap"
    <3>1. /\ arg[v] \in Threads /\ state[arg[v]] = "BLK_JOINING" /\ joining[arg[v]] \in Threads
          /\ Touches(v) = {arg[v], joining[arg[v]]}
      BY <1>1, <2>2, <2>5 DEF IInv, StateFitsPlace, JoinerFits, HasThread, Touches
    <3> QED BY <2>1, <3>1 DEF Exited
  <2>6. CASE vpc[v] = "uthread" /\ current[v] # NULL
    <3>1. /\ current[v] \in Threads /\ Touches(v) = {current[v], joining[current[v]]} \ {NULL}
      BY <2>2, <2>6 DEF Touches
    <3>2. tcb[current[v]] = "live"
      BY <1>1, <3>1, CurrentThread
    <3> QED BY <2>1, <2>2, <3>1, <3>2
  <2>7. CASE vpc[v] \notin {"runnable", "exit_sync", "join_swap"} /\ ~(vpc[v] = "uthread" /\ current[v] # NULL)
    BY <2>7 DEF Touches
  <2> QED BY <2>3, <2>4, <2>5, <2>6, <2>7
<1>2. ASSUME IInv, NEW v \in VCores, vpc[v] = "publish", ~detached[arg[v]]
      PROVE  tcb[arg[v]] = "live"
  BY <1>2 DEF IInv, HandlesUnique, Publishing
<1>3. ASSUME IInv, NEW t \in Threads, NEW u \in handles[t] PROVE tcb[u] = "live"
  BY <1>3 DEF IInv, TcbAlive, TypeInv, TypeOK
<1>4. IInv => NoUseAfterFree
  BY <1>1, <1>2, <1>3 DEF NoUseAfterFree
<1> QED BY <1>4, Invariance, PTL

\* When upthread_join frees the target, the target has stored its value, has
\* left its stack, and no callback on another vcore needs its TCB any more.
THEOREM JoinersFindExited == Spec => []JoinSeesExit
<1>1. ASSUME IInv, NEW v \in VCores, NEW t \in Threads, NEW u \in Threads,
             vpc[v] = "uthread", current[v] = t, joining[t] = u
      PROVE  /\ retval[u] /\ state[u] = "EXITING" /\ joiner[u] # NULL
             /\ \A w \in VCores : w # v => u \notin Touches(w)
  <2> USE GlobalQueueAssumption
  <2>1. /\ Exited(u) /\ state[u] = "EXITING"
        /\ \A w \in VCores : current[w] = t => w = v
        /\ \A w \in VCores : vpc[w] = "join_swap" => arg[w] # t
    BY <1>1, CurrentThread DEF Exited
  <2>2. retval[u] /\ ~detached[u]
    BY <1>1, <2>1 DEF IInv, TcbAlive
  <2>3. joiner[u] # NULL
    BY <1>1, <2>1, <2>2 DEF IInv, JoinerFits
  <2>4. ASSUME NEW w \in VCores, w # v PROVE u \notin Touches(w)
    <3>1. /\ current[w] \in Threads \cup {NULL}
          /\ vpc[w] \in HasThread => arg[w] \in Threads
      BY <1>1 DEF IInv, TypeInv, TypeOK, ArgIsThread
    <3>2. \A x \in Threads : joining[x] = u => x = t
      BY <1>1 DEF IInv, HandlesUnique
    <3>3. /\ vpc[w] = "runnable" => arg[w] # u
          /\ vpc[w] = "join_swap" => arg[w] # u
          /\ current[w] # u
      BY <1>1, <2>1 DEF IInv, StateFitsPlace, Blocked
    <3>4. vpc[w] = "exit_sync" => arg[w] # u
      BY <2>1 DEF Exited
    <3>5. vpc[w] = "join_swap" => joining[arg[w]] # u
      BY <2>1, <3>1, <3>2 DEF HasThread
    <3>6. current[w] # NULL => joining[current[w]] # u
      BY <2>1, <2>4, <3>1, <3>2
    <3> QED BY <3>3, <3>4, <3>5, <3>6 DEF Touches
  <2> QED BY <2>1, <2>2, <2>3, <2>4
<1>2. IInv => JoinSeesExit
  BY <1>1 DEF JoinSeesExit
<1> QED BY <1>2, Invariance, PTL
----------------------------------------------------------------------------
(***************************************************************************)
(* GlobalQueue implements SchedOps, the contract of a second-level         *)
(* scheduler: every step moves at most one thread from one phase of its    *)
(* life to the next.                                                       *)
(***************************************************************************)

\* What the phase of t depends on, in terms of the code's variables.
SamePhase(t) ==
  /\ tcb'[t] = "unborn" <=> tcb[t] = "unborn"
  /\ state'[t] = "EXITING" <=> state[t] = "EXITING"
  /\ t \in active_queue' <=> t \in active_queue
  /\ t \in Range(ready_queue') <=> t \in Range(ready_queue)

PhaseFits(t) ==
  /\ tcb[t] = "unborn" <=> phaseOf[t] = "unborn"
  /\ state[t] = "EXITING" <=> phaseOf[t] = "dead"
  /\ t \in active_queue <=> phaseOf[t] = "running"
  /\ t \in Range(ready_queue) <=> phaseOf[t] = "runnable"
  /\ phaseOf[t] \in {"unborn", "dead", "running", "runnable", "parked"}

PhasesFit == \A t \in Threads : PhaseFits(t)

\* The four conditions of phaseOf exclude each other.
LEMMA PhaseIs == IInv => PhasesFit
<1> SUFFICES ASSUME IInv, NEW t \in Threads PROVE PhaseFits(t)
  BY DEF PhasesFit
<1> USE DEF PhaseFits
<1>1. tcb[t] = "unborn" <=> state[t] = "UNUSED"
  BY DEF IInv, TcbAlive
<1>2. t \in active_queue => state[t] \in {"RUNNABLE", "RUNNING"} /\ t \notin Range(ready_queue)
  BY GlobalQueueAssumption DEF IInv, Counts, StateFitsPlace, PlacesDisjoint
<1>3. t \in Range(ready_queue) => state[t] = "RUNNABLE"
  BY DEF IInv, StateFitsPlace
<1>4. phaseOf[t] = CASE tcb[t] = "unborn" -> "unborn"
                     [] state[t] = "EXITING" -> "dead"
                     [] t \in active_queue -> "running"
                     [] t \in Range(ready_queue) -> "runnable"
                     [] OTHER -> "parked"
  BY DEF phaseOf
<1>5. CASE tcb[t] = "unborn"
  BY <1>1, <1>2, <1>3, <1>4, <1>5
<1>6. CASE state[t] = "EXITING"
  BY <1>1, <1>2, <1>3, <1>4, <1>6
<1>7. CASE t \in active_queue
  BY <1>1, <1>2, <1>3, <1>4, <1>7
<1>8. CASE t \in Range(ready_queue)
  BY <1>1, <1>2, <1>3, <1>4, <1>8
<1>9. CASE tcb[t] # "unborn" /\ state[t] # "EXITING" /\ t \notin active_queue /\ t \notin Range(ready_queue)
  BY <1>4, <1>9
<1> QED BY <1>5, <1>6, <1>7, <1>8, <1>9

\* A step after which no thread is in another phase is a stutter.
LEMMA NoMove ==
  ASSUME IInv, IInv', \A x \in Threads : SamePhase(x)
  PROVE  phaseOf' = phaseOf
<1>1. ASSUME NEW x \in Threads PROVE phaseOf'[x] = phaseOf[x]
  <2>1. PhasesFit /\ PhasesFit'
    BY PhaseIs, PTL
  <2> QED BY <2>1 DEF SamePhase, PhasesFit, PhaseFits
<1>2. DOMAIN phaseOf = Threads /\ phaseOf = [x \in Threads |-> phaseOf[x]]
  BY DEF phaseOf
<1>3. phaseOf' = [x \in Threads |-> phaseOf'[x]]
  BY DEF phaseOf
<1> QED BY <1>1, <1>2, <1>3

\* A step after which only t is in another phase is a move of t.
LEMMA OneMoves ==
  ASSUME IInv, IInv', NEW t \in Threads, NEW from, NEW to,
         \A x \in Threads : x # t => SamePhase(x),
         PhasesFit /\ PhasesFit' => phaseOf[t] = from /\ phaseOf'[t] = to
  PROVE  Contract!Move(t, from, to)
<1>1. PhasesFit /\ PhasesFit'
  BY PhaseIs, PTL
<1>2. \A x \in Threads : x # t => phaseOf'[x] = phaseOf[x]
  BY <1>1 DEF SamePhase, PhasesFit, PhaseFits
<1>3. DOMAIN phaseOf = Threads /\ phaseOf = [x \in Threads |-> phaseOf[x]]
  BY DEF phaseOf
<1>4. phaseOf' = [x \in Threads |-> phaseOf'[x]]
  BY DEF phaseOf
<1>5. phaseOf[t] = from /\ phaseOf' = [phaseOf EXCEPT ![t] = to]
  BY <1>1, <1>2, <1>3, <1>4
<1> QED BY <1>5 DEF Contract!Move

\* A vcore that is about to dispatch is one more than there are active threads.
LEMMA RoomToDispatch ==
  ASSUME IInv, NEW v \in VCores, current[v] = NULL
  PROVE  Cardinality(active_queue) < Cardinality(VCores)
<1> USE GlobalQueueAssumption
<1>1. \A t \in active_queue : \E w \in VCores \ {v} : current[w] = t
  BY DEF IInv, Counts, TypeInv, TypeOK
<1> DEFINE f == [t \in active_queue |-> CHOOSE w \in VCores \ {v} : current[w] = t]
<1>2. \A t \in active_queue : f[t] \in VCores \ {v} /\ current[f[t]] = t
  BY <1>1
<1>3. f \in [active_queue -> VCores \ {v}]
  BY <1>2
<1>4. IsInjective(f)
  BY <1>2 DEF IsInjective
<1>5. f \in Injection(active_queue, VCores \ {v})
  BY <1>3, <1>4 DEF Injection
<1>6. IsFiniteSet(VCores \ {v}) /\ Cardinality(VCores \ {v}) = Cardinality(VCores) - 1
  BY FS_RemoveElement
<1>7. Cardinality(active_queue) <= Cardinality(VCores) - 1
  BY <1>5, <1>6, FS_Injection
<1>8. Cardinality(active_queue) \in Nat /\ Cardinality(VCores) \in Nat
  BY FS_CardinalityType DEF IInv, Counts
<1> QED BY <1>7, <1>8

\* sched_entry takes the head of the queue to a vcore that ran nothing.
LEMMA DequeueMoves ==
  ASSUME IInv, IInv', NEW v \in VCores, DequeueThread(v)
  PROVE  \E t \in Threads : Contract!Dispatch(t)
<1> DEFINE h == Head(ready_queue)
<1>1. /\ vpc[v] = "dequeue" /\ ready_queue # <<>> /\ ready_queue' = Tail(ready_queue)
      /\ active_queue' = active_queue \cup {h} /\ UNCHANGED <<tcb, state>>
  BY DEF DequeueThread, tcbs
<1>2. h \in Threads /\ h \in Range(ready_queue) /\ Range(ready_queue') = Range(ready_queue) \ {h}
  BY <1>1, PopRange DEF IInv, PlacesDisjoint, TypeInv, TypeOK
<1> PICK t \in Threads : t = h
  BY <1>2
<1> HIDE DEF h
<1>3. current[v] = NULL
  BY <1>1 DEF IInv, LoopRunsNothing
<1>4. Contract!Move(t, "runnable", "running")
  <2>1. \A x \in Threads : x # t => SamePhase(x)
    BY <1>1, <1>2 DEF SamePhase
  <2>2. PhasesFit /\ PhasesFit' => phaseOf[t] = "runnable" /\ phaseOf'[t] = "running"
    BY <1>1, <1>2 DEF PhasesFit, PhaseFits
  <2> QED BY <2>1, <2>2, OneMoves
<1>5. Contract!Running = active_queue
  BY PhaseIs DEF PhasesFit, PhaseFits, Contract!Running, IInv, TypeInv, TypeOK
<1>6. Contract!Dispatch(t)
  BY <1>3, <1>4, <1>5, RoomToDispatch DEF Contract!Dispatch, Contract!Cardinality, Cardinality
<1> QED BY <1>6

\* A thread of the client leaves its vcore, and is parked or dead.
LEMMA LeaveMoves ==
  ASSUME IInv, IInv', NEW v \in VCores, NEW t \in Threads, current[v] = t, GenericYield(v, t),
         NEW s, state' = [state EXCEPT ![t] = s], tcb' = tcb
  PROVE  /\ s = "EXITING" => Contract!Exit(t)
         /\ s # "EXITING" => Contract!Park(t)
<1>1. /\ active_queue' = active_queue \ {t} /\ ready_queue' = ready_queue
      /\ t \in active_queue
  BY DEF GenericYield, IInv, Counts
<1>2. state[t] # "EXITING" /\ t \notin Range(ready_queue) /\ tcb[t] = "live"
  BY CurrentThread
<1>3. state'[t] = s /\ \A x \in Threads : x # t => state'[x] = state[x]
  BY DEF IInv, TypeInv, TypeOK
<1>4. \A x \in Threads : x # t => SamePhase(x)
  BY <1>1, <1>3 DEF SamePhase
<1>5. CASE s = "EXITING"
  <2>1. PhasesFit /\ PhasesFit' => phaseOf[t] = "running" /\ phaseOf'[t] = "dead"
    BY <1>1, <1>3, <1>5 DEF PhasesFit, PhaseFits
  <2>2. Contract!Move(t, "running", "dead")
    BY <1>4, <2>1, OneMoves
  <2> QED BY <1>5, <2>2 DEF Contract!Exit
<1>6. CASE s # "EXITING"
  <2>1. PhasesFit /\ PhasesFit' => phaseOf[t] = "running" /\ phaseOf'[t] = "parked"
    BY <1>1, <1>2, <1>3, <1>6 DEF PhasesFit, PhaseFits
  <2>2. Contract!Move(t, "running", "parked")
    BY <1>4, <2>1, OneMoves
  <2> QED BY <1>6, <2>2 DEF Contract!Park
<1> QED BY <1>5, <1>6

LEMMA RuntimeMoves ==
  ASSUME IInv, IInv', NEW v \in VCores, RuntimeStep(v)
  PROVE  Contract!Next \/ phaseOf' = phaseOf
<1> USE DEF globals, tcbs, vcores
<1>1. CASE DequeueThread(v)
  BY <1>1, DequeueMoves DEF Contract!Next
<1>2. CASE Runnable(v)
  <2> PICK t \in Threads : t = arg[v]
    BY <1>2 DEF Runnable, IInv, TypeInv, ArgIsThread, HasThread
  <2>1. /\ vpc[v] = "runnable" /\ state' = [state EXCEPT ![t] = "RUNNABLE"]
        /\ ready_queue' = Append(ready_queue, t) /\ UNCHANGED <<tcb, active_queue>>
    BY <1>2 DEF Runnable
  <2>2. state[t] \in Blocked
    BY <2>1 DEF IInv, StateFitsPlace
  <2>3. /\ t \notin Range(ready_queue) /\ t \notin active_queue /\ tcb[t] # "unborn"
        /\ state[t] # "EXITING"
    BY <2>2, GlobalQueueAssumption DEF IInv, StateFitsPlace, Counts, TcbAlive, Blocked
  <2>4. Range(ready_queue') = Range(ready_queue) \cup {t}
    BY <2>1, AppendRange DEF IInv, TypeInv, TypeOK
  <2>5. state'[t] = "RUNNABLE" /\ \A x \in Threads : x # t => state'[x] = state[x]
    BY <2>1 DEF IInv, TypeInv, TypeOK
  <2>6. \A x \in Threads : x # t => SamePhase(x)
    BY <2>1, <2>4, <2>5 DEF SamePhase
  <2>7. PhasesFit /\ PhasesFit' => phaseOf[t] = "parked" /\ phaseOf'[t] = "runnable"
    BY <2>1, <2>3, <2>4 DEF PhasesFit, PhaseFits
  <2>8. Contract!Move(t, "parked", "runnable")
    BY <2>6, <2>7, OneMoves
  <2> QED BY <2>8 DEF Contract!Ready, Contract!Next
<1>3. CASE JoinDone(v)
  <2>1. ASSUME NEW x \in Threads PROVE SamePhase(x)
    <3>1. /\ tcb' = [tcb EXCEPT ![joining[current[v]]] = "freed"]
          /\ current[v] # NULL /\ joining[current[v]] # NULL
          /\ UNCHANGED <<state, active_queue, ready_queue>>
      BY <1>3 DEF JoinDone
    <3>2. tcb[joining[current[v]]] # "unborn"
      BY <3>1 DEF IInv, TcbAlive, TypeInv, TypeOK
    <3> QED BY <3>1, <3>2 DEF SamePhase, IInv, TypeInv, TypeOK
  <2> QED BY <2>1, NoMove
<1>4. CASE ExitSync(v)
  <2>1. ASSUME NEW x \in Threads PROVE SamePhase(x)
    <3>1. /\ vpc[v] = "exit_sync" /\ tcb' \in {tcb, [tcb EXCEPT ![arg[v]] = "freed"]}
          /\ UNCHANGED <<state, active_queue, ready_queue>>
      BY <1>4 DEF ExitSync
    <3>2. tcb[arg[v]] # "unborn"
      BY <3>1 DEF IInv, TcbAlive, StateFitsPlace, TypeInv, ArgIsThread, HasThread
    <3> QED BY <3>1, <3>2 DEF SamePhase, IInv, TypeInv, TypeOK
  <2> QED BY <2>1, NoMove
<1>5. CASE UNCHANGED <<globals, tcb, state>>
  BY <1>5, NoMove DEF SamePhase
<1> QED BY <1>1, <1>2, <1>3, <1>4, <1>5 DEF RuntimeStep, SchedEntry, DequeueNothing, KeepVCore,
       YieldVCore, EventsDone, HandleSyscall, RequestVCore, Publish, JoinSwap

LEMMA ClientMoves ==
  ASSUME IInv, IInv', NEW v \in VCores, ClientStep(v)
  PROVE  Contract!Next \/ phaseOf' = phaseOf
<1> USE DEF globals, tcbs, vcores
<1>1. ASSUME NEW t \in Threads, Yield(v, t) \/ Block(v, t) \/ Syscall(v, t) PROVE Contract!Park(t)
  <2> PICK s \in {"BLK_YIELDING", "BLK_MUTEX", "BLK_SYSC"} : state' = [state EXCEPT ![t] = s]
    BY <1>1 DEF Yield, Block, Syscall
  <2>1. current[v] = t /\ GenericYield(v, t) /\ tcb' = tcb
    BY <1>1 DEF Yield, Block, Syscall, Executes
  <2> QED BY <2>1, LeaveMoves
<1>2. ASSUME NEW t \in Threads, Exit(v, t) PROVE Contract!Exit(t)
  <2>1. /\ current[v] = t /\ GenericYield(v, t) /\ tcb' = tcb
        /\ state' = [state EXCEPT ![t] = "EXITING"]
    BY <1>2 DEF Exit, Executes
  <2> QED BY <2>1, LeaveMoves
<1>3. CASE Pause(v)
  <2> PICK t \in Threads : t = current[v]
    BY <1>3 DEF Pause, IInv, TypeInv, TypeOK
  <2>1. /\ current[v] = t /\ GenericYield(v, t) /\ tcb' = tcb
        /\ state' = [state EXCEPT ![t] = "BLK_PAUSED"]
    BY <1>3 DEF Pause
  <2>2. "BLK_PAUSED" # "EXITING" => Contract!Park(t)
    BY <2>1, LeaveMoves, Zenon
  <2> QED BY <2>2 DEF Contract!Next
<1>4. ASSUME NEW t \in Threads, NEW u \in Threads, JoinCall(v, t, u)
      PROVE  Contract!Next \/ phaseOf' = phaseOf
  <2>1. CASE joiner[u] = NULL
    <3>1. /\ current[v] = t /\ GenericYield(v, t) /\ tcb' = tcb
          /\ state' = [state EXCEPT ![t] = "BLK_JOINING"]
      BY <1>4, <2>1 DEF JoinCall, Executes
    <3>2. "BLK_JOINING" # "EXITING" => Contract!Park(t)
      BY <3>1, LeaveMoves, Zenon
    <3> QED BY <3>2 DEF Contract!Next
  <2>2. CASE joiner[u] # NULL
    <3>1. UNCHANGED <<globals, tcb, state>>
      BY <1>4, <2>2 DEF JoinCall
    <3> QED BY <3>1, NoMove DEF SamePhase
  <2> QED BY <2>1, <2>2
<1>5. ASSUME NEW t \in Threads, NEW u \in Threads, NEW d \in BOOLEAN, Create(v, t, u, d)
      PROVE  Contract!Create(u)
  <2>1. /\ tcb[u] = "unborn" /\ tcb' = [tcb EXCEPT ![u] = "live"]
        /\ state' = [state EXCEPT ![u] = "CREATED"] /\ UNCHANGED <<active_queue, ready_queue>>
    BY <1>5 DEF Create
  <2>2. state[u] = "UNUSED"
    BY <2>1 DEF IInv, TcbAlive
  <2>3. u \notin active_queue /\ u \notin Range(ready_queue)
    BY <2>2, GlobalQueueAssumption DEF IInv, StateFitsPlace, Counts
  <2>4. /\ tcb'[u] = "live" /\ state'[u] = "CREATED"
        /\ \A x \in Threads : x # u => tcb'[x] = tcb[x] /\ state'[x] = state[x]
    BY <2>1 DEF IInv, TypeInv, TypeOK
  <2>5. \A x \in Threads : x # u => SamePhase(x)
    BY <2>1, <2>4 DEF SamePhase
  <2>6. PhasesFit /\ PhasesFit' => phaseOf[u] = "unborn" /\ phaseOf'[u] = "parked"
    BY <2>1, <2>3, <2>4 DEF PhasesFit, PhaseFits
  <2>7. Contract!Move(u, "unborn", "parked")
    BY <2>5, <2>6, OneMoves
  <2> QED BY <2>7 DEF Contract!Create
<1>6. ASSUME UNCHANGED <<globals, tcb, state>> PROVE phaseOf' = phaseOf
  BY <1>6, NoMove DEF SamePhase
<1>7. ASSUME NEW t \in Threads, NEW can \in BOOLEAN, SetCanAdjust(v, t, can) \/ Wake(v, t)
      PROVE  UNCHANGED <<globals, tcb, state>>
  BY <1>7 DEF SetCanAdjust, Wake
<1>11. ASSUME NEW t \in Threads, NEW u \in Threads, JoinDetached(v, t, u)
       PROVE  UNCHANGED <<globals, tcb, state>>
  BY <1>11 DEF JoinDetached, vars
<1>8. Notify(v) => UNCHANGED <<globals, tcb, state>>
  BY DEF Notify
<1>9. CASE LeaveVCore(v)
  BY <1>1, <1>2, <1>9 DEF LeaveVCore, Contract!Next
<1>10. CASE ~LeaveVCore(v)
  BY <1>3, <1>4, <1>5, <1>6, <1>7, <1>8, <1>10, <1>11 DEF ClientStep, Contract!Next
<1> QED BY <1>9, <1>10

\* gq is a second-level scheduler: a thread is enqueued only when it is parked,
\* dispatched only when it is enqueued and a vcore is free, and dies only once.
THEOREM ImplementsContract == Spec => SchedContract
<1>1. Init => Contract!Init
  <2> SUFFICES ASSUME Init PROVE Contract!Init
    OBVIOUS
  <2>1. /\ ready_queue = <<>> /\ active_queue = {Main}
        /\ state = [t \in Threads |-> IF t = Main THEN "RUNNING" ELSE "UNUSED"]
        /\ tcb = [t \in Threads |-> IF t = Main THEN "live" ELSE "unborn"]
    BY DEF Init
  <2>2. PhasesFit
    BY InitInvariant, PhaseIs
  <2>3. \A t \in Threads : phaseOf[t] = IF t = Main THEN "running" ELSE "unborn"
    BY <2>1, <2>2 DEF PhasesFit, PhaseFits
  <2>4. phaseOf = [t \in Threads |-> phaseOf[t]]
    BY DEF phaseOf
  <2> QED BY <2>3, <2>4 DEF Contract!Init
<1>2. IInv /\ IInv' /\ [Next]_vars => [Contract!Next]_phaseOf
  <2> SUFFICES ASSUME IInv, IInv', [Next]_vars PROVE Contract!Next \/ phaseOf' = phaseOf
    OBVIOUS
  <2>1. ASSUME UNCHANGED <<globals, tcbs>> PROVE phaseOf' = phaseOf
    BY <2>1, NoMove DEF SamePhase, globals, tcbs
  <2>2. UNCHANGED vars => UNCHANGED <<globals, tcbs>>
    BY DEF vars
  <2>3. ASSUME NEW v \in VCores, VCoreUp(v) PROVE UNCHANGED <<globals, tcbs>>
    BY <2>3 DEF VCoreUp
  <2>4. ASSUME NEW t \in Threads, KernelCompletes(t) PROVE UNCHANGED <<globals, tcbs>>
    BY <2>4 DEF KernelCompletes
  <2> QED BY <2>1, <2>2, <2>3, <2>4, RuntimeMoves, ClientMoves DEF Next, Finished
<1> QED BY <1>1, <1>2, Invariance, PTL DEF Spec, SchedContract, Contract!Spec
============================================================================
