------------------------- MODULE PerVcoreQueueProofs -------------------------
(***************************************************************************)
(* Proofs about the queues of pvcq and about juggle over them, for any     *)
(* finite set of threads, any number of vcores, any spin count and any     *)
(* workload that leaves the number of vcores to consider as it is.         *)
(***************************************************************************)
EXTENDS Juggle, SeqFacts, FiniteSetTheorems, TLAPS

(***************************************************************************)
(* upthread_set_num_vcores is not called, or with the number of vcores     *)
(* there are.  With a smaller number it races with the placing of threads: *)
(* the queue ids then leave the array, as the run pvcq_set_num shows, and  *)
(* what follows is not true.                                               *)
(***************************************************************************)
NumStays == "set_num" \in ClientOps => \A num \in SetNums : num >= MaxVCores

----------------------------------------------------------------------------
(* The inductive invariant.                                                *)

\* Where a vcore has a thread in arg that is in no queue.
Holding == {"runnable", "read_id", "read_nr", "cas_id", "enqueue", "steal_put"}

Holds(v, t) == stolen[v] = t \/ (vpc[v] \in Holding /\ arg[v] = t)

\* Calls that may return to a thread or to pth_sched_entry's start.
InCall(v) ==
  /\ vpc[v] \in {"runnable", "read_id", "read_nr", "cas_id", "enqueue", "request", "unlock"}
  /\ ret[v] \in {"uthread", "entry"}

\* A queue holds ready threads, and none twice.
QueuesFit ==
  /\ \A q \in VCores : IsInjective(tqueue[q])
  /\ \A q \in VCores : \A t \in Range(tqueue[q]) : state[t] = "RUNNABLE"
  /\ \A p, q \in VCores : p # q => Range(tqueue[p]) \cap Range(tqueue[q]) = {}

\* A thread that is moved is in the hands of one vcore and in no queue.
HandsFit ==
  /\ \A v \in VCores : vpc[v] \in Holding => arg[v] \in Threads
  /\ \A v \in VCores : vpc[v] \in Holding \ {"runnable"} => state[arg[v]] = "RUNNABLE"
  /\ \A v \in VCores : stolen[v] # NULL <=> vpc[v] \in {"steal_next", "steal_put"}
  /\ \A v \in VCores : stolen[v] # NULL => state[stolen[v]] = "RUNNABLE"
  /\ \A v \in VCores : vpc[v] = "steal_put" => arg[v] # stolen[v]
  /\ \A v, w \in VCores : \A t \in Threads : Holds(v, t) /\ Holds(w, t) => v = w
  /\ \A v, q \in VCores : \A t \in Threads : Holds(v, t) => t \notin Range(tqueue[q])

\* A thread about to be made runnable stopped before, and nobody else will wake it.
WakeFits ==
  /\ \A v \in VCores : vpc[v] = "runnable" =>
       /\ state[arg[v]] \in Blocked
       /\ arg[v] \notin waiters \cup syscalls \cup Range(events)
  /\ \A t \in waiters : state[t] = "BLK_MUTEX"
  /\ \A t \in syscalls \cup Range(events) : state[t] = "BLK_SYSC"
  /\ syscalls \cap Range(events) = {} /\ IsInjective(events)

\* A vcore in the dispatch loop runs nothing.
RunFits ==
  /\ \A v \in VCores : current[v] # NULL =>
       /\ state[current[v]] = "RUNNING"
       /\ vpc[v] \in {"uthread", "set_num", "entry"} \/ InCall(v)
  /\ \A v, w \in VCores : current[v] # NULL /\ current[v] = current[w] => v = w

\* A thief has a thread left to steal.
CountFits == \A v \in VCores : vpc[v] \in {"steal_first", "steal_put"} => num_to_steal[v] > 0

IInv ==
  /\ TypeOK /\ nr_vcores = MaxVCores
  /\ QueuesFit /\ HandsFit /\ WakeFits /\ RunFits /\ CountFits
----------------------------------------------------------------------------
LEMMA VCoreZero == 0 \in VCores /\ IsFiniteSet(VCores) /\ Cardinality(VCores) = MaxVCores
<1>1. MaxVCores \in Int /\ MaxVCores >= 1 BY PerVcoreQueueAssumption DEF PerVcoreQueueAssumption
<1>2. \A n \in Int : IsFiniteSet(0 .. n) /\ Cardinality(0 .. n) = IF 0 > n THEN 0 ELSE n - 0 + 1
  BY FS_Interval
<1> QED BY <1>1, <1>2 DEF VCores

LEMMA RangesFit ==
  ASSUME TypeOK
  PROVE  Range(events) \subseteq Threads /\ \A q \in VCores : Range(tqueue[q]) \subseteq Threads
<1>1. \A s \in Seq(Threads) : Range(s) \subseteq Threads BY DEF Range
<1>2. events \in Seq(Threads) /\ \A q \in VCores : tqueue[q] \in Seq(Threads) BY DEF TypeOK
<1> QED BY <1>1, <1>2

(* The thread whose code a vcore executes is current_uthread, except while *)
(* juggle's alarm is stopping that thread.                                 *)

LEMMA CurrentType == TypeOK => current \in [VCores -> Threads \cup {NULL}]
BY DEF TypeOK, current

LEMMA Executing ==
  ASSUME NEW v \in VCores, NEW t, Executes(v, t)
  PROVE  vpc[v] = "uthread" /\ current[v] = t /\ ~Pausing(v)
BY DEF Executes, current, Pausing

\* Of where the vcores are in their code, a step changes only v.
OnlyGoes(v) == \A w \in VCores \ {v} : vpc'[w] = vpc[w] /\ ret'[w] = ret[w]

LEMMA CurrentStays ==
  ASSUME NEW v \in VCores, UNCHANGED current_uthread, OnlyGoes(v), Pausing(v)' <=> Pausing(v)
  PROVE  current' = current
<1>1. \A w \in VCores : Pausing(w)' <=> Pausing(w) BY DEF OnlyGoes, Pausing
<1> QED BY <1>1 DEF current

LEMMA CurrentBecomes ==
  ASSUME TypeOK, NEW v \in VCores, NEW t, OnlyGoes(v),
         \/ current_uthread' = [current_uthread EXCEPT ![v] = t] /\ (~Pausing(v)' \/ t = NULL)
         \/ UNCHANGED current_uthread /\ Pausing(v)' /\ t = NULL
  PROVE  current' = [current EXCEPT ![v] = t]
<1>1. \A w \in VCores \ {v} : Pausing(w)' <=> Pausing(w) BY DEF OnlyGoes, Pausing
<1>2. \A w \in VCores : current'[w] = IF w = v THEN t ELSE current[w] BY <1>1 DEF current, TypeOK
<1>3. current = [w \in VCores |-> current[w]] /\ current' = [w \in VCores |-> current'[w]]
  BY DEF current
<1> QED BY <1>2, <1>3

LEMMA InitInvariant == Init => IInv
<1> SUFFICES ASSUME Init PROVE IInv OBVIOUS
<1> USE PerVcoreQueueAssumption, VCoreZero DEF PerVcoreQueueAssumption, Init
<1>1. \A q \in VCores : tqueue[q] \in Seq(Threads) /\ Range(tqueue[q]) = {} /\ IsInjective(tqueue[q])
  BY DEF Range, IsInjective
<1>2. events \in Seq(Threads) /\ Range(events) = {} /\ IsInjective(events)
  BY DEF Range, IsInjective
<1>3. (IF MaxVCores > 1 THEN 1 ELSE 0) \in VCores BY DEF VCores
<1>4. TypeOK
  <2>1. Cardinality(Threads) \in Nat BY FS_CardinalityType
  <2>2. tqueue \in [VCores -> Seq(Threads)] BY <1>1
  <2>3. nr_vcores \in 1 .. MaxVCores /\ next_queue_id \in VCores BY <1>3
  <2>4. num_to_steal \in [VCores -> 0 .. Cardinality(Threads)] BY <2>1
  <2>5. state \in [Threads -> States] BY DEF States, Blocked
  <2>6. vpc \in [VCores -> Labels] BY DEF Labels
  <2>7. spin_count \in [VCores -> -1 .. MaxSpin] OBVIOUS
  <2> QED BY <1>2, <2>2, <2>3, <2>4, <2>5, <2>6, <2>7 DEF TypeOK
<1>5. QueuesFit BY <1>1 DEF QueuesFit
<1>6. HandsFit BY <1>1 DEF HandsFit, Holds, Holding
<1>7. WakeFits BY <1>2 DEF WakeFits
<1>8. RunFits
  <2>1. \A v \in VCores : current[v] = current_uthread[v] BY DEF current, Pausing
  <2> QED BY <2>1 DEF RunFits
<1>9. CountFits BY DEF CountFits
<1> QED BY <1>4, <1>5, <1>6, <1>7, <1>8, <1>9 DEF IInv

----------------------------------------------------------------------------
(* The phases of the contract, in terms of the code's variables.           *)

\* A stolen thread that v has not yet run or put into its own queue.
Stolen(v, t) == stolen[v] = t \/ (vpc[v] = "steal_put" /\ arg[v] = t)

Ready(t) == \E v \in VCores : t \in Range(tqueue[v]) \/ Stolen(v, t)

Runs(t) == \E v \in VCores : current[v] = t

PhaseFits(t) ==
  /\ state[t] = "UNUSED" <=> phaseOf[t] = "unborn"
  /\ state[t] = "EXITING" <=> phaseOf[t] = "dead"
  /\ Runs(t) <=> phaseOf[t] = "running"
  /\ Ready(t) <=> phaseOf[t] = "runnable"
  /\ phaseOf[t] \in {"unborn", "dead", "running", "runnable", "parked"}

PhasesFit == \A t \in Threads : PhaseFits(t)

SamePhase(t) ==
  /\ state'[t] = "UNUSED" <=> state[t] = "UNUSED"
  /\ state'[t] = "EXITING" <=> state[t] = "EXITING"
  /\ Runs(t)' <=> Runs(t)
  /\ Ready(t)' <=> Ready(t)

\* Of the contract's view, a step of the scheduler is one step or none.
ContractStep == Contract!Next \/ phaseOf' = phaseOf

LEMMA ReadyState ==
  ASSUME IInv, NEW t \in Threads
  PROVE  (Ready(t) => state[t] = "RUNNABLE") /\ (Runs(t) => state[t] = "RUNNING")
<1>1. Runs(t) => state[t] = "RUNNING"
  BY PerVcoreQueueAssumption DEF Runs, IInv, RunFits, PerVcoreQueueAssumption
<1>2. \A q \in VCores : t \in Range(tqueue[q]) => state[t] = "RUNNABLE" BY DEF IInv, QueuesFit
<1>3. \A v \in VCores : Stolen(v, t) => state[t] = "RUNNABLE"
  BY PerVcoreQueueAssumption DEF Stolen, IInv, HandsFit, Holding, PerVcoreQueueAssumption
<1> QED BY <1>1, <1>2, <1>3 DEF Ready

StatesFit ==
  \A t \in Threads : (Ready(t) => state[t] = "RUNNABLE") /\ (Runs(t) => state[t] = "RUNNING")

LEMMA ReadyStates == IInv => StatesFit
BY ReadyState DEF StatesFit

LEMMA ReadyStateNext ==
  ASSUME IInv', NEW t \in Threads
  PROVE  (Ready(t)' => state'[t] = "RUNNABLE") /\ (Runs(t)' => state'[t] = "RUNNING")
<1>1. StatesFit' BY ReadyStates, PTL
<1> QED BY <1>1 DEF StatesFit

\* The conditions of phaseOf exclude each other.
LEMMA PhaseIs == IInv => PhasesFit
<1> SUFFICES ASSUME IInv, NEW t \in Threads PROVE PhaseFits(t) BY DEF PhasesFit
<1>1. t \in Range(current) <=> Runs(t)
  BY DEF Range, Runs, current
<1>2. (t \in InQueues \/ \E v \in VCores : stolen[v] = t \/ (vpc[v] = "steal_put" /\ arg[v] = t))
        <=> Ready(t)
  BY DEF InQueues, Ready, Stolen
<1>3. phaseOf[t] = IF state[t] = "UNUSED" THEN "unborn"
                   ELSE IF state[t] = "EXITING" THEN "dead"
                   ELSE IF Runs(t) THEN "running"
                   ELSE IF Ready(t) THEN "runnable" ELSE "parked"
  <2>1. phaseOf[t] = CASE state[t] = "UNUSED" -> "unborn"
    [] state[t] = "EXITING" -> "dead"
    [] t \in Range(current) -> "running"
    [] t \in InQueues -> "runnable"
    [] \E v \in VCores : stolen[v] = t \/ (vpc[v] = "steal_put" /\ arg[v] = t) -> "runnable"
    [] OTHER -> "parked"
    BY DEF phaseOf
  <2>2. (Ready(t) => state[t] = "RUNNABLE") /\ (Runs(t) => state[t] = "RUNNING") BY ReadyState
  <2>3. CASE state[t] = "UNUSED" BY <1>1, <1>2, <2>1, <2>2, <2>3
  <2>4. CASE state[t] = "EXITING" BY <1>1, <1>2, <2>1, <2>2, <2>4
  <2>5. CASE Runs(t) BY <1>1, <1>2, <2>1, <2>2, <2>5
  <2>6. CASE Ready(t) BY <1>1, <1>2, <2>1, <2>2, <2>6
  <2>7. CASE state[t] # "UNUSED" /\ state[t] # "EXITING" /\ ~Runs(t) /\ ~Ready(t)
    BY <1>1, <1>2, <2>1, <2>7
  <2> QED BY <2>3, <2>4, <2>5, <2>6, <2>7
<1>4. (Ready(t) => state[t] = "RUNNABLE") /\ (Runs(t) => state[t] = "RUNNING") BY ReadyState
<1> QED BY <1>3, <1>4 DEF PhaseFits

\* A step after which no thread is in another phase is a stutter.
LEMMA NoneMoves ==
  ASSUME IInv, IInv', \A u \in Threads : SamePhase(u)
  PROVE  phaseOf' = phaseOf
<1>1. PhasesFit /\ PhasesFit' BY PhaseIs, PTL
<1>2. \A u \in Threads : phaseOf'[u] = phaseOf[u] BY <1>1 DEF SamePhase, PhasesFit, PhaseFits
<1>3. phaseOf = [u \in Threads |-> phaseOf[u]] /\ phaseOf' = [u \in Threads |-> phaseOf'[u]]
  BY DEF phaseOf
<1> QED BY <1>2, <1>3

\* A step after which only t is in another phase is a move of t.
LEMMA OneMoves ==
  ASSUME IInv, IInv', NEW t \in Threads, NEW from, NEW to,
         \A u \in Threads : u # t => SamePhase(u),
         PhasesFit /\ PhasesFit' => phaseOf[t] = from /\ phaseOf'[t] = to
  PROVE  Contract!Move(t, from, to)
<1>1. PhasesFit /\ PhasesFit' BY PhaseIs, PTL
<1>2. \A u \in Threads : u # t => phaseOf'[u] = phaseOf[u]
  BY <1>1 DEF SamePhase, PhasesFit, PhaseFits
<1>3. DOMAIN phaseOf = Threads /\ phaseOf = [u \in Threads |-> phaseOf[u]] BY DEF phaseOf
<1>4. phaseOf' = [u \in Threads |-> phaseOf'[u]] BY DEF phaseOf
<1>5. phaseOf[t] = from /\ phaseOf' = [phaseOf EXCEPT ![t] = to] BY <1>1, <1>2, <1>3, <1>4
<1> QED BY <1>5 DEF Contract!Move

\* While one vcore runs nothing there is room for one more running thread.
LEMMA RoomToDispatch ==
  ASSUME IInv, NEW v \in VCores, current[v] = NULL
  PROVE  Cardinality(Contract!Running) < MaxVCores
<1> DEFINE R == Contract!Running
<1>1. \A t \in R : t \in Threads /\ t # NULL /\ Runs(t)
  BY PhaseIs, PerVcoreQueueAssumption DEF PhasesFit, PhaseFits, Contract!Running, PerVcoreQueueAssumption
<1> HIDE DEF R
<1>2. \A t \in R : \E w \in VCores \ {v} : current[w] = t BY <1>1 DEF Runs
<1> DEFINE f == [t \in R |-> CHOOSE w \in VCores \ {v} : current[w] = t]
<1>3. \A t \in R : f[t] \in VCores \ {v} /\ current[f[t]] = t BY <1>2
<1>4. f \in [R -> VCores \ {v}] BY <1>3
<1>5. IsInjective(f) BY <1>3 DEF IsInjective
<1>6. f \in Injection(R, VCores \ {v}) BY <1>4, <1>5 DEF Injection
<1>7. IsFiniteSet(VCores \ {v}) /\ Cardinality(VCores \ {v}) = MaxVCores - 1
  BY VCoreZero, FS_RemoveElement
<1>8. Cardinality(R) <= MaxVCores - 1 BY <1>6, <1>7, FS_Injection
<1>9. Cardinality(R) \in Nat
  <2>1. R \subseteq Threads BY <1>1
  <2>2. IsFiniteSet(R)
    BY <2>1, FS_Subset, PerVcoreQueueAssumption DEF PerVcoreQueueAssumption
  <2> QED BY <2>2, FS_CardinalityType
<1> QED BY <1>8, <1>9, PerVcoreQueueAssumption DEF R, PerVcoreQueueAssumption

\* A step after which only t is in another phase, by where t was and is.
LEMMA OneSteps ==
  ASSUME IInv, IInv', NEW t \in Threads, \A u \in Threads : u # t => SamePhase(u),
         \/ SamePhase(t)
         \/ state[t] = "UNUSED" /\ state'[t] \in Blocked
         \/ Runs(t) /\ ~Runs(t)' /\ state'[t] \in Blocked \cup {"EXITING"}
         \/ state[t] \in Blocked \cup {"RUNNABLE"} /\ Ready(t)'
         \/ Ready(t) /\ Runs(t)' /\ \E v \in VCores : current[v] = NULL
  PROVE  ContractStep
<1> DEFINE Fit == PhasesFit /\ PhasesFit'
<1>0. /\ (Ready(t) => state[t] = "RUNNABLE") /\ (Runs(t) => state[t] = "RUNNING")
      /\ (Ready(t) => state[t] = "RUNNABLE")' /\ (Runs(t) => state[t] = "RUNNING")'
  BY ReadyState, PTL
<1>1. CASE SamePhase(t) BY <1>1, NoneMoves DEF ContractStep
<1>2. CASE state[t] = "UNUSED" /\ state'[t] \in Blocked
  <2>1. Fit => phaseOf[t] = "unborn" /\ phaseOf'[t] = "parked"
    BY <1>0, <1>2 DEF PhasesFit, PhaseFits, Blocked
  <2>2. Contract!Move(t, "unborn", "parked") BY <2>1, OneMoves
  <2> QED BY <2>2 DEF Contract!Create, Contract!Next, ContractStep
<1>3. CASE Runs(t) /\ ~Runs(t)' /\ state'[t] \in Blocked
  <2>1. Fit => phaseOf[t] = "running" /\ phaseOf'[t] = "parked"
    BY <1>0, <1>3 DEF PhasesFit, PhaseFits, Blocked
  <2>2. Contract!Move(t, "running", "parked") BY <2>1, OneMoves
  <2> QED BY <2>2 DEF Contract!Park, Contract!Next, ContractStep
<1>4. CASE Runs(t) /\ ~Runs(t)' /\ state'[t] = "EXITING"
  <2>1. Fit => phaseOf[t] = "running" /\ phaseOf'[t] = "dead"
    BY <1>0, <1>4 DEF PhasesFit, PhaseFits
  <2>2. Contract!Move(t, "running", "dead") BY <2>1, OneMoves
  <2> QED BY <2>2 DEF Contract!Exit, Contract!Next, ContractStep
<1>5. CASE state[t] \in Blocked \cup {"RUNNABLE"} /\ ~Ready(t) /\ Ready(t)'
  <2>1. Fit => phaseOf[t] = "parked" /\ phaseOf'[t] = "runnable"
    BY <1>0, <1>5 DEF PhasesFit, PhaseFits, Blocked
  <2>2. Contract!Move(t, "parked", "runnable") BY <2>1, OneMoves
  <2> QED BY <2>2 DEF Contract!Ready, Contract!Next, ContractStep
<1>6. CASE Ready(t) /\ Ready(t)'
  <2>1. SamePhase(t) BY <1>0, <1>6 DEF SamePhase
  <2> QED BY <1>1, <2>1
<1>7. CASE Ready(t) /\ Runs(t)' /\ \E v \in VCores : current[v] = NULL
  <2>1. Fit => phaseOf[t] = "runnable" /\ phaseOf'[t] = "running"
    BY <1>0, <1>7 DEF PhasesFit, PhaseFits
  <2>2. Contract!Move(t, "runnable", "running") BY <2>1, OneMoves
  <2>3. Cardinality(Contract!Running) < MaxVCores BY <1>7, RoomToDispatch
  <2>4. Contract!Dispatch(t)
    BY <2>2, <2>3 DEF Contract!Dispatch, Contract!Cardinality, Cardinality
  <2> QED BY <2>4 DEF Contract!Next, ContractStep
<1> QED BY <1>1, <1>2, <1>3, <1>4, <1>5, <1>6, <1>7

(***************************************************************************)
(* What an insertion and a removal do to the queues.                       *)
(***************************************************************************)
LEMMA InsertFits ==
  ASSUME IInv, NEW q \in VCores, NEW t \in Threads, NEW athead \in BOOLEAN,
         \A p \in VCores : t \notin Range(tqueue[p]),
         tqueue' = Insert(q, t, athead),
         state'[t] = "RUNNABLE", \A u \in Threads : u # t => state'[u] = state[u]
  PROVE  /\ tqueue' \in [VCores -> Seq(Threads)] /\ QueuesFit'
         /\ \A p \in VCores : Range(tqueue'[p]) = Range(tqueue[p]) \cup (IF p = q THEN {t} ELSE {})
<1> USE DEF IInv, QueuesFit
<1>1. tqueue \in [VCores -> Seq(Threads)] BY DEF TypeOK
<1>2. \A p \in VCores : tqueue'[p] = IF p # q THEN tqueue[p]
                                     ELSE IF athead THEN <<t>> \o tqueue[q] ELSE Append(tqueue[q], t)
  BY <1>1 DEF Insert
<1>3. /\ tqueue'[q] \in Seq(Threads) /\ IsInjective(tqueue'[q])
      /\ Range(tqueue'[q]) = Range(tqueue[q]) \cup {t}
  <2>1. tqueue[q] \in Seq(Threads) /\ IsInjective(tqueue[q]) /\ t \notin Range(tqueue[q])
    BY <1>1
  <2>2. CASE athead
    <3>1. tqueue'[q] = <<t>> \o tqueue[q] BY <1>2, <2>2
    <3> QED BY <2>1, <3>1, PrependRange, PrependInjective
  <2>3. CASE ~athead
    <3>1. tqueue'[q] = Append(tqueue[q], t) BY <1>2, <2>3
    <3> QED BY <2>1, <3>1, AppendRange, AppendNew
  <2> QED BY <2>2, <2>3
<1>4. tqueue' \in [VCores -> Seq(Threads)]
  <2>1. DOMAIN tqueue' = VCores /\ tqueue' = [p \in VCores |-> tqueue'[p]] BY <1>1 DEF Insert
  <2> QED BY <1>1, <1>2, <1>3, <2>1
<1>5. \A p \in VCores : Range(tqueue'[p]) = Range(tqueue[p]) \cup (IF p = q THEN {t} ELSE {})
  BY <1>2, <1>3
<1>6. \A p \in VCores : Range(tqueue[p]) \subseteq Threads
  BY <1>1 DEF Range
<1>7. \A p \in VCores : IsInjective(tqueue'[p]) BY <1>2, <1>3
<1>8. \A p \in VCores : \A u \in Range(tqueue'[p]) : state'[u] = "RUNNABLE" BY <1>5, <1>6
<1>9. \A p, r \in VCores : p # r => Range(tqueue'[p]) \cap Range(tqueue'[r]) = {} BY <1>5
<1> QED BY <1>4, <1>5, <1>7, <1>8, <1>9

LEMMA PopFits ==
  ASSUME IInv, NEW q \in VCores, tqueue[q] # <<>>,
         tqueue' = [tqueue EXCEPT ![q] = Tail(tqueue[q])],
         \A u \in Threads : u # Head(tqueue[q]) => state'[u] = state[u]
  PROVE  /\ tqueue' \in [VCores -> Seq(Threads)] /\ QueuesFit'
         /\ Head(tqueue[q]) \in Threads /\ state[Head(tqueue[q])] = "RUNNABLE"
         /\ Head(tqueue[q]) \in Range(tqueue[q])
         /\ \A p \in VCores : Range(tqueue'[p]) = Range(tqueue[p]) \ {Head(tqueue[q])}
<1> USE DEF IInv, QueuesFit
<1>1. tqueue \in [VCores -> Seq(Threads)] BY DEF TypeOK
<1>2. \A p \in VCores : tqueue'[p] = IF p = q THEN Tail(tqueue[q]) ELSE tqueue[p]
  BY <1>1
<1>3. /\ Head(tqueue[q]) \in Threads /\ Head(tqueue[q]) \in Range(tqueue[q])
      /\ Tail(tqueue[q]) \in Seq(Threads) /\ IsInjective(Tail(tqueue[q]))
      /\ Range(Tail(tqueue[q])) = Range(tqueue[q]) \ {Head(tqueue[q])}
  BY <1>1, PopRange
<1>4. tqueue' \in [VCores -> Seq(Threads)]
  <2>1. tqueue' = [p \in VCores |-> tqueue'[p]] BY <1>1
  <2> QED BY <1>1, <1>2, <1>3, <2>1
<1>5. \A p \in VCores : Range(tqueue'[p]) = Range(tqueue[p]) \ {Head(tqueue[q])}
  BY <1>2, <1>3
<1>6. \A p \in VCores : Range(tqueue[p]) \subseteq Threads
  BY <1>1 DEF Range
<1>7. \A p \in VCores : IsInjective(tqueue'[p]) BY <1>2, <1>3
<1>8. \A p \in VCores : \A u \in Range(tqueue'[p]) : state'[u] = "RUNNABLE" BY <1>5, <1>6
<1>9. \A p, r \in VCores : p # r => Range(tqueue'[p]) \cap Range(tqueue'[r]) = {} BY <1>5
<1> QED BY <1>3, <1>4, <1>5, <1>7, <1>8, <1>9

(***************************************************************************)
(* Steps that move no thread: a vcore goes on in its code.                 *)
(***************************************************************************)
Stealing == {"steal_next", "steal_put"}

Quiet(v) ==
  /\ UNCHANGED <<tqueue, nr_vcores, state, stolen, waiters, syscalls, events>>
  /\ current' = current \/ (UNCHANGED current_uthread /\ (Pausing(v)' <=> Pausing(v)))
  /\ \A w \in VCores : w # v => /\ vpc'[w] = vpc[w] /\ arg'[w] = arg[w] /\ ret'[w] = ret[w]
                                /\ num_to_steal'[w] = num_to_steal[w]
  /\ vpc'[v] \in Holding => /\ vpc[v] \in Holding \ {"runnable"} /\ vpc'[v] # "runnable"
                            /\ arg'[v] = arg[v]
  /\ vpc[v] \notin Stealing /\ vpc'[v] \notin Stealing
  /\ current[v] # NULL => vpc'[v] \in {"uthread", "set_num", "entry"} \/ InCall(v)'
  /\ vpc'[v] = "steal_first" => num_to_steal'[v] > 0

LEMMA QuietInvariant ==
  ASSUME IInv, TypeOK', NEW v \in VCores, Quiet(v)
  PROVE  IInv' /\ ContractStep
<1> USE DEF IInv, Quiet
<1>0. current' = current BY CurrentStays DEF OnlyGoes
<1>1. QueuesFit' BY DEF QueuesFit
<1>2. \A w \in VCores, t \in Threads : Holds(w, t)' => Holds(w, t) BY DEF Holds
<1>3. HandsFit' BY <1>2 DEF HandsFit, Stealing
<1>4. WakeFits' BY DEF WakeFits, Holding
<1>5. RunFits' BY <1>0 DEF RunFits, InCall
<1>6. CountFits' BY DEF CountFits, Stealing
<1>7. IInv' BY <1>1, <1>3, <1>4, <1>5, <1>6
<1>8. \A w \in VCores, t \in Threads : Stolen(w, t)' <=> Stolen(w, t) BY DEF Stolen, Stealing
<1>9. \A t \in Threads : (Ready(t)' <=> Ready(t)) /\ (Runs(t)' <=> Runs(t))
  BY <1>0, <1>8 DEF Ready, Runs
<1>10. \A t \in Threads : SamePhase(t) BY <1>9 DEF SamePhase
<1> QED BY <1>7, <1>10, NoneMoves DEF ContractStep

LEMMA ReadIdInvariant ==
  ASSUME IInv, NEW v \in VCores, ReadId(v) PROVE IInv' /\ ContractStep
<1> USE DEF ReadId, Goto, placing, tunables, enqueuing, stealing, external
<1>1. TypeOK' BY DEF IInv, TypeOK, Labels
<1>2. Quiet(v) BY DEF IInv, TypeOK, RunFits, InCall, Quiet, Pausing, Holding, Stealing
<1> QED BY <1>1, <1>2, QuietInvariant

LEMMA ReadNrInvariant ==
  ASSUME IInv, NEW v \in VCores, ReadNr(v) PROVE IInv' /\ ContractStep
<1> USE DEF ReadNr, Goto, placing, tunables, enqueuing, stealing, external
<1>1. TypeOK'
  <2>1. (IF qid[v] + 1 = nr_vcores THEN 0 ELSE qid[v] + 1) \in VCores
    <3>1. qid[v] \in VCores /\ nr_vcores = MaxVCores BY DEF IInv, TypeOK
    <3> QED BY <3>1, PerVcoreQueueAssumption DEF PerVcoreQueueAssumption, VCores
  <2>2. next_id' \in [VCores -> VCores] BY <2>1 DEF IInv, TypeOK
  <2> QED BY <2>2 DEF IInv, TypeOK, Labels
<1>2. Quiet(v) BY DEF IInv, TypeOK, RunFits, InCall, Quiet, Pausing, Holding, Stealing
<1> QED BY <1>1, <1>2, QuietInvariant

LEMMA CasIdInvariant ==
  ASSUME IInv, NEW v \in VCores, CasId(v) PROVE IInv' /\ ContractStep
<1> USE DEF CasId, Goto, placing, tunables, enqueuing, stealing, external
<1>1. TypeOK'
  <2>1. CASE next_queue_id = qid[v]
    <3>1. vpc' \in [VCores -> Labels] /\ next_id' \in [VCores -> VCores]
      BY <2>1, VCoreZero DEF IInv, TypeOK, Labels
    <3>2. next_queue_id' \in VCores /\ preferred_vcq' \in [Threads -> VCores]
      BY <2>1 DEF IInv, TypeOK
    <3> QED BY <3>1, <3>2 DEF IInv, TypeOK
  <2>2. CASE ~(next_queue_id = qid[v]) BY <2>2, VCoreZero DEF HandsFit, Holding, IInv, TypeOK, Labels
  <2> QED BY <2>1, <2>2
<1>2. Quiet(v)
  <2>1. PICK l \in {"enqueue", "read_id"} : vpc' = [vpc EXCEPT ![v] = l] OBVIOUS
  <2>2. vpc[v] = "cas_id" /\ vpc'[v] = l /\ \A w \in VCores : w # v => vpc'[w] = vpc[w]
    BY <2>1 DEF IInv, TypeOK
  <2>3. current[v] # NULL => InCall(v)' BY <2>2 DEF IInv, RunFits, InCall
  <2> QED BY <2>2, <2>3 DEF Quiet, Pausing, Holding, Stealing
<1> QED BY <1>1, <1>2, QuietInvariant

LEMMA RequestInvariant ==
  ASSUME IInv, NEW v \in VCores, RequestVCore(v) PROVE IInv' /\ ContractStep
<1> USE DEF RequestVCore, Goto, placing, tunables, enqueuing, stealing, external
<1>1. TypeOK' BY VCoreZero DEF IInv, TypeOK, Labels
<1>2. Quiet(v) BY DEF IInv, TypeOK, RunFits, InCall, Quiet, Pausing, Holding, Stealing
<1> QED BY <1>1, <1>2, QuietInvariant

LEMMA DequeueNothingInvariant ==
  ASSUME IInv, NEW v \in VCores, DequeueNothing(v) PROVE IInv' /\ ContractStep
<1> USE DEF DequeueNothing, Goto, placing, tunables, enqueuing, stealing, external
<1>1. TypeOK' BY DEF IInv, TypeOK, Labels
<1>2. Quiet(v) BY DEF IInv, TypeOK, RunFits, InCall, Quiet, Pausing, Holding, Stealing
<1> QED BY <1>1, <1>2, QuietInvariant

LEMMA SchedEntryInvariant ==
  ASSUME IInv, NEW v \in VCores, SchedEntry(v) PROVE IInv' /\ ContractStep
<1> USE DEF SchedEntry, Goto, placing, tunables, enqueuing, stealing, external
<1>1. TypeOK'
  <2>0. vpc \in [VCores -> Labels] /\ "uthread" \in Labels /\ "dequeue" \in Labels
    BY DEF IInv, TypeOK, Labels
  <2>1. CASE current_uthread[v] # NULL
    <3>1. vpc' \in [VCores -> Labels] BY <2>0, <2>1
    <3> QED BY <2>1, <3>1 DEF IInv, TypeOK
  <2>2. CASE current_uthread[v] = NULL
    <3>1. MaxSpin \in -1 .. MaxSpin BY PerVcoreQueueAssumption DEF PerVcoreQueueAssumption
    <3>2. vpc' \in [VCores -> Labels] BY <2>0, <2>2
    <3>3. spin_count' \in [VCores -> -1 .. MaxSpin] BY <2>2, <3>1 DEF IInv, TypeOK
    <3> QED BY <2>2, <3>2, <3>3 DEF IInv, TypeOK
  <2> QED BY <2>1, <2>2
<1>2. current_uthread[v] = current[v] BY DEF current, Pausing
<1>3. Quiet(v) BY <1>2 DEF IInv, TypeOK, RunFits, InCall, Quiet, Pausing, Holding, Stealing
<1> QED BY <1>1, <1>3, QuietInvariant

LEMMA KeepVCoreInvariant ==
  ASSUME IInv, NEW v \in VCores, KeepVCore(v) PROVE IInv' /\ ContractStep
<1> USE DEF KeepVCore, Goto, placing, tunables, enqueuing, stealing, external
<1>1. TypeOK'
  <2>1. vpc' \in [VCores -> Labels] BY DEF IInv, TypeOK, Labels
  <2>2. spin_count' \in [VCores -> -1 .. MaxSpin]
    <3>1. spin_count[v] \in -1 .. MaxSpin /\ MaxSpin \in Nat
      BY PerVcoreQueueAssumption DEF PerVcoreQueueAssumption, IInv, TypeOK
    <3>2. (IF spin_count[v] < 0 THEN -1 ELSE spin_count[v] - 1) \in -1 .. MaxSpin BY <3>1
    <3> QED BY <3>2 DEF IInv, TypeOK
  <2> QED BY <2>1, <2>2 DEF IInv, TypeOK
<1>2. Quiet(v) BY DEF IInv, TypeOK, RunFits, InCall, Quiet, Pausing, Holding, Stealing
<1> QED BY <1>1, <1>2, QuietInvariant

LEMMA YieldVCoreInvariant ==
  ASSUME IInv, NEW v \in VCores, YieldVCore(v) PROVE IInv' /\ ContractStep
<1> USE DEF YieldVCore, Goto, placing, tunables, enqueuing, stealing, external
<1>1. TypeOK' BY PerVcoreQueueAssumption DEF PerVcoreQueueAssumption, IInv, TypeOK, Labels
<1>2. Quiet(v) BY DEF IInv, TypeOK, RunFits, InCall, Quiet, Pausing, Holding, Stealing
<1> QED BY <1>1, <1>2, QuietInvariant

LEMMA EventsDoneInvariant ==
  ASSUME IInv, NEW v \in VCores, EventsDone(v) PROVE IInv' /\ ContractStep
<1> USE DEF EventsDone, Goto, placing, tunables, enqueuing, stealing, external
<1>1. TypeOK' BY DEF IInv, TypeOK, Labels
<1>2. Quiet(v) BY DEF IInv, TypeOK, RunFits, InCall, Quiet, Pausing, Holding, Stealing
<1> QED BY <1>1, <1>2, QuietInvariant

LEMMA ResetQueueIdInvariant ==
  ASSUME IInv, NEW v \in VCores, ResetQueueId(v) PROVE IInv' /\ ContractStep
<1> USE DEF ResetQueueId, Goto, placing, tunables, enqueuing, stealing, external
<1>1. TypeOK'
  <2>1. (IF nr_vcores > 1 THEN 1 ELSE 0) \in VCores
    BY PerVcoreQueueAssumption DEF PerVcoreQueueAssumption, IInv, VCores
  <2> QED BY <2>1 DEF IInv, TypeOK, Labels
<1>2. Quiet(v) BY DEF IInv, TypeOK, RunFits, InCall, Quiet, Pausing, Holding, Stealing
<1> QED BY <1>1, <1>2, QuietInvariant

LEMMA VCoreUpInvariant ==
  ASSUME IInv, NEW v \in VCores, VCoreUp(v) PROVE IInv' /\ ContractStep
<1> USE DEF VCoreUp, Goto, placing, tunables, enqueuing, stealing, external
<1>1. TypeOK' BY DEF IInv, TypeOK, Labels
<1>2. Quiet(v) BY DEF IInv, TypeOK, RunFits, InCall, Quiet, Pausing, Holding, Stealing
<1> QED BY <1>1, <1>2, QuietInvariant

LEMMA SetTunableInvariant ==
  ASSUME IInv, NEW v \in VCores, NEW on \in BOOLEAN, SetTunable(v, on) PROVE IInv' /\ ContractStep
<1> USE DEF SetTunable, Executes, placing, tunables, enqueuing, stealing, external
<1>1. TypeOK' BY DEF IInv, TypeOK, Labels
<1>2. Quiet(v) BY DEF IInv, TypeOK, RunFits, InCall, Quiet, Pausing, Holding, Stealing
<1> QED BY <1>1, <1>2, QuietInvariant

LEMMA SetNumInvariant ==
  ASSUME NumStays, IInv, NEW v \in VCores, NEW t \in Threads, NEW num \in SetNums,
         SetNumVCores(v, t, num)
  PROVE  IInv' /\ ContractStep
<1> USE DEF SetNumVCores, Executes, Allowed, Goto, tunables, enqueuing, stealing, external
<1>1. nr_vcores' = nr_vcores
  BY PerVcoreQueueAssumption DEF PerVcoreQueueAssumption, IInv, NumStays
<1>2. TypeOK' BY <1>1 DEF IInv, TypeOK, Labels
<1>3. Quiet(v) BY <1>1 DEF IInv, TypeOK, RunFits, InCall, Quiet, Pausing, Holding, Stealing
<1> QED BY <1>2, <1>3, QuietInvariant

\* A thief looks for a queue that has threads.
LEMMA StealFromInvariant ==
  ASSUME IInv, NEW v \in VCores, NEW q \in VCores, vpc[v] \in {"choose", "scan"},
         StealFrom(v, q)
  PROVE  IInv' /\ ContractStep
<1> USE DEF StealFrom, NextVictim, Goto, placing, tunables, enqueuing, external
<1> DEFINE n == (Len(tqueue[q]) + 1) \div 2
           next == ((IF looping[v] THEN q ELSE v) + 1) % MaxVCores
<1>1. n \in 0 .. Cardinality(Threads)
  <2>1. tqueue[q] \in Seq(Threads) /\ IsInjective(tqueue[q]) BY DEF IInv, TypeOK, QueuesFit
  <2>2. Len(tqueue[q]) <= Cardinality(Threads)
    BY <2>1, InjectiveLength, PerVcoreQueueAssumption DEF PerVcoreQueueAssumption
  <2>3. Len(tqueue[q]) \in Nat /\ Cardinality(Threads) \in Nat
    BY <2>1, FS_CardinalityType, PerVcoreQueueAssumption DEF PerVcoreQueueAssumption
  <2>4. \A l, c \in Nat : l <= c => (l + 1) \div 2 \in 0 .. c OBVIOUS
  <2> QED BY <2>2, <2>3, <2>4
<1>2. next \in VCores
  BY PerVcoreQueueAssumption DEF PerVcoreQueueAssumption, VCores
<1>3. CASE /\ n > 0
           /\ num_to_steal' = [num_to_steal EXCEPT ![v] = n]
           /\ victim' = [victim EXCEPT ![v] = q]
           /\ Goto(v, "steal_first")
           /\ UNCHANGED looping
  <2> HIDE DEF n
  <2>1. TypeOK' BY <1>1, <1>3 DEF IInv, TypeOK, Labels
  <2>2. Quiet(v) BY <1>1, <1>3 DEF IInv, TypeOK, RunFits, InCall, Quiet, Pausing, Holding, Stealing
  <2> QED BY <2>1, <2>2, QuietInvariant
<1>4. CASE NextVictim(v, q) /\ UNCHANGED num_to_steal
  <2> HIDE DEF next
  <2>1. CASE next = v
    <3>1. /\ vpc' = [vpc EXCEPT ![v] = "idle"] /\ victim' = [victim EXCEPT ![v] = 0]
          /\ looping' = [looping EXCEPT ![v] = FALSE]
      BY <1>4, <2>1 DEF next
    <3>2. TypeOK' BY <1>4, <3>1, VCoreZero DEF IInv, TypeOK, Labels
    <3>3. Quiet(v) BY <1>4, <3>1 DEF IInv, TypeOK, RunFits, InCall, Quiet, Pausing, Holding, Stealing
    <3> QED BY <3>2, <3>3, QuietInvariant
  <2>2. CASE next # v
    <3>1. /\ vpc' = [vpc EXCEPT ![v] = "scan"] /\ victim' = [victim EXCEPT ![v] = next]
          /\ looping' = [looping EXCEPT ![v] = TRUE]
      BY <1>4, <2>2 DEF next
    <3>2. TypeOK' BY <1>2, <1>4, <3>1 DEF IInv, TypeOK, Labels
    <3>3. Quiet(v) BY <1>4, <3>1 DEF IInv, TypeOK, RunFits, InCall, Quiet, Pausing, Holding, Stealing
    <3> QED BY <3>2, <3>3, QuietInvariant
  <2> QED BY <2>1, <2>2
<1> QED BY <1>3, <1>4

LEMMA ChooseVictimInvariant ==
  ASSUME IInv, NEW v \in VCores, ChooseVictim(v) PROVE IInv' /\ ContractStep
BY StealFromInvariant DEF ChooseVictim

LEMMA ScanVictimInvariant ==
  ASSUME IInv, NEW v \in VCores, ScanVictim(v) PROVE IInv' /\ ContractStep
<1>1. victim[v] \in VCores BY DEF IInv, TypeOK
<1> QED BY <1>1, StealFromInvariant DEF ScanVictim

(***************************************************************************)
(* Steps that leave the queues alone: a vcore calls pth_thread_runnable    *)
(* with a thread that stopped, or a thread leaves its vcore.               *)
(***************************************************************************)
\* v calls pth_thread_runnable(t); t is with nobody else.
HandsOver(v, t) ==
  /\ UNCHANGED <<tqueue, nr_vcores, stolen, num_to_steal, syscalls>>
  /\ vpc[v] \in {"uthread", "entry", "events"}
  /\ vpc' = [vpc EXCEPT ![v] = "runnable"] /\ arg' = [arg EXCEPT ![v] = t]
  /\ \A w \in VCores : w # v => ret'[w] = ret[w]
  /\ state[t] # "RUNNABLE" /\ state'[t] \in Blocked
  /\ \A w \in VCores : vpc[w] = "runnable" => arg[w] # t
  /\ \A u \in Threads \ {t} : state[u] \in Blocked \cup {"RUNNABLE"} => state'[u] = state[u]
  /\ waiters' \subseteq waiters /\ Range(events') \subseteq Range(events) /\ IsInjective(events')
  /\ t \notin waiters' \cup syscalls \cup Range(events')
  /\ \A w \in VCores : current'[w] # NULL =>
       /\ current'[w] = current[w] /\ state'[current[w]] = state[current[w]]
       /\ w = v => ret'[w] \in {"uthread", "entry"}

LEMMA HandOverInvariant ==
  ASSUME IInv, TypeOK', NEW v \in VCores, NEW t \in Threads, HandsOver(v, t)
  PROVE  /\ IInv' /\ ~Runs(t)'
         /\ \A u \in Threads : Ready(u)' <=> Ready(u)
<1> USE DEF IInv, HandsOver
<1>0. \A w \in VCores : /\ vpc'[w] = (IF w = v THEN "runnable" ELSE vpc[w])
                        /\ arg'[w] = (IF w = v THEN t ELSE arg[w])
  BY DEF TypeOK
<1>1. \A p \in VCores : Range(tqueue[p]) \subseteq Threads BY RangesFit
<1>2. QueuesFit' BY <1>1 DEF QueuesFit
<1>3. \A w \in VCores : ~Holds(w, t)
  BY PerVcoreQueueAssumption DEF HandsFit, Holds, PerVcoreQueueAssumption
<1>4. \A w \in VCores, u \in Threads : Holds(w, u)' <=> Holds(w, u) \/ (w = v /\ u = t)
  BY <1>0 DEF Holds, Holding
<1>5. HandsFit'
  <2>1. \A w \in VCores : vpc'[w] \in Holding => arg'[w] \in Threads
    BY <1>0 DEF HandsFit
  <2>2. \A w \in VCores : vpc'[w] \in Holding \ {"runnable"} => state'[arg'[w]] = "RUNNABLE"
    BY <1>0 DEF HandsFit
  <2>3. \A w \in VCores : stolen'[w] # NULL <=> vpc'[w] \in {"steal_next", "steal_put"}
    BY <1>0 DEF HandsFit
  <2>4. \A w \in VCores : stolen'[w] # NULL => state'[stolen'[w]] = "RUNNABLE"
    BY SMTT(20) DEF HandsFit, TypeOK
  <2>5. \A w \in VCores : vpc'[w] = "steal_put" => arg'[w] # stolen'[w]
    BY <1>0 DEF HandsFit
  <2>6. \A w, x \in VCores : \A u \in Threads : Holds(w, u)' /\ Holds(x, u)' => w = x
    BY <1>3, <1>4 DEF HandsFit
  <2>7. \A w, q \in VCores : \A u \in Threads : Holds(w, u)' => u \notin Range(tqueue'[q])
    BY <1>4 DEF HandsFit, QueuesFit
  <2> QED BY <2>1, <2>2, <2>3, <2>4, <2>5, <2>6, <2>7 DEF HandsFit
<1>6. WakeFits'
  <2>0. waiters \subseteq Threads /\ syscalls \subseteq Threads /\ Range(events) \subseteq Threads
    BY RangesFit DEF TypeOK
  <2>1. \A w \in VCores : vpc'[w] = "runnable" => arg'[w] \in Threads /\ state'[arg'[w]] \in Blocked
    BY <1>0 DEF WakeFits, HandsFit, Holding
  <2>2. \A w \in VCores : vpc'[w] = "runnable" => arg'[w] \notin waiters' \cup syscalls' \cup Range(events')
    BY <1>0 DEF WakeFits
  <2>3. \A u \in waiters' : state'[u] = "BLK_MUTEX" BY <2>0 DEF WakeFits, Blocked
  <2>4. \A u \in syscalls' \cup Range(events') : state'[u] = "BLK_SYSC" BY <2>0 DEF WakeFits, Blocked
  <2>5. syscalls' \cap Range(events') = {} /\ IsInjective(events)' BY DEF WakeFits
  <2> QED BY <2>1, <2>2, <2>3, <2>4, <2>5 DEF WakeFits
<1>7. RunFits' BY <1>0 DEF RunFits, InCall, Holding
<1>8. CountFits' BY <1>0 DEF CountFits
<1>9. IInv' BY <1>2, <1>5, <1>6, <1>7, <1>8
<1>10. \A w \in VCores, u \in Threads : Stolen(w, u)' <=> Stolen(w, u) BY <1>0 DEF Stolen
<1>11. \A u \in Threads : Ready(u)' <=> Ready(u) BY <1>10 DEF Ready
<1>12. ~Runs(t)'
  <2>1. Runs(t)' => state'[t] = "RUNNING" BY <1>9, ReadyStateNext
  <2> QED BY <2>1 DEF Blocked
<1> HIDE DEF IInv
<1> QED BY <1>9, <1>11, <1>12

\* t, which v runs, leaves v for the outside of the scheduler, or for good.
Leaves(v, t) ==
  /\ UNCHANGED <<tqueue, nr_vcores, stolen, num_to_steal, arg, ret, events>>
  /\ vpc[v] = "uthread" /\ current[v] = t
  /\ vpc' = [vpc EXCEPT ![v] = "entry"] /\ current' = [current EXCEPT ![v] = NULL]
  /\ \A u \in Threads \ {t} : state'[u] = state[u]
  /\ \/ waiters' = waiters \cup {t} /\ syscalls' = syscalls /\ state'[t] = "BLK_MUTEX"
     \/ waiters' = waiters /\ syscalls' = syscalls \cup {t} /\ state'[t] = "BLK_SYSC"
     \/ waiters' = waiters /\ syscalls' = syscalls /\ state'[t] = "EXITING"

LEMMA LeaveInvariant ==
  ASSUME IInv, TypeOK', NEW v \in VCores, NEW t \in Threads, Leaves(v, t)
  PROVE  IInv' /\ ContractStep
<1> USE DEF IInv, Leaves
<1>0. \A w \in VCores : /\ vpc'[w] = (IF w = v THEN "entry" ELSE vpc[w])
                        /\ current'[w] = (IF w = v THEN NULL ELSE current[w])
  BY CurrentType DEF TypeOK
<1>1. \A p \in VCores : Range(tqueue[p]) \subseteq Threads BY RangesFit
<1>2. state[t] = "RUNNING" BY PerVcoreQueueAssumption DEF RunFits, PerVcoreQueueAssumption
<1>3. QueuesFit' BY <1>1, <1>2 DEF QueuesFit
<1>4. \A w \in VCores, u \in Threads : Holds(w, u)' <=> Holds(w, u)
  BY <1>0 DEF Holds, Holding
<1>5. \A w \in VCores : ~Holds(w, t)
  <2> SUFFICES ASSUME NEW w \in VCores, Holds(w, t) PROVE FALSE OBVIOUS
  <2>1. stolen[w] # t BY <1>2, PerVcoreQueueAssumption DEF HandsFit, PerVcoreQueueAssumption
  <2>2. vpc[w] \in Holding /\ arg[w] = t BY <2>1 DEF Holds
  <2>3. state[t] = "RUNNABLE" \/ state[t] \in Blocked BY <2>2 DEF HandsFit, WakeFits
  <2> QED BY <1>2, <2>3 DEF Blocked
<1>6. HandsFit'
  <2>1. \A w \in VCores : vpc'[w] \in Holding => vpc[w] \in Holding /\ vpc'[w] = vpc[w] /\ arg[w] # t
    BY <1>0, <1>5 DEF Holding, Holds
  <2>2. \A w \in VCores : stolen[w] # NULL => state'[stolen[w]] = "RUNNABLE"
    BY <1>2 DEF HandsFit, TypeOK
  <2>3. \A w \in VCores : stolen'[w] # NULL <=> vpc'[w] \in {"steal_next", "steal_put"}
    BY <1>0 DEF HandsFit
  <2>4. \A w \in VCores : vpc'[w] \in Holding \ {"runnable"} => state'[arg'[w]] = "RUNNABLE"
    BY <2>1 DEF HandsFit
  <2>5. \A w \in VCores : vpc'[w] = "steal_put" => arg'[w] # stolen'[w]
    BY <1>0 DEF HandsFit
  <2>6. \A w \in VCores : vpc'[w] \in Holding => arg'[w] \in Threads
    BY <2>1 DEF HandsFit
  <2>7. /\ \A w, x \in VCores : \A u \in Threads : Holds(w, u)' /\ Holds(x, u)' => w = x
        /\ \A w, q \in VCores : \A u \in Threads : Holds(w, u)' => u \notin Range(tqueue'[q])
    BY <1>4 DEF HandsFit
  <2> QED BY <2>2, <2>3, <2>4, <2>5, <2>6, <2>7 DEF HandsFit
<1>7. WakeFits'
  <2>0. waiters \subseteq Threads /\ syscalls \subseteq Threads /\ Range(events) \subseteq Threads
    BY RangesFit DEF TypeOK
  <2>1. t \notin waiters \cup syscalls \cup Range(events) BY <1>2 DEF WakeFits
  <2>2. \A w \in VCores : vpc'[w] = "runnable" => vpc[w] = "runnable" /\ arg[w] # t /\ arg[w] \in Threads
    BY <1>0, <1>5 DEF HandsFit, Holding, Holds
  <2>3. \A w \in VCores : vpc'[w] = "runnable" =>
          /\ state'[arg'[w]] \in Blocked
          /\ arg'[w] \notin waiters' \cup syscalls' \cup Range(events')
    BY <2>2 DEF WakeFits
  <2>4. \A u \in waiters' : state'[u] = "BLK_MUTEX" BY <2>0, <2>1 DEF WakeFits
  <2>5. \A u \in syscalls' \cup Range(events') : state'[u] = "BLK_SYSC" BY <2>0, <2>1 DEF WakeFits
  <2>6. syscalls' \cap Range(events') = {} /\ IsInjective(events)' BY <2>1 DEF WakeFits
  <2> QED BY <2>3, <2>4, <2>5, <2>6 DEF WakeFits
<1>8. RunFits'
  <2>1. \A w \in VCores : current'[w] # NULL => w # v /\ current'[w] = current[w] /\ current[w] # t
    BY <1>0, PerVcoreQueueAssumption DEF RunFits, PerVcoreQueueAssumption
  <2>2. \A w \in VCores : current'[w] # NULL => state'[current'[w]] = "RUNNING"
    BY <2>1, CurrentType DEF RunFits
  <2>3. \A w \in VCores : current'[w] # NULL => vpc'[w] = vpc[w] /\ ret'[w] = ret[w]
    BY <1>0, <2>1
  <2> QED BY <1>0, <2>1, <2>2, <2>3 DEF RunFits, InCall
<1>9. CountFits' BY <1>0 DEF CountFits
<1>10. IInv' BY <1>3, <1>6, <1>7, <1>8, <1>9
<1>11. \A w \in VCores, u \in Threads : Stolen(w, u)' <=> Stolen(w, u) BY <1>0 DEF Stolen
<1>12. \A u \in Threads : (Ready(u)' <=> Ready(u)) /\ (u # t => (Runs(u)' <=> Runs(u)))
  BY <1>0, <1>11, PerVcoreQueueAssumption DEF Ready, Runs, PerVcoreQueueAssumption
<1>13. \A u \in Threads : u # t => SamePhase(u) BY <1>12 DEF SamePhase
<1>14. Runs(t) /\ ~Runs(t)'
  <2>1. Runs(t)' => state'[t] = "RUNNING" BY <1>10, ReadyStateNext
  <2> QED BY <2>1 DEF Runs
<1>15. state'[t] \in Blocked \cup {"EXITING"} BY DEF Blocked
<1> HIDE DEF IInv, Leaves
<1> QED BY <1>10, <1>13, <1>14, <1>15, OneSteps
LEMMA Labelled ==
  /\ \A l \in {"entry", "events", "uthread", "paused", "unlock"} : l \in Labels
  /\ {"runnable", "request", "read_id", "steal_next", "steal_put", "steal_first"} \subseteq Labels
  /\ Blocked \subseteq States /\ {"RUNNABLE", "RUNNING", "EXITING"} \subseteq States
BY DEF Labels, States

LEMMA HandleSyscallInvariant ==
  ASSUME IInv, NEW v \in VCores, HandleSyscall(v) PROVE IInv' /\ ContractStep
<1> USE DEF HandleSyscall, CallRunnable, Goto, placing, tunables, enqueuing, stealing
<1>0. PICK t \in Threads : t = Head(events) BY PopRange DEF IInv, TypeOK, WakeFits
<1>1. /\ t \in Threads /\ t \in Range(events) /\ Tail(events) \in Seq(Threads)
      /\ IsInjective(Tail(events)) /\ Range(Tail(events)) = Range(events) \ {t}
  BY <1>0, PopRange DEF IInv, TypeOK, WakeFits
<1>2. state[t] = "BLK_SYSC" /\ t \notin syscalls /\ t \notin waiters
  BY <1>1 DEF IInv, WakeFits
<1>3. TypeOK'
  <2>1. vpc' \in [VCores -> Labels] BY Labelled DEF IInv, TypeOK
  <2>2. arg' \in [VCores -> Threads \cup {NULL}] /\ events' \in Seq(Threads)
    BY <1>0, <1>1 DEF IInv, TypeOK
  <2>3. ret' \in [VCores -> {"entry", "events", "uthread", "paused"}] BY DEF IInv, TypeOK
  <2> QED BY <2>1, <2>2, <2>3 DEF IInv, TypeOK
<1>c. current' = current
  <2>1. OnlyGoes(v) BY DEF OnlyGoes, IInv, TypeOK
  <2>2. ~Pausing(v) /\ ~Pausing(v)' BY DEF Pausing, IInv, TypeOK
  <2> QED BY <2>1, <2>2, CurrentStays
<1>4. current[v] # NULL => ret'[v] = "entry"
  BY DEF IInv, TypeOK, RunFits, InCall, Holding
<1>5. HandsOver(v, t)
  <2>1. arg' = [arg EXCEPT ![v] = t] /\ \A w \in VCores : w # v => ret'[w] = ret[w]
    BY <1>0 DEF IInv, TypeOK
  <2>2. \A w \in VCores : vpc[w] = "runnable" => arg[w] # t BY <1>1 DEF IInv, WakeFits
  <2>3. Range(events') \subseteq Range(events) /\ IsInjective(events') /\ t \notin Range(events')
    BY <1>1
  <2> QED BY <1>c, <1>2, <1>4, <2>1, <2>2, <2>3 DEF HandsOver, Blocked
<1>6. IInv' /\ ~Runs(t)' /\ \A u \in Threads : Ready(u)' <=> Ready(u)
  BY <1>1, <1>3, <1>5, HandOverInvariant
<1>7. \A u \in Threads : SamePhase(u)
  BY <1>c, <1>6 DEF SamePhase, Runs
<1> QED BY <1>6, <1>7, NoneMoves DEF ContractStep

LEMMA CreateInvariant ==
  ASSUME IInv, NEW v \in VCores, NEW t \in Threads, NEW u \in Threads, Create(v, t, u) PROVE IInv' /\ ContractStep
<1> USE DEF Create, Executes, CallRunnable, Goto, placing, tunables, enqueuing, stealing, external
<1>1. TypeOK'
  <2>1. vpc' \in [VCores -> Labels] BY Labelled DEF IInv, TypeOK
  <2>2. arg' \in [VCores -> Threads \cup {NULL}] /\ ret' \in [VCores -> {"entry", "events", "uthread", "paused"}]
    BY DEF IInv, TypeOK
  <2>3. state' \in [Threads -> States] BY DEF IInv, TypeOK, States, Blocked
  <2> QED BY <2>1, <2>2, <2>3 DEF IInv, TypeOK
<1>2. \A w \in VCores : vpc[w] = "runnable" => arg[w] # u BY DEF IInv, WakeFits, Blocked
<1>3. u \notin waiters \cup syscalls \cup Range(events) BY DEF IInv, WakeFits
<1>c. current' = current
  <2>1. OnlyGoes(v) BY DEF OnlyGoes, IInv, TypeOK
  <2>2. ~Pausing(v) /\ ~Pausing(v)' BY DEF Pausing, IInv, TypeOK
  <2> QED BY <2>1, <2>2, CurrentStays
<1>4. \A w \in VCores : current[w] # NULL => current[w] \in Threads \ {u}
  BY CurrentType DEF IInv, RunFits
<1>5. state'[u] = "CREATED" /\ \A x \in Threads \ {u} : state'[x] = state[x]
  BY DEF IInv, TypeOK
<1>6. ret'[v] = "uthread" /\ \A w \in VCores : w # v => ret'[w] = ret[w] BY DEF IInv, TypeOK
<1>7. IsInjective(events) BY DEF IInv, WakeFits
<1>8. HandsOver(v, u)
  BY <1>c, <1>2, <1>3, <1>4, <1>5, <1>6, <1>7 DEF HandsOver, Blocked
<1>9. IInv' /\ ~Runs(u)' /\ \A x \in Threads : Ready(x)' <=> Ready(x)
  BY <1>1, <1>8, HandOverInvariant
<1>10. \A x \in Threads : x # u => SamePhase(x) BY <1>c, <1>5, <1>9 DEF SamePhase, Runs
<1> QED BY <1>5, <1>9, <1>10, OneSteps DEF Blocked

\* Yield, Pause and the alarm, which stop the running thread and make it runnable at once.
LEMMA StopInvariant ==
  ASSUME IInv, NEW v \in VCores, NEW t \in Threads, NEW newstate \in Blocked,
         vpc[v] \in {"uthread", "entry", "events"}, current[v] = t,
         NEW r \in {"entry", "paused"}, CallRunnable(v, t, r),
         state' = [state EXCEPT ![t] = newstate],
         UNCHANGED <<tqueue, placing, tunables, preferred_vcq, spin_count, enqueuing, stealing, external>>,
         \/ r = "entry" /\ current_uthread' = [current_uthread EXCEPT ![v] = NULL]
         \/ r = "paused" /\ UNCHANGED current_uthread
  PROVE  IInv' /\ ContractStep
<1> USE DEF CallRunnable, Goto, placing, tunables, enqueuing, stealing, external
<1>1. TypeOK'
  <2>1. vpc' \in [VCores -> Labels] BY Labelled DEF IInv, TypeOK
  <2>2. arg' \in [VCores -> Threads \cup {NULL}] /\ ret' \in [VCores -> {"entry", "events", "uthread", "paused"}]
        /\ current_uthread' \in [VCores -> Threads \cup {NULL}]
    BY DEF IInv, TypeOK
  <2>3. state' \in [Threads -> States] BY Labelled DEF IInv, TypeOK
  <2> QED BY <2>1, <2>2, <2>3 DEF IInv, TypeOK
<1>c. current' = [current EXCEPT ![v] = NULL]
  <2>1. OnlyGoes(v) BY DEF OnlyGoes, IInv, TypeOK
  <2>2. IF r = "paused" THEN Pausing(v)' ELSE ~Pausing(v)' BY DEF Pausing, IInv, TypeOK
  <2> QED BY <2>1, <2>2, CurrentBecomes DEF IInv
<1>2. state[t] = "RUNNING" BY PerVcoreQueueAssumption DEF IInv, RunFits, PerVcoreQueueAssumption
<1>3. \A w \in VCores : vpc[w] = "runnable" => arg[w] # t BY <1>2 DEF IInv, WakeFits, Blocked
<1>4. t \notin waiters \cup syscalls \cup Range(events) BY <1>2 DEF IInv, WakeFits
<1>5. state'[t] \in Blocked /\ \A x \in Threads \ {t} : state'[x] = state[x]
  BY DEF IInv, TypeOK
<1>6. \A w \in VCores : current'[w] # NULL =>
        w # v /\ current'[w] = current[w] /\ current[w] \in Threads \ {t}
  BY <1>c, CurrentType DEF IInv, RunFits
<1>7. \A w \in VCores : w # v => ret'[w] = ret[w] BY DEF IInv, TypeOK
<1>8. IsInjective(events) BY DEF IInv, WakeFits
<1>9. HandsOver(v, t)
  BY <1>2, <1>3, <1>4, <1>5, <1>6, <1>7, <1>8 DEF HandsOver
<1>10. IInv' /\ ~Runs(t)' /\ \A x \in Threads : Ready(x)' <=> Ready(x)
  BY <1>1, <1>9, HandOverInvariant
<1>11. \A w \in VCores : w # v => current'[w] = current[w] BY <1>c, CurrentType DEF IInv
<1>12. \A x \in Threads : x # t => (Runs(x)' <=> Runs(x))
  BY <1>6, <1>11, PerVcoreQueueAssumption DEF Runs, PerVcoreQueueAssumption
<1>13. \A x \in Threads : x # t => SamePhase(x) BY <1>5, <1>10, <1>12 DEF SamePhase
<1>14. Runs(t) BY DEF Runs
<1> QED BY <1>5, <1>10, <1>13, <1>14, OneSteps

LEMMA YieldInvariant ==
  ASSUME IInv, NEW v \in VCores, NEW t \in Threads, Yield(v, t) PROVE IInv' /\ ContractStep
<1>1. "BLK_YIELDING" \in Blocked BY DEF Blocked
<1> QED BY <1>1, Executing, StopInvariant DEF Yield, Leave

LEMMA PauseInvariant ==
  ASSUME IInv, NEW v \in VCores, NEW t \in Threads, Pause(v, t) PROVE IInv' /\ ContractStep
<1>1. "BLK_PAUSED" \in Blocked BY DEF Blocked
<1> QED BY <1>1, Executing, StopInvariant DEF Pause, Leave

LEMMA BlockInvariant ==
  ASSUME IInv, NEW v \in VCores, NEW t \in Threads, Block(v, t) PROVE IInv' /\ ContractStep
<1> USE DEF Block, Leave, Goto, placing, tunables, enqueuing, stealing
<1>1. TypeOK'
  <2>1. vpc' \in [VCores -> Labels] BY Labelled DEF IInv, TypeOK
  <2>2. current_uthread' \in [VCores -> Threads \cup {NULL}] BY DEF IInv, TypeOK
  <2>3. state' \in [Threads -> States] BY DEF IInv, TypeOK, States, Blocked
  <2> QED BY <2>1, <2>2, <2>3 DEF IInv, TypeOK
<1>2. state'[t] = "BLK_MUTEX" /\ \A x \in Threads \ {t} : state'[x] = state[x]
  BY DEF IInv, TypeOK
<1>c. current' = [current EXCEPT ![v] = NULL]
  <2>1. OnlyGoes(v) BY DEF OnlyGoes, IInv, TypeOK
  <2> QED BY <2>1, CurrentBecomes DEF IInv
<1>3. Leaves(v, t) BY <1>c, <1>2, Executing DEF Leaves
<1> QED BY <1>1, <1>3, LeaveInvariant

LEMMA SyscallInvariant ==
  ASSUME IInv, NEW v \in VCores, NEW t \in Threads, Syscall(v, t) PROVE IInv' /\ ContractStep
<1> USE DEF Syscall, Leave, Goto, placing, tunables, enqueuing, stealing
<1>1. TypeOK'
  <2>1. vpc' \in [VCores -> Labels] BY Labelled DEF IInv, TypeOK
  <2>2. current_uthread' \in [VCores -> Threads \cup {NULL}] BY DEF IInv, TypeOK
  <2>3. state' \in [Threads -> States] BY DEF IInv, TypeOK, States, Blocked
  <2> QED BY <2>1, <2>2, <2>3 DEF IInv, TypeOK
<1>2. state'[t] = "BLK_SYSC" /\ \A x \in Threads \ {t} : state'[x] = state[x]
  BY DEF IInv, TypeOK
<1>c. current' = [current EXCEPT ![v] = NULL]
  <2>1. OnlyGoes(v) BY DEF OnlyGoes, IInv, TypeOK
  <2> QED BY <2>1, CurrentBecomes DEF IInv
<1>3. Leaves(v, t) BY <1>c, <1>2, Executing DEF Leaves
<1> QED BY <1>1, <1>3, LeaveInvariant

LEMMA ExitInvariant ==
  ASSUME IInv, NEW v \in VCores, NEW t \in Threads, Exit(v, t) PROVE IInv' /\ ContractStep
<1> USE DEF Leave, CallRunnable, Goto, placing, tunables, enqueuing, stealing
<1>1. state' \in [Threads -> States] /\ current_uthread' \in [VCores -> Threads \cup {NULL}]
  BY Labelled DEF Exit, IInv, TypeOK
<1>c. vpc[v] = "uthread" /\ current[v] = t /\ t # NULL
      /\ current_uthread' = [current_uthread EXCEPT ![v] = NULL]
  BY Executing DEF Exit, Executes
<1>cc. OnlyGoes(v) => current' = [current EXCEPT ![v] = NULL] BY <1>c, CurrentBecomes DEF IInv
<1>2. state[t] = "RUNNING" BY <1>c DEF IInv, RunFits
<1>3. \A x \in Threads \ {t} : state'[x] = state[x] BY DEF Exit, IInv, TypeOK
<1>4. CASE Goto(v, "entry") /\ UNCHANGED <<arg, ret, waiters>>
  <2>1. vpc' \in [VCores -> Labels] BY <1>4, Labelled DEF IInv, TypeOK
  <2>2. TypeOK' BY <1>1, <1>4, <2>1 DEF Exit, IInv, TypeOK
  <2>3. state'[t] = "EXITING" BY DEF Exit, IInv, TypeOK
  <2>c. OnlyGoes(v) BY <1>4 DEF OnlyGoes, IInv, TypeOK
  <2>4. Leaves(v, t) BY <1>c, <1>cc, <1>3, <1>4, <2>c, <2>3 DEF Exit, Leaves
  <2> QED BY <2>2, <2>4, LeaveInvariant
<1>5. ASSUME NEW u \in waiters, CallRunnable(v, u, "entry"), waiters' = waiters \ {u}
      PROVE  IInv' /\ ContractStep
  <2>1. vpc' \in [VCores -> Labels] BY <1>5, Labelled DEF IInv, TypeOK
  <2>c. current' = [current EXCEPT ![v] = NULL]
    <3>1. OnlyGoes(v) BY <1>5 DEF OnlyGoes, IInv, TypeOK
    <3> QED BY <1>cc, <3>1
  <2>2. u \in Threads /\ state[u] = "BLK_MUTEX" /\ u # t /\ state'[u] = "BLK_MUTEX"
    BY <1>2, <1>3 DEF IInv, TypeOK, WakeFits
  <2>3. arg' \in [VCores -> Threads \cup {NULL}] /\ ret' \in [VCores -> {"entry", "events", "uthread", "paused"}]
    BY <1>5, <2>2 DEF IInv, TypeOK
  <2>4. TypeOK' BY <1>1, <1>5, <2>1, <2>3 DEF Exit, IInv, TypeOK
  <2>5. \A w \in VCores : vpc[w] = "runnable" => arg[w] # u BY DEF IInv, WakeFits
  <2>6. u \notin syscalls \cup Range(events) BY <2>2 DEF IInv, WakeFits
  <2>7. \A w \in VCores : current'[w] # NULL =>
          w # v /\ current'[w] = current[w] /\ current[w] \in Threads \ {t}
    BY <1>c, <2>c, CurrentType DEF IInv, RunFits
  <2>8. \A w \in VCores : w # v => ret'[w] = ret[w] BY <1>5 DEF IInv, TypeOK
  <2>9. IsInjective(events) BY DEF IInv, WakeFits
  <2>10. \A x \in Threads \ {u} : state[x] \in Blocked \cup {"RUNNABLE"} => state'[x] = state[x]
    BY <1>2, <1>3 DEF Blocked
  <2>11. \A w \in VCores : current'[w] # NULL => state'[current[w]] = state[current[w]]
    BY <1>3, <2>7
  <2>12. HandsOver(v, u)
    BY <1>c, <1>5, <2>2, <2>5, <2>6, <2>7, <2>8, <2>9, <2>10, <2>11 DEF Exit, HandsOver, Blocked
  <2>13. IInv' /\ ~Runs(u)' /\ \A x \in Threads : Ready(x)' <=> Ready(x)
    BY <2>2, <2>4, <2>12, HandOverInvariant
  <2>14. \A w \in VCores : w # v => current'[w] = current[w] BY <2>c, CurrentType DEF IInv
  <2>15. state'[t] = "EXITING" /\ Runs(t) BY <1>c DEF Exit, Runs, IInv, TypeOK
  <2>16. ~Runs(t)' BY <2>7, PerVcoreQueueAssumption DEF Runs, PerVcoreQueueAssumption
  <2>17. \A x \in Threads : x # t => (Runs(x)' <=> Runs(x))
    BY <1>c, <2>7, <2>14, PerVcoreQueueAssumption DEF Runs, PerVcoreQueueAssumption
  <2>18. \A x \in Threads : x # t => SamePhase(x) BY <1>3, <2>13, <2>17 DEF SamePhase
  <2> QED BY <2>13, <2>15, <2>16, <2>18, OneSteps
<1> QED BY <1>4, <1>5 DEF Exit

LEMMA WakeInvariant ==
  ASSUME IInv, NEW v \in VCores, NEW t \in Threads, NEW u \in Threads, Wake(v, t, u) PROVE IInv' /\ ContractStep
<1> USE DEF Wake, Executes, CallRunnable, Goto, placing, tunables, enqueuing, stealing
<1>1. TypeOK'
  <2>1. vpc' \in [VCores -> Labels] BY Labelled DEF IInv, TypeOK
  <2>2. arg' \in [VCores -> Threads \cup {NULL}] /\ ret' \in [VCores -> {"entry", "events", "uthread", "paused"}]
    BY DEF IInv, TypeOK
  <2> QED BY <2>1, <2>2 DEF IInv, TypeOK
<1>c. current' = current
  <2>1. OnlyGoes(v) BY DEF OnlyGoes, IInv, TypeOK
  <2>2. ~Pausing(v) /\ ~Pausing(v)' BY DEF Pausing, IInv, TypeOK
  <2> QED BY <2>1, <2>2, CurrentStays
<1>2. state[u] = "BLK_MUTEX" BY DEF IInv, WakeFits
<1>3. \A w \in VCores : vpc[w] = "runnable" => arg[w] # u BY DEF IInv, WakeFits
<1>4. u \notin syscalls \cup Range(events) BY <1>2 DEF IInv, WakeFits
<1>5. ret'[v] = "uthread" /\ \A w \in VCores : w # v => ret'[w] = ret[w] BY DEF IInv, TypeOK
<1>6. IsInjective(events) BY DEF IInv, WakeFits
<1>7. HandsOver(v, u)
  BY <1>c, <1>2, <1>3, <1>4, <1>5, <1>6 DEF HandsOver, Blocked
<1>8. IInv' /\ ~Runs(u)' /\ \A x \in Threads : Ready(x)' <=> Ready(x)
  BY <1>1, <1>7, HandOverInvariant
<1>9. \A x \in Threads : SamePhase(x) BY <1>c, <1>8 DEF SamePhase, Runs
<1> QED BY <1>8, <1>9, NoneMoves DEF ContractStep

LEMMA KernelInvariant ==
  ASSUME IInv, NEW t \in Threads, KernelCompletes(t) PROVE IInv' /\ ContractStep
<1> USE DEF KernelCompletes, placing, tunables, enqueuing, stealing
<1>1. /\ events' \in Seq(Threads) /\ IsInjective(events')
      /\ Range(events') = Range(events) \cup {t}
  BY AppendRange, AppendNew DEF IInv, TypeOK, WakeFits
<1>c. current' = current BY DEF current, Pausing
<1>2. TypeOK' BY <1>1 DEF IInv, TypeOK
<1>3. WakeFits' BY <1>1 DEF IInv, WakeFits
<1>4. QueuesFit' /\ HandsFit' /\ RunFits' /\ CountFits'
  BY <1>c DEF IInv, QueuesFit, HandsFit, Holds, RunFits, InCall, CountFits
<1>5. IInv' BY <1>2, <1>3, <1>4 DEF IInv
<1>6. \A u \in Threads : SamePhase(u) BY <1>c DEF SamePhase, Ready, Runs, Stolen
<1> QED BY <1>5, <1>6, NoneMoves DEF ContractStep
(***************************************************************************)
(* Steps that move a thread: into a queue, out of one, or onto the vcore.  *)
(***************************************************************************)
\* v moves t, which it has in its hands or takes from a queue, and moves no other thread.
Moves(v, t) ==
  /\ UNCHANGED <<nr_vcores, waiters, syscalls, events>>
  /\ \A w \in VCores \ {v} :
       /\ vpc'[w] = vpc[w] /\ arg'[w] = arg[w] /\ ret'[w] = ret[w] /\ stolen'[w] = stolen[w]
       /\ current'[w] = current[w] /\ num_to_steal'[w] = num_to_steal[w]
  /\ Holds(v, t) \/ \E q \in VCores : t \in Range(tqueue[q])
  /\ state'[t] \in {"RUNNABLE", "RUNNING"}
  /\ \A u \in Threads \ {t} :
       /\ state'[u] = state[u]
       /\ Holds(v, u)' => Holds(v, u)
       /\ Stolen(v, u)' <=> Stolen(v, u)
       /\ \A q \in VCores : u \in Range(tqueue'[q]) <=> u \in Range(tqueue[q])
  /\ Holds(v, t)' => \A q \in VCores : t \notin Range(tqueue'[q])
  /\ vpc'[v] \in Holding =>
       arg'[v] \in Threads /\ vpc'[v] # "runnable" /\ state'[arg'[v]] = "RUNNABLE"
  /\ stolen'[v] # NULL <=> vpc'[v] \in Stealing
  /\ stolen'[v] # NULL => state'[stolen'[v]] = "RUNNABLE"
  /\ vpc'[v] = "steal_put" => arg'[v] # stolen'[v]
  /\ vpc'[v] \in {"steal_first", "steal_put"} => num_to_steal'[v] > 0
  /\ \/ /\ current'[v] = current[v]
        /\ current[v] # NULL => vpc'[v] \in {"uthread", "set_num", "entry"} \/ InCall(v)'
        /\ Ready(t) => Ready(t)'
     \/ /\ current[v] = NULL /\ Ready(t)
        /\ current'[v] = t /\ state'[t] = "RUNNING" /\ vpc'[v] = "uthread"

LEMMA MoveInvariant ==
  ASSUME IInv, TypeOK', QueuesFit', NEW v \in VCores, NEW t \in Threads, Moves(v, t)
  PROVE  IInv' /\ ContractStep
<1> USE DEF IInv
<1>1. \A w \in VCores \ {v}, u \in Threads : Holds(w, u)' <=> Holds(w, u)
  BY DEF Holds, Moves
<1>2. \A w \in VCores \ {v} : ~Holds(w, t)
  BY DEF HandsFit, Moves
<1>3. state[t] = "RUNNABLE" \/ (vpc[v] = "runnable" /\ arg[v] = t)
  BY PerVcoreQueueAssumption DEF Holds, HandsFit, QueuesFit, Moves, PerVcoreQueueAssumption
<1>4. /\ t \notin waiters \cup syscalls \cup Range(events)
      /\ \A w \in VCores : current[w] # NULL => current[w] # t
  <2>1. CASE state[t] = "RUNNABLE" BY <2>1 DEF WakeFits, RunFits
  <2>2. CASE vpc[v] = "runnable" /\ arg[v] = t BY <2>2 DEF WakeFits, RunFits, Blocked
  <2> QED BY <1>3, <2>1, <2>2
<1>5. HandsFit'
  <2>1. \A w \in VCores : vpc'[w] \in Holding => arg'[w] \in Threads BY DEF HandsFit, Moves
  <2>2. \A w \in VCores : vpc'[w] \in Holding \ {"runnable"} => state'[arg'[w]] = "RUNNABLE"
    <3> SUFFICES ASSUME NEW w \in VCores \ {v}, vpc'[w] \in Holding \ {"runnable"}
                 PROVE  state'[arg'[w]] = "RUNNABLE"
      BY DEF Moves
    <3>1. vpc[w] \in Holding \ {"runnable"} /\ arg'[w] = arg[w] BY DEF Moves
    <3>2. arg[w] \in Threads /\ state[arg[w]] = "RUNNABLE" BY <3>1 DEF HandsFit
    <3>3. arg[w] # t BY <1>2, <3>1 DEF Holds
    <3> QED BY <3>1, <3>2, <3>3 DEF Moves
  <2>3. \A w \in VCores : stolen'[w] # NULL <=> vpc'[w] \in {"steal_next", "steal_put"}
    BY DEF HandsFit, Moves, Stealing
  <2>4. \A w \in VCores : stolen'[w] # NULL => state'[stolen'[w]] = "RUNNABLE"
    <3> SUFFICES ASSUME NEW w \in VCores \ {v}, stolen'[w] # NULL
                 PROVE  state'[stolen'[w]] = "RUNNABLE"
      BY DEF Moves
    <3>1. stolen[w] # NULL /\ stolen'[w] = stolen[w] BY DEF Moves
    <3>2. stolen[w] \in Threads /\ state[stolen[w]] = "RUNNABLE" BY <3>1 DEF HandsFit, TypeOK
    <3>3. stolen[w] # t BY <1>2 DEF Holds
    <3> QED BY <3>1, <3>2, <3>3 DEF Moves
  <2>5. \A w \in VCores : vpc'[w] = "steal_put" => arg'[w] # stolen'[w] BY DEF HandsFit, Moves
  <2>6. \A w \in VCores \ {v}, u \in Threads : ~(Holds(v, u)' /\ Holds(w, u)')
    BY <1>1, <1>2 DEF HandsFit, Moves
  <2>7. \A w, x \in VCores : \A u \in Threads : Holds(w, u)' /\ Holds(x, u)' => w = x
    BY <1>1, <2>6 DEF HandsFit
  <2>8. \A u \in Threads \ {t}, w, q \in VCores : Holds(w, u)' => u \notin Range(tqueue'[q])
    BY <1>1 DEF HandsFit, Moves
  <2>9. \A w, q \in VCores : Holds(w, t)' => t \notin Range(tqueue'[q])
    BY <1>1, <1>2 DEF Moves
  <2> QED BY <2>1, <2>2, <2>3, <2>4, <2>5, <2>7, <2>8, <2>9 DEF HandsFit
<1>6. WakeFits'
  <2>0. waiters \subseteq Threads /\ syscalls \subseteq Threads /\ Range(events) \subseteq Threads
    BY RangesFit DEF TypeOK
  <2>1. ASSUME NEW w \in VCores, vpc'[w] = "runnable"
        PROVE  w # v /\ vpc[w] = "runnable" /\ arg'[w] = arg[w] /\ arg[w] \in Threads \ {t}
    <3>1. w # v BY <2>1 DEF Moves, Holding
    <3>2. vpc[w] = "runnable" /\ arg'[w] = arg[w] BY <2>1, <3>1 DEF Moves
    <3>3. arg[w] \in Threads BY <3>2 DEF HandsFit, Holding
    <3>4. arg[w] # t BY <1>2, <3>1, <3>2 DEF Holds, Holding
    <3> QED BY <3>1, <3>2, <3>3, <3>4
  <2>2. \A w \in VCores : vpc'[w] = "runnable" =>
          /\ state'[arg'[w]] \in Blocked
          /\ arg'[w] \notin waiters' \cup syscalls' \cup Range(events')
    BY <2>1 DEF WakeFits, Moves
  <2>3. \A u \in waiters' : state'[u] = "BLK_MUTEX" BY <1>4, <2>0 DEF WakeFits, Moves
  <2>4. \A u \in syscalls' \cup Range(events') : state'[u] = "BLK_SYSC"
    BY <1>4, <2>0 DEF WakeFits, Moves
  <2>5. syscalls' \cap Range(events') = {} /\ IsInjective(events)' BY DEF WakeFits, Moves
  <2> QED BY <2>2, <2>3, <2>4, <2>5 DEF WakeFits
<1>7. RunFits'
  <2>1. ASSUME NEW w \in VCores \ {v}, current'[w] # NULL
        PROVE  /\ state'[current'[w]] = "RUNNING" /\ current'[w] # t
               /\ vpc'[w] \in {"uthread", "set_num", "entry"} \/ InCall(w)'
    <3>1. current'[w] = current[w] /\ current[w] \in Threads \ {t} BY <1>4, <2>1, CurrentType DEF Moves
    <3> QED BY <2>1, <3>1 DEF RunFits, InCall, Moves
  <2>2. CASE current'[v] = t /\ state'[t] = "RUNNING" /\ vpc'[v] = "uthread"
    BY <2>1, <2>2 DEF RunFits, Moves
  <2>3. CASE /\ current'[v] = current[v]
             /\ current[v] # NULL => vpc'[v] \in {"uthread", "set_num", "entry"} \/ InCall(v)'
             /\ Ready(t) => Ready(t)'
    <3>1. current[v] # NULL => state'[current'[v]] = "RUNNING"
      BY <1>4, <2>3, CurrentType DEF RunFits, Moves
    <3> QED BY <2>1, <2>3, <3>1 DEF RunFits, Moves
  <2> QED BY <2>2, <2>3 DEF Moves
<1>8. CountFits' BY DEF CountFits, Moves
<1>9. IInv' BY <1>5, <1>6, <1>7, <1>8 DEF Moves
<1>10. \A u \in Threads \ {t}, w \in VCores : Stolen(w, u)' <=> Stolen(w, u) BY DEF Stolen, Moves
<1>11. \A u \in Threads \ {t} : (Ready(u)' <=> Ready(u)) /\ (Runs(u)' <=> Runs(u))
  BY <1>10, PerVcoreQueueAssumption DEF Ready, Runs, Moves, PerVcoreQueueAssumption
<1>12. \A u \in Threads : u # t => SamePhase(u) BY <1>11 DEF SamePhase, Moves
<1> HIDE DEF IInv
<1>13. CASE current[v] = NULL /\ Ready(t) /\ current'[v] = t
  <2>1. Runs(t)' BY <1>13 DEF Runs
  <2> QED BY <1>9, <1>12, <1>13, <2>1, OneSteps
<1>14. CASE current'[v] = current[v] /\ (Ready(t) => Ready(t)')
  <2>1. state[t] \in Blocked \cup {"RUNNABLE"} BY <1>3 DEF IInv, WakeFits
  <2>2. Runs(t)' <=> Runs(t) BY <1>14 DEF Runs, Moves
  <2>3. CASE Ready(t)' BY <1>9, <1>12, <2>1, <2>3, OneSteps
  <2>4. CASE ~Ready(t)'
    <3>1. SamePhase(t) BY <1>14, <2>1, <2>2, <2>4 DEF SamePhase, Moves, Blocked
    <3> QED BY <1>9, <1>12, <3>1, OneSteps
  <2> QED BY <2>3, <2>4
<1> QED BY <1>13, <1>14 DEF Moves
LEMMA RunnableInvariant ==
  ASSUME IInv, NEW v \in VCores, Runnable(v) PROVE IInv' /\ ContractStep
<1> USE DEF Runnable, Goto, placing, tunables, stealing, external
<1>0. PICK t \in Threads : t = arg[v] BY DEF IInv, HandsFit, Holding
<1>1. state[t] \in Blocked /\ Holds(v, t)
  BY <1>0 DEF IInv, WakeFits, Holding, Holds
<1>c. vpc'[v] \in {"read_id", "request"} /\ (\A w \in VCores \ {v} : vpc'[w] = vpc[w])
        => current' = current
  BY CurrentStays DEF OnlyGoes, Pausing
<1>2. state' = [state EXCEPT ![t] = "RUNNABLE"] BY <1>0, <1>1
<1>3. state' \in [Threads -> States] /\ state'[t] = "RUNNABLE"
      /\ \A u \in Threads \ {t} : state'[u] = state[u]
  BY <1>1, <1>2, Labelled DEF IInv, TypeOK
<1>4. \A p \in VCores : t \notin Range(tqueue[p]) BY <1>1 DEF IInv, HandsFit
<1>5. stolen[v] = NULL BY DEF IInv, HandsFit
<1>6. current[v] # NULL => ret[v] \in {"uthread", "entry"} BY DEF IInv, RunFits, InCall
<1>7. CASE state[t] = "CREATED" /\ Goto(v, "read_id") /\ UNCHANGED <<tqueue, qid>>
  <2>1. vpc' \in [VCores -> Labels] /\ vpc'[v] = "read_id"
        /\ \A w \in VCores \ {v} : vpc'[w] = vpc[w]
    BY <1>7, Labelled DEF IInv, TypeOK
  <2>2. TypeOK' BY <1>3, <1>7, <2>1 DEF IInv, TypeOK
  <2>3. QueuesFit' BY <1>3, <1>4, <1>7, RangesFit DEF IInv, QueuesFit
  <2>4. \A u \in Threads \ {t} : ~Holds(v, u)'
    BY <1>0, <1>5, PerVcoreQueueAssumption DEF Holds, PerVcoreQueueAssumption
  <2>5. current[v] # NULL => InCall(v)' BY <1>6, <2>1 DEF InCall, Holding
  <2> HIDE DEF Runnable
  <2>6. UNCHANGED <<nr_vcores, waiters, syscalls, events, arg, ret, stolen, current, num_to_steal>>
    BY <1>c, <2>1 DEF Runnable
  <2>7. ~Ready(t) BY <1>1, ReadyState DEF Blocked
  <2>8. \A u \in Threads : ~Stolen(v, u) /\ ~Stolen(v, u)'
    BY <1>5, <2>1, <2>6, PerVcoreQueueAssumption DEF Runnable, Stolen, PerVcoreQueueAssumption
  <2>9. Moves(v, t)
    BY <1>0, <1>1, <1>3, <1>4, <1>5, <1>7, <2>1, <2>4, <2>5, <2>6, <2>7, <2>8 DEF Moves, Holding, Stealing
  <2> QED BY <2>2, <2>3, <2>9, MoveInvariant
<1>8. CASE /\ tqueue' = Insert(preferred_vcq[t], t, state[t] = "BLK_SYSC")
           /\ qid' = [qid EXCEPT ![v] = preferred_vcq[t]]
           /\ Goto(v, "request")
  <2>1. preferred_vcq[t] \in VCores BY DEF IInv, TypeOK
  <2>2. vpc' \in [VCores -> Labels] /\ vpc'[v] = "request"
        /\ \A w \in VCores \ {v} : vpc'[w] = vpc[w]
    BY <1>8, Labelled DEF IInv, TypeOK
  <2>3. (state[t] = "BLK_SYSC") \in BOOLEAN OBVIOUS
  <2>4. \A u \in Threads : u # t => state'[u] = state[u] BY <1>3
  <2>5. /\ tqueue' \in [VCores -> Seq(Threads)] /\ QueuesFit'
        /\ \A p \in VCores : Range(tqueue'[p]) = Range(tqueue[p]) \cup (IF p = preferred_vcq[t] THEN {t} ELSE {})
    <3>1. PICK q \in VCores, athead \in BOOLEAN :
            q = preferred_vcq[t] /\ tqueue' = Insert(q, t, athead)
      BY <1>8, <2>1, <2>3
    <3> HIDE DEF Runnable, Goto, placing, tunables, stealing, external
    <3>2. /\ tqueue' \in [VCores -> Seq(Threads)] /\ QueuesFit'
          /\ \A p \in VCores : Range(tqueue'[p]) = Range(tqueue[p]) \cup (IF p = q THEN {t} ELSE {})
      BY <1>3, <1>4, <2>4, <3>1, InsertFits, Zenon
    <3> QED BY <3>1, <3>2
  <2>6. qid' \in [VCores -> VCores] BY <1>8, <2>1 DEF IInv, TypeOK
  <2>7. TypeOK' BY <1>3, <2>2, <2>5, <2>6 DEF IInv, TypeOK
  <2>8. \A u \in Threads : ~Holds(v, u)'
    BY <1>5, <2>2, PerVcoreQueueAssumption DEF Holds, Holding, PerVcoreQueueAssumption
  <2>9. current[v] # NULL => InCall(v)' BY <1>6, <2>2 DEF InCall
  <2> HIDE DEF Runnable
  <2>10. UNCHANGED <<nr_vcores, waiters, syscalls, events, arg, ret, stolen, current, num_to_steal>>
    BY <1>c, <2>2 DEF Runnable
  <2>11. Ready(t)' BY <2>1, <2>5 DEF Ready
  <2>12. \A u \in Threads : ~Stolen(v, u) /\ ~Stolen(v, u)'
    BY <1>5, <2>2, <2>10, PerVcoreQueueAssumption DEF Runnable, Stolen, PerVcoreQueueAssumption
  <2>13. Moves(v, t)
    BY <1>1, <1>3, <1>5, <2>2, <2>5, <2>8, <2>9, <2>10, <2>11, <2>12 DEF Moves, Holding, Stealing
  <2> QED BY <2>5, <2>7, <2>13, MoveInvariant
<1> QED BY <1>0, <1>1, <1>7, <1>8

LEMMA EnqueueNewInvariant ==
  ASSUME IInv, NEW v \in VCores, EnqueueNew(v) PROVE IInv' /\ ContractStep
<1> USE DEF EnqueueNew, Goto, placing, tunables, enqueuing, stealing, external
<1>0. PICK t \in Threads : t = arg[v] BY DEF IInv, HandsFit, Holding
<1>1. state[t] = "RUNNABLE" /\ Holds(v, t)
  BY <1>0 DEF IInv, HandsFit, Holding, Holds
<1>2. \A p \in VCores : t \notin Range(tqueue[p]) BY <1>1 DEF IInv, HandsFit
<1>3. stolen[v] = NULL /\ (current[v] # NULL => ret[v] \in {"uthread", "entry"})
  BY DEF IInv, HandsFit, RunFits, InCall
<1>4. vpc' \in [VCores -> Labels] /\ vpc'[v] = "request"
      /\ \A w \in VCores \ {v} : vpc'[w] = vpc[w]
  BY Labelled DEF IInv, TypeOK
<1>c. current' = current BY <1>4, CurrentStays DEF OnlyGoes, Pausing
<1>5. qid[v] \in VCores BY DEF IInv, TypeOK
<1>6. tqueue' = Insert(qid[v], t, FALSE) BY <1>0
<1>7. /\ tqueue' \in [VCores -> Seq(Threads)] /\ QueuesFit'
      /\ \A p \in VCores : Range(tqueue'[p]) = Range(tqueue[p]) \cup (IF p = qid[v] THEN {t} ELSE {})
  BY <1>1, <1>2, <1>5, <1>6, InsertFits
<1>8. TypeOK' BY <1>4, <1>7 DEF IInv, TypeOK
<1>9. \A u \in Threads : ~Holds(v, u)'
  BY <1>3, <1>4, PerVcoreQueueAssumption DEF Holds, Holding, PerVcoreQueueAssumption
<1>10. current[v] # NULL => InCall(v)' BY <1>3, <1>4 DEF InCall
<1> HIDE DEF EnqueueNew
<1>11. UNCHANGED <<nr_vcores, waiters, syscalls, events, arg, ret, stolen, current, num_to_steal, state>>
  BY <1>c DEF EnqueueNew
<1>12. Ready(t)' BY <1>5, <1>7 DEF Ready
<1>13. \A u \in Threads : ~Stolen(v, u) /\ ~Stolen(v, u)'
  BY <1>3, <1>4, <1>11, PerVcoreQueueAssumption DEF EnqueueNew, Stolen, PerVcoreQueueAssumption
<1>14. Moves(v, t)
  BY <1>1, <1>3, <1>4, <1>7, <1>9, <1>10, <1>11, <1>12, <1>13 DEF Moves, Holding, Stealing
<1> QED BY <1>7, <1>8, <1>14, MoveInvariant

\* The effect of run_uthread.
LEMMA RunTypes ==
  ASSUME TypeOK, NEW v \in VCores, NEW t \in Threads, Run(v, t), UNCHANGED ret
  PROVE  /\ vpc' \in [VCores -> Labels] /\ vpc'[v] = "uthread"
         /\ state' \in [Threads -> States] /\ state'[t] = "RUNNING"
         /\ current_uthread' \in [VCores -> Threads \cup {NULL}] /\ current'[v] = t
         /\ stolen' \in [VCores -> Threads \cup {NULL}] /\ stolen'[v] = NULL
         /\ spin_count' \in [VCores -> -1 .. MaxSpin] /\ victim' \in [VCores -> VCores]
         /\ num_to_steal' \in [VCores -> 0 .. Cardinality(Threads)]
         /\ looping' \in [VCores -> BOOLEAN]
         /\ \A u \in Threads \ {t} : state'[u] = state[u]
         /\ \A w \in VCores \ {v} :
              /\ vpc'[w] = vpc[w] /\ current'[w] = current[w] /\ stolen'[w] = stolen[w]
              /\ num_to_steal'[w] = num_to_steal[w]
<1> USE DEF Run, Goto, TypeOK
<1>1. MaxSpin \in -1 .. MaxSpin BY PerVcoreQueueAssumption DEF PerVcoreQueueAssumption
<1>2. 0 \in 0 .. Cardinality(Threads)
  BY FS_CardinalityType, PerVcoreQueueAssumption DEF PerVcoreQueueAssumption
<1>3. spin_count' \in [VCores -> -1 .. MaxSpin] BY <1>1
<1>4. num_to_steal' \in [VCores -> 0 .. Cardinality(Threads)] BY <1>2
<1>5. victim' \in [VCores -> VCores] BY VCoreZero
<1>6. vpc' \in [VCores -> Labels] /\ vpc'[v] = "uthread" BY Labelled
<1>7. state' \in [Threads -> States] /\ state'[t] = "RUNNING" BY Labelled
<1>8. current_uthread' \in [VCores -> Threads \cup {NULL}] OBVIOUS
<1>c. current' = [current EXCEPT ![v] = t]
  <2>1. OnlyGoes(v) BY DEF OnlyGoes
  <2>2. ~Pausing(v)' BY DEF Pausing
  <2> QED BY <2>1, <2>2, CurrentBecomes
<1>cc. current'[v] = t /\ \A w \in VCores \ {v} : current'[w] = current[w]
  BY <1>c, CurrentType
<1>9. stolen' \in [VCores -> Threads \cup {NULL}] /\ stolen'[v] = NULL
      /\ looping' \in [VCores -> BOOLEAN]
  OBVIOUS
<1>10. \A u \in Threads \ {t} : state'[u] = state[u] OBVIOUS
<1>11. \A w \in VCores \ {v} :
         /\ vpc'[w] = vpc[w] /\ stolen'[w] = stolen[w] /\ num_to_steal'[w] = num_to_steal[w]
  OBVIOUS
<1> HIDE DEF Run, Goto, TypeOK
<1> QED BY <1>c, <1>cc, <1>3, <1>4, <1>5, <1>6, <1>7, <1>8, <1>9, <1>10, <1>11

LEMMA DequeueOwnInvariant ==
  ASSUME IInv, NEW v \in VCores, DequeueOwn(v) PROVE IInv' /\ ContractStep
<1> USE DEF DequeueOwn, placing, tunables, enqueuing, external
<1>1. PICK t \in Threads : t = Head(tqueue[v])
  <2>1. tqueue[v] \in Seq(Threads) BY DEF IInv, TypeOK
  <2> QED BY <2>1
<1>2. Run(v, t) /\ TypeOK /\ UNCHANGED ret BY <1>1 DEF IInv
<1>3. \A u \in Threads : u # t => state'[u] = state[u] BY <1>2, RunTypes
<1>4. /\ tqueue' \in [VCores -> Seq(Threads)] /\ QueuesFit'
      /\ state[t] = "RUNNABLE" /\ t \in Range(tqueue[v])
      /\ \A p \in VCores : Range(tqueue'[p]) = Range(tqueue[p]) \ {t}
  BY <1>1, <1>3, PopFits
<1>5. preferred_vcq' \in [Threads -> VCores] BY <1>1 DEF IInv, TypeOK
<1>6. TypeOK' BY <1>2, <1>4, <1>5, RunTypes DEF TypeOK
<1>7. vpc'[v] = "uthread" /\ current'[v] = t /\ stolen'[v] = NULL /\ state'[t] = "RUNNING"
      /\ \A w \in VCores \ {v} :
              /\ vpc'[w] = vpc[w] /\ current'[w] = current[w] /\ stolen'[w] = stolen[w]
              /\ num_to_steal'[w] = num_to_steal[w]
  BY <1>2, RunTypes
<1>8. \A u \in Threads : ~Holds(v, u)'
  BY <1>7, PerVcoreQueueAssumption DEF Holds, Holding, PerVcoreQueueAssumption
<1>9. current[v] = NULL /\ stolen[v] = NULL BY DEF IInv, RunFits, InCall, HandsFit
<1>10. Ready(t) BY <1>4 DEF Ready
<1>11. \A u \in Threads : ~Stolen(v, u) /\ ~Stolen(v, u)'
  BY <1>7, <1>9, PerVcoreQueueAssumption DEF Stolen, PerVcoreQueueAssumption
<1> HIDE DEF DequeueOwn
<1>12. UNCHANGED <<nr_vcores, waiters, syscalls, events, arg, ret>> BY DEF DequeueOwn
<1>13. Moves(v, t)
  BY <1>3, <1>4, <1>7, <1>8, <1>9, <1>10, <1>11, <1>12 DEF Moves, Holding, Stealing
<1> QED BY <1>4, <1>6, <1>13, MoveInvariant

\* The queue of the victim holds threads, if any.
LEMMA VictimFits ==
  ASSUME IInv, NEW v \in VCores
  PROVE  /\ victim[v] \in VCores /\ tqueue[victim[v]] \in Seq(Threads)
         /\ tqueue[victim[v]] # <<>> => Head(tqueue[victim[v]]) \in Threads
<1>1. victim[v] \in VCores /\ tqueue[victim[v]] \in Seq(Threads) BY DEF IInv, TypeOK
<1> QED BY <1>1

LEMMA StealFirstInvariant ==
  ASSUME IInv, NEW v \in VCores, StealFirst(v) PROVE IInv' /\ ContractStep
<1> USE DEF StealFirst, Goto, placing, tunables, enqueuing, external
<1>0. victim[v] \in VCores BY VictimFits
<1>1. CASE tqueue[victim[v]] # <<>>
  <2>0. PICK t \in Threads : t = Head(tqueue[victim[v]]) BY <1>1, VictimFits
  <2>1. /\ tqueue' = [tqueue EXCEPT ![victim[v]] = Tail(tqueue[victim[v]])]
        /\ stolen' = [stolen EXCEPT ![v] = t]
        /\ num_to_steal' = [num_to_steal EXCEPT ![v] = num_to_steal[v] - 1]
        /\ preferred_vcq' = [preferred_vcq EXCEPT ![t] = v]
        /\ vpc' = [vpc EXCEPT ![v] = "steal_next"] /\ UNCHANGED <<victim, looping>>
    BY <1>1, <2>0
  <2>2. /\ tqueue' \in [VCores -> Seq(Threads)] /\ QueuesFit'
        /\ state[t] = "RUNNABLE" /\ t \in Range(tqueue[victim[v]])
        /\ \A p \in VCores : Range(tqueue'[p]) = Range(tqueue[p]) \ {t}
    BY <1>0, <1>1, <2>0, <2>1, PopFits
  <2>3. num_to_steal' \in [VCores -> 0 .. Cardinality(Threads)]
    <3>1. num_to_steal[v] > 0 /\ num_to_steal[v] \in 0 .. Cardinality(Threads)
      BY DEF IInv, TypeOK, CountFits
    <3>2. num_to_steal[v] - 1 \in 0 .. Cardinality(Threads)
      BY <3>1, FS_CardinalityType, PerVcoreQueueAssumption DEF PerVcoreQueueAssumption
    <3> QED BY <2>1, <3>2 DEF IInv, TypeOK
  <2>4. vpc' \in [VCores -> Labels] /\ vpc'[v] = "steal_next"
        /\ \A w \in VCores \ {v} : vpc'[w] = vpc[w]
    BY <2>1, Labelled DEF IInv, TypeOK
  <2>5. stolen' \in [VCores -> Threads \cup {NULL}] /\ stolen'[v] = t
        /\ preferred_vcq' \in [Threads -> VCores]
        /\ \A w \in VCores \ {v} : stolen'[w] = stolen[w] /\ num_to_steal'[w] = num_to_steal[w]
    BY <2>1 DEF IInv, TypeOK
  <2>6. TypeOK' BY <2>1, <2>2, <2>3, <2>4, <2>5 DEF IInv, TypeOK
  <2>7. \A u \in Threads \ {t} : ~Holds(v, u)' BY <2>4, <2>5 DEF Holds, Holding
  <2>8. current[v] = NULL BY DEF IInv, RunFits, InCall, Holding
  <2>9. t # NULL BY PerVcoreQueueAssumption DEF PerVcoreQueueAssumption
  <2> HIDE DEF StealFirst
  <2>c. current' = current
    BY <2>4, CurrentStays DEF StealFirst, OnlyGoes, Pausing
  <2>10. UNCHANGED <<nr_vcores, waiters, syscalls, events, arg, ret, current, state>>
    BY <2>c DEF StealFirst
  <2>11. Ready(t)' BY <2>5 DEF Ready, Stolen
  <2>12. stolen[v] = NULL BY DEF StealFirst, IInv, HandsFit
  <2>13. \A u \in Threads \ {t} : ~Stolen(v, u) /\ ~Stolen(v, u)'
    BY <2>4, <2>5, <2>12, PerVcoreQueueAssumption DEF StealFirst, Stolen, PerVcoreQueueAssumption
  <2>14. Moves(v, t)
    BY <1>0, <2>2, <2>4, <2>5, <2>7, <2>8, <2>9, <2>10, <2>11, <2>13 DEF Moves, Holding, Stealing
  <2> QED BY <2>2, <2>6, <2>14, MoveInvariant
<1>2. CASE tqueue[victim[v]] = <<>>
  <2> DEFINE next == ((IF looping[v] THEN victim[v] ELSE v) + 1) % MaxVCores
  <2>1. NextVictim(v, victim[v]) /\ num_to_steal' = [num_to_steal EXCEPT ![v] = 0]
        /\ UNCHANGED <<tqueue, preferred_vcq, stolen>>
    BY <1>2
  <2>2. next \in VCores
    BY <1>0, PerVcoreQueueAssumption DEF PerVcoreQueueAssumption, VCores
  <2>3. num_to_steal' \in [VCores -> 0 .. Cardinality(Threads)]
    BY <2>1, FS_CardinalityType, PerVcoreQueueAssumption DEF IInv, TypeOK, PerVcoreQueueAssumption
  <2> HIDE DEF next
  <2>4. CASE next = v
    <3>1. /\ vpc' = [vpc EXCEPT ![v] = "idle"] /\ victim' = [victim EXCEPT ![v] = 0]
          /\ looping' = [looping EXCEPT ![v] = FALSE]
      BY <2>1, <2>4 DEF next, NextVictim
    <3>2. vpc' \in [VCores -> Labels] BY <3>1 DEF IInv, TypeOK, Labels
    <3>3. TypeOK' BY <2>1, <2>3, <3>1, <3>2, VCoreZero DEF IInv, TypeOK
    <3>4. Quiet(v) BY <2>1, <3>1 DEF IInv, TypeOK, RunFits, InCall, Quiet, Pausing, Holding, Stealing
    <3> QED BY <3>3, <3>4, QuietInvariant
  <2>5. CASE next # v
    <3>1. /\ vpc' = [vpc EXCEPT ![v] = "scan"] /\ victim' = [victim EXCEPT ![v] = next]
          /\ looping' = [looping EXCEPT ![v] = TRUE]
      BY <2>1, <2>5 DEF next, NextVictim
    <3>2. vpc' \in [VCores -> Labels] BY <3>1 DEF IInv, TypeOK, Labels
    <3>3. TypeOK' BY <2>1, <2>2, <2>3, <3>1, <3>2 DEF IInv, TypeOK
    <3>4. Quiet(v) BY <2>1, <3>1 DEF IInv, TypeOK, RunFits, InCall, Quiet, Pausing, Holding, Stealing
    <3> QED BY <3>3, <3>4, QuietInvariant
  <2> QED BY <2>4, <2>5
<1> QED BY <1>1, <1>2

LEMMA StealNextInvariant ==
  ASSUME IInv, NEW v \in VCores, StealNext(v) PROVE IInv' /\ ContractStep
<1> USE DEF StealNext, placing, tunables, enqueuing, stealing, external
<1>0. PICK f \in Threads : f = stolen[v] BY DEF IInv, TypeOK, HandsFit
<1>1. Holds(v, f) /\ state[f] = "RUNNABLE" /\ f # NULL /\ current[v] = NULL
  BY <1>0 DEF Holds, IInv, HandsFit, RunFits, InCall, Holding
<1>2. CASE num_to_steal[v] > 0 /\ tqueue[victim[v]] # <<>>
  <2>0. victim[v] \in VCores BY VictimFits
  <2>00. PICK t \in Threads : t = Head(tqueue[victim[v]]) BY <1>2, VictimFits
  <2>1. /\ tqueue' = [tqueue EXCEPT ![victim[v]] = Tail(tqueue[victim[v]])]
        /\ preferred_vcq' = [preferred_vcq EXCEPT ![t] = v]
        /\ arg' = [arg EXCEPT ![v] = t] /\ vpc' = [vpc EXCEPT ![v] = "steal_put"]
        /\ UNCHANGED <<state, current_uthread, spin_count, victim, num_to_steal, stolen, looping>>
    BY <1>2, <2>00 DEF Goto
  <2>2. /\ tqueue' \in [VCores -> Seq(Threads)] /\ QueuesFit'
        /\ state[t] = "RUNNABLE" /\ t \in Range(tqueue[victim[v]])
        /\ \A p \in VCores : Range(tqueue'[p]) = Range(tqueue[p]) \ {t}
    BY <1>2, <2>0, <2>00, <2>1, PopFits
  <2>3. vpc' \in [VCores -> Labels] /\ vpc'[v] = "steal_put"
        /\ \A w \in VCores \ {v} : vpc'[w] = vpc[w]
    BY <2>1, Labelled DEF IInv, TypeOK
  <2>4. arg' \in [VCores -> Threads \cup {NULL}] /\ arg'[v] = t
        /\ preferred_vcq' \in [Threads -> VCores]
        /\ \A w \in VCores \ {v} : arg'[w] = arg[w]
    BY <2>1 DEF IInv, TypeOK
  <2>5. TypeOK' BY <2>1, <2>2, <2>3, <2>4 DEF IInv, TypeOK
  <2>6. \A u \in Threads \ {t} : Holds(v, u)' => Holds(v, u)
    BY <2>1, <2>3, <2>4 DEF Holds, Holding
  <2>7. t # f BY <1>1, <2>0, <2>2 DEF IInv, HandsFit
  <2> HIDE DEF StealNext
  <2>c. current' = current
    BY <2>1, <2>3, CurrentStays DEF StealNext, OnlyGoes, Pausing
  <2>8. UNCHANGED <<nr_vcores, waiters, syscalls, events, ret, current>>
    BY <2>c DEF StealNext
  <2>9. Ready(t)' BY <2>3, <2>4 DEF Ready, Stolen
  <2>10. \A u \in Threads \ {t} : Stolen(v, u)' <=> Stolen(v, u)
    BY <2>1, <2>3, <2>4 DEF StealNext, Stolen
  <2>11. Moves(v, t)
    BY <1>0, <1>1, <1>2, <2>0, <2>1, <2>2, <2>3, <2>4, <2>6, <2>7, <2>8, <2>9, <2>10 DEF Moves, Holding, Stealing
  <2> QED BY <2>2, <2>5, <2>11, MoveInvariant
<1>3. CASE Run(v, stolen[v]) /\ UNCHANGED <<tqueue, preferred_vcq, arg>>
  <2>0. Run(v, f) /\ TypeOK /\ UNCHANGED ret BY <1>0, <1>3 DEF IInv
  <2>1. TypeOK'
    <3>1. UNCHANGED <<tqueue, placing, tunables, preferred_vcq, arg, ret, enqueuing, external>>
      BY <1>3
    <3> HIDE DEF StealNext
    <3>2. /\ vpc' \in [VCores -> Labels] /\ state' \in [Threads -> States]
          /\ current_uthread' \in [VCores -> Threads \cup {NULL}]
          /\ stolen' \in [VCores -> Threads \cup {NULL}] /\ looping' \in [VCores -> BOOLEAN]
          /\ spin_count' \in [VCores -> -1 .. MaxSpin] /\ victim' \in [VCores -> VCores]
          /\ num_to_steal' \in [VCores -> 0 .. Cardinality(Threads)]
      BY <2>0, RunTypes
    <3> QED BY <2>0, <3>1, <3>2 DEF TypeOK
  <2>2. vpc'[v] = "uthread" /\ current'[v] = f /\ stolen'[v] = NULL /\ state'[f] = "RUNNING"
        /\ (\A u \in Threads \ {f} : state'[u] = state[u])
        /\ \A w \in VCores \ {v} :
              /\ vpc'[w] = vpc[w] /\ current'[w] = current[w] /\ stolen'[w] = stolen[w]
              /\ num_to_steal'[w] = num_to_steal[w]
    BY <2>0, RunTypes
  <2>3. \A u \in Threads : ~Holds(v, u)'
    BY <2>2, PerVcoreQueueAssumption DEF Holds, Holding, PerVcoreQueueAssumption
  <2>4. \A q \in VCores : f \notin Range(tqueue[q]) BY <1>1 DEF IInv, HandsFit
  <2> HIDE DEF StealNext
  <2>5. UNCHANGED <<tqueue, nr_vcores, waiters, syscalls, events, arg, ret>>
    BY <1>3 DEF StealNext
  <2>6. \A q \in VCores : \A u \in Range(tqueue[q]) : state'[u] = "RUNNABLE"
    BY <2>0, <2>2, <2>4, RangesFit DEF IInv, QueuesFit
  <2>7. QueuesFit' BY <2>5, <2>6 DEF IInv, QueuesFit
  <2>8. Ready(f) BY <1>0 DEF Ready, Stolen
  <2>9. \A u \in Threads \ {f} : ~Stolen(v, u) /\ ~Stolen(v, u)'
    BY <1>0, <2>2, PerVcoreQueueAssumption DEF StealNext, Stolen, PerVcoreQueueAssumption
  <2>10. Moves(v, f)
    BY <1>1, <2>2, <2>3, <2>5, <2>8, <2>9 DEF Moves, Holding, Stealing
  <2> QED BY <2>1, <2>7, <2>10, MoveInvariant
<1> QED BY <1>2, <1>3

LEMMA StealPutInvariant ==
  ASSUME IInv, NEW v \in VCores, StealPut(v) PROVE IInv' /\ ContractStep
<1> USE DEF StealPut, Goto, placing, tunables, enqueuing, external
<1>0. PICK t \in Threads : t = arg[v] BY DEF IInv, HandsFit, Holding
<1>1. state[t] = "RUNNABLE" /\ Holds(v, t) /\ t # stolen[v]
  BY <1>0 DEF IInv, HandsFit, Holding, Holds
<1>2. stolen[v] # NULL /\ state[stolen[v]] = "RUNNABLE" /\ current[v] = NULL
  BY DEF IInv, HandsFit, RunFits, InCall
<1>3. \A p \in VCores : t \notin Range(tqueue[p]) BY <1>1 DEF IInv, HandsFit
<1>4. arg' = [arg EXCEPT ![v] = NULL] /\ tqueue' = Insert(v, t, FALSE) BY <1>0
<1>5. /\ tqueue' \in [VCores -> Seq(Threads)] /\ QueuesFit'
      /\ \A p \in VCores : Range(tqueue'[p]) = Range(tqueue[p]) \cup (IF p = v THEN {t} ELSE {})
  BY <1>1, <1>3, <1>4, InsertFits
<1>6. vpc' \in [VCores -> Labels] /\ vpc'[v] = "steal_next"
      /\ \A w \in VCores \ {v} : vpc'[w] = vpc[w]
  BY Labelled DEF IInv, TypeOK
<1>7. num_to_steal' \in [VCores -> 0 .. Cardinality(Threads)]
      /\ \A w \in VCores \ {v} : num_to_steal'[w] = num_to_steal[w]
  <2>1. num_to_steal[v] > 0 /\ num_to_steal[v] \in 0 .. Cardinality(Threads)
    BY DEF IInv, TypeOK, CountFits
  <2>2. num_to_steal[v] - 1 \in 0 .. Cardinality(Threads)
    BY <2>1, FS_CardinalityType, PerVcoreQueueAssumption DEF PerVcoreQueueAssumption
  <2> QED BY <2>2 DEF IInv, TypeOK
<1>8. arg' \in [VCores -> Threads \cup {NULL}] /\ \A w \in VCores \ {v} : arg'[w] = arg[w]
  BY <1>4 DEF IInv, TypeOK
<1>9. TypeOK' BY <1>5, <1>6, <1>7, <1>8 DEF IInv, TypeOK
<1>10. \A u \in Threads : Holds(v, u)' => u = stolen[v] BY <1>6 DEF Holds, Holding
<1>11. \A u \in Threads : Holds(v, u)' => Holds(v, u) /\ u # t BY <1>1, <1>10 DEF Holds
<1> HIDE DEF StealPut
<1>c. current' = current BY <1>6, CurrentStays DEF StealPut, OnlyGoes, Pausing
<1>12. UNCHANGED <<nr_vcores, waiters, syscalls, events, ret, stolen, current, state>>
  BY <1>c DEF StealPut
<1>13. Ready(t)' BY <1>5 DEF Ready
<1>14. \A u \in Threads \ {t} : Stolen(v, u)' <=> Stolen(v, u)
  BY <1>0, <1>6, <1>12 DEF StealPut, Stolen
<1>15. stolen'[v] # NULL /\ vpc'[v] \notin Holding \cup {"steal_first"} /\ vpc'[v] \in Stealing
  BY <1>2, <1>6, <1>12 DEF Holding, Stealing
<1>16. \A u \in Threads \ {t} : state'[u] = state[u]
         /\ \A q \in VCores : u \in Range(tqueue'[q]) <=> u \in Range(tqueue[q])
  BY <1>5, <1>12
<1>17. ~Holds(v, t)' BY <1>11
<1>18. \A w \in VCores \ {v} :
       /\ vpc'[w] = vpc[w] /\ arg'[w] = arg[w] /\ ret'[w] = ret[w] /\ stolen'[w] = stolen[w]
       /\ current'[w] = current[w] /\ num_to_steal'[w] = num_to_steal[w]
  BY <1>6, <1>7, <1>8, <1>12
<1>19. vpc'[v] # "steal_put" BY <1>6
<1>20. Moves(v, t)
  BY <1>1, <1>2, <1>11, <1>12, <1>13, <1>14, <1>15, <1>16, <1>17, <1>18, <1>19 DEF Moves
<1> QED BY <1>5, <1>9, <1>20, MoveInvariant
----------------------------------------------------------------------------
(* The invariant holds.                                                    *)

LEMMA RuntimeInvariant ==
  ASSUME IInv, NEW v \in VCores, RuntimeStep(v) PROVE IInv' /\ ContractStep
BY RunnableInvariant, ReadIdInvariant, ReadNrInvariant, CasIdInvariant, EnqueueNewInvariant, RequestInvariant,
   DequeueOwnInvariant, DequeueNothingInvariant, ChooseVictimInvariant, ScanVictimInvariant,
   StealFirstInvariant, StealNextInvariant, StealPutInvariant, SchedEntryInvariant,
   KeepVCoreInvariant, YieldVCoreInvariant, EventsDoneInvariant, HandleSyscallInvariant,
   ResetQueueIdInvariant
   DEF RuntimeStep

LEMMA ClientInvariant ==
  ASSUME NumStays, IInv, NEW v \in VCores, ClientStep(v) PROVE IInv' /\ ContractStep
BY CreateInvariant, YieldInvariant, PauseInvariant, BlockInvariant, SyscallInvariant,
   ExitInvariant, WakeInvariant, SetNumInvariant, SetTunableInvariant
   DEF ClientStep, LeaveVCore

LEMMA StutterInvariant ==
  ASSUME IInv, UNCHANGED vars PROVE IInv' /\ ContractStep
<1> USE DEF vars, placing, tunables, enqueuing, stealing, external, IInv
<1>c. current' = current BY DEF current, Pausing
<1>1. TypeOK' BY DEF TypeOK
<1>2. QueuesFit' BY DEF QueuesFit
<1>3. HandsFit' BY DEF HandsFit, Holds
<1>4. WakeFits' /\ CountFits' BY DEF WakeFits, CountFits
<1>5. RunFits' BY <1>c DEF RunFits, InCall
<1>6. IInv' BY <1>1, <1>2, <1>3, <1>4, <1>5
<1>7. \A u \in Threads : SamePhase(u) BY <1>c DEF SamePhase, Ready, Runs, Stolen
<1> HIDE DEF IInv
<1> QED BY <1>6, <1>7, NoneMoves DEF ContractStep

LEMMA NextInvariant == NumStays /\ IInv /\ [Next]_vars => IInv' /\ ContractStep
<1> SUFFICES ASSUME NumStays, IInv, [Next]_vars PROVE IInv' /\ ContractStep OBVIOUS
<1>1. CASE \E v \in VCores : RuntimeStep(v) BY <1>1, RuntimeInvariant
<1>2. CASE \E v \in VCores : ClientStep(v) BY <1>2, ClientInvariant
<1>3. CASE \E v \in VCores : VCoreUp(v) BY <1>3, VCoreUpInvariant
<1>4. CASE \E t \in Threads : KernelCompletes(t) BY <1>4, KernelInvariant
<1>5. CASE Finished \/ UNCHANGED vars BY <1>5, StutterInvariant DEF Finished
<1> QED BY <1>1, <1>2, <1>3, <1>4, <1>5 DEF Next

LEMMA Invariant == NumStays /\ Spec => []IInv
<1> SUFFICES ASSUME NumStays PROVE Spec => []IInv OBVIOUS
<1>1. Init => IInv BY InitInvariant
<1>2. IInv /\ [Next]_vars => IInv' BY NextInvariant
<1> QED BY <1>1, <1>2, PTL DEF Spec

\* Every field keeps to its type, and a queue number is always an index of vc_mgmt.
THEOREM TypesRight == NumStays /\ Spec => []TypeOK
<1>1. IInv => TypeOK BY DEF IInv
<1> QED BY <1>1, Invariant, PTL

LEMMA PlacesApart == IInv => OnePlacePerThread
<1> SUFFICES ASSUME IInv PROVE OnePlacePerThread OBVIOUS
<1> USE DEF IInv
<1>0. /\ Range(events) \subseteq Threads /\ waiters \subseteq Threads /\ syscalls \subseteq Threads
      /\ \A q \in VCores : Range(tqueue[q]) \subseteq Threads
  BY RangesFit DEF TypeOK
<1>1. \A v \in VCores : \A t \in Hands(v) : t \in Threads /\ Holds(v, t)
  BY DEF Hands, Holds, Holding, TypeOK
<1>2. \A p, q \in VCores : p # q => Hands(p) \cap Hands(q) = {}
  BY <1>1 DEF HandsFit
<1>3. \A p, q \in VCores : p # q /\ current[p] # NULL => current[p] # current[q]
  BY DEF RunFits
<1> DEFINE moved == UNION {Hands(v) : v \in VCores}
           outside == Range(current) \cup waiters \cup syscalls \cup Range(events)
<1>4. moved \cap InQueues = {}
  BY <1>1 DEF InQueues, HandsFit
<1>5. InQueues \cap outside = {}
  <2> SUFFICES ASSUME NEW q \in VCores, NEW t \in Range(tqueue[q]) PROVE t \notin outside
    BY DEF InQueues
  <2>1. state[t] = "RUNNABLE" /\ t \in Threads BY <1>0 DEF QueuesFit
  <2>2. t \notin waiters \cup syscalls \cup Range(events) BY <2>1 DEF WakeFits
  <2>3. t \notin Range(current)
    <3>1. t # NULL /\ state[t] # "RUNNING" BY <2>1, PerVcoreQueueAssumption DEF PerVcoreQueueAssumption
    <3>2. \A v \in VCores : current[v] # t BY <3>1 DEF RunFits
    <3>3. DOMAIN current = VCores BY DEF current
    <3> QED BY <3>2, <3>3 DEF Range
  <2> QED BY <2>2, <2>3
<1>6. moved \cap outside = {}
  <2> SUFFICES ASSUME NEW v \in VCores, NEW t \in Hands(v) PROVE t \notin outside
    OBVIOUS
  <2>1. t \in Threads /\ Holds(v, t) BY <1>1
  <2>2. state[t] = "RUNNABLE" \/ (vpc[v] = "runnable" /\ arg[v] = t)
    BY <2>1, PerVcoreQueueAssumption DEF Holds, HandsFit, PerVcoreQueueAssumption
  <2>3. t \notin waiters \cup syscalls \cup Range(events) BY <2>2 DEF WakeFits
  <2>4. state[t] # "RUNNING" BY <2>2 DEF WakeFits, Blocked
  <2>5. t \notin Range(current)
    BY <2>1, <2>4, PerVcoreQueueAssumption DEF RunFits, current, Range, PerVcoreQueueAssumption
  <2> QED BY <2>3, <2>5
<1> QED BY <1>2, <1>3, <1>4, <1>5, <1>6 DEF OnePlacePerThread, QueuesFit

\* While threads are placed, dispatched, stolen and woken, each is in one place only.
THEOREM ThreadsInOnePlace == NumStays /\ Spec => []OnePlacePerThread
BY Invariant, PlacesApart, PTL
(***************************************************************************)
(* The contract of a scheduler.                                            *)
(***************************************************************************)
LEMMA InitPhases == Init => Contract!Init
<1> SUFFICES ASSUME Init PROVE Contract!Init OBVIOUS
<1>1. IInv BY InitInvariant
<1>2. \A t \in Threads : ~Ready(t)
  BY PerVcoreQueueAssumption DEF Init, Ready, Stolen, Range, PerVcoreQueueAssumption
<1>3. Runs(Main) BY VCoreZero DEF Init, Runs, current, Pausing
<1>4. \A t \in Threads : phaseOf[t] = IF t = Main THEN "running" ELSE "unborn"
  BY <1>1, <1>2, <1>3, PhaseIs DEF Init, PhasesFit, PhaseFits
<1>5. phaseOf = [t \in Threads |-> phaseOf[t]] BY DEF phaseOf
<1> QED BY <1>4, <1>5 DEF Contract!Init

\* Every step of pvcq, placing, dispatching, stealing and waking, is one step of the 2LS
\* contract or none: a thread that is stolen is ready all the time, one that is being
\* placed is ready when it is in a queue, and no vcore gets a second running thread.
THEOREM ImplementsContract == NumStays /\ Spec => SchedContract
<1> SUFFICES ASSUME NumStays PROVE Spec => SchedContract OBVIOUS
<1>1. Init => Contract!Init BY InitPhases
<1>2. IInv /\ [Next]_vars => [Contract!Next]_phaseOf BY NextInvariant DEF ContractStep
<1>3. Spec => []IInv BY Invariant
<1> QED BY <1>1, <1>2, <1>3, PTL DEF Spec, SchedContract, Contract!Spec

(***************************************************************************)
(* No ready thread is forgotten, when nobody turns can_adjust_vcores off:  *)
(* a thread made runnable meanwhile would have no vcore asked for it.      *)
(***************************************************************************)
AdjustStays == "set_adjust" \notin ClientOps

\* A vcore that may give itself back before it looks into its own queue again.
Away == {"offline", "choose", "scan", "steal_first", "idle"}

OwnersInv == can_adjust_vcores /\ NoneForgotten

\* A step of v leaves each queue with an owner that will look into it.
KeepsOwners(v) ==
  /\ can_adjust_vcores'
  /\ \A w \in VCores \ {v} : vpc'[w] = vpc[w] /\ qid'[w] = qid[w]
  /\ wanted \subseteq wanted' \cup {v}
  /\ v \in wanted => v \in wanted' \/ vpc'[v] \notin Away
  /\ vpc'[v] \in Away => vpc[v] \in Away \/ tqueue'[v] = <<>>
  /\ vpc[v] = "request" => (vpc'[v] = "request" /\ qid'[v] = qid[v]) \/ qid[v] \in wanted'
  /\ \A q \in VCores : tqueue'[q] # <<>> =>
       \/ tqueue[q] # <<>>
       \/ q = v /\ vpc'[v] \notin Away
       \/ vpc'[v] = "request" /\ qid'[v] = q

LEMMA OwnersKept ==
  ASSUME OwnersInv, NEW v \in VCores, KeepsOwners(v)
  PROVE  OwnersInv'
<1> SUFFICES ASSUME NEW q \in VCores, tqueue'[q] # <<>>
             PROVE  \/ vpc'[q] \notin Away
                    \/ q \in wanted'
                    \/ \E w \in VCores : vpc'[w] = "request" /\ qid'[w] = q
  BY DEF OwnersInv, NoneForgotten, Away, KeepsOwners
<1>1. CASE tqueue[q] # <<>>
  <2>1. \/ vpc[q] \notin Away
        \/ q \in wanted
        \/ \E w \in VCores : vpc[w] = "request" /\ qid[w] = q
    BY <1>1 DEF OwnersInv, NoneForgotten, Away
  <2>2. CASE vpc[q] \notin Away BY <2>2 DEF KeepsOwners
  <2>3. CASE q \in wanted BY <2>3 DEF KeepsOwners
  <2>4. CASE \E w \in VCores : vpc[w] = "request" /\ qid[w] = q BY <2>4 DEF KeepsOwners
  <2> QED BY <2>1, <2>2, <2>3, <2>4
<1>2. CASE tqueue[q] = <<>> BY <1>2 DEF KeepsOwners
<1> QED BY <1>1, <1>2

\* What the steps do to one vcore's program counter and to its queue.
LEMMA RuntimeOwners ==
  ASSUME IInv, OwnersInv, NEW v \in VCores, RuntimeStep(v)
  PROVE  KeepsOwners(v)
<1> USE DEF placing, tunables, enqueuing, stealing, external, Goto
<1>0. /\ vpc \in [VCores -> Labels] /\ qid \in [VCores -> VCores]
      /\ tqueue \in [VCores -> Seq(Threads)] /\ can_adjust_vcores
  BY DEF IInv, TypeOK, OwnersInv
<1>1. CASE Runnable(v)
  <2>1. arg[v] \in Threads /\ state[arg[v]] \in Blocked
    BY <1>1 DEF Runnable, IInv, HandsFit, WakeFits, Holding
  <2>2. preferred_vcq[arg[v]] \in VCores BY <2>1 DEF IInv, TypeOK
  <2>3. CASE state[arg[v]] = "CREATED" BY <1>0, <1>1, <2>3 DEF Runnable, KeepsOwners, Away
  <2>4. CASE state[arg[v]] # "CREATED"
    <3>1. \A q \in VCores : q # preferred_vcq[arg[v]] => tqueue'[q] = tqueue[q]
      BY <1>0, <1>1, <2>1, <2>2, <2>4 DEF Runnable, Insert
    <3>2. vpc'[v] = "request" /\ qid'[v] = preferred_vcq[arg[v]]
      BY <1>0, <1>1, <2>1, <2>4 DEF Runnable
    <3>3. \A w \in VCores \ {v} : vpc'[w] = vpc[w] /\ qid'[w] = qid[w]
      BY <1>0, <1>1, <2>1, <2>4 DEF Runnable
    <3> QED BY <1>0, <1>1, <3>1, <3>2, <3>3 DEF Runnable, KeepsOwners, Away
  <2> QED BY <2>3, <2>4
<1>2. CASE ReadId(v) BY <1>0, <1>2 DEF ReadId, KeepsOwners, Away
<1>n. CASE ReadNr(v) BY <1>0, <1>n DEF ReadNr, KeepsOwners, Away
<1>3. CASE CasId(v) BY <1>0, <1>3 DEF CasId, KeepsOwners, Away
<1>4. CASE EnqueueNew(v)
  <2>1. \A q \in VCores : q # qid[v] => tqueue'[q] = tqueue[q]
    BY <1>0, <1>4 DEF EnqueueNew, Insert
  <2> QED BY <1>0, <1>4, <2>1 DEF EnqueueNew, KeepsOwners, Away
<1>5. CASE RequestVCore(v)
  <2>1. wanted' = wanted \cup {qid[v]} /\ vpc'[v] = ret[v] /\ ret[v] \notin Away
    BY <1>0, <1>5 DEF RequestVCore, IInv, TypeOK, Away
  <2>2. \A w \in VCores \ {v} : vpc'[w] = vpc[w] /\ qid'[w] = qid[w]
    BY <1>0, <1>5 DEF RequestVCore
  <2> QED BY <1>0, <1>5, <2>1, <2>2 DEF RequestVCore, KeepsOwners
<1>6. CASE DequeueOwn(v)
  <2>1. \A q \in VCores : tqueue'[q] # <<>> => tqueue[q] # <<>>
    BY <1>0, <1>6 DEF DequeueOwn
  <2> QED BY <1>0, <1>6, <2>1 DEF DequeueOwn, Run, KeepsOwners, Away
<1>7. CASE DequeueNothing(v) BY <1>0, <1>7 DEF DequeueNothing, KeepsOwners, Away
<1>8. CASE ChooseVictim(v)
  <2>1. vpc'[v] \in Away /\ \A w \in VCores \ {v} : vpc'[w] = vpc[w]
    BY <1>0, <1>8 DEF ChooseVictim, StealFrom, NextVictim, Away
  <2>2. UNCHANGED <<tqueue, qid, wanted, can_adjust_vcores>>
    BY <1>8 DEF ChooseVictim, StealFrom
  <2> QED BY <1>0, <1>8, <2>1, <2>2 DEF ChooseVictim, KeepsOwners, Away
<1>9. CASE ScanVictim(v)
  <2>1. vpc'[v] \in Away /\ \A w \in VCores \ {v} : vpc'[w] = vpc[w]
    BY <1>0, <1>9 DEF ScanVictim, StealFrom, NextVictim, Away
  <2>2. UNCHANGED <<tqueue, qid, wanted, can_adjust_vcores>>
    BY <1>9 DEF ScanVictim, StealFrom
  <2> QED BY <1>0, <1>9, <2>1, <2>2 DEF ScanVictim, KeepsOwners, Away
<1>10. CASE StealFirst(v)
  <2>1. \A w \in VCores \ {v} : vpc'[w] = vpc[w]
    BY <1>0, <1>10 DEF StealFirst, NextVictim
  <2>2. UNCHANGED <<qid, wanted, can_adjust_vcores>> BY <1>10 DEF StealFirst
  <2>3. \A q \in VCores : tqueue'[q] # <<>> => tqueue[q] # <<>>
    BY <1>0, <1>10, VictimFits DEF StealFirst
  <2> QED BY <1>0, <1>10, <2>1, <2>2, <2>3 DEF StealFirst, KeepsOwners, Away
<1>11. CASE StealNext(v)
  <2>1. vpc'[v] \in {"steal_put", "uthread"} /\ \A w \in VCores \ {v} : vpc'[w] = vpc[w]
    BY <1>0, <1>11 DEF StealNext, Run
  <2>2. UNCHANGED <<qid, wanted, can_adjust_vcores>> BY <1>11 DEF StealNext
  <2>3. \A q \in VCores : tqueue'[q] # <<>> => tqueue[q] # <<>>
    BY <1>0, <1>11, VictimFits DEF StealNext
  <2> QED BY <1>0, <1>11, <2>1, <2>2, <2>3 DEF StealNext, KeepsOwners, Away
<1>12. CASE StealPut(v)
  <2>1. \A q \in VCores : q # v => tqueue'[q] = tqueue[q]
    BY <1>0, <1>12 DEF StealPut, Insert
  <2> QED BY <1>0, <1>12, <2>1 DEF StealPut, KeepsOwners, Away
<1>13. CASE SchedEntry(v) BY <1>0, <1>13 DEF SchedEntry, KeepsOwners, Away
<1>14. CASE KeepVCore(v) BY <1>0, <1>14 DEF KeepVCore, KeepsOwners, Away
<1>15. CASE YieldVCore(v) BY <1>0, <1>15 DEF YieldVCore, KeepsOwners, Away
<1>16. CASE EventsDone(v) BY <1>0, <1>16 DEF EventsDone, KeepsOwners, Away
<1>17. CASE HandleSyscall(v) BY <1>0, <1>17 DEF HandleSyscall, CallRunnable, KeepsOwners, Away
<1>18. CASE ResetQueueId(v) BY <1>0, <1>18 DEF ResetQueueId, KeepsOwners, Away
<1> QED BY <1>1, <1>2, <1>n, <1>3, <1>4, <1>5, <1>6, <1>7, <1>8, <1>9, <1>10, <1>11, <1>12, <1>13,
           <1>14, <1>15, <1>16, <1>17, <1>18 DEF RuntimeStep

\* The calls that put a thread into a queue, or take it off its vcore.
LEMMA QueueCalls ==
  ASSUME IInv, OwnersInv, NEW v \in VCores
  PROVE  /\ \A t \in Threads : Yield(v, t) \/ Exit(v, t) => KeepsOwners(v)
         /\ \A t, u \in Threads : Create(v, t, u) => KeepsOwners(v)
<1> USE DEF placing, tunables, enqueuing, stealing, external, Goto, CallRunnable, Leave, Executes
<1>0. vpc \in [VCores -> Labels] /\ can_adjust_vcores BY DEF IInv, TypeOK, OwnersInv
<1>1. ASSUME NEW t \in Threads, Yield(v, t) PROVE KeepsOwners(v)
  BY <1>0, <1>1 DEF Yield, KeepsOwners, Away
<1>2. ASSUME NEW t \in Threads, Exit(v, t) PROVE KeepsOwners(v)
  BY <1>0, <1>2 DEF Exit, KeepsOwners, Away
<1>3. ASSUME NEW t \in Threads, NEW u \in Threads, Create(v, t, u) PROVE KeepsOwners(v)
  BY <1>0, <1>3 DEF Create, KeepsOwners, Away
<1> QED BY <1>1, <1>2, <1>3

LEMMA UpOwners ==
  ASSUME IInv, OwnersInv, NEW v \in VCores, VCoreUp(v) PROVE KeepsOwners(v)
BY DEF VCoreUp, KeepsOwners, Away, Goto, IInv, TypeOK, OwnersInv, placing, tunables, enqueuing

LEMMA ClientOwners ==
  ASSUME AdjustStays, IInv, OwnersInv, NEW v \in VCores, ClientStep(v)
  PROVE  KeepsOwners(v)
<1> USE DEF placing, tunables, enqueuing, stealing, external, Goto, CallRunnable, Leave, Executes
<1>0. vpc \in [VCores -> Labels] /\ can_adjust_vcores BY DEF IInv, TypeOK, OwnersInv
<1>1. ASSUME NEW t \in Threads, Pause(v, t) PROVE KeepsOwners(v)
  BY <1>0, <1>1 DEF Pause, KeepsOwners, Away
<1>2. ASSUME NEW t \in Threads, Block(v, t) \/ Syscall(v, t) PROVE KeepsOwners(v)
  BY <1>0, <1>2 DEF Block, Syscall, KeepsOwners, Away
<1>3. ASSUME NEW t \in Threads, NEW u \in Threads, Wake(v, t, u) PROVE KeepsOwners(v)
  BY <1>0, <1>3 DEF Wake, KeepsOwners, Away
<1>4. ASSUME NEW t \in Threads, NEW u \in Threads, Yield(v, t) \/ Exit(v, t) \/ Create(v, t, u)
      PROVE  KeepsOwners(v)
  BY <1>4, QueueCalls
<1>5. ASSUME NEW t \in Threads, NEW num \in SetNums, SetNumVCores(v, t, num) PROVE KeepsOwners(v)
  BY <1>0, <1>5 DEF SetNumVCores, KeepsOwners, Away
<1>6. ASSUME NEW on \in BOOLEAN, SetTunable(v, on) PROVE KeepsOwners(v)
  BY <1>0, <1>6 DEF SetTunable, AdjustStays, Allowed, KeepsOwners, Away
<1> QED BY <1>1, <1>2, <1>3, <1>4, <1>5, <1>6 DEF ClientStep, LeaveVCore

LEMMA OwnersNext == AdjustStays /\ IInv /\ OwnersInv /\ [Next]_vars => OwnersInv'
<1> SUFFICES ASSUME AdjustStays, IInv, OwnersInv, [Next]_vars PROVE OwnersInv' OBVIOUS
<1>1. CASE \E v \in VCores : RuntimeStep(v) BY <1>1, RuntimeOwners, OwnersKept
<1>2. CASE \E v \in VCores : ClientStep(v) BY <1>2, ClientOwners, OwnersKept
<1>3. CASE \E v \in VCores : VCoreUp(v) BY <1>3, UpOwners, OwnersKept
<1>4. CASE (\E t \in Threads : KernelCompletes(t)) \/ Finished \/ UNCHANGED vars
  BY <1>4 DEF KernelCompletes, Finished, OwnersInv, NoneForgotten, vars, tunables, external, enqueuing
<1> QED BY <1>1, <1>2, <1>3, <1>4 DEF Next

\* While the vcores are adjusted to the work, every queue that holds a thread has an owner
\* that will look into it, that was asked for, or that is about to be.
THEOREM NobodyForgotten == NumStays /\ AdjustStays /\ Spec => []NoneForgotten
<1> SUFFICES ASSUME NumStays, AdjustStays PROVE Spec => []NoneForgotten OBVIOUS
<1>1. Init => OwnersInv BY DEF Init, OwnersInv, NoneForgotten
<1>2. IInv /\ OwnersInv /\ [Next]_vars => OwnersInv' BY OwnersNext
<1>3. OwnersInv => NoneForgotten BY DEF OwnersInv
<1>4. Spec => []IInv BY Invariant
<1> QED BY <1>1, <1>2, <1>3, <1>4, PTL DEF Spec
----------------------------------------------------------------------------
(* juggle, which adds the alarms to the code of pvcq.                      *)

LEMMA AlarmInvariant ==
  ASSUME IInv, NEW v \in VCores, NEW d \in Data, AlarmFires(v, d) PROVE IInv' /\ ContractStep
<1> USE DEF AlarmFires
<1>0. vpc[v] \in {"uthread", "entry", "events"} /\ current_uthread[v] = current[v]
  BY DEF current, Pausing
<1>1. CASE Preempt(v, d) /\ current[v] # NULL
  <2>1. PICK t \in Threads : t = current[v] BY <1>1, CurrentType DEF IInv
  <2>2. state' = [state EXCEPT ![t] = "BLK_PAUSED"] /\ CallRunnable(v, t, "paused")
    BY <1>0, <1>1, <2>1 DEF Preempt
  <2>3. "BLK_PAUSED" \in Blocked BY DEF Blocked
  <2> QED BY <1>0, <2>1, <2>2, <2>3, StopInvariant
<1>2. CASE Unlock(v)
  <2>1. UNCHANGED <<tqueue, placing, tunables, preferred_vcq, current_uthread, spin_count,
                    enqueuing, stealing, external>>
    OBVIOUS
  <2>2. /\ UNCHANGED <<state, arg>> /\ vpc' = [vpc EXCEPT ![v] = "unlock"]
        /\ ret' = [ret EXCEPT ![v] = Interrupted(v)]
    BY <1>2 DEF Unlock, Goto
  <2>3. Interrupted(v) \in {"entry", "events"} /\ (current[v] # NULL => Interrupted(v) = "entry")
    BY <1>0 DEF Interrupted, IInv, RunFits, InCall
  <2> HIDE DEF AlarmFires
  <2>4. /\ vpc' \in [VCores -> Labels]
        /\ ret' \in [VCores -> {"entry", "events", "uthread", "paused"}]
    BY <2>2, <2>3, Labelled DEF IInv, TypeOK
  <2>5. TypeOK' BY <2>1, <2>2, <2>4 DEF placing, tunables, enqueuing, stealing, external, IInv, TypeOK
  <2>6. /\ vpc'[v] = "unlock" /\ ret'[v] = Interrupted(v)
        /\ \A w \in VCores : w # v => vpc'[w] = vpc[w] /\ ret'[w] = ret[w]
    BY <2>2 DEF IInv, TypeOK
  <2>7. (Pausing(v)' <=> Pausing(v)) /\ (current[v] # NULL => InCall(v)')
    BY <1>0, <2>3, <2>6 DEF Pausing, InCall
  <2>8. Quiet(v)
    BY <1>0, <2>1, <2>2, <2>6, <2>7 DEF Quiet, Holding, Stealing, placing, stealing, external
  <2> QED BY <2>5, <2>8, QuietInvariant
<1> QED BY <1>0, <1>1, <1>2 DEF Preempt, Discard

\* While its thread was being stopped the vcore executed nothing.
LEMMA ClearInvariant ==
  ASSUME IInv, NEW v \in VCores, ClearCurrent(v) PROVE IInv' /\ ContractStep
<1> USE DEF ClearCurrent, Goto, placing, tunables, enqueuing, stealing, external
<1>1. TypeOK' BY Labelled DEF IInv, TypeOK
<1>2. OnlyGoes(v) /\ vpc'[v] = "unlock" BY DEF OnlyGoes, IInv, TypeOK
<1>3. current[v] = NULL BY DEF current, Pausing
<1>4. current' = [current EXCEPT ![v] = NULL] BY <1>2, CurrentBecomes DEF IInv
<1>5. current' = current BY <1>3, <1>4, CurrentType DEF IInv
<1>6. Quiet(v) BY <1>2, <1>3, <1>5 DEF OnlyGoes, Quiet, Holding, Stealing
<1> QED BY <1>1, <1>6, QuietInvariant

LEMMA UnlockInvariant ==
  ASSUME IInv, NEW v \in VCores, UnlockAwaiter(v) PROVE IInv' /\ ContractStep
<1> USE DEF UnlockAwaiter, Goto, placing, tunables, enqueuing, stealing, external
<1>1. ret[v] \in {"entry", "events", "uthread", "paused"} BY DEF IInv, TypeOK
<1>2. TypeOK' BY <1>1, Labelled DEF IInv, TypeOK
<1>3. OnlyGoes(v) /\ vpc'[v] = ret[v] /\ ret'[v] = "entry" BY DEF OnlyGoes, IInv, TypeOK
<1>4. current[v] # NULL => ret[v] \in {"uthread", "entry"} BY DEF IInv, RunFits, InCall
<1>5. current' = current
  <2>1. CASE ret[v] = "paused"
    <3>1. Pausing(v)' BY <1>3, <2>1 DEF Pausing
    <3>2. current' = [current EXCEPT ![v] = NULL] /\ current[v] = NULL
      BY <1>3, <1>4, <2>1, <3>1, CurrentBecomes DEF IInv
    <3> QED BY <3>2, CurrentType DEF IInv
  <2>2. CASE ret[v] # "paused"
    <3>1. ~Pausing(v) /\ ~Pausing(v)' BY <1>1, <1>3, <2>2 DEF Pausing
    <3> QED BY <1>3, <3>1, CurrentStays
  <2> QED BY <2>1, <2>2
<1>6. Quiet(v) BY <1>1, <1>3, <1>4, <1>5 DEF OnlyGoes, Quiet, Holding, Stealing
<1> QED BY <1>2, <1>6, QuietInvariant

LEMMA JuggleInvariant == IInv /\ [JuggleNext]_jvars => IInv' /\ ContractStep
<1> SUFFICES ASSUME IInv, [JuggleNext]_jvars PROVE IInv' /\ ContractStep OBVIOUS
<1>1. ASSUME NEW v \in VCores, JRuntimeStep(v) PROVE IInv' /\ ContractStep
  BY <1>1, RuntimeInvariant, ClearInvariant, UnlockInvariant
     DEF JRuntimeStep, JSchedEntry, JKeepVCore, JYieldVCore, JMakeRunnable, JDequeue, JEventsDone,
         RuntimeStep
<1>2. ASSUME NEW v \in VCores, JClientStep(v) PROVE IInv' /\ ContractStep
  <2>1. \/ \E t \in Threads : Yield(v, t) \/ Exit(v, t)
        \/ \E t, u \in Threads : Create(v, t, u)
        \/ UNCHANGED vars
    BY <1>2 DEF JClientStep, JYield, JExit, JCreate, SetSchedPeriod
  <2> QED BY <2>1, YieldInvariant, ExitInvariant, CreateInvariant, StutterInvariant
<1>3. CASE \E v \in VCores : JVCoreUp(v) BY <1>3, VCoreUpInvariant DEF JVCoreUp
<1>4. CASE \E v \in VCores, d \in Data : AlarmFires(v, d) BY <1>4, AlarmInvariant
<1>5. CASE Finished \/ UNCHANGED jvars BY <1>5, StutterInvariant DEF Finished, jvars
<1> QED BY <1>1, <1>2, <1>3, <1>4, <1>5 DEF JuggleNext

\* The scheduler of juggle keeps the same contract, whatever the alarms interrupt: a thread
\* that an alarm takes off its vcore is parked, and ready once it is in a queue, where other
\* vcores may take it while the first one still points to it.
THEOREM JuggleImplementsContract == JuggleSpec => SchedContract
<1>1. JuggleInit => IInv /\ Contract!Init BY InitInvariant, InitPhases DEF JuggleInit
<1>2. IInv /\ [JuggleNext]_jvars => IInv' /\ [Contract!Next]_phaseOf
  BY JuggleInvariant DEF ContractStep
<1> QED BY <1>1, <1>2, PTL DEF JuggleSpec, SchedContract, Contract!Spec

\* An alarm touches no queue, and the vcore it interrupts goes on to its scheduler.
LEMMA AlarmOwners ==
  ASSUME IInv, OwnersInv, NEW v \in VCores,
         (\E d \in Data : AlarmFires(v, d)) \/ ClearCurrent(v) \/ UnlockAwaiter(v)
  PROVE  KeepsOwners(v)
<1>0. vpc \in [VCores -> Labels] /\ can_adjust_vcores BY DEF IInv, TypeOK, OwnersInv
<1>1. /\ vpc[v] \in {"uthread", "entry", "events", "paused", "unlock"}
      /\ UNCHANGED <<tqueue, can_adjust_vcores, qid, wanted>>
  BY DEF AlarmFires, ClearCurrent, UnlockAwaiter, tunables, enqueuing, external
<1>2. PICK l \in {"runnable", "unlock", ret[v]} : Goto(v, l)
  BY DEF AlarmFires, Preempt, Discard, Unlock, CallRunnable, ClearCurrent, UnlockAwaiter
<1>3. l \notin Away /\ l # "request" BY DEF Away, IInv, TypeOK
<1>4. vpc'[v] = l /\ \A w \in VCores \ {v} : vpc'[w] = vpc[w] BY <1>0, <1>2 DEF Goto
<1> QED BY <1>0, <1>1, <1>3, <1>4 DEF KeepsOwners

LEMMA JuggleOwners == IInv /\ OwnersInv /\ [JuggleNext]_jvars => OwnersInv'
<1> SUFFICES ASSUME IInv, OwnersInv, [JuggleNext]_jvars PROVE OwnersInv' OBVIOUS
<1>1. ASSUME NEW v \in VCores, JRuntimeStep(v) PROVE OwnersInv'
  BY <1>1, RuntimeOwners, AlarmOwners, OwnersKept
     DEF JRuntimeStep, JSchedEntry, JKeepVCore, JYieldVCore, JMakeRunnable, JDequeue, JEventsDone,
         RuntimeStep
<1>2. CASE UNCHANGED vars
  BY <1>2 DEF OwnersInv, NoneForgotten, vars, tunables, external, enqueuing
<1>3. ASSUME NEW v \in VCores, JClientStep(v) PROVE OwnersInv'
  <2>1. \/ \E t \in Threads : Yield(v, t) \/ Exit(v, t)
        \/ \E t, u \in Threads : Create(v, t, u)
        \/ UNCHANGED vars
    BY <1>3 DEF JClientStep, JYield, JExit, JCreate, SetSchedPeriod
  <2> QED BY <1>2, <2>1, QueueCalls, OwnersKept
<1>4. CASE \E v \in VCores : JVCoreUp(v) BY <1>4, UpOwners, OwnersKept DEF JVCoreUp
<1>5. CASE \E v \in VCores, d \in Data : AlarmFires(v, d) BY <1>5, AlarmOwners, OwnersKept
<1>6. CASE Finished \/ UNCHANGED jvars BY <1>2, <1>6 DEF Finished, jvars
<1> QED BY <1>1, <1>3, <1>4, <1>5, <1>6 DEF JuggleNext

\* juggle forgets no thread either, though its alarms make threads ready at any point, also
\* while their vcore is about to give itself back: it never turns the adjusting of vcores off.
THEOREM JuggleForgetsNobody == JuggleSpec => []NoneForgotten
<1>1. JuggleInit => IInv /\ OwnersInv
  BY InitInvariant DEF JuggleInit, Init, OwnersInv, NoneForgotten
<1>2. IInv /\ [JuggleNext]_jvars => IInv' BY JuggleInvariant
<1>3. IInv /\ OwnersInv /\ [JuggleNext]_jvars => OwnersInv' BY JuggleOwners
<1>4. OwnersInv => NoneForgotten BY DEF OwnersInv
<1> QED BY <1>1, <1>2, <1>3, <1>4, PTL DEF JuggleSpec

(***************************************************************************)
(* The data of the alarms.                                                 *)
(***************************************************************************)
Loop == {"dequeue", "choose", "scan", "steal_first", "steal_next", "steal_put", "idle", "events"}

Calling == {"runnable", "read_id", "read_nr", "cas_id", "enqueue", "request", "paused", "unlock"}

\* v is in the loop of pth_sched_entry, or in a callback that interrupted it there.
InLoop(v) == vpc[v] \in Loop \/ (vpc[v] \in Calling /\ ret[v] = "events")

\* v is in alarm_callback, which refers to the data of its alarm.
InCallback(v) == Pausing(v) \/ vpc[v] = "unlock"

AlarmTypes ==
  /\ allocated \in SUBSET Data /\ armed \in SUBSET Data
  /\ dtls \in [VCores -> Data \cup {NULL}] /\ adata \in [VCores -> Data \cup {NULL}]
  /\ awaiter \in [VCores -> Data \cup {NULL}] /\ timers \in [VCores -> SUBSET Data]

\* Of the data of v only the present ones can be armed: their alarm is set.
AliveAt(v) ==
  /\ Referenced(v) \subseteq allocated \cup {NULL}
  /\ armed \cap Referenced(v) = {dtls[v]} \cap timers[v]

\* In its loop, a scheduler that has disarmed its alarm has left unarmed data.
LoopAt(v) ==
  /\ adata[v] \in {NULL, dtls[v]}
  /\ InLoop(v) /\ adata[v] = NULL => dtls[v] \notin armed

\* Up to its last line a callback refers to the present data.
CallAt(v) ==
  /\ awaiter[v] # NULL => InCallback(v)
  /\ awaiter[v] \in {dtls[v], NULL} \/ vpc[v] = "unlock"

NoneShared == \A v, w \in VCores : v # w => Referenced(v) \cap Referenced(w) \subseteq {NULL}

AlarmInv == AlarmTypes /\ NoneShared /\ \A v \in VCores : AliveAt(v) /\ LoopAt(v) /\ CallAt(v)

LEMMA NotData == NULL \notin Data
BY JuggleAssumption DEF JuggleAssumption

\* A step of v changes its own alarms, and of the heap its own data and what was free.
OnlyAt(v) ==
  /\ OnlyGoes(v)
  /\ \A w \in VCores \ {v} : /\ dtls'[w] = dtls[w] /\ adata'[w] = adata[w]
                             /\ timers'[w] = timers[w] /\ awaiter'[w] = awaiter[w]
  /\ \A d \in allocated \ Referenced(v) : d \in allocated' /\ (d \in armed' <=> d \in armed)
  /\ Referenced(v)' \subseteq Referenced(v) \cup (Data \ allocated) \cup {NULL}

LEMMA OtherAlarms ==
  ASSUME AlarmInv, AlarmTypes', NEW v \in VCores, OnlyAt(v), AliveAt(v)', LoopAt(v)', CallAt(v)'
  PROVE  AlarmInv'
<1>1. ASSUME NEW w \in VCores \ {v}
      PROVE  /\ AliveAt(w)' /\ LoopAt(w)' /\ CallAt(w)'
             /\ Referenced(v)' \cap Referenced(w)' \subseteq {NULL}
             /\ Referenced(w)' = Referenced(w)
  <2>1. /\ dtls'[w] = dtls[w] /\ adata'[w] = adata[w] /\ timers'[w] = timers[w]
        /\ awaiter'[w] = awaiter[w] /\ vpc'[w] = vpc[w] /\ ret'[w] = ret[w]
    BY DEF OnlyAt, OnlyGoes
  <2>2. Referenced(w)' = Referenced(w) BY <2>1 DEF Referenced
  <2>3. AliveAt(w) /\ LoopAt(w) /\ CallAt(w) /\ AlarmTypes BY DEF AlarmInv
  <2>4. Referenced(v) \cap Referenced(w) \subseteq {NULL} BY DEF AlarmInv, NoneShared
  <2>5. \A d \in Referenced(w) \ {NULL} : d \in allocated \ Referenced(v) BY <2>3, <2>4 DEF AliveAt
  <2>6. \A d \in Referenced(w) \ {NULL} : d \in allocated' /\ (d \in armed' <=> d \in armed)
    BY <2>5 DEF OnlyAt
  <2>7. NULL \notin armed /\ NULL \notin armed' BY <2>3, NotData DEF AlarmTypes
  <2>8. AliveAt(w)' BY <2>1, <2>2, <2>3, <2>6, <2>7 DEF AliveAt
  <2>9. dtls[w] \in armed' <=> dtls[w] \in armed BY <2>6, <2>7 DEF Referenced
  <2>10. LoopAt(w)' BY <2>1, <2>3, <2>9 DEF LoopAt, InLoop
  <2>11. CallAt(w)' BY <2>1, <2>3 DEF CallAt, InCallback, Pausing
  <2>12. Referenced(v)' \cap Referenced(w) \subseteq {NULL} BY <2>4, <2>5 DEF OnlyAt
  <2> QED BY <2>2, <2>8, <2>10, <2>11, <2>12
<1>2. NoneShared'
  <2> SUFFICES ASSUME NEW p \in VCores, NEW q \in VCores, p # q
               PROVE  Referenced(p)' \cap Referenced(q)' \subseteq {NULL}
    BY DEF NoneShared
  <2>1. CASE p = v BY <1>1, <2>1
  <2>2. CASE q = v BY <1>1, <2>2
  <2>3. CASE p # v /\ q # v BY <1>1, <2>3 DEF AlarmInv, NoneShared
  <2> QED BY <2>1, <2>2, <2>3
<1> QED BY <1>1, <1>2 DEF AlarmInv

LEMMA DisarmAlarms ==
  ASSUME AlarmInv, NEW v \in VCores, vpc[v] = "idle", Disarm(v), OnlyGoes(v)
  PROVE  AlarmInv'
<1> DEFINE lost == {adata[v]} \ timers[v]
<1>0. PICK d \in Mallocable :
        /\ dtls' = [dtls EXCEPT ![v] = d]
        /\ allocated' = (allocated \ lost) \cup {d} /\ armed' = armed \ {adata[v], d}
        /\ adata' = [adata EXCEPT ![v] = NULL] /\ timers' = timers /\ awaiter' = awaiter
  BY DEF Disarm
<1>1. d \in Data \ allocated BY DEF Mallocable
<1>2. AlarmTypes /\ AliveAt(v) /\ LoopAt(v) /\ CallAt(v) BY DEF AlarmInv
<1>3. AlarmTypes' BY <1>0, <1>1, <1>2 DEF AlarmTypes
<1>4. dtls'[v] = d /\ adata'[v] = NULL /\ timers'[v] = timers[v] /\ awaiter'[v] = awaiter[v]
  BY <1>0, <1>2 DEF AlarmTypes
<1>5. timers[v] \subseteq allocated BY <1>2, NotData DEF AlarmTypes, AliveAt, Referenced
<1>6. Referenced(v)' = {d, NULL} \cup timers[v] BY <1>4 DEF Referenced
<1>7. \A e \in timers[v] : e \notin armed'
  <2> SUFFICES ASSUME NEW e \in timers[v], e \in armed, e # adata[v] PROVE FALSE
    BY <1>0
  <2>1. e = dtls[v] BY <1>2 DEF AliveAt, Referenced
  <2>2. adata[v] = NULL /\ dtls[v] \in armed BY <1>2, <2>1 DEF LoopAt
  <2> QED BY <1>2, <2>2 DEF LoopAt, InLoop, Loop
<1>8. AliveAt(v)'
  <2>1. Referenced(v)' \subseteq allocated' \cup {NULL} BY <1>0, <1>5, <1>6
  <2>2. NULL \notin armed' /\ d \notin armed' /\ d \notin timers[v]
    BY <1>0, <1>1, <1>3, <1>5, NotData DEF AlarmTypes
  <2> QED BY <1>4, <1>6, <1>7, <2>1, <2>2 DEF AliveAt
<1>9. LoopAt(v)' BY <1>0, <1>4 DEF LoopAt
<1>10. CallAt(v)'
  <2>1. awaiter[v] = NULL BY <1>2 DEF CallAt, InCallback, Pausing
  <2> QED BY <1>4, <2>1 DEF CallAt
<1>11. OnlyAt(v)
  <2>1. \A w \in VCores \ {v} : /\ dtls'[w] = dtls[w] /\ adata'[w] = adata[w]
                                /\ timers'[w] = timers[w] /\ awaiter'[w] = awaiter[w]
    BY <1>0, <1>2 DEF AlarmTypes
  <2>2. \A e \in allocated \ Referenced(v) : e \in allocated' /\ (e \in armed' <=> e \in armed)
    BY <1>0, <1>1 DEF Referenced
  <2>3. Referenced(v)' \subseteq Referenced(v) \cup (Data \ allocated) \cup {NULL}
    BY <1>1, <1>6 DEF Referenced
  <2> QED BY <2>1, <2>2, <2>3 DEF OnlyAt
<1> QED BY <1>3, <1>8, <1>9, <1>10, <1>11, OtherAlarms

LEMMA EntryAlarms ==
  ASSUME IInv, AlarmInv, NEW v \in VCores, JSchedEntry(v)
  PROVE  AlarmInv'
<1> DEFINE replace == dtls[v] \in armed /\ last_period[v] # period
<1>0. PICK d \in IF replace \/ dtls[v] = NULL THEN Mallocable ELSE {dtls[v]} :
        \E left \in {armed \ (IF d = dtls[v] THEN {} ELSE {dtls[v], d})} :
          /\ dtls' = [dtls EXCEPT ![v] = d]
          /\ adata' = [adata EXCEPT ![v] = IF current_uthread[v] = NULL THEN d ELSE NULL]
          /\ allocated' = allocated \cup {d} /\ armed' = left \cup {d}
          /\ timers' = IF d \in left THEN timers ELSE [timers EXCEPT ![v] = timers[v] \cup {d}]
          /\ awaiter' = awaiter
  BY DEF JSchedEntry
<1>00. PICK left : /\ left = armed \ (IF d = dtls[v] THEN {} ELSE {dtls[v], d})
                   /\ dtls' = [dtls EXCEPT ![v] = d]
                   /\ adata' = [adata EXCEPT ![v] = IF current_uthread[v] = NULL THEN d ELSE NULL]
                   /\ allocated' = allocated \cup {d} /\ armed' = left \cup {d}
                   /\ timers' = IF d \in left THEN timers
                                ELSE [timers EXCEPT ![v] = timers[v] \cup {d}]
                   /\ awaiter' = awaiter
  BY <1>0
<1>1. AlarmTypes /\ AliveAt(v) /\ LoopAt(v) /\ CallAt(v) BY DEF AlarmInv
\* Data that go on are in a set alarm if they are armed; new ones are not armed.
<1>2. \/ d = dtls[v] /\ d \in Data \cap allocated /\ left = armed /\ (d \in left => d \in timers[v])
      \/ d # dtls[v] /\ d \in Data \ allocated /\ left = armed \ {dtls[v], d}
  <2>1. CASE d = dtls[v] /\ d # NULL
    <3>1. d \in allocated /\ d \in Data BY <1>1, <2>1 DEF AlarmTypes, AliveAt, Referenced
    <3>2. d \in armed => d \in timers[v] BY <1>1, <2>1 DEF AliveAt, Referenced
    <3> QED BY <1>00, <2>1, <3>1, <3>2
  <2>2. CASE ~(d = dtls[v] /\ d # NULL)
    <3>1. d \in Mallocable BY <1>0, <2>2
    <3>2. d \in Data \ allocated BY <3>1 DEF Mallocable
    <3>3. d # dtls[v] BY <1>1, <3>2, NotData DEF AliveAt, Referenced
    <3> QED BY <1>00, <3>2, <3>3
  <2> QED BY <2>1, <2>2
<1>3. /\ dtls'[v] = d /\ adata'[v] = (IF current_uthread[v] = NULL THEN d ELSE NULL)
      /\ timers'[v] = (IF d \in left THEN timers[v] ELSE timers[v] \cup {d})
      /\ awaiter'[v] = awaiter[v]
      /\ \A w \in VCores \ {v} : /\ dtls'[w] = dtls[w] /\ adata'[w] = adata[w]
                                 /\ timers'[w] = timers[w] /\ awaiter'[w] = awaiter[w]
  BY <1>00, <1>1 DEF AlarmTypes
<1>4. AlarmTypes'
  <2>1. d \in Data /\ left \subseteq Data BY <1>1, <1>2 DEF AlarmTypes
  <2>2. allocated' \in SUBSET Data /\ armed' \in SUBSET Data BY <1>00, <1>1, <2>1 DEF AlarmTypes
  <2>3. dtls' \in [VCores -> Data \cup {NULL}] /\ adata' \in [VCores -> Data \cup {NULL}]
    BY <1>00, <1>1, <2>1 DEF AlarmTypes
  <2>4. timers' \in [VCores -> SUBSET Data]
    <3>1. timers[v] \cup {d} \in SUBSET Data BY <1>1, <2>1 DEF AlarmTypes
    <3> QED BY <1>00, <1>1, <3>1 DEF AlarmTypes
  <2> QED BY <1>00, <1>1, <2>2, <2>3, <2>4 DEF AlarmTypes
<1>5. timers[v] \subseteq allocated BY <1>1, NotData DEF AlarmTypes, AliveAt, Referenced
<1>6. d \in timers'[v] /\ timers'[v] \subseteq timers[v] \cup {d} BY <1>2, <1>3
<1>7. \A e \in timers[v] : e \in left => e = d BY <1>1, <1>2 DEF AliveAt, Referenced
<1>8. Referenced(v)' \subseteq {d, NULL} \cup timers[v] /\ d \in Referenced(v)'
  BY <1>3, <1>6 DEF Referenced
<1>9. AliveAt(v)'
  <2>1. Referenced(v)' \subseteq allocated' \cup {NULL} BY <1>00, <1>5, <1>8
  <2>2. NULL \notin armed' BY <1>4, NotData DEF AlarmTypes
  <2>3. armed' \cap Referenced(v)' = {d} BY <1>00, <1>7, <1>8, <2>2
  <2> QED BY <1>3, <1>6, <2>1, <2>3 DEF AliveAt
<1>10. /\ vpc[v] = "entry" /\ ret' = ret
       /\ vpc' = [vpc EXCEPT ![v] = IF current_uthread[v] # NULL THEN "uthread" ELSE "dequeue"]
       /\ OnlyGoes(v)
  BY DEF JSchedEntry, SchedEntry, Goto, OnlyGoes, IInv, TypeOK
<1>11. LoopAt(v)'
  <2>1. CASE current_uthread[v] = NULL
    <3>1. adata'[v] = d /\ d # NULL BY <1>2, <1>3, <2>1, NotData
    <3> QED BY <1>3, <3>1 DEF LoopAt
  <2>2. CASE current_uthread[v] # NULL
    <3>1. vpc'[v] = "uthread" /\ adata'[v] = NULL BY <1>3, <1>10, <2>2 DEF IInv, TypeOK
    <3> QED BY <1>3, <3>1 DEF LoopAt, InLoop, Loop, Calling
  <2> QED BY <2>1, <2>2
<1>12. CallAt(v)'
  <2>1. awaiter[v] = NULL BY <1>1, <1>10 DEF CallAt, InCallback, Pausing
  <2> QED BY <1>3, <2>1 DEF CallAt
<1>13. OnlyAt(v)
  <2>1. \A e \in allocated \ Referenced(v) : e \in allocated' /\ (e \in armed' <=> e \in armed)
    BY <1>00, <1>2 DEF Referenced
  <2>2. Referenced(v)' \subseteq Referenced(v) \cup (Data \ allocated) \cup {NULL}
    BY <1>2, <1>8 DEF Referenced
  <2> QED BY <1>3, <1>10, <2>1, <2>2 DEF OnlyAt
<1> QED BY <1>4, <1>9, <1>11, <1>12, <1>13, OtherAlarms

\* A step that leaves the alarms alone, does not enter the loop, and leaves no callback.
LEMMA SameAlarms ==
  ASSUME AlarmInv, NEW v \in VCores, UNCHANGED <<heap, adata, awaiter>>, OnlyGoes(v),
         InLoop(v)' => InLoop(v), InCallback(v) => InCallback(v)', vpc[v] # "unlock"
  PROVE  AlarmInv'
<1>0. UNCHANGED <<allocated, armed, dtls, timers>> BY DEF heap
<1>1. AlarmTypes /\ AliveAt(v) /\ LoopAt(v) /\ CallAt(v) BY DEF AlarmInv
<1>2. AlarmTypes' BY <1>0, <1>1 DEF AlarmTypes
<1>3. Referenced(v)' = Referenced(v) BY <1>0 DEF Referenced
<1>4. OnlyAt(v) BY <1>0, <1>3 DEF OnlyAt
<1>5. AliveAt(v)' BY <1>0, <1>1, <1>3 DEF AliveAt
<1>6. LoopAt(v)' BY <1>0, <1>1 DEF LoopAt
<1>7. CallAt(v)' BY <1>0, <1>1 DEF CallAt
<1> QED BY <1>2, <1>4, <1>5, <1>6, <1>7, OtherAlarms

LEMMA StutterAlarms ==
  ASSUME AlarmInv, UNCHANGED <<heap, adata, awaiter, vpc, ret>>
  PROVE  AlarmInv'
BY DEF AlarmInv, AlarmTypes, NoneShared, AliveAt, LoopAt, CallAt, InLoop, InCallback, Pausing,
       Referenced, heap

LEMMA RequestAlarms ==
  ASSUME IInv, AlarmInv, NEW v \in VCores, JMakeRunnable(v)
  PROVE  AlarmInv'
<1>0. UNCHANGED <<heap, adata, awaiter>> BY DEF JMakeRunnable, alarms
<1>1. OnlyGoes(v)
  BY DEF JMakeRunnable, Runnable, ReadId, ReadNr, CasId, EnqueueNew, RequestVCore, Goto, OnlyGoes,
         IInv, TypeOK
<1>2. vpc[v] \in {"runnable", "read_id", "read_nr", "cas_id", "enqueue", "request"}
  BY DEF JMakeRunnable, Runnable, ReadId, ReadNr, CasId, EnqueueNew, RequestVCore
<1>3. CASE Runnable(v) \/ ReadId(v) \/ ReadNr(v) \/ CasId(v) \/ EnqueueNew(v)
  <2>1. PICK l \in {"read_id", "read_nr", "cas_id", "enqueue", "request"} : Goto(v, l)
    BY <1>3 DEF Runnable, ReadId, ReadNr, CasId, EnqueueNew
  <2>2. UNCHANGED ret BY <1>3 DEF Runnable, ReadId, ReadNr, CasId, EnqueueNew
  <2>3. vpc'[v] = l BY <2>1 DEF Goto, IInv, TypeOK
  <2>4. InLoop(v)' => InLoop(v) BY <1>2, <2>2, <2>3 DEF InLoop, Loop, Calling
  <2>5. InCallback(v) => InCallback(v)' BY <1>2, <2>2, <2>3 DEF InCallback, Pausing
  <2> QED BY <1>0, <1>1, <1>2, <2>4, <2>5, SameAlarms
<1>4. CASE RequestVCore(v)
  <2>1. ret[v] \in {"entry", "events", "uthread", "paused"} /\ vpc[v] = "request"
    BY <1>4 DEF RequestVCore, IInv, TypeOK
  <2>2. vpc'[v] = ret[v] /\ ret'[v] = "entry" BY <1>4 DEF RequestVCore, Goto, IInv, TypeOK
  <2>3. InLoop(v)' => InLoop(v) BY <2>1, <2>2 DEF InLoop, Loop, Calling
  <2>4. InCallback(v) => InCallback(v)' BY <2>1, <2>2 DEF InCallback, Pausing
  <2> QED BY <1>0, <1>1, <1>2, <2>3, <2>4, SameAlarms
<1> QED BY <1>3, <1>4 DEF JMakeRunnable

\* The callback goes on to its last line, and from there back to where it came in.
LEMMA ReturnAlarms ==
  ASSUME IInv, AlarmInv, NEW v \in VCores, ClearCurrent(v) \/ UnlockAwaiter(v)
  PROVE  AlarmInv'
<1>0. UNCHANGED <<heap, adata>> BY DEF ClearCurrent, UnlockAwaiter, alarms
<1>1. OnlyGoes(v) BY DEF ClearCurrent, UnlockAwaiter, Goto, OnlyGoes, IInv, TypeOK
<1>2. CASE ClearCurrent(v)
  <2>1. vpc[v] = "paused" /\ vpc'[v] = "unlock" /\ ret'[v] = ret[v] /\ UNCHANGED awaiter
    BY <1>2 DEF ClearCurrent, Goto, alarms, IInv, TypeOK
  <2>2. InLoop(v)' => InLoop(v) BY <2>1 DEF InLoop, Loop, Calling
  <2> QED BY <1>0, <1>1, <2>1, <2>2, SameAlarms DEF InCallback
<1>3. CASE UnlockAwaiter(v)
  <2>1. /\ vpc[v] = "unlock" /\ vpc'[v] = ret[v] /\ ret'[v] = "entry"
        /\ ret[v] \in {"entry", "events", "uthread", "paused"}
    BY <1>3 DEF UnlockAwaiter, Goto, IInv, TypeOK
  <2>2. AlarmTypes /\ AliveAt(v) /\ LoopAt(v) BY DEF AlarmInv
  <2>3. UNCHANGED <<allocated, armed, dtls, timers, adata>> /\ awaiter' = [awaiter EXCEPT ![v] = NULL]
    BY <1>0, <1>3 DEF UnlockAwaiter, heap
  <2>4. AlarmTypes' BY <2>2, <2>3 DEF AlarmTypes
  <2>5. Referenced(v)' = Referenced(v) BY <2>3 DEF Referenced
  <2>6. AliveAt(v)' BY <2>2, <2>3, <2>5 DEF AliveAt
  <2>7. InLoop(v)' => InLoop(v) BY <2>1 DEF InLoop, Loop, Calling
  <2>8. LoopAt(v)' BY <2>2, <2>3, <2>7 DEF LoopAt
  <2>9. awaiter'[v] = NULL /\ \A w \in VCores \ {v} : awaiter'[w] = awaiter[w]
    BY <2>2, <2>3 DEF AlarmTypes
  <2>10. CallAt(v)' BY <2>9 DEF CallAt
  <2>11. OnlyAt(v) BY <1>1, <2>3, <2>5, <2>9 DEF OnlyAt
  <2> QED BY <2>4, <2>6, <2>8, <2>10, <2>11, OtherAlarms
<1> QED BY <1>2, <1>3

LEMMA IdleAlarms ==
  ASSUME IInv, AlarmInv, NEW v \in VCores, JKeepVCore(v) \/ JYieldVCore(v)
  PROVE  AlarmInv'
<1>0. UNCHANGED ret /\ vpc[v] = "idle" BY DEF JKeepVCore, JYieldVCore, KeepVCore, YieldVCore
<1>1. OnlyGoes(v)
  BY DEF JKeepVCore, JYieldVCore, KeepVCore, YieldVCore, Goto, OnlyGoes, IInv, TypeOK
<1>2. Disarm(v) \/ UNCHANGED <<heap, adata, awaiter>> BY DEF JKeepVCore, JYieldVCore, alarms
<1>3. CASE Disarm(v) BY <1>0, <1>1, <1>3, DisarmAlarms
<1>4. CASE UNCHANGED <<heap, adata, awaiter>>
  <2>1. InLoop(v) /\ ~InCallback(v) BY <1>0 DEF InLoop, Loop, InCallback, Pausing
  <2> QED BY <1>0, <1>1, <1>4, <2>1, SameAlarms
<1> QED BY <1>2, <1>3, <1>4

\* The loop keeps its pointer until it leaves for a thread.
LEMMA DequeueAlarms ==
  ASSUME IInv, AlarmInv, NEW v \in VCores, JDequeue(v)
  PROVE  AlarmInv'
<1>1. vpc[v] \in Loop /\ UNCHANGED ret
  BY DEF JDequeue, Loop, DequeueOwn, DequeueNothing, ChooseVictim, ScanVictim, StealFrom,
         StealFirst, StealNext, StealPut
<1>2. OnlyGoes(v)
  <2>1. ASSUME NEW l, Goto(v, l) PROVE OnlyGoes(v) BY <1>1, <2>1 DEF Goto, OnlyGoes, IInv, TypeOK
  <2> QED BY <2>1 DEF JDequeue, DequeueOwn, DequeueNothing, ChooseVictim, ScanVictim, StealFrom,
                      NextVictim, StealFirst, StealNext, StealPut, Run
<1>3. InLoop(v) /\ ~InCallback(v) /\ vpc[v] # "unlock"
  BY <1>1 DEF InLoop, Loop, InCallback, Pausing
<1>4. UNCHANGED <<heap, awaiter>>
      /\ adata' = IF vpc'[v] = "uthread" THEN [adata EXCEPT ![v] = NULL] ELSE adata
  BY DEF JDequeue, LoopKeeps
<1>5. CASE vpc'[v] # "uthread" BY <1>2, <1>3, <1>4, <1>5, SameAlarms
<1>6. CASE vpc'[v] = "uthread"
  <2>1. UNCHANGED <<dtls, allocated, armed, timers, awaiter>> /\ adata' = [adata EXCEPT ![v] = NULL]
    BY <1>4, <1>6 DEF heap
  <2>2. AlarmTypes /\ AliveAt(v) /\ LoopAt(v) /\ CallAt(v) BY DEF AlarmInv
  <2>3. adata'[v] = NULL /\ \A w \in VCores \ {v} : adata'[w] = adata[w]
    BY <2>1, <2>2 DEF AlarmTypes
  <2>4. AlarmTypes' BY <2>1, <2>2 DEF AlarmTypes
  <2>5. /\ Referenced(v)' \subseteq Referenced(v) \cup {NULL}
        /\ {dtls[v]} \cup timers[v] \subseteq Referenced(v)'
    BY <2>1, <2>3 DEF Referenced
  <2>6. NULL \notin armed BY <2>2, NotData DEF AlarmTypes
  <2>7. AliveAt(v)' BY <2>1, <2>2, <2>5, <2>6 DEF AliveAt
  <2>8. ~InLoop(v)' BY <1>6 DEF InLoop, Loop, Calling
  <2>9. LoopAt(v)' BY <2>3, <2>8 DEF LoopAt
  <2>10. CallAt(v)'
    <3>1. awaiter[v] = NULL BY <1>3, <2>2 DEF CallAt
    <3> QED BY <2>1, <3>1 DEF CallAt
  <2>11. OnlyAt(v) BY <1>2, <2>1, <2>3, <2>5 DEF OnlyAt
  <2> QED BY <2>4, <2>7, <2>9, <2>10, <2>11, OtherAlarms
<1> QED BY <1>5, <1>6

LEMMA ClientAlarms ==
  ASSUME IInv, AlarmInv, NEW v \in VCores, JClientStep(v) \/ JVCoreUp(v) \/ JEventsDone(v)
  PROVE  AlarmInv'
<1>0. UNCHANGED <<heap, adata, awaiter>>
  BY DEF JClientStep, JYield, JExit, JCreate, SetSchedPeriod, JVCoreUp, JEventsDone, alarms
<1>1. CASE JClientStep(v)
  <2>1. \/ \E t \in Threads : Yield(v, t) \/ Exit(v, t)
        \/ \E t, u \in Threads : Create(v, t, u)
        \/ UNCHANGED vars
    BY <1>1 DEF JClientStep, JYield, JExit, JCreate, SetSchedPeriod
  <2>2. ASSUME vpc[v] = "uthread", NEW u, NEW r \in {"entry", "uthread"}, CallRunnable(v, u, r)
        PROVE  AlarmInv'
    <3>1. OnlyGoes(v) /\ vpc'[v] = "runnable" /\ ret'[v] = r
      BY <2>2 DEF CallRunnable, Goto, OnlyGoes, IInv, TypeOK
    <3>2. ~InLoop(v)' /\ ~InCallback(v) BY <2>2, <3>1 DEF InLoop, Loop, InCallback, Pausing
    <3> QED BY <1>0, <2>2, <3>1, <3>2, SameAlarms
  <2>3. ASSUME vpc[v] = "uthread", Goto(v, "entry"), UNCHANGED ret PROVE AlarmInv'
    <3>1. OnlyGoes(v) /\ vpc'[v] = "entry" BY <2>3 DEF Goto, OnlyGoes, IInv, TypeOK
    <3>2. ~InLoop(v)' /\ ~InCallback(v) BY <2>3, <3>1 DEF InLoop, Loop, Calling, InCallback, Pausing
    <3> QED BY <1>0, <2>3, <3>1, <3>2, SameAlarms
  <2>4. CASE \E t \in Threads : Yield(v, t) BY <2>2, <2>4 DEF Yield, Executes
  <2>5. CASE \E t \in Threads : Exit(v, t) BY <2>2, <2>3, <2>5 DEF Exit, Executes
  <2>6. CASE \E t, u \in Threads : Create(v, t, u) BY <2>2, <2>6 DEF Create, Executes
  <2>7. CASE UNCHANGED vars BY <1>0, <2>7, StutterAlarms DEF vars
  <2> QED BY <2>1, <2>4, <2>5, <2>6, <2>7
<1>2. CASE JVCoreUp(v)
  <2>1. vpc[v] = "offline" /\ Goto(v, "entry") /\ UNCHANGED ret BY <1>2 DEF JVCoreUp, VCoreUp
  <2>2. OnlyGoes(v) /\ vpc'[v] = "entry" BY <2>1 DEF Goto, OnlyGoes, IInv, TypeOK
  <2>3. ~InLoop(v)' /\ ~InCallback(v) BY <2>1, <2>2 DEF InLoop, Loop, Calling, InCallback, Pausing
  <2> QED BY <1>0, <2>1, <2>2, <2>3, SameAlarms
<1>3. CASE JEventsDone(v)
  <2>1. vpc[v] = "events" /\ Goto(v, "dequeue") /\ UNCHANGED ret
    BY <1>3 DEF JEventsDone, EventsDone
  <2>2. OnlyGoes(v) BY <2>1 DEF Goto, OnlyGoes, IInv, TypeOK
  <2>3. InLoop(v) /\ ~InCallback(v) BY <2>1 DEF InLoop, Loop, InCallback, Pausing
  <2> QED BY <1>0, <2>1, <2>2, <2>3, SameAlarms
<1> QED BY <1>1, <1>2, <1>3

\* Only the present data can be armed when their alarm fires; what the callback frees is
\* neither in the storage of the vcore nor held by its scheduler.
LEMMA FiringAlarms ==
  ASSUME IInv, AlarmInv, NEW v \in VCores, NEW d \in Data, AlarmFires(v, d)
  PROVE  AlarmInv'
<1>1. AlarmTypes /\ AliveAt(v) /\ LoopAt(v) BY DEF AlarmInv
<1>2. /\ d \in timers[v] /\ timers' = [timers EXCEPT ![v] = timers[v] \ {d}]
      /\ awaiter' = [awaiter EXCEPT ![v] = d] /\ dtls' = dtls /\ adata' = adata
      /\ vpc[v] \in {"uthread", "entry", "events"}
  BY DEF AlarmFires
<1>3. /\ timers'[v] = timers[v] \ {d} /\ awaiter'[v] = d
      /\ \A w \in VCores \ {v} : timers'[w] = timers[w] /\ awaiter'[w] = awaiter[w]
  BY <1>1, <1>2 DEF AlarmTypes
<1>4. d \in armed <=> d = dtls[v] BY <1>1, <1>2 DEF AliveAt, Referenced
<1>5. \/ d = dtls[v] /\ armed' = armed \ {d} /\ allocated' = allocated
      \/ d # dtls[v] /\ armed' = armed /\ allocated' = allocated \ {d}
  BY <1>4 DEF AlarmFires, Preempt, Discard
<1>6. /\ OnlyGoes(v)
      /\ \/ vpc'[v] = "runnable" /\ ret'[v] = "paused" /\ d = dtls[v]
         \/ vpc'[v] = "unlock" /\ ret'[v] = Interrupted(v)
  BY <1>4 DEF AlarmFires, Preempt, Discard, Unlock, CallRunnable, Goto, OnlyGoes, IInv, TypeOK
<1>7. AlarmTypes'
  <2>1. timers[v] \ {d} \in SUBSET Data /\ armed \ {d} \in SUBSET Data /\ allocated \ {d} \in SUBSET Data
    BY <1>1 DEF AlarmTypes
  <2>2. timers' \in [VCores -> SUBSET Data] BY <1>1, <1>2, <2>1 DEF AlarmTypes
  <2> QED BY <1>1, <1>2, <1>5, <2>1, <2>2 DEF AlarmTypes
<1>8. Referenced(v)' = {dtls[v], adata[v]} \cup (timers[v] \ {d}) BY <1>2, <1>3 DEF Referenced
<1>9. AliveAt(v)'
  <2>1. d \notin Referenced(v)' \/ d = dtls[v] BY <1>1, <1>8, NotData DEF LoopAt
  <2>2. Referenced(v)' \subseteq allocated' \cup {NULL}
    BY <1>1, <1>5, <1>8, <2>1 DEF AliveAt, Referenced
  <2>3. \A e \in Referenced(v)' : e \in armed => e = dtls[v] /\ e \in timers[v]
    BY <1>1, <1>8 DEF AliveAt, Referenced
  <2>4. dtls[v] \in timers[v] => dtls[v] \in armed BY <1>1 DEF AliveAt
  <2>5. dtls[v] \in Referenced(v)' BY <1>8
  <2>6. armed' \cap Referenced(v)' = {dtls[v]} \cap timers'[v]
    <3>1. CASE d = dtls[v] BY <1>3, <1>5, <2>3, <3>1
    <3>2. CASE d # dtls[v] BY <1>3, <1>5, <2>3, <2>4, <2>5, <3>2
    <3> QED BY <3>1, <3>2
  <2> QED BY <1>2, <2>2, <2>6 DEF AliveAt
<1>10. LoopAt(v)'
  <2>1. InLoop(v)' => InLoop(v) BY <1>2, <1>6 DEF InLoop, Loop, Calling, Interrupted
  <2> QED BY <1>1, <1>2, <1>5, <2>1 DEF LoopAt
<1>11. CallAt(v)' BY <1>2, <1>3, <1>6 DEF CallAt, InCallback, Pausing
<1>12. OnlyAt(v)
  <2>1. \A e \in allocated \ Referenced(v) : e \in allocated' /\ (e \in armed' <=> e \in armed)
    BY <1>2, <1>5 DEF Referenced
  <2>2. Referenced(v)' \subseteq Referenced(v) BY <1>8 DEF Referenced
  <2> QED BY <1>2, <1>3, <1>6, <2>1, <2>2 DEF OnlyAt
<1> QED BY <1>7, <1>9, <1>10, <1>11, <1>12, OtherAlarms

LEMMA InitAlarms == JuggleInit => AlarmInv
BY DEF JuggleInit, AlarmInv, AlarmTypes, NoneShared, AliveAt, LoopAt, CallAt, Referenced

LEMMA NextAlarms == IInv /\ AlarmInv /\ [JuggleNext]_jvars => AlarmInv'
<1> SUFFICES ASSUME IInv, AlarmInv, [JuggleNext]_jvars PROVE AlarmInv' OBVIOUS
<1>1. ASSUME NEW v \in VCores, JRuntimeStep(v) PROVE AlarmInv'
  BY <1>1, EntryAlarms, IdleAlarms, RequestAlarms, DequeueAlarms, ClientAlarms, ReturnAlarms
     DEF JRuntimeStep
<1>2. CASE \E v \in VCores : JClientStep(v) \/ JVCoreUp(v) BY <1>2, ClientAlarms
<1>3. CASE \E v \in VCores, d \in Data : AlarmFires(v, d) BY <1>3, FiringAlarms
<1>4. CASE (Finished /\ UNCHANGED alarms) \/ UNCHANGED jvars
  BY <1>4, StutterAlarms DEF Finished, jvars, vars, alarms
<1> QED BY <1>1, <1>2, <1>3, <1>4 DEF JuggleNext

\* Whichever of the alarms it left behind fire while its scheduler is at work, and whatever
\* malloc gives out again, no pointer of a vcore leads to alarm data that were freed: only the
\* callback that freed them still unlocks them.  No alarm of the present data is set twice.
THEOREM FreedAlarmsOnlyUnlocked == JuggleSpec => []FreedOnlyUnlocked
<1>1. JuggleInit => IInv /\ AlarmInv BY InitInvariant, InitAlarms DEF JuggleInit
<1>2. IInv /\ AlarmInv /\ [JuggleNext]_jvars => IInv' /\ AlarmInv' BY JuggleInvariant, NextAlarms
<1>3. AlarmInv => FreedOnlyUnlocked
  BY DEF AlarmInv, AliveAt, CallAt, NoneShared, FreedOnlyUnlocked
<1> QED BY <1>1, <1>2, <1>3, PTL DEF JuggleSpec
==============================================================================
