--------------------------- MODULE SemaphoreProofs ---------------------------
(***************************************************************************)
(* Proofs about Semaphore and the futex under it, for any finite sets of   *)
(* threads, any initial value and any number of calls.                     *)
(***************************************************************************)
EXTENDS Semaphore, SeqFacts, FiniteSetTheorems, SequenceTheorems, TLAPS

(***************************************************************************)
(* The inductive invariant.                                                *)
(***************************************************************************)
\* The queue of the word: empty as long as nobody created it.
Queue == IF lists = <<>> THEN <<>> ELSE lists[1]

Types ==
  /\ value \in Nat /\ nwaiters \in Nat
  /\ lists \in Seq(Seq(Waiters)) /\ Len(lists) <= 1
  /\ fpc \in [Threads -> F!FutexLabels] /\ flist \in [Threads -> {0, 1}]
  /\ unblocked \in [Threads -> Seq(Waiters)] /\ run \in [Threads -> {"running", "blocked"}]
  /\ spc \in [Threads -> Labels] /\ seen \in [Threads -> Nat]
  /\ acquired \in [Threads -> 0 .. MaxWaits] /\ posted \in [Threads -> 0 .. MaxPosts]

InFutexWait == {"wait_find", "wait_create", "block", "parked"}
InFutexWake == {"wake_find", "wake_create", "take", "wake", "wake_one"}

\* In unblock_futex_queue.
Waking == {"wake", "wake_one"}

\* Where a thread is in its call, and in the futex under it.  Who waits was counted in.
CallFits(t) ==
  /\ spc[t] \in {"check", "wake"} => t \in Posters
  /\ spc[t] \notin {"out", "check", "wake"} => t \in Waiters /\ acquired[t] < MaxWaits
  /\ fpc[t] \in InFutexWait => spc[t] = "wait"
  /\ fpc[t] \in InFutexWake <=> spc[t] = "wake"
  /\ fpc[t] \in {"block", "take"} => lists # <<>> /\ flist[t] = 1
  /\ spc[t] \in {"wait_call", "wait", "retry", "retry_cas"} => nwaiters > 0
  /\ spc[t] \in {"try_cas", "retry_cas"} => seen[t] > 0

\* The elements: each in the queue of the word or in that of one waker.
Elements ==
  /\ IsInjective(Queue)
  /\ \A s \in Threads :
       /\ IsInjective(unblocked[s]) /\ Range(unblocked[s]) \cap Range(Queue) = {}
       /\ unblocked[s] # <<>> => fpc[s] \in Waking
  /\ \A r, s \in Threads : r # s => Range(unblocked[r]) \cap Range(unblocked[s]) = {}
  /\ \A t \in Threads :
       fpc[t] = "parked" <=> t \in Range(Queue) \/ \E s \in Threads : t \in Range(unblocked[s])
  /\ \A t \in Threads : fpc[t] = "parked" => run[t] = "blocked"

\* Who is on the way: posters that have still to take an element off the queue, and
\* waiters that will look at the value again.
Wakers ==
  {t \in Posters : spc[t] = "check" \/ fpc[t] \in {"wake_find", "wake_create", "take"}}
Wokens ==
  {t \in Waiters : \/ spc[t] \in {"try", "try_cas", "retry", "retry_cas", "wait_call"}
                   \/ spc[t] = "wait" /\ t \notin Range(Queue)}

PostsKept == value > 0 /\ Range(Queue) # {} => Cardinality(Wakers) + Cardinality(Wokens) >= value

IInv == Types /\ (\A t \in Threads : CallFits(t)) /\ Elements /\ CountKept /\ PostsKept
----------------------------------------------------------------------------
LEMMA ThreadsFinite ==
  /\ IsFiniteSet(Threads) /\ IsFiniteSet(Waiters) /\ IsFiniteSet(Posters)
  /\ MaxWaits \in Nat /\ MaxPosts \in Nat /\ InitialValue \in Nat
BY SemaphoreAssumption, FS_Union DEF SemaphoreAssumption, Threads

LEMMA QueueFits ==
  ASSUME Types
  PROVE  /\ Queue \in Seq(Waiters) /\ Range(Queue) \subseteq Waiters
         /\ \A t \in Threads : F!InList(t) <=> t \in Range(Queue)
         /\ lists # <<>> => Len(lists) = 1 /\ DOMAIN lists = {1} /\ Queue = lists[1]
<1> DEFINE Q == Seq(Waiters)
<1>0. lists \in Seq(Q) /\ Len(lists) <= 1 BY DEF Types
<1> HIDE DEF Q
<1>1. lists # <<>> => Len(lists) = 1 /\ DOMAIN lists = {1} /\ lists[1] \in Seq(Waiters)
  <2>1. lists # <<>> => Len(lists) # 0 BY <1>0
  <2>2. Len(lists) \in Nat /\ DOMAIN lists = 1 .. Len(lists) BY <1>0
  <2>3. lists # <<>> => Len(lists) = 1 BY <1>0, <2>1, <2>2
  <2>4. lists # <<>> => lists[1] \in Q BY <1>0, <2>3
  <2>5. 1 .. 1 = {1} OBVIOUS
  <2>6. lists # <<>> => DOMAIN lists = {1} BY <2>2, <2>3, <2>5
  <2> QED BY <2>3, <2>4, <2>6 DEF Q
<1>2. Queue \in Seq(Waiters) BY <1>1 DEF Queue
<1>3. lists = <<>> => Range(Queue) = {} /\ DOMAIN lists = {} BY DEF Queue, Range
<1>4. \A t \in Threads : F!InList(t) <=> t \in Range(Queue)
  BY <1>1, <1>3 DEF F!InList, F!Range, Range, Queue
<1>5. Range(Queue) \subseteq Waiters BY <1>2 DEF Range
<1> QED BY <1>1, <1>2, <1>4, <1>5 DEF Queue

\* One more call is one more.
LEMMA CallsCount ==
  ASSUME NEW max \in Nat, NEW made \in [Threads -> 0 .. max]
  PROVE  /\ IsFiniteSet(Calls(made)) /\ Cardinality(Calls(made)) \in Nat
         /\ \A t \in Threads :
              Cardinality(Calls([made EXCEPT ![t] = @ + 1])) = Cardinality(Calls(made)) + 1
<1>1. Calls(made) \subseteq Threads \X (1 .. max) BY DEF Calls
<1>2. IsFiniteSet(Threads \X (1 .. max))
  <2>1. 1 \in Int /\ max \in Int OBVIOUS
  <2>2. IsFiniteSet(1 .. max) BY <2>1, FS_Interval
  <2> QED BY <2>2, ThreadsFinite, FS_Product
<1>3. IsFiniteSet(Calls(made)) BY <1>1, <1>2, FS_Subset
<1>4. ASSUME NEW t \in Threads
      PROVE  Cardinality(Calls([made EXCEPT ![t] = @ + 1])) = Cardinality(Calls(made)) + 1
  <2> DEFINE more == [made EXCEPT ![t] = @ + 1]
             call == <<t, made[t] + 1>>
  <2>1. made[t] \in Nat /\ more[t] = made[t] + 1 /\ \A u \in Threads \ {t} : more[u] = made[u]
    OBVIOUS
  <2>2. \A n : n \in 1 .. made[t] + 1 <=> n \in 1 .. made[t] \/ n = made[t] + 1 BY <2>1
  <2>3. \A u \in Threads : \A n : <<u, n>> \in Calls(more) <=> n \in 1 .. more[u] BY DEF Calls
  <2>4. \A u \in Threads : \A n : <<u, n>> \in Calls(made) <=> n \in 1 .. made[u] BY DEF Calls
  <2> HIDE DEF more
  <2>5. \A u \in Threads : \A n : <<u, n>> \in Calls(more) <=> <<u, n>> \in Calls(made) \/ <<u, n>> = call
    BY <2>1, <2>2, <2>3, <2>4
  <2>6. \A c \in Calls(more) \cup Calls(made) \cup {call} : \E u \in Threads, n \in Nat : c = <<u, n>>
    BY <2>1 DEF Calls
  <2>7. Calls(more) = Calls(made) \cup {call} BY <2>5, <2>6
  <2>8. call \notin Calls(made) BY <2>1, <2>4
  <2> QED BY <1>3, <2>7, <2>8, FS_AddElement DEF more
<1> QED BY <1>3, <1>4, FS_CardinalityType

\* The sets of those on the way are finite.
LEMMA WayFinite ==
  /\ IsFiniteSet(Wakers) /\ Cardinality(Wakers) \in Nat
  /\ IsFiniteSet(Wokens) /\ Cardinality(Wokens) \in Nat
<1>1. Wakers \subseteq Posters /\ Wokens \subseteq Waiters BY DEF Wakers, Wokens
<1>2. IsFiniteSet(Wakers) /\ IsFiniteSet(Wokens) BY <1>1, ThreadsFinite, FS_Subset
<1> QED BY <1>2, FS_CardinalityType

LEMMA WayFiniteNext ==
  /\ IsFiniteSet(Wakers') /\ Cardinality(Wakers') \in Nat
  /\ IsFiniteSet(Wokens') /\ Cardinality(Wokens') \in Nat
<1>1. Wakers' \subseteq Posters /\ Wokens' \subseteq Waiters BY DEF Wakers, Wokens
<1>2. IsFiniteSet(Wakers') /\ IsFiniteSet(Wokens') BY <1>1, ThreadsFinite, FS_Subset
<1> QED BY <1>2, FS_CardinalityType

\* Nobody leaves, and no post is added.
LEMMA WayKept ==
  ASSUME Types, PostsKept, UNCHANGED value, Range(Queue') \subseteq Range(Queue),
         value > 0 /\ Range(Queue) # {} => Wakers \subseteq Wakers' /\ Wokens \subseteq Wokens'
  PROVE  PostsKept'
<1> SUFFICES ASSUME value > 0, Range(Queue') # {}
             PROVE  Cardinality(Wakers') + Cardinality(Wokens') >= value
  BY DEF PostsKept
<1>1. Cardinality(Wakers) <= Cardinality(Wakers') BY WayFiniteNext, FS_Subset
<1>2. Cardinality(Wokens) <= Cardinality(Wokens') BY WayFiniteNext, FS_Subset
<1>3. Cardinality(Wakers) + Cardinality(Wokens) >= value BY DEF PostsKept
<1>4. value \in Nat BY DEF Types
<1> QED BY <1>1, <1>2, <1>3, <1>4, WayFinite, WayFiniteNext

LEMMA OthersFit ==
  ASSUME IInv, NEW t \in Threads, CallFits(t)',
         \A u \in Threads \ {t} :
           /\ spc'[u] = spc[u] /\ fpc'[u] = fpc[u] /\ flist'[u] = flist[u]
           /\ acquired'[u] = acquired[u] /\ seen'[u] = seen[u],
         lists # <<>> => lists' # <<>>, nwaiters' \in Nat, nwaiters' >= nwaiters
  PROVE  \A u \in Threads : CallFits(u)'
<1> SUFFICES ASSUME NEW u \in Threads \ {t} PROVE CallFits(u)' OBVIOUS
<1>1. CallFits(u) /\ nwaiters \in Nat BY DEF IInv, Types
<1> QED BY <1>1 DEF CallFits

LEMMA SameElements ==
  ASSUME Elements, UNCHANGED <<Queue, unblocked, run>>,
         \A u \in Threads : fpc'[u] = "parked" <=> fpc[u] = "parked",
         \A u \in Threads : unblocked[u] # <<>> /\ fpc[u] \in Waking => fpc'[u] \in Waking
  PROVE  Elements'
BY DEF Elements

\* A step outside the futex.
LEMMA LocalInvariant ==
  ASSUME IInv, NEW t \in Threads, NEW l \in Labels, Goto(t, l),
         UNCHANGED <<value, futexVars, acquired, posted>>,
         seen' \in [Threads -> Nat], \A u \in Threads \ {t} : seen'[u] = seen[u],
         nwaiters' \in Nat, nwaiters' >= nwaiters, CallFits(t)',
         value > 0 /\ Range(Queue) # {} =>
           (t \in Wakers => t \in Wakers') /\ (t \in Wokens => t \in Wokens')
  PROVE  IInv'
<1> USE DEF IInv
<1>1. spc' \in [Threads -> Labels] /\ \A u \in Threads \ {t} : spc'[u] = spc[u] BY DEF Goto, Types
<1>2. Types' BY <1>1 DEF Types, futexVars
<1>3. \A u \in Threads : CallFits(u)' BY <1>1, OthersFit DEF futexVars
<1>4. UNCHANGED Queue BY DEF Queue, futexVars
<1>5. Elements' BY <1>4, SameElements DEF futexVars
<1>6. CountKept' BY DEF CountKept
<1>7. PostsKept'
  <2>1. \A u \in Posters \ {t} : u \in Wakers => u \in Wakers'
    BY <1>1 DEF Wakers, futexVars, Threads
  <2>2. \A u \in Waiters \ {t} : u \in Wokens => u \in Wokens'
    BY <1>1, <1>4 DEF Wokens, Threads
  <2>3. value > 0 /\ Range(Queue) # {} => Wakers \subseteq Wakers' /\ Wokens \subseteq Wokens'
    BY <2>1, <2>2 DEF Wakers, Wokens
  <2> QED BY <1>4, <2>3, WayKept
<1> QED BY <1>2, <1>3, <1>5, <1>6, <1>7
LEMMA LabelsFit ==
  /\ Labels = {"out", "try", "try_cas", "count", "wait_call", "wait", "retry", "retry_cas", "check", "wake"}
  /\ F!FutexLabels = {"out", "wait_find", "wait_create", "block", "parked", "wake_find", "wake_create",
                      "take", "wake", "wake_one"}
BY DEF Labels, F!FutexLabels

LEMMA GotoFits ==
  ASSUME IInv, NEW t \in Threads, NEW l \in Labels, Goto(t, l)
  PROVE  spc' \in [Threads -> Labels] /\ spc'[t] = l /\ \A u \in Threads \ {t} : spc'[u] = spc[u]
BY DEF Goto, IInv, Types

\* Starting to wait, and being counted in.
LEMMA CountInvariant ==
  ASSUME IInv, NEW t \in Threads, WaitStart(t) \/ CountIn(t)
  PROVE  IInv'
<1>1. CallFits(t) /\ nwaiters \in Nat BY DEF IInv, Types
<1>2. PICK l \in {"try", "wait_call"} : Goto(t, l) /\ (l = "wait_call" <=> spc[t] = "count")
  BY DEF WaitStart, CountIn
<1>3. l \in Labels BY LabelsFit
<1>4. spc'[t] = l BY <1>2, <1>3, GotoFits
<1>5. UNCHANGED <<value, futexVars, acquired, posted, seen>> BY DEF WaitStart, CountIn
<1>6. nwaiters' \in Nat /\ nwaiters' >= nwaiters /\ (l = "wait_call" => nwaiters' > 0)
  BY <1>1, <1>2 DEF WaitStart, CountIn
<1>7. \/ spc[t] = "out" /\ t \in Waiters /\ acquired[t] < MaxWaits /\ l = "try"
      \/ spc[t] = "count" /\ l = "wait_call"
  BY <1>2 DEF WaitStart, CountIn
<1>8. CallFits(t)' BY <1>1, <1>4, <1>5, <1>6, <1>7 DEF CallFits, futexVars, InFutexWait, InFutexWake
<1>9. t \in Waiters /\ t \notin Posters
  BY <1>1, <1>7, SemaphoreAssumption DEF CallFits, SemaphoreAssumption
<1>10. t \in Wokens' /\ t \notin Wakers BY <1>4, <1>7, <1>9 DEF Wokens, Wakers
<1> QED BY <1>2, <1>3, <1>5, <1>6, <1>8, <1>10, LocalInvariant DEF IInv, Types

\* The read before a decrement: a waiter that gives up found no count.
LEMMA ReadInvariant ==
  ASSUME IInv, NEW t \in Threads,
         NEW now, NEW cas, NEW fail, DecrementRead(t, now, cas, fail),
         <<now, cas, fail>> \in {<<"try", "try_cas", "count">>, <<"retry", "retry_cas", "wait_call">>}
  PROVE  IInv'
<1>1. CallFits(t) /\ value \in Nat BY DEF IInv, Types
<1>2. /\ spc[t] = now /\ UNCHANGED <<value, futexVars, nwaiters, acquired, posted>>
      /\ seen' = [seen EXCEPT ![t] = IF value > 0 THEN value ELSE 0]
  BY DEF DecrementRead
<1>3. PICK l \in {cas, fail} : Goto(t, l) /\ (value > 0 => l = cas) /\ (value = 0 => l = fail)
  <2>1. CASE value > 0 BY <1>1, <2>1 DEF DecrementRead
  <2>2. CASE ~(value > 0) BY <1>1, <2>2 DEF DecrementRead
  <2> QED BY <2>1, <2>2
<1>4. l \in Labels BY LabelsFit
<1>5. spc'[t] = l BY <1>3, <1>4, GotoFits
<1>6. /\ seen' \in [Threads -> Nat] /\ \A u \in Threads \ {t} : seen'[u] = seen[u]
      /\ value > 0 => seen'[t] = value
  BY <1>1, <1>2 DEF IInv, Types
<1>7. CallFits(t)'
  BY <1>1, <1>2, <1>3, <1>5, <1>6 DEF CallFits, futexVars, InFutexWait, InFutexWake
<1>8. t \in Waiters /\ t \notin Posters
  BY <1>1, <1>2, SemaphoreAssumption DEF CallFits, SemaphoreAssumption
<1>9. value > 0 => t \in Wokens' /\ t \notin Wakers BY <1>3, <1>5, <1>8 DEF Wokens, Wakers
<1> QED BY <1>2, <1>3, <1>4, <1>6, <1>7, <1>9, LocalInvariant DEF IInv, Types

\* The decrement: one count and one waiter on its way less, or another try.
LEMMA CasInvariant ==
  ASSUME IInv, NEW t \in Threads, NEW now, NEW again, DecrementCas(t, now, again),
         <<now, again>> \in {<<"try_cas", "try">>, <<"retry_cas", "retry">>}
  PROVE  IInv'
<1> USE DEF IInv
<1>1. CallFits(t) /\ value \in Nat /\ acquired[t] \in Nat /\ MaxWaits \in Nat
  BY SemaphoreAssumption DEF Types, SemaphoreAssumption
<1>2. /\ spc[t] = now /\ UNCHANGED <<futexVars, nwaiters, posted>>
      /\ seen' = [seen EXCEPT ![t] = 0]
  BY DEF DecrementCas
<1>3. /\ t \in Waiters /\ t \notin Posters /\ acquired[t] < MaxWaits
      /\ seen[t] > 0 /\ t \in Wokens /\ t \notin Wakers
  BY <1>1, <1>2, SemaphoreAssumption DEF CallFits, SemaphoreAssumption, Wokens, Wakers
<1>4. /\ seen' \in [Threads -> Nat] /\ \A u \in Threads \ {t} : seen'[u] = seen[u]
      /\ seen'[t] = 0
  BY <1>2 DEF Types
<1>5. CASE value # seen[t]
  <2>1. Goto(t, again) /\ UNCHANGED <<value, acquired>> BY <1>5 DEF DecrementCas
  <2>2. again \in Labels BY LabelsFit
  <2>3. spc'[t] = again BY <2>1, <2>2, GotoFits
  <2>4. CallFits(t)' BY <1>1, <1>2, <2>1, <2>3 DEF CallFits, futexVars, InFutexWait, InFutexWake
  <2>5. t \in Wokens' BY <1>3, <2>3 DEF Wokens
  <2> QED BY <1>2, <1>3, <1>4, <2>1, <2>2, <2>4, <2>5, LocalInvariant DEF Types
<1>6. CASE value = seen[t]
  <2>1. value' = value - 1 /\ acquired' = [acquired EXCEPT ![t] = @ + 1] /\ Goto(t, "out")
    BY <1>6 DEF DecrementCas
  <2>2. "out" \in Labels BY LabelsFit
  <2>3. spc' \in [Threads -> Labels] /\ spc'[t] = "out" /\ \A u \in Threads \ {t} : spc'[u] = spc[u]
    BY <2>1, <2>2, GotoFits
  <2>4. acquired' \in [Threads -> 0 .. MaxWaits] /\ \A u \in Threads \ {t} : acquired'[u] = acquired[u]
    BY <1>1, <1>3, <2>1 DEF Types
  <2>5. value' \in Nat BY <1>1, <1>3, <1>6, <2>1
  <2>6. Types' BY <1>2, <1>4, <2>3, <2>4, <2>5 DEF Types, futexVars
  <2>7. CallFits(t)' BY <1>1, <1>2, <2>3 DEF CallFits, futexVars, InFutexWait, InFutexWake
  <2>8. \A u \in Threads : CallFits(u)'
    <3>1. nwaiters' \in Nat /\ nwaiters' >= nwaiters BY <1>2 DEF Types
    <3>2. UNCHANGED <<lists, fpc, flist>> BY <1>2 DEF futexVars
    <3> HIDE DEF IInv
    <3> QED BY <1>4, <2>3, <2>4, <2>7, <3>1, <3>2, OthersFit
  <2>9. UNCHANGED Queue BY <1>2 DEF Queue, futexVars
  <2>10. Elements' BY <1>2, <2>9, SameElements DEF futexVars
  <2>11. CountKept'
    <3>1. Cardinality(Calls(acquired')) = Cardinality(Calls(acquired)) + 1
      BY <1>1, <2>1, CallsCount DEF Types
    <3>2. Cardinality(Calls(acquired)) \in Nat /\ Cardinality(Calls(posted)) \in Nat
      BY CallsCount, ThreadsFinite DEF Types
    <3> QED BY <1>2, <2>1, <2>5, <3>1, <3>2, ThreadsFinite DEF CountKept
  <2>12. PostsKept'
    <3>1. Wakers' = Wakers
      BY <1>2, <1>3, <2>3 DEF Wakers, futexVars, Threads
    <3>2. Wokens' = Wokens \ {t}
      BY <1>2, <1>3, <2>3, <2>9 DEF Wokens, futexVars, Threads
    <3>3. Cardinality(Wokens') = Cardinality(Wokens) - 1 BY <1>3, <3>2, WayFinite, FS_RemoveElement
    <3> SUFFICES ASSUME value' > 0, Range(Queue) # {}
                 PROVE  Cardinality(Wakers') + Cardinality(Wokens') >= value'
      BY <2>9 DEF PostsKept
    <3>4. value > 0 BY <1>1, <2>1
    <3>5. Cardinality(Wakers) + Cardinality(Wokens) >= value BY <3>4 DEF PostsKept
    <3> QED BY <1>1, <2>1, <3>1, <3>3, <3>5, WayFinite
  <2> QED BY <2>6, <2>8, <2>10, <2>11, <2>12
<1> QED BY <1>5, <1>6
\* The post: one count more, and a waker on its way for it.
LEMMA AddInvariant ==
  ASSUME IInv, NEW t \in Threads, PostAdd(t)
  PROVE  IInv'
<1>1. /\ Types /\ CallFits(t) /\ value \in Nat /\ posted[t] \in Nat /\ MaxPosts \in Nat /\ nwaiters \in Nat
      /\ Elements /\ CountKept /\ PostsKept
  BY SemaphoreAssumption DEF IInv, Types, SemaphoreAssumption
<1>2. /\ t \in Posters /\ spc[t] = "out" /\ posted[t] < MaxPosts /\ value' = value + 1
      /\ posted' = [posted EXCEPT ![t] = @ + 1] /\ Goto(t, "check")
      /\ UNCHANGED <<lists, fpc, flist, unblocked, run, nwaiters, seen, acquired>>
  BY DEF PostAdd, futexVars
<1>3. "check" \in Labels BY LabelsFit
<1>4. spc' \in [Threads -> Labels] /\ spc'[t] = "check" /\ \A u \in Threads \ {t} : spc'[u] = spc[u]
  BY <1>2, <1>3, GotoFits
<1>5. posted' \in [Threads -> 0 .. MaxPosts] BY <1>1, <1>2 DEF Types
<1>6. Types' BY <1>1, <1>2, <1>4, <1>5 DEF Types
<1>7. CallFits(t)' BY <1>1, <1>2, <1>4 DEF CallFits, InFutexWait, InFutexWake
<1>8. \A u \in Threads : CallFits(u)' BY <1>1, <1>2, <1>4, <1>7, OthersFit
<1>9. UNCHANGED Queue BY <1>2 DEF Queue
<1>10. Elements' BY <1>1, <1>2, <1>9, SameElements
<1>11. CountKept'
  <2>1. Cardinality(Calls(posted')) = Cardinality(Calls(posted)) + 1
    BY <1>1, <1>2, CallsCount DEF Types
  <2>2. Cardinality(Calls(acquired)) \in Nat /\ Cardinality(Calls(posted)) \in Nat
    BY <1>1, CallsCount, ThreadsFinite DEF Types
  <2> QED BY <1>1, <1>2, <2>1, <2>2, ThreadsFinite DEF CountKept
<1>12. PostsKept'
  <2>1. t \notin Wakers /\ t \notin Waiters
    BY <1>1, <1>2, SemaphoreAssumption DEF Wakers, CallFits, InFutexWake, SemaphoreAssumption
  <2>2. Wakers' = Wakers \cup {t} BY <1>2, <1>4 DEF Wakers, Threads
  <2>3. Wokens' = Wokens BY <1>2, <1>4, <1>9, <2>1 DEF Wokens, Threads
  <2>4. Cardinality(Wakers') = Cardinality(Wakers) + 1 BY <2>1, <2>2, WayFinite, FS_AddElement
  <2> SUFFICES ASSUME Range(Queue) # {}
               PROVE  Cardinality(Wakers') + Cardinality(Wokens') >= value + 1
    BY <1>2, <1>9 DEF PostsKept
  <2>5. CASE value > 0 BY <1>1, <2>3, <2>4, <2>5, WayFinite DEF PostsKept
  <2>6. CASE value = 0 BY <2>3, <2>4, <2>6, WayFinite
  <2> QED BY <1>1, <2>5, <2>6
<1> QED BY <1>6, <1>8, <1>10, <1>11, <1>12 DEF IInv

\* A step of t in the futex that wakes nobody: the elements and who is on the way stay.
LEMMA FutexInvariant ==
  ASSUME IInv, NEW t \in Threads, NEW l \in Labels, Goto(t, l),
         NEW m \in F!FutexLabels, F!FGoto(t, m),
         UNCHANGED <<value, nwaiters, unblocked, run, seen, acquired, posted>>,
         lists' = lists \/ (lists = <<>> /\ lists' = << <<>> >>),
         flist' \in [Threads -> {0, 1}], \A u \in Threads \ {t} : flist'[u] = flist[u],
         CallFits(t)', fpc[t] # "parked", m # "parked",
         unblocked[t] = <<>> \/ {fpc[t], m} \subseteq Waking,
         t \in Wakers => t \in Wakers', t \in Wokens => t \in Wokens'
  PROVE  IInv'
<1>1. /\ spc' \in [Threads -> Labels] /\ spc'[t] = l /\ \A u \in Threads \ {t} : spc'[u] = spc[u]
  BY GotoFits
<1>2. Types /\ Elements /\ CountKept /\ PostsKept /\ nwaiters \in Nat BY DEF IInv, Types
<1>3. /\ fpc' \in [Threads -> F!FutexLabels] /\ fpc'[t] = m /\ \A u \in Threads \ {t} : fpc'[u] = fpc[u]
  BY <1>2 DEF F!FGoto, Types
<1>4. lists' \in Seq(Seq(Waiters)) /\ Len(lists') <= 1 /\ (lists # <<>> => lists' # <<>>)
  <2>1. CASE lists' = lists BY <1>2, <2>1 DEF Types
  <2>2. CASE lists = <<>> /\ lists' = << <<>> >>
    <3>1. <<>> \in Seq(Waiters) OBVIOUS
    <3> QED BY <2>2, <3>1
  <2> QED BY <2>1, <2>2
<1>5. Queue' = Queue BY DEF Queue
<1>6. Types' BY <1>1, <1>2, <1>3, <1>4 DEF Types
<1>7. \A u \in Threads : CallFits(u)' BY <1>1, <1>2, <1>3, <1>4, OthersFit
<1>8. Elements' BY <1>2, <1>3, <1>5, SameElements
<1>9. CountKept' BY <1>2 DEF CountKept
<1>10. Wakers \subseteq Wakers' BY <1>1, <1>3 DEF Wakers, Threads
<1>11. Wokens \subseteq Wokens' BY <1>1, <1>5 DEF Wokens, Threads
<1>12. PostsKept' BY <1>2, <1>5, <1>10, <1>11, WayKept
<1> QED BY <1>6, <1>7, <1>8, <1>9, <1>12 DEF IInv

LEMMA SameSpc ==
  ASSUME IInv, NEW t \in Threads, UNCHANGED spc
  PROVE  Goto(t, spc[t]) /\ spc[t] \in Labels
BY DEF Goto, IInv, Types

LEMMA FindInvariant ==
  ASSUME IInv, NEW t \in Threads, FindList(t)
  PROVE  IInv'
<1>1. Types /\ CallFits(t) /\ Elements BY DEF IInv
<1>2. UNCHANGED <<value, nwaiters, unblocked, run, spc, seen, acquired, posted>>
  BY DEF FindList, F!GetFutexList, F!FindList, F!CreateList
<1>3. lists' = lists \/ (lists = <<>> /\ lists' = << <<>> >>)
  BY DEF FindList, F!GetFutexList, F!FindList, F!CreateList
<1>4. PICK m \in F!FutexLabels :
        /\ F!FGoto(t, m)
        /\ \/ fpc[t] \in {"wait_find", "wait_create"} /\ m \in {"wait_create", "block"}
           \/ fpc[t] \in {"wake_find", "wake_create"} /\ m \in {"wake_create", "take"}
        /\ \/ m \in {"block", "take"} /\ flist' = [flist EXCEPT ![t] = 1] /\ lists' # <<>>
           \/ m \notin {"block", "take"} /\ flist' = flist
  BY LabelsFit DEF FindList, F!GetFutexList, F!FindList, F!CreateList
<1>5. fpc'[t] = m BY <1>1, <1>4 DEF F!FGoto, Types
<1>6. flist' \in [Threads -> {0, 1}] /\ \A u \in Threads \ {t} : flist'[u] = flist[u]
  BY <1>1, <1>4 DEF Types
<1>7. m \in {"block", "take"} => flist'[t] = 1 /\ lists' # <<>> BY <1>1, <1>4 DEF Types
<1>8. CallFits(t)' BY <1>1, <1>2, <1>4, <1>5, <1>7 DEF CallFits, InFutexWait, InFutexWake
<1>9. unblocked[t] = <<>> BY <1>1, <1>4 DEF Elements, Waking
<1>10. Queue' = Queue BY <1>3 DEF Queue
<1>11. t \in Wakers => t \in Wakers'
  BY <1>1, <1>2, <1>4, <1>5 DEF Wakers, CallFits, InFutexWait, InFutexWake
<1>12. t \in Wokens => t \in Wokens' BY <1>2, <1>10 DEF Wokens
<1>13. Goto(t, spc[t]) /\ spc[t] \in Labels BY <1>2, SameSpc
<1>14. fpc[t] # "parked" /\ m # "parked" BY <1>4
<1> QED BY <1>2, <1>3, <1>4, <1>6, <1>8, <1>9, <1>11, <1>12, <1>13, <1>14, FutexInvariant
\* FUTEX_WAIT without the last look at the word.
LEMMA WaitInvariant ==
  ASSUME IInv, NEW t \in Threads, FutexWait(t), ~(fpc[t] = "block" /\ value = 0)
  PROVE  IInv'
<1>1. Types /\ CallFits(t) /\ Elements /\ value \in Nat BY DEF IInv, Types
<1>2. /\ spc[t] \in {"wait_call", "wait"} /\ t \in Waiters /\ t \notin Posters
      /\ UNCHANGED <<value, nwaiters, seen, acquired, posted>>
  BY <1>1, SemaphoreAssumption
     DEF FutexWait, F!WaitCall, F!Block, futexVars, CallFits, SemaphoreAssumption
<1>3. t \notin Wakers /\ unblocked[t] = <<>>
  BY <1>1, <1>2 DEF Wakers, CallFits, InFutexWake, Elements, Waking
<1>4. CASE spc[t] = "wait_call"
  <2>1. Goto(t, "wait") /\ F!WaitCall(t, 0) /\ fpc[t] = "out"
    BY <1>4 DEF FutexWait, F!WaitCall
  <2>2. "wait" \in Labels BY LabelsFit
  <2>3. spc'[t] = "wait" BY <2>1, <2>2, GotoFits
  <2>4. PICK m \in {"out", "wait_find"} : F!FGoto(t, m)
    <3>1. CASE value = 0 BY <2>1, <3>1 DEF F!WaitCall
    <3>2. CASE value # 0
      <4>1. UNCHANGED fpc BY <2>1, <3>2 DEF F!WaitCall
      <4> QED BY <1>1, <2>1, <4>1 DEF F!FGoto, Types
    <3> QED BY <3>1, <3>2
  <2>5. m \in F!FutexLabels BY LabelsFit
  <2>6. fpc'[t] = m BY <1>1, <2>4 DEF F!FGoto, Types
  <2>7. UNCHANGED <<lists, flist, unblocked, run>> BY <2>1 DEF F!WaitCall
  <2>8. CallFits(t)'
    BY <1>1, <1>2, <1>4, <2>3, <2>6, <2>7 DEF CallFits, InFutexWait, InFutexWake
  <2>9. UNCHANGED Queue BY <2>7 DEF Queue
  <2>10. t \in Wokens' BY <1>1, <1>2, <2>1, <2>3, <2>9 DEF Wokens, Elements
  <2>11. flist' \in [Threads -> {0, 1}] /\ \A u \in Threads \ {t} : flist'[u] = flist[u]
    BY <1>1, <2>7 DEF Types
  <2> QED BY <1>2, <1>3, <2>1, <2>2, <2>4, <2>5, <2>7, <2>8, <2>10, <2>11, FutexInvariant
<1>5. CASE spc[t] = "wait" /\ fpc[t] = "block"
  <2>1. F!Block(t, 0) /\ UNCHANGED spc /\ value # 0 BY <1>5 DEF FutexWait
  <2>2. /\ F!FGoto(t, "out") /\ flist' = [flist EXCEPT ![t] = 0]
        /\ UNCHANGED <<lists, run, value, unblocked>>
    BY <2>1 DEF F!Block
  <2>3. "out" \in F!FutexLabels BY LabelsFit
  <2>4. fpc'[t] = "out" BY <1>1, <2>2 DEF F!FGoto, Types
  <2>5. flist' \in [Threads -> {0, 1}] /\ \A u \in Threads \ {t} : flist'[u] = flist[u]
    BY <1>1, <2>2 DEF Types
  <2>6. CallFits(t)'
    BY <1>1, <1>2, <1>5, <2>1, <2>2, <2>4 DEF CallFits, InFutexWait, InFutexWake
  <2>7. UNCHANGED Queue BY <2>2 DEF Queue
  <2>8. t \in Wokens => t \in Wokens' BY <2>1, <2>7 DEF Wokens
  <2>9. Goto(t, spc[t]) /\ spc[t] \in Labels BY <2>1, SameSpc
  <2> QED BY <1>2, <1>3, <1>5, <2>2, <2>3, <2>5, <2>6, <2>8, <2>9, FutexInvariant
<1>6. CASE spc[t] = "wait" /\ fpc[t] # "block"
  <2>1. Goto(t, "retry") /\ UNCHANGED futexVars /\ fpc[t] = "out"
    BY <1>6 DEF FutexWait, F!Block
  <2>2. "retry" \in Labels BY LabelsFit
  <2>3. spc'[t] = "retry" BY <2>1, <2>2, GotoFits
  <2>4. CallFits(t)'
    BY <1>1, <1>2, <1>6, <2>1, <2>3 DEF CallFits, futexVars, InFutexWait, InFutexWake
  <2>5. t \in Wokens' BY <1>2, <2>3 DEF Wokens
  <2> QED BY <1>1, <1>2, <1>3, <2>1, <2>2, <2>4, <2>5, LocalInvariant DEF Types
<1> QED BY <1>2, <1>4, <1>5, <1>6

\* A poster that sees nobody counted in need not wake: nobody is in the queue.
LEMMA CheckInvariant ==
  ASSUME IInv, NEW t \in Threads, PostCheck(t)
  PROVE  IInv'
<1>1. Types /\ CallFits(t) /\ Elements /\ nwaiters \in Nat BY DEF IInv, Types
<1>2. /\ spc[t] = "check" /\ t \in Posters /\ t \notin Waiters
      /\ UNCHANGED <<value, nwaiters, seen, acquired, posted>>
  BY <1>1, SemaphoreAssumption DEF PostCheck, CallFits, SemaphoreAssumption
<1>3. t \notin Wokens BY <1>2 DEF Wokens
<1>4. fpc[t] \notin InFutexWait \cup InFutexWake BY <1>1, <1>2 DEF CallFits
<1>5. CASE nwaiters > 0
  <2>1. F!WakeCall(t) /\ Goto(t, "wake") BY <1>5 DEF PostCheck
  <2>2. "wake" \in Labels /\ "wake_find" \in F!FutexLabels BY LabelsFit
  <2>3. spc'[t] = "wake" BY <2>1, <2>2, GotoFits
  <2>4. F!FGoto(t, "wake_find") /\ UNCHANGED <<lists, flist, unblocked, run>>
    BY <2>1 DEF F!WakeCall
  <2>5. fpc'[t] = "wake_find" BY <1>1, <2>4 DEF F!FGoto, Types
  <2>6. CallFits(t)' BY <1>1, <1>2, <2>3, <2>4, <2>5 DEF CallFits, InFutexWait, InFutexWake
  <2>7. t \in Wakers' BY <1>2, <2>5 DEF Wakers
  <2>8. unblocked[t] = <<>> /\ fpc[t] # "parked"
    BY <1>1, <1>4 DEF Elements, InFutexWait, InFutexWake, Waking
  <2>9. flist' \in [Threads -> {0, 1}] BY <1>1, <2>4 DEF Types
  <2> QED BY <1>2, <1>3, <2>1, <2>2, <2>4, <2>6, <2>7, <2>8, <2>9, FutexInvariant
<1>6. CASE ~(nwaiters > 0)
  <2>1. Goto(t, "out") /\ UNCHANGED futexVars BY <1>6 DEF PostCheck
  <2>2. "out" \in Labels BY LabelsFit
  <2>3. spc'[t] = "out" BY <2>1, <2>2, GotoFits
  <2>4. CallFits(t)' BY <1>1, <1>2, <1>4, <2>1, <2>3 DEF CallFits, futexVars, InFutexWait, InFutexWake
  <2>5. Range(Queue) = {}
    <3>1. \A u \in Threads : fpc[u] # "parked"
      BY <1>6 DEF IInv, CallFits, InFutexWait
    <3>2. Range(Queue) \subseteq Threads BY <1>1, QueueFits DEF Threads
    <3> QED BY <1>1, <3>1, <3>2 DEF Elements
  <2> QED BY <1>1, <1>2, <2>1, <2>2, <2>4, <2>5, LocalInvariant DEF Types
<1> QED BY <1>5, <1>6

LEMMA WakeDoneInvariant ==
  ASSUME IInv, NEW t \in Threads, spc[t] = "wake", F!WakeDone(t), Goto(t, "out"),
         UNCHANGED <<nwaiters, seen, acquired, posted>>
  PROVE  IInv'
<1>1. Types /\ CallFits(t) BY DEF IInv
<1>2. /\ fpc[t] = "wake" /\ unblocked[t] = <<>> /\ F!FGoto(t, "out")
      /\ flist' = [flist EXCEPT ![t] = 0] /\ UNCHANGED <<value, lists, unblocked, run>>
  BY DEF F!WakeDone
<1>3. "out" \in Labels /\ "out" \in F!FutexLabels BY LabelsFit
<1>4. spc'[t] = "out" BY <1>3, GotoFits
<1>5. fpc'[t] = "out" BY <1>1, <1>2 DEF F!FGoto, Types
<1>6. CallFits(t)' BY <1>1, <1>2, <1>4, <1>5 DEF CallFits, InFutexWait, InFutexWake
<1>7. t \notin Wakers /\ t \notin Wokens BY <1>2 DEF Wakers, Wokens
<1>8. flist' \in [Threads -> {0, 1}] /\ \A u \in Threads \ {t} : flist'[u] = flist[u]
  BY <1>1, <1>2 DEF Types
<1> QED BY <1>2, <1>3, <1>6, <1>7, <1>8, FutexInvariant

\* The link to the next element is read; the element stays in hand.
LEMMA ReadNextInvariant ==
  ASSUME IInv, NEW t \in Threads, spc[t] = "wake", F!ReadNext(t),
         UNCHANGED <<spc, nwaiters, seen, acquired, posted>>
  PROVE  IInv'
<1>1. Types /\ CallFits(t) BY DEF IInv
<1>2. fpc[t] = "wake" /\ F!FGoto(t, "wake_one") /\ UNCHANGED <<value, lists, flist, unblocked, run>>
  BY DEF F!ReadNext
<1>3. "wake_one" \in F!FutexLabels BY LabelsFit
<1>4. fpc'[t] = "wake_one" BY <1>1, <1>2 DEF F!FGoto, Types
<1>5. CallFits(t)' BY <1>1, <1>2, <1>4 DEF CallFits, InFutexWait, InFutexWake
<1>6. t \in Posters /\ t \notin Waiters
  BY <1>1, SemaphoreAssumption DEF CallFits, SemaphoreAssumption
<1>7. t \notin Wakers /\ t \notin Wokens BY <1>1, <1>2, <1>6 DEF Wakers, Wokens
<1>8. flist' \in [Threads -> {0, 1}] /\ \A u \in Threads \ {t} : flist'[u] = flist[u]
  BY <1>1, <1>2 DEF Types
<1>9. Goto(t, spc[t]) /\ spc[t] \in Labels BY SameSpc
<1>10. {fpc[t], "wake_one"} \subseteq Waking BY <1>2 DEF Waking
<1> QED BY <1>2, <1>3, <1>5, <1>7, <1>8, <1>9, <1>10, FutexInvariant

\* Writing the queue of the word.
LEMMA WriteQueue ==
  ASSUME Types, lists # <<>>, NEW q \in Seq(Waiters), lists' = [lists EXCEPT ![1] = q]
  PROVE  lists' \in Seq(Seq(Waiters)) /\ Len(lists') <= 1 /\ lists' # <<>> /\ Queue' = q
<1> DEFINE Q == Seq(Waiters)
<1>1. lists \in Seq(Q) /\ Len(lists) = 1 /\ DOMAIN lists = {1} BY QueueFits DEF Types
<1>2. q \in Q OBVIOUS
<1> HIDE DEF Q
<1>3. lists' \in Seq(Q) /\ Len(lists') = 1 /\ lists'[1] = q BY <1>1, <1>2
<1>4. lists' # <<>> BY <1>3
<1>5. Queue' = q BY <1>3, <1>4 DEF Queue
<1>6. lists' \in Seq(Seq(Waiters)) BY <1>3 DEF Q
<1>7. Len(lists') <= 1
  <2>1. \A n : n = 1 => n <= 1 OBVIOUS
  <2> QED BY <1>3, <2>1
<1> HIDE DEF Q
<1> QED BY <1>4, <1>5, <1>6, <1>7

\* The look at the word under the lock, and the insertion: the value is zero.
LEMMA BlockInvariant ==
  ASSUME IInv, NEW t \in Threads, FutexWait(t), fpc[t] = "block", value = 0
  PROVE  IInv'
<1>1. Types /\ CallFits(t) /\ Elements /\ CountKept /\ nwaiters \in Nat BY DEF IInv, Types
<1>2. /\ spc[t] = "wait" /\ t \in Waiters /\ lists # <<>> /\ flist[t] = 1
  BY <1>1 DEF CallFits, InFutexWait
<1>3. F!Block(t, 0) /\ UNCHANGED <<spc, nwaiters, seen, acquired, posted>>
  BY <1>2 DEF FutexWait
<1>4. /\ lists' = [lists EXCEPT ![flist[t]] = Append(lists[flist[t]], t)]
      /\ run' = [run EXCEPT ![t] = "blocked"]
      /\ F!FGoto(t, "parked") /\ UNCHANGED <<flist, value, unblocked>>
  BY <1>3 DEF F!Block
<1>5. Queue \in Seq(Waiters) /\ Queue = lists[1] BY <1>1, <1>2, QueueFits
<1>6. lists' = [lists EXCEPT ![1] = Append(Queue, t)] BY <1>2, <1>4, <1>5
<1>7. t \notin Range(Queue) /\ IsInjective(Queue) BY <1>1, <1>2 DEF Elements
<1>8. /\ Append(Queue, t) \in Seq(Waiters) /\ Range(Append(Queue, t)) = Range(Queue) \cup {t}
      /\ IsInjective(Append(Queue, t))
  BY <1>2, <1>5, <1>7, AppendRange, AppendNew
<1>9. lists' \in Seq(Seq(Waiters)) /\ Len(lists') <= 1 /\ lists' # <<>> /\ Queue' = Append(Queue, t)
  BY <1>1, <1>2, <1>6, <1>8, WriteQueue
<1>10. "parked" \in F!FutexLabels BY LabelsFit
<1>11. /\ fpc' \in [Threads -> F!FutexLabels] /\ fpc'[t] = "parked"
       /\ \A u \in Threads \ {t} : fpc'[u] = fpc[u]
  BY <1>1, <1>4, <1>10 DEF F!FGoto, Types
<1>12. /\ run' \in [Threads -> {"running", "blocked"}] /\ run'[t] = "blocked"
       /\ \A u \in Threads \ {t} : run'[u] = run[u]
  BY <1>1, <1>4 DEF Types
<1>13. Types' BY <1>1, <1>3, <1>4, <1>9, <1>11, <1>12 DEF Types
<1>14. CallFits(t)' BY <1>1, <1>2, <1>3, <1>11 DEF CallFits, InFutexWait, InFutexWake
<1>15. \A u \in Threads : CallFits(u)' BY <1>1, <1>3, <1>4, <1>9, <1>11, <1>14, OthersFit
<1>16. Elements'
  <2>1. \A s \in Threads : t \notin Range(unblocked[s]) BY <1>1, <1>2 DEF Elements
  <2>2. Range(Queue') = Range(Queue) \cup {t} /\ IsInjective(Queue') BY <1>8, <1>9
  <2>3. \A s \in Threads :
          /\ IsInjective(unblocked[s]) /\ Range(unblocked[s]) \cap Range(Queue') = {}
          /\ unblocked[s] # <<>> => fpc'[s] \in Waking
    BY <1>1, <1>2, <1>11, <2>1, <2>2 DEF Elements, Waking
  <2>4. \A u \in Threads :
          fpc'[u] = "parked" <=> u \in Range(Queue') \/ \E s \in Threads : u \in Range(unblocked[s])
    BY <1>1, <1>11, <2>2 DEF Elements
  <2>5. \A u \in Threads : fpc'[u] = "parked" => run'[u] = "blocked"
    BY <1>1, <1>11, <1>12 DEF Elements
  <2> QED BY <1>1, <1>4, <2>2, <2>3, <2>4, <2>5 DEF Elements
<1>17. CountKept' BY <1>1, <1>3, <1>4 DEF CountKept
<1>18. PostsKept' BY <1>4 DEF PostsKept
<1> QED BY <1>13, <1>15, <1>16, <1>17, <1>18 DEF IInv

\* What futex_wake_some moves for a count of one.
LEMMA TakeOne ==
  ASSUME NEW S, NEW q \in Seq(S), NEW k \in Nat, k = IF 1 < Len(q) THEN 1 ELSE Len(q)
  PROVE  /\ q = <<>> => SubSeq(q, 1, k) = <<>> /\ SubSeq(q, k + 1, Len(q)) = <<>>
         /\ q # <<>> => SubSeq(q, 1, k) = <<Head(q)>> /\ SubSeq(q, k + 1, Len(q)) = Tail(q)
<1>1. CASE q = <<>>
  <2>1. Len(q) = 0 /\ k = 0 BY <1>1
  <2> QED BY <1>1, <2>1
<1>2. CASE q # <<>>
  <2>1. Len(q) \in Nat /\ Len(q) >= 1 BY <1>2
  <2>2. k = 1
    <3>1. CASE Len(q) = 1 BY <3>1
    <3>2. CASE 1 < Len(q) BY <3>2
    <3>3. \A n \in Nat : n >= 1 => n = 1 \/ 1 < n OBVIOUS
    <3> QED BY <2>1, <3>1, <3>2, <3>3
  <2>3. SubSeq(q, 1, 1) = <<Head(q)>>
    <3>1. SubSeq(q, 1, 1) \in Seq(S) /\ Len(SubSeq(q, 1, 1)) = 1 /\ SubSeq(q, 1, 1)[1] = q[1]
      BY <2>1
    <3>2. Head(q) = q[1] /\ q[1] \in S BY <1>2, <2>1
    <3>3. <<Head(q)>> \in Seq(S) /\ Len(<<Head(q)>>) = 1 /\ <<Head(q)>>[1] = q[1] BY <3>2
    <3>4. 1 .. 1 = {1} OBVIOUS
    <3> QED BY <3>1, <3>3, <3>4, SeqEqual
  <2>4. SubSeq(q, 2, Len(q)) = Tail(q) BY <1>2, <2>1
  <2>5. k + 1 = 2 BY <2>2
  <2> QED BY <1>2, <2>2, <2>3, <2>4, <2>5
<1> QED BY <1>1, <1>2
\* futex_wake_some takes the first element, if there is one: a waker less, a woken waiter more.
LEMMA TakeInvariant ==
  ASSUME IInv, NEW t \in Threads, spc[t] = "wake", F!TakeElements(t, 1),
         UNCHANGED <<spc, nwaiters, seen, acquired, posted>>
  PROVE  IInv'
<1>1. Types /\ CallFits(t) /\ Elements /\ CountKept /\ PostsKept /\ nwaiters \in Nat
  BY DEF IInv, Types
<1>2. fpc[t] = "take" /\ lists # <<>> /\ flist[t] = 1 BY <1>1 DEF F!TakeElements, CallFits
<1>3. Queue \in Seq(Waiters) /\ Queue = lists[1] /\ IsInjective(Queue)
  BY <1>1, <1>2, QueueFits DEF Elements
<1>4. PICK k \in Nat : k = IF 1 < Len(Queue) THEN 1 ELSE Len(Queue)
  BY <1>3
<1>5. /\ unblocked' = [unblocked EXCEPT ![t] = SubSeq(Queue, 1, k)]
      /\ lists' = [lists EXCEPT ![1] = SubSeq(Queue, k + 1, Len(Queue))]
      /\ F!FGoto(t, "wake") /\ UNCHANGED <<value, flist, run>>
  BY <1>2, <1>3, <1>4 DEF F!TakeElements
<1>6. "wake" \in F!FutexLabels BY LabelsFit
<1>7. /\ fpc' \in [Threads -> F!FutexLabels] /\ fpc'[t] = "wake"
      /\ \A u \in Threads \ {t} : fpc'[u] = fpc[u]
  BY <1>1, <1>5, <1>6 DEF F!FGoto, Types
<1>8. t \in Posters /\ t \notin Waiters
  BY <1>1, SemaphoreAssumption DEF CallFits, SemaphoreAssumption
<1>9. CallFits(t)' BY <1>1, <1>7, <1>8 DEF CallFits, InFutexWait, InFutexWake
<1>10. unblocked[t] = <<>> BY <1>1, <1>2 DEF Elements, Waking
<1>11. CountKept' BY <1>1, <1>5 DEF CountKept
<1>12. t \in Wakers /\ Wakers' = Wakers \ {t} BY <1>2, <1>7, <1>8 DEF Wakers, Threads
<1>13. Cardinality(Wakers') = Cardinality(Wakers) - 1 BY <1>12, WayFinite, FS_RemoveElement
<1>14. CASE Queue = <<>>
  <2>1. SubSeq(Queue, 1, k) = <<>> /\ SubSeq(Queue, k + 1, Len(Queue)) = <<>>
    BY <1>3, <1>4, <1>14, TakeOne
  <2>2. lists' = [lists EXCEPT ![1] = <<>>] BY <1>5, <2>1
  <2>3. <<>> \in Seq(Waiters) OBVIOUS
  <2>4. lists' \in Seq(Seq(Waiters)) /\ Len(lists') <= 1 /\ lists' # <<>> /\ Queue' = <<>>
    BY <1>1, <1>2, <2>2, <2>3, WriteQueue
  <2>5. unblocked' = unblocked BY <1>1, <1>5, <1>10, <2>1 DEF Types
  <2>6. Types' BY <1>1, <1>5, <1>7, <2>4, <2>5 DEF Types
  <2>7. \A u \in Threads : CallFits(u)' BY <1>1, <1>5, <1>7, <1>9, <2>4, OthersFit
  <2>8. Elements' BY <1>1, <1>2, <1>5, <1>7, <1>14, <2>4, <2>5, SameElements DEF Waking
  <2>9. Range(Queue') = {} BY <2>4 DEF Range
  <2>10. PostsKept' BY <2>9 DEF PostsKept
  <2> QED BY <1>11, <2>6, <2>7, <2>8, <2>10 DEF IInv
<1>15. CASE Queue # <<>>
  <2> DEFINE e == Head(Queue)
  <2>1. SubSeq(Queue, 1, k) = <<e>> /\ SubSeq(Queue, k + 1, Len(Queue)) = Tail(Queue)
    BY <1>3, <1>4, <1>15, TakeOne
  <2>2. /\ e \in Waiters /\ e \in Range(Queue) /\ Tail(Queue) \in Seq(Waiters)
        /\ IsInjective(Tail(Queue)) /\ Range(Tail(Queue)) = Range(Queue) \ {e}
    BY <1>3, <1>15, PopRange
  <2> HIDE DEF e
  <2>3. lists' = [lists EXCEPT ![1] = Tail(Queue)] BY <1>5, <2>1
  <2>4. lists' \in Seq(Seq(Waiters)) /\ Len(lists') <= 1 /\ lists' # <<>> /\ Queue' = Tail(Queue)
    BY <1>1, <1>2, <2>2, <2>3, WriteQueue
  <2>5. <<e>> \in Seq(Waiters) /\ IsInjective(<<e>>) /\ Range(<<e>>) = {e}
    BY <2>2 DEF IsInjective, Range
  <2>6. /\ unblocked' \in [Threads -> Seq(Waiters)] /\ unblocked'[t] = <<e>>
        /\ \A u \in Threads \ {t} : unblocked'[u] = unblocked[u]
    BY <1>1, <1>5, <2>1, <2>5 DEF Types
  <2>7. Types' BY <1>1, <1>5, <1>7, <2>4, <2>6 DEF Types
  <2>8. \A u \in Threads : CallFits(u)' BY <1>1, <1>5, <1>7, <1>9, <2>4, OthersFit
  <2>9. e \in Threads /\ fpc[e] = "parked" /\ e # t /\ \A s \in Threads : e \notin Range(unblocked[s])
    BY <1>1, <1>2, <2>2 DEF Elements, Threads
  <2>10. Elements'
    <3>1. IsInjective(Queue') /\ Range(Queue') = Range(Queue) \ {e} BY <2>2, <2>4
    <3>2. \A s \in Threads :
            /\ IsInjective(unblocked'[s]) /\ Range(unblocked'[s]) \cap Range(Queue') = {}
            /\ unblocked'[s] # <<>> => fpc'[s] \in Waking
      BY <1>1, <1>7, <2>5, <2>6, <3>1 DEF Elements, Waking
    <3>3. \A r, s \in Threads : r # s => Range(unblocked'[r]) \cap Range(unblocked'[s]) = {}
      <4> SUFFICES ASSUME NEW r \in Threads, NEW s \in Threads, r # s
                   PROVE  Range(unblocked'[r]) \cap Range(unblocked'[s]) = {}
        OBVIOUS
      <4>1. CASE r = t BY <2>5, <2>6, <2>9, <4>1
      <4>2. CASE s = t BY <2>5, <2>6, <2>9, <4>2
      <4>3. CASE r # t /\ s # t BY <1>1, <2>6, <4>3 DEF Elements
      <4> QED BY <4>1, <4>2, <4>3
    <3>4. Range(unblocked[t]) = {} BY <1>10 DEF Range
    <3>5. \A u \in Threads :
            (\E s \in Threads : u \in Range(unblocked'[s]))
              <=> u = e \/ \E s \in Threads : u \in Range(unblocked[s])
      BY <2>5, <2>6, <3>4
    <3>6. \A u \in Threads : fpc'[u] = "parked" <=> fpc[u] = "parked" BY <1>2, <1>7
    <3>7. \A u \in Threads :
            fpc'[u] = "parked" <=> u \in Range(Queue') \/ \E s \in Threads : u \in Range(unblocked'[s])
      BY <1>1, <2>2, <3>1, <3>5, <3>6 DEF Elements
    <3>8. \A u \in Threads : fpc'[u] = "parked" => run'[u] = "blocked"
      BY <1>1, <1>5, <3>6 DEF Elements
    <3> QED BY <3>1, <3>2, <3>3, <3>7, <3>8 DEF Elements
  <2>11. PostsKept'
    <3>1. spc[e] = "wait" BY <2>9 DEF IInv, CallFits, InFutexWait
    <3>2. e \notin Wokens BY <2>2, <3>1 DEF Wokens
    <3>3. Wokens' = Wokens \cup {e} BY <2>2, <2>4, <3>1 DEF Wokens
    <3>4. Cardinality(Wokens') = Cardinality(Wokens) + 1 BY <3>2, <3>3, WayFinite, FS_AddElement
    <3>5. Range(Queue) # {} BY <2>2
    <3> SUFFICES ASSUME value > 0 PROVE Cardinality(Wakers') + Cardinality(Wokens') >= value
      BY <1>5 DEF PostsKept
    <3>6. Cardinality(Wakers) + Cardinality(Wokens) >= value BY <1>1, <3>5 DEF PostsKept
    <3> QED BY <1>1, <1>13, <3>4, <3>6, WayFinite DEF Types
  <2> QED BY <1>11, <2>7, <2>8, <2>10, <2>11 DEF IInv
<1> QED BY <1>14, <1>15

\* The waker wakes the thread of its next element, which was blocked until now.
LEMMA UnblockInvariant ==
  ASSUME IInv, NEW t \in Threads, spc[t] = "wake", F!UnblockOne(t),
         UNCHANGED <<spc, nwaiters, seen, acquired, posted>>
  PROVE  IInv'
<1>1. Types /\ CallFits(t) /\ Elements /\ CountKept /\ PostsKept /\ nwaiters \in Nat
  BY DEF IInv, Types
<1>0. unblocked[t] \in Seq(Waiters) /\ unblocked[t] # <<>>
  BY <1>1 DEF Types, F!UnblockOne
<1>00. PICK e \in Waiters : e = Head(unblocked[t]) BY <1>0
<1>2. /\ fpc[t] = "wake_one" /\ unblocked[t] # <<>>
      /\ run' = [run EXCEPT ![e] = "running"] /\ fpc' = [fpc EXCEPT ![e] = "out", ![t] = "wake"]
      /\ flist' = [flist EXCEPT ![e] = 0]
      /\ unblocked' = [unblocked EXCEPT ![t] = Tail(unblocked[t])]
      /\ UNCHANGED <<value, lists>>
  BY <1>00 DEF F!UnblockOne
<1>3. unblocked[t] \in Seq(Waiters) /\ IsInjective(unblocked[t]) BY <1>1 DEF Types, Elements
<1>4. /\ e \in Waiters /\ e \in Range(unblocked[t]) /\ Tail(unblocked[t]) \in Seq(Waiters)
      /\ IsInjective(Tail(unblocked[t])) /\ Range(Tail(unblocked[t])) = Range(unblocked[t]) \ {e}
  BY <1>00, <1>2, <1>3, PopRange
<1>5. e \in Threads /\ fpc[e] = "parked" /\ e # t /\ e \notin Range(Queue)
  BY <1>1, <1>2, <1>4 DEF Elements, Threads
<1>6. spc[e] = "wait" /\ e \notin Posters
  BY <1>4, <1>5, SemaphoreAssumption DEF IInv, CallFits, InFutexWait, SemaphoreAssumption
<1>7. "out" \in F!FutexLabels /\ "wake" \in F!FutexLabels BY LabelsFit
<1>8. /\ fpc' \in [Threads -> F!FutexLabels] /\ fpc'[e] = "out" /\ fpc'[t] = "wake"
      /\ \A u \in Threads \ {e, t} : fpc'[u] = fpc[u]
  BY <1>1, <1>2, <1>5, <1>7 DEF Types
<1>9. /\ flist' \in [Threads -> {0, 1}] /\ \A u \in Threads \ {e} : flist'[u] = flist[u]
  BY <1>1, <1>2 DEF Types
<1>10. /\ run' \in [Threads -> {"running", "blocked"}] /\ \A u \in Threads \ {e} : run'[u] = run[u]
  BY <1>1, <1>2 DEF Types
<1>11. /\ unblocked' \in [Threads -> Seq(Waiters)] /\ unblocked'[t] = Tail(unblocked[t])
       /\ \A u \in Threads \ {t} : unblocked'[u] = unblocked[u]
  BY <1>1, <1>2, <1>4 DEF Types
<1>12. Types' BY <1>1, <1>2, <1>8, <1>9, <1>10, <1>11 DEF Types
<1>13. CallFits(e)'
  <2>1. CallFits(e) BY <1>5 DEF IInv
  <2> QED BY <1>4, <1>6, <1>8, <2>1 DEF CallFits, InFutexWait, InFutexWake
<1>14. \A u \in Threads : CallFits(u)'
  <2>1. fpc[t] \in InFutexWake /\ fpc'[t] \in InFutexWake BY <1>2, <1>8 DEF InFutexWake
  <2>2. CallFits(t)'
    BY <1>1, <1>2, <1>5, <1>8, <1>9, <2>1 DEF CallFits, InFutexWait, InFutexWake
  <2>3. ASSUME NEW u \in Threads \ {e, t} PROVE CallFits(u)'
    <3>1. CallFits(u) BY DEF IInv
    <3> QED BY <1>2, <1>8, <1>9, <2>3, <3>1 DEF CallFits
  <2> QED BY <1>13, <2>2, <2>3
<1>15. UNCHANGED Queue BY <1>2 DEF Queue
<1>16. Elements'
  <2>1. \A s \in Threads \ {t} : e \notin Range(unblocked[s]) BY <1>1, <1>4 DEF Elements
  <2>2. \A s \in Threads : Range(unblocked'[s]) = Range(unblocked[s]) \ {e}
    BY <1>4, <1>11, <2>1
  <2>3. \A s \in Threads :
          /\ IsInjective(unblocked'[s]) /\ Range(unblocked'[s]) \cap Range(Queue) = {}
          /\ unblocked'[s] # <<>> => fpc'[s] \in Waking
    <3> SUFFICES ASSUME NEW s \in Threads
                 PROVE  /\ IsInjective(unblocked'[s]) /\ Range(unblocked'[s]) \cap Range(Queue) = {}
                        /\ unblocked'[s] # <<>> => fpc'[s] \in Waking
      OBVIOUS
    <3>1. IsInjective(unblocked'[s]) BY <1>1, <1>4, <1>11 DEF Elements
    <3>2. Range(unblocked'[s]) \cap Range(Queue) = {} BY <1>1, <2>2 DEF Elements
    <3>3. unblocked'[s] # <<>> => unblocked[s] # <<>> BY <1>2, <1>11
    <3>4. unblocked[s] # <<>> => fpc[s] \in Waking BY <1>1 DEF Elements
    <3>5. s = e => unblocked[s] = <<>> BY <1>5, <3>4 DEF Waking
    <3>6. s = t => fpc'[s] \in Waking BY <1>8 DEF Waking
    <3> QED BY <1>8, <3>6, <3>1, <3>2, <3>3, <3>4, <3>5
  <2>4. \A r, s \in Threads : r # s => Range(unblocked'[r]) \cap Range(unblocked'[s]) = {}
    BY <1>1, <2>2 DEF Elements
  <2>5. \A u \in Threads :
          fpc'[u] = "parked" <=> u \in Range(Queue) \/ \E s \in Threads : u \in Range(unblocked'[s])
    <3> SUFFICES ASSUME NEW u \in Threads
                 PROVE  fpc'[u] = "parked"
                          <=> u \in Range(Queue) \/ \E s \in Threads : u \in Range(unblocked'[s])
      OBVIOUS
    <3>1. CASE u = e BY <1>5, <1>8, <2>2, <3>1
    <3>2. CASE u # e
      <4>0. fpc'[u] = "parked" <=> fpc[u] = "parked" BY <1>2, <1>8, <3>2
      <4>1. fpc[u] = "parked" <=> u \in Range(Queue) \/ \E s \in Threads : u \in Range(unblocked[s])
        BY <1>1 DEF Elements
      <4> QED BY <2>2, <3>2, <4>0, <4>1
    <3> QED BY <3>1, <3>2
  <2>6. \A u \in Threads : fpc'[u] = "parked" => run'[u] = "blocked"
    BY <1>1, <1>8, <1>10 DEF Elements
  <2> QED BY <1>1, <1>15, <2>3, <2>4, <2>5, <2>6 DEF Elements
<1>17. CountKept' BY <1>1, <1>2 DEF CountKept
<1>18. Wakers' = Wakers BY <1>2, <1>6, <1>8 DEF Wakers, Threads
<1>19. Wokens' = Wokens BY <1>15 DEF Wokens
<1>20. PostsKept' BY <1>1, <1>2, <1>15, <1>18, <1>19, WayKept
<1> QED BY <1>12, <1>14, <1>16, <1>17, <1>20 DEF IInv
----------------------------------------------------------------------------
LEMMA InitInvariant == Init => IInv
<1> SUFFICES ASSUME Init PROVE IInv OBVIOUS
<1>1. Types
  <2>1. /\ value \in Nat /\ nwaiters \in Nat /\ fpc \in [Threads -> F!FutexLabels]
        /\ flist \in [Threads -> {0, 1}] /\ run \in [Threads -> {"running", "blocked"}]
        /\ spc \in [Threads -> Labels] /\ seen \in [Threads -> Nat]
    BY ThreadsFinite, LabelsFit DEF Init, F!FutexInit
  <2>2. acquired \in [Threads -> 0 .. MaxWaits] /\ posted \in [Threads -> 0 .. MaxPosts]
    BY ThreadsFinite DEF Init
  <2>3. lists \in Seq(Seq(Waiters)) /\ Len(lists) <= 1 BY DEF Init, F!FutexInit
  <2>4. unblocked \in [Threads -> Seq(Waiters)] BY DEF Init, F!FutexInit
  <2> QED BY <2>1, <2>2, <2>3, <2>4 DEF Types
<1>2. \A t \in Threads : CallFits(t)
  BY DEF Init, F!FutexInit, CallFits, InFutexWait, InFutexWake
<1>3. Queue = <<>> /\ Range(Queue) = {} /\ \A t \in Threads : unblocked[t] = <<>>
  BY DEF Init, F!FutexInit, Queue, Range
<1>4. Elements
  <2>1. IsInjective(<<>>) /\ Range(<<>>) = {} BY DEF IsInjective, Range
  <2> QED BY <1>3, <2>1 DEF Elements, Init, F!FutexInit
<1>5. CountKept
  <2>1. Calls(posted) = {} /\ Calls(acquired) = {} BY DEF Init, Calls
  <2> QED BY <2>1, FS_EmptySet, ThreadsFinite DEF Init, CountKept
<1>6. PostsKept BY <1>3 DEF PostsKept
<1> QED BY <1>1, <1>2, <1>4, <1>5, <1>6 DEF IInv

LEMMA StutterInvariant == IInv /\ UNCHANGED vars => IInv'
<1> SUFFICES ASSUME IInv, UNCHANGED vars PROVE IInv' OBVIOUS
<1>1. UNCHANGED <<value, lists, fpc, flist, unblocked, run, nwaiters, spc, seen, acquired, posted>>
  BY DEF vars, futexVars
<1>2. UNCHANGED <<Queue, Wakers, Wokens>> BY <1>1 DEF Queue, Wakers, Wokens
<1>3. Types' /\ \A t \in Threads : CallFits(t)' BY <1>1 DEF IInv, Types, CallFits
<1>4. Elements' BY <1>1, <1>2, SameElements DEF IInv
<1>5. CountKept' /\ PostsKept' BY <1>1, <1>2 DEF IInv, CountKept, PostsKept
<1> QED BY <1>3, <1>4, <1>5 DEF IInv

LEMMA NextInvariant == IInv /\ [Next]_vars => IInv'
<1> SUFFICES ASSUME IInv, [Next]_vars PROVE IInv' OBVIOUS
<1>1. ASSUME NEW t \in Threads, ThreadStep(t) PROVE IInv'
  <2>1. CASE WaitStart(t) \/ CountIn(t) BY <2>1, CountInvariant
  <2>2. CASE TryDecrement(t)
    <3>1. CASE DecrementRead(t, "try", "try_cas", "count") BY <3>1, ReadInvariant
    <3>2. CASE DecrementCas(t, "try_cas", "try") BY <3>2, CasInvariant
    <3> QED BY <2>2, <3>1, <3>2 DEF TryDecrement
  <2>3. CASE RetryDecrement(t)
    <3>1. CASE DecrementRead(t, "retry", "retry_cas", "wait_call") BY <3>1, ReadInvariant
    <3>2. CASE DecrementCas(t, "retry_cas", "retry") BY <3>2, CasInvariant
    <3> QED BY <2>3, <3>1, <3>2 DEF RetryDecrement
  <2>4. CASE FutexWait(t) BY <2>4, WaitInvariant, BlockInvariant
  <2>5. CASE PostAdd(t) \/ PostCheck(t) BY <2>5, AddInvariant, CheckInvariant
  <2>6. CASE FutexWake(t)
    <3>1. spc[t] = "wake" /\ UNCHANGED <<nwaiters, seen, acquired, posted>> BY <2>6 DEF FutexWake
    <3>2. \/ F!TakeElements(t, 1) /\ UNCHANGED spc
          \/ F!ReadNext(t) /\ UNCHANGED spc
          \/ F!UnblockOne(t) /\ UNCHANGED spc
          \/ F!WakeDone(t) /\ Goto(t, "out")
      BY <2>6 DEF FutexWake
    <3> QED BY <3>1, <3>2, TakeInvariant, ReadNextInvariant, UnblockInvariant, WakeDoneInvariant
  <2>7. CASE FindList(t) BY <2>7, FindInvariant
  <2> QED BY <1>1, <2>1, <2>2, <2>3, <2>4, <2>5, <2>6, <2>7 DEF ThreadStep
<1>2. CASE Finished \/ UNCHANGED vars BY <1>2, StutterInvariant DEF Finished
<1> QED BY <1>1, <1>2 DEF Next

LEMMA Invariant == Spec => []IInv
BY InitInvariant, NextInvariant, PTL DEF Spec

\* No post is lost in the decrements and none is counted twice: the value is always what was
\* posted less what was acquired, however many threads read it before they compare and swap.
THEOREM EveryPostCounts == Spec => []CountKept
<1>1. IInv => CountKept BY DEF IInv
<1> QED BY <1>1, Invariant, PTL

\* The element on the stack of a waiting thread is in exactly one queue, that of the word or
\* that of a waker, and its thread sleeps until the waker is done with it.
THEOREM NoElementOnADeadStack == Spec => []ElementsAlive
<1>1. IInv => ElementsAlive
  <2> SUFFICES ASSUME IInv, NEW t \in Threads
               PROVE  /\ F!InList(t) \/ F!InHands(t) => run[t] = "blocked" /\ fpc[t] = "parked"
                      /\ fpc[t] = "parked" =>
                           Cardinality({i \in DOMAIN lists : t \in Range(lists[i])})
                             + Cardinality({s \in Threads : t \in Range(unblocked[s])}) = 1
    BY DEF ElementsAlive
  <2>1. Types /\ Elements BY DEF IInv
  <2>2. F!InList(t) <=> t \in Range(Queue) BY <2>1, QueueFits
  <2>3. F!InHands(t) <=> \E s \in Threads : t \in Range(unblocked[s])
    BY DEF F!InHands, F!Range, Range
  <2>4. F!InList(t) \/ F!InHands(t) => run[t] = "blocked" /\ fpc[t] = "parked"
    BY <2>1, <2>2, <2>3 DEF Elements
  <2> DEFINE L == {i \in DOMAIN lists : t \in Range(lists[i])}
             H == {s \in Threads : t \in Range(unblocked[s])}
  <2>5. CASE t \in Range(Queue)
    <3>1. lists # <<>> BY <2>5 DEF Queue, Range
    <3>2. L = {1} BY <2>1, <2>5, <3>1, QueueFits
    <3>3. H = {} BY <2>1, <2>5 DEF Elements
    <3>4. Cardinality(L) = 1 /\ Cardinality(H) = 0 BY <3>2, <3>3, FS_Singleton, FS_EmptySet
    <3> QED BY <2>4, <3>4
  <2>6. CASE t \notin Range(Queue) /\ fpc[t] = "parked"
    <3>1. L = {}
      <4>1. CASE lists = <<>> BY <4>1
      <4>2. CASE lists # <<>> BY <2>1, <2>6, <4>2, QueueFits
      <4> QED BY <4>1, <4>2
    <3>2. PICK s \in Threads : t \in Range(unblocked[s]) BY <2>1, <2>6 DEF Elements
    <3>3. H = {s} BY <2>1, <3>2 DEF Elements
    <3>4. Cardinality(L) = 0 /\ Cardinality(H) = 1 BY <3>1, <3>3, FS_Singleton, FS_EmptySet
    <3> QED BY <2>4, <3>4
  <2> QED BY <2>4, <2>5, <2>6
<1> QED BY <1>1, Invariant, PTL

\* No waiter sleeps beside a count: for each there is somebody on the way who will take it or
\* wake the sleeper, in spite of the unlocked look at the value before and the unlocked look
\* at nwaiters after.
THEOREM NoPostIsLost == Spec => []NoLostPost
<1>1. IInv => NoLostPost
  <2> SUFFICES ASSUME IInv PROVE NoLostPost OBVIOUS
  <2>1. Types /\ PostsKept BY DEF IInv
  <2>2. \A t \in Waiters : F!InList(t) <=> t \in Range(Queue) BY <2>1, QueueFits DEF Threads
  <2>3. Wokens = {t \in Waiters : spc[t] \in {"try", "try_cas", "retry", "retry_cas", "wait_call"}
                                     \/ (spc[t] = "wait" /\ ~F!InList(t))}
    BY <2>2 DEF Wokens
  <2>4. (\E t \in Waiters : F!InList(t)) => Range(Queue) # {} BY <2>2
  <2> QED BY <2>1, <2>3, <2>4 DEF PostsKept, NoLostPost, Wakers
<1> QED BY <1>1, Invariant, PTL
============================================================================
