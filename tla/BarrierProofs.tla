---------------------------- MODULE BarrierProofs ----------------------------
(***************************************************************************)
(* Proofs about Barrier, for any finite set of threads and any number of   *)
(* rounds.                                                                 *)
(***************************************************************************)
EXTENDS Barrier, SeqFacts, FiniteSetTheorems, TLAPS

(***************************************************************************)
(* The inductive invariant.  Of the threads inside, the new ones are of    *)
(* the round whose sense is `wait`, the old ones of the round before: they *)
(* are released and on their way out.  What keeps the rounds apart is that *)
(* the k-th to come back finds its slot already signalled, because the k   *)
(* threads that came back had the slots the loop has reached: SlotsTaken.  *)
(***************************************************************************)
Inside(t) == pc[t] # "out"
Old(t)    == Inside(t) /\ mywait[t] # wait
Came      == {t \in Threads : Inside(t) /\ mywait[t] = wait /\ pc[t] # "arrive"}
OldOnes   == {t \in Threads : Old(t)}
Leads(t)  == pc[t] \in {"reset", "flip", "signal", "release_lock", "release"}

\* The entries of a queue the release loop has not come to.
Live(b, i) == \A t \in Threads : pc[t] = "release" /\ mywait[t] = b => index[t] < i

Types ==
  /\ arrived \in Nat /\ wait \in BOOLEAN
  /\ signals \in [Slots -> BOOLEAN]
  /\ blocked \in [BOOLEAN -> Seq(Threads)]
  /\ mtx \in [BOOLEAN -> Threads \cup {NULL}]
  /\ pc \in [Threads -> Labels] /\ id \in [Threads -> Slots]
  /\ mywait \in [Threads -> BOOLEAN] /\ index \in [Threads -> Nat]
  /\ run \in [Threads -> {"running", "blocked"}]
  /\ entered \in [Threads -> Nat] /\ passed \in [Threads -> Nat]

\* Where a thread is inside the barrier, and with which sense.
PlaceFits(t) ==
  /\ pc[t] = "arrive" => mywait[t] = wait
  /\ pc[t] \in {"reset", "flip"} => \A u \in Threads : u \in Came
  /\ pc[t] \in {"signal", "release_lock", "release"} => Old(t)
  /\ pc[t] \notin {"signal", "release"} => index[t] = 0
  /\ pc[t] = "signal" => index[t] \in Slots
  /\ pc[t] = "release" => index[t] <= Len(blocked[mywait[t]])
  /\ entered[t] = passed[t] + IF pc[t] = "out" THEN 0 ELSE 1

OneLeader == \A t, u \in Threads : Leads(t) /\ Leads(u) => t = u

\* The old ones are one call behind the others.
RoundsFit ==
  \A t, u \in Threads :
    passed[t] + (IF Old(t) THEN 1 ELSE 0) = passed[u] + IF Old(u) THEN 1 ELSE 0

\* barrier->arrived counts the new ones, between the reset and the flip excepted.
Counted == IF \E t \in Threads : pc[t] = "flip" THEN arrived = 0 ELSE arrived = Cardinality(Came)

\* Which slots have an owner.
SlotsTaken ==
  /\ \A i \in Slots : i < arrived => \E u \in Came : id[u] = i
  /\ \A t \in Threads : pc[t] = "flip" => \A i \in Slots : \E u \in Came : id[u] = i
  /\ \A t \in Threads : pc[t] = "signal" =>
       /\ \A i \in Slots : i >= index[t] => \E u \in OldOnes : id[u] = i
       /\ \A u \in Came : id[u] < index[t]

\* How far the signals are.
SignalsFit ==
  /\ (\A t \in Threads : pc[t] # "signal") => \A i \in Slots : signals[i] = wait
  /\ \A t \in Threads : pc[t] = "signal" =>
       \A i \in Slots : signals[i] = wait <=> i < index[t]

LocksFit ==
  \A t \in Threads : \A b \in BOOLEAN :
    mtx[b] = t <=> pc[t] \in {"release", "recheck", "block"} /\ mywait[t] = b

QueuesFit ==
  \A b \in BOOLEAN :
    /\ IsInjective(blocked[b])
    /\ \A i \in 1 .. Len(blocked[b]) : Live(b, i) =>
         /\ run[blocked[b][i]] = "blocked"
         /\ pc[blocked[b][i]] = "spin" /\ mywait[blocked[b][i]] = b

\* A thread that is off its vcore is in the part of its queue that the loop has not
\* come to; and while one of the round that is over is there, or on its way there,
\* the loop is not through.
BlockedFits ==
  \A t \in Threads :
    /\ run[t] = "blocked" => \E i \in 1 .. Len(blocked[mywait[t]]) :
                                blocked[mywait[t]][i] = t /\ Live(mywait[t], i)
    /\ Old(t) /\ (run[t] = "blocked" \/ pc[t] = "block") =>
         \E u \in Threads : pc[u] \in {"signal", "release_lock", "release"}

IInv ==
  /\ Types /\ \A t \in Threads : PlaceFits(t)
  /\ OneLeader /\ RoundsFit /\ Counted /\ SlotsTaken /\ SignalsFit
  /\ LocksFit /\ QueuesFit /\ BlockedFits
----------------------------------------------------------------------------
(* What the steps keep.                                                    *)

LEMMA CountFacts ==
  /\ N \in Nat /\ N >= 1 /\ Slots = 0 .. N - 1 /\ NULL \notin Threads
  /\ IsFiniteSet(Threads) /\ Cardinality(Threads) = N
<1>1. Cardinality(Threads) \in Nat /\ Cardinality(Threads) # 0
  BY BarrierAssumption, FS_CardinalityType, FS_EmptySet DEF BarrierAssumption
<1> QED BY <1>1, BarrierAssumption DEF BarrierAssumption, N, Slots

LEMMA InitInvariant == Init => IInv
<1> SUFFICES ASSUME Init PROVE IInv OBVIOUS
<1> USE DEF Init
<1>1. Types BY CountFacts DEF Types, Labels
<1>2. \A t \in Threads : PlaceFits(t) BY DEF PlaceFits
<1>3. OneLeader BY DEF OneLeader, Leads
<1>4. RoundsFit BY DEF RoundsFit, Old, Inside
<1>5. Came = {} BY DEF Came, Inside
<1>6. Counted BY <1>5, FS_EmptySet DEF Counted
<1>7. SlotsTaken BY CountFacts DEF SlotsTaken
<1>8. SignalsFit BY DEF SignalsFit
<1>9. LocksFit BY CountFacts DEF LocksFit
<1>10. QueuesFit
  <2>1. \A b \in BOOLEAN : blocked[b] = <<>> OBVIOUS
  <2>2. \A b \in BOOLEAN : 1 .. Len(blocked[b]) = {} BY <2>1
  <2>3. \A b \in BOOLEAN : IsInjective(blocked[b]) BY <2>1 DEF IsInjective
  <2> QED BY <2>2, <2>3 DEF QueuesFit
<1>11. BlockedFits BY DEF BlockedFits, Old, Inside
<1> QED BY <1>1, <1>2, <1>3, <1>4, <1>6, <1>7, <1>8, <1>9, <1>10, <1>11 DEF IInv

\* A step after which the same threads are old, new and leading, and the loop of
\* the signals is where it was.
LEMMA SensesKept ==
  ASSUME IInv, UNCHANGED <<arrived, wait, signals, passed, id>>,
         Came' = Came, OldOnes' = OldOnes,
         \A u \in Threads : Leads(u)' <=> Leads(u),
         \A u \in Threads : pc'[u] = "flip" <=> pc[u] = "flip",
         \A u \in Threads : pc'[u] = "signal" <=> pc[u] = "signal",
         \A u \in Threads : pc[u] = "signal" => index'[u] = index[u]
  PROVE  OneLeader' /\ RoundsFit' /\ Counted' /\ SlotsTaken' /\ SignalsFit'
<1> USE DEF IInv
<1>1. OneLeader' BY DEF OneLeader
<1>2. RoundsFit'
  <2>1. \A u \in Threads : Old(u)' <=> Old(u) BY DEF OldOnes
  <2> QED BY <2>1 DEF RoundsFit
<1>3. Counted' BY DEF Counted
<1>4. SlotsTaken' BY DEF SlotsTaken, Slots
<1>5. SignalsFit' BY DEF SignalsFit, Slots
<1> QED BY <1>1, <1>2, <1>3, <1>4, <1>5

\* A step of a thread that is not in the release loop leaves the queues, ...
LEMMA QueuesKept ==
  ASSUME IInv, NEW t \in Threads, run[t] = "running", pc[t] # "release",
         UNCHANGED <<blocked, run>>,
         \A u \in Threads : u # t => pc'[u] = pc[u] /\ mywait'[u] = mywait[u] /\ index'[u] = index[u]
  PROVE  QueuesFit'
<1>1. \A b \in BOOLEAN : \A i \in 1 .. Len(blocked[b]) : Live(b, i)' => Live(b, i)
  BY DEF Live
<1>2. \A b \in BOOLEAN : \A i \in 1 .. Len(blocked[b]) : blocked[b][i] \in Threads
  BY DEF IInv, Types
<1>3. ASSUME NEW b \in BOOLEAN, NEW i \in 1 .. Len(blocked[b]), Live(b, i)'
      PROVE  /\ run'[blocked[b][i]] = "blocked"
             /\ pc'[blocked[b][i]] = "spin" /\ mywait'[blocked[b][i]] = b
  BY <1>1, <1>2, <1>3 DEF IInv, QueuesFit
<1> QED BY <1>3 DEF IInv, QueuesFit

\* ..., and leaves the threads in them ahead of the loop, ...
LEMMA BlockedKept ==
  ASSUME IInv, NEW t \in Threads, run[t] = "running", pc[t] # "release",
         UNCHANGED <<blocked, run>>, pc'[t] = "release" => index'[t] = 0,
         \A u \in Threads : u # t => pc'[u] = pc[u] /\ mywait'[u] = mywait[u] /\ index'[u] = index[u],
         \/ \E v \in Threads : pc'[v] \in {"signal", "release_lock", "release"}
         \/ /\ UNCHANGED wait /\ pc[t] \notin {"signal", "release_lock"}
            /\ ~(pc'[t] = "block" /\ Old(t)')
  PROVE  BlockedFits'
<1> USE DEF IInv
<1>1. ASSUME NEW u \in Threads, run[u] = "blocked"
      PROVE  (\E i \in 1 .. Len(blocked[mywait[u]]) :
                blocked[mywait[u]][i] = u /\ Live(mywait[u], i))'
  <2>1. mywait'[u] = mywait[u] BY <1>1
  <2>2. PICK i \in 1 .. Len(blocked[mywait[u]]) : blocked[mywait[u]][i] = u /\ Live(mywait[u], i)
    BY <1>1 DEF BlockedFits
  <2>3. ASSUME NEW v \in Threads, pc'[v] = "release", mywait'[v] = mywait[u] PROVE index'[v] < i
    <3>1. CASE v = t BY <2>2, <2>3, <3>1
    <3>2. CASE v # t BY <2>2, <2>3, <3>2 DEF Live
    <3> QED BY <3>1, <3>2
  <2> QED BY <2>1, <2>2, <2>3 DEF Live
<1>2. ASSUME NEW u \in Threads, Old(u)', run[u] = "blocked" \/ pc'[u] = "block"
      PROVE  \E v \in Threads : pc'[v] \in {"signal", "release_lock", "release"}
  <2>1. CASE \E v \in Threads : pc'[v] \in {"signal", "release_lock", "release"} BY <2>1
  <2>2. CASE /\ UNCHANGED wait /\ pc[t] \notin {"signal", "release_lock"}
             /\ ~(pc'[t] = "block" /\ Old(t)')
    <3>1. u # t BY <1>2, <2>2
    <3>2. Old(u) /\ (run[u] = "blocked" \/ pc[u] = "block")
      BY <1>2, <2>2, <3>1 DEF Old, Inside
    <3>3. PICK v \in Threads : pc[v] \in {"signal", "release_lock", "release"}
      BY <3>2 DEF BlockedFits
    <3>4. v # t BY <2>2, <3>3
    <3> QED BY <3>3, <3>4
  <2> QED BY <2>1, <2>2
<1> QED BY <1>1, <1>2 DEF BlockedFits

\* ... and one that holds no lock of a queue, before or after, leaves the locks.
LEMMA LocksKept ==
  ASSUME IInv, NEW t \in Threads, UNCHANGED mtx,
         pc[t] \notin {"release", "recheck", "block"},
         pc'[t] \notin {"release", "recheck", "block"},
         \A u \in Threads : u # t => pc'[u] = pc[u] /\ mywait'[u] = mywait[u]
  PROVE  LocksFit'
BY DEF IInv, LocksFit

LEMMA GotoFits ==
  ASSUME Types, NEW t \in Threads, NEW l \in Labels, Goto(t, l)
  PROVE  /\ pc' \in [Threads -> Labels] /\ pc'[t] = l
         /\ \A u \in Threads : u # t => pc'[u] = pc[u]
BY DEF Types, Goto
----------------------------------------------------------------------------
(* Coming in.                                                              *)

LEMMA WaitCallInvariant ==
  ASSUME IInv, NEW t \in Threads, WaitCall(t) PROVE IInv'
<1> USE DEF IInv, WaitCall, At, barrier
<1>1. /\ pc' \in [Threads -> Labels] /\ pc'[t] = "arrive" /\ pc[t] = "out"
      /\ \A u \in Threads : u # t => pc'[u] = pc[u]
  BY GotoFits DEF Labels
<1>2. /\ mywait' \in [Threads -> BOOLEAN] /\ mywait'[t] = wait
      /\ \A u \in Threads : u # t => mywait'[u] = mywait[u]
  BY DEF Types
<1>3. /\ entered' \in [Threads -> Nat] /\ entered'[t] = entered[t] + 1
      /\ \A u \in Threads : u # t => entered'[u] = entered[u]
  BY DEF Types
<1>4. Came' = Came BY <1>1, <1>2 DEF Came, Inside
<1>5. OldOnes' = OldOnes BY <1>1, <1>2 DEF OldOnes, Old, Inside
<1>6. OneLeader' /\ RoundsFit' /\ Counted' /\ SlotsTaken' /\ SignalsFit'
  BY <1>1, <1>4, <1>5, SensesKept DEF Leads
<1>7. ASSUME NEW u \in Threads PROVE PlaceFits(u)'
  <2>1. CASE u = t
    <3>1. entered[t] = passed[t] + 0 /\ index[t] = 0 BY <1>1 DEF PlaceFits
    <3>2. entered'[t] = passed'[t] + 1 BY <1>3, <3>1 DEF Types
    <3> QED BY <1>1, <1>2, <2>1, <3>1, <3>2 DEF PlaceFits
  <2>2. CASE u # t
    <3>1. Old(u)' <=> Old(u) BY <1>5 DEF OldOnes
    <3>2. index'[u] = index[u] /\ entered'[u] = entered[u] /\ passed'[u] = passed[u] BY <1>3, <2>2
    <3> QED BY <1>1, <1>2, <1>4, <2>2, <3>1, <3>2 DEF PlaceFits, Slots
  <2> QED BY <2>1, <2>2
<1>8. LocksFit' BY <1>1, <1>2, LocksKept
<1>9. QueuesFit' BY <1>1, <1>2, QueuesKept
<1>10. Types' BY <1>1, <1>2, <1>3 DEF Types, Slots
<1>11. BlockedFits' BY <1>1, <1>2, BlockedKept
<1> QED BY <1>6, <1>7, <1>8, <1>9, <1>10, <1>11
LEMMA CameFacts ==
  /\ Came \subseteq Threads /\ IsFiniteSet(Came)
  /\ Cardinality(Came) \in Nat /\ Cardinality(Came) <= N
  /\ Cardinality(Came) = N => Came = Threads
<1>1. Came \in SUBSET Threads BY DEF Came
<1>2. /\ IsFiniteSet(Came) /\ Cardinality(Came) <= Cardinality(Threads)
      /\ Cardinality(Threads) = Cardinality(Came) => Threads = Came
  BY <1>1, CountFacts, FS_Subset
<1> QED BY <1>1, <1>2, CountFacts, FS_CardinalityType

\* While the signals are being set, a thread that comes back finds its slot among
\* those already set: whoever is not old has left a slot behind the loop's index.
LEMMA SlotIsSet ==
  ASSUME IInv, NEW v \in Threads, pc[v] = "signal", NEW t \in Threads, t \notin Came, ~Old(t)
  PROVE  arrived < index[v]
<1> USE DEF IInv
<1>1. index[v] \in 0 .. N - 1 /\ N \in Nat BY CountFacts DEF PlaceFits
<1>2. arrived = Cardinality(Came)
  <2>1. \A u \in Threads : pc[u] # "flip" BY DEF OneLeader, Leads
  <2> QED BY <2>1 DEF Counted
<1> DEFINE D == index[v] .. N - 1
           f == [i \in D |-> CHOOSE u \in OldOnes : id[u] = i]
<1>3. Cardinality(OldOnes) >= N - index[v] /\ IsFiniteSet(OldOnes) /\ Cardinality(OldOnes) \in Nat
  <2>1. \A i \in D : \E u \in OldOnes : id[u] = i
    BY <1>1, CountFacts DEF SlotsTaken
  <2>2. \A i \in D : f[i] \in OldOnes /\ id[f[i]] = i BY <2>1
  <2>3. f \in [D -> OldOnes] /\ \A i, j \in D : f[i] = f[j] => i = j BY <2>2
  <2>4. f \in Injection(D, OldOnes) BY <2>3 DEF Injection, IsInjective
  <2>5. IsFiniteSet(OldOnes)
    <3>1. OldOnes \in SUBSET Threads BY DEF OldOnes
    <3> QED BY <3>1, CountFacts, FS_Subset
  <2>6. Cardinality(D) <= Cardinality(OldOnes) BY <2>4, <2>5, FS_Injection
  <2>7. \A a, b \in Int : Cardinality(a .. b) = IF a > b THEN 0 ELSE b - a + 1
    BY FS_Interval
  <2>8. Cardinality(D) = N - index[v]
    <3>1. /\ index[v] \in Int /\ N - 1 \in Int /\ ~(index[v] > N - 1)
          /\ (N - 1) - index[v] + 1 = N - index[v]
      BY <1>1
    <3> QED BY <2>7, <3>1
  <2> QED BY <2>5, <2>6, <2>8, FS_CardinalityType, <1>1
<1>4. Cardinality(Came \cup OldOnes) = Cardinality(Came) + Cardinality(OldOnes)
  <2>1. Came \cap OldOnes = {} BY DEF Came, OldOnes, Old
  <2>2. Cardinality(Came \cap OldOnes) = 0 BY <2>1, FS_EmptySet
  <2>3. Cardinality(Came \cup OldOnes)
          = Cardinality(Came) + Cardinality(OldOnes) - Cardinality(Came \cap OldOnes)
    BY <1>3, CameFacts, FS_Union
  <2> QED BY <1>3, <2>2, <2>3, CameFacts
<1>5. Cardinality(Came \cup OldOnes) <= N - 1
  <2>1. Came \cup OldOnes \in SUBSET (Threads \ {t}) BY DEF Came, OldOnes
  <2>2. IsFiniteSet(Threads \ {t}) /\ Cardinality(Threads \ {t}) = N - 1
    BY CountFacts, FS_RemoveElement
  <2> QED BY <2>1, <2>2, FS_Subset
<1> QED BY <1>1, <1>2, <1>3, <1>4, <1>5, CameFacts

LEMMA ArriveInvariant ==
  ASSUME IInv, NEW t \in Threads, Arrive(t) PROVE IInv'
<1> USE DEF IInv, Arrive, At
<1>1. PICK l \in {"reset", "spin"} : Goto(t, l) /\ (l = "reset" <=> arrived = N - 1)
  BY DEF Goto
<1>2. /\ pc' \in [Threads -> Labels] /\ pc'[t] = l /\ pc[t] = "arrive"
      /\ \A u \in Threads : u # t => pc'[u] = pc[u]
  BY <1>1, GotoFits DEF Labels
<1>3. mywait[t] = wait /\ t \notin Came /\ ~Old(t) BY DEF PlaceFits, Came, Old
<1>4. \A u \in Threads : pc[u] \notin {"reset", "flip"} BY <1>3 DEF PlaceFits
<1>5. arrived = Cardinality(Came) BY <1>4 DEF Counted
<1>6. Came' = Came \cup {t} BY <1>2, <1>3 DEF Came, Inside
<1>7. arrived' = Cardinality(Came') /\ arrived' <= N /\ (arrived' = N => Came' = Threads)
  <2>1. Cardinality(Came') = Cardinality(Came) + 1
    BY <1>3, <1>6, CameFacts, FS_AddElement
  <2>2. Came' \in SUBSET Threads BY <1>6, CameFacts
  <2>3. Cardinality(Came') <= N /\ (N = Cardinality(Came') => Threads = Came')
    BY <2>2, CountFacts, FS_Subset
  <2> QED BY <1>5, <2>1, <2>3
<1>8. arrived \in Slots BY <1>5, <1>7, CameFacts, CountFacts
<1>9. /\ id' \in [Threads -> Slots] /\ id'[t] = arrived
      /\ \A u \in Threads : u # t => id'[u] = id[u]
  BY <1>8 DEF Types
<1>10. OldOnes' = OldOnes BY <1>2, <1>3 DEF OldOnes, Old, Inside
<1>11. l = "reset" => Came' = Threads BY <1>1, <1>7, <1>8, CountFacts
<1>12. \A u \in Threads : Leads(u)' <=> Leads(u) \/ (u = t /\ l = "reset")
  BY <1>2 DEF Leads
<1>13. OneLeader'
  <2>1. CASE l = "reset"
    <3>1. \A u \in Threads : u \in Came' BY <1>11, <2>1
    <3>2. \A u \in Threads : ~Old(u) BY <1>3, <1>6, <3>1 DEF Came, Old
    <3>3. \A u \in Threads : ~Leads(u) BY <1>4, <3>2 DEF PlaceFits, Leads
    <3> QED BY <1>12, <3>3 DEF OneLeader
  <2>2. CASE l # "reset" BY <1>12, <2>2 DEF OneLeader
  <2> QED BY <2>1, <2>2
<1>14. RoundsFit'
  <2>1. \A u \in Threads : Old(u)' <=> Old(u) BY <1>10 DEF OldOnes
  <2> QED BY <2>1 DEF RoundsFit
<1>15. \A u \in Threads : pc'[u] # "flip" BY <1>2, <1>4
<1>16. Counted' BY <1>7, <1>15 DEF Counted
<1>17. SlotsTaken'
  <2>1. \A i \in Slots : i < arrived + 1 => \E u \in Came' : id'[u] = i
    <3> SUFFICES ASSUME NEW i \in Slots, i < arrived + 1 PROVE \E u \in Came' : id'[u] = i
      OBVIOUS
    <3>1. CASE i = arrived BY <1>6, <1>9, <3>1
    <3>2. CASE i # arrived
      <4>1. i < arrived BY <1>8, <3>2, CountFacts
      <4>2. PICK u \in Came : id[u] = i BY <4>1 DEF SlotsTaken
      <4> QED BY <1>3, <1>6, <1>9, <4>2, CameFacts
    <3> QED BY <3>1, <3>2
  <2>2. ASSUME NEW v \in Threads, pc'[v] = "signal"
        PROVE  /\ \A i \in Slots : i >= index[v] => \E u \in OldOnes : id'[u] = i
               /\ \A u \in Came' : id'[u] < index[v]
    <3>1. pc[v] = "signal" BY <1>2, <2>2
    <3>2. \A u \in OldOnes : id'[u] = id[u] BY <1>3, <1>9 DEF OldOnes
    <3>3. \A u \in Came : id'[u] = id[u] BY <1>3, <1>9, CameFacts
    <3>4. arrived < index[v] BY <1>3, <3>1, SlotIsSet
    <3> QED BY <1>6, <1>9, <3>1, <3>2, <3>3, <3>4 DEF SlotsTaken
  <2> QED BY <1>10, <1>15, <2>1, <2>2 DEF SlotsTaken, Slots
<1>18. SignalsFit' BY <1>2 DEF SignalsFit, Slots
<1>19. ASSUME NEW u \in Threads PROVE PlaceFits(u)'
  <2>1. CASE u = t
    <3>1. entered[t] = passed[t] + 1 /\ index[t] = 0 BY <1>2 DEF PlaceFits
    <3> QED BY <1>2, <1>11, <2>1, <3>1 DEF PlaceFits
  <2>2. CASE u # t
    <3>1. Old(u)' <=> Old(u) BY <1>10 DEF OldOnes
    <3> QED BY <1>2, <1>4, <2>2, <3>1 DEF PlaceFits, Slots
  <2> QED BY <2>1, <2>2
<1>20. LocksFit' BY <1>2, LocksKept
<1>21. QueuesFit' BY <1>2, QueuesKept
<1>22. Types'
  <2>1. arrived' \in Nat BY DEF Types
  <2> QED BY <1>2, <1>9, <2>1 DEF Types, Slots
<1>23. BlockedFits' BY <1>2, BlockedKept
<1> QED BY <1>13, <1>14, <1>16, <1>17, <1>18, <1>19, <1>20, <1>21, <1>22, <1>23
----------------------------------------------------------------------------
(* The last thread releases the others.                                    *)

LEMMA ResetInvariant ==
  ASSUME IInv, NEW t \in Threads, Reset(t) PROVE IInv'
<1> USE DEF IInv, Reset, At, locals
<1>1. /\ pc' \in [Threads -> Labels] /\ pc'[t] = "flip" /\ pc[t] = "reset"
      /\ \A u \in Threads : u # t => pc'[u] = pc[u]
  BY GotoFits DEF Labels
<1>2. \A u \in Threads : u # t => ~Leads(u) BY <1>1 DEF OneLeader, Leads
<1>3. Came' = Came BY <1>1 DEF Came, Inside
<1>4. OldOnes' = OldOnes BY <1>1 DEF OldOnes, Old, Inside
<1>5. arrived = N
  <2>1. \A u \in Threads : u \in Came BY <1>1 DEF PlaceFits
  <2>2. Came = Threads BY <2>1, CameFacts
  <2>3. \A u \in Threads : pc[u] # "flip" BY <1>1, <1>2 DEF Leads
  <2> QED BY <2>2, <2>3, CountFacts DEF Counted
<1>6. OneLeader' BY <1>1, <1>2 DEF OneLeader, Leads
<1>7. RoundsFit'
  <2>1. \A u \in Threads : Old(u)' <=> Old(u) BY <1>4 DEF OldOnes
  <2> QED BY <2>1 DEF RoundsFit
<1>8. Counted' BY <1>1 DEF Counted
<1>9. SlotsTaken'
  <2>1. \A i \in Slots : ~(i < arrived') BY CountFacts
  <2>2. \A i \in Slots : \E u \in Came : id[u] = i
    <3>1. \A i \in Slots : i < arrived BY <1>5, CountFacts
    <3> QED BY <3>1 DEF SlotsTaken
  <2>3. \A u \in Threads : pc'[u] # "signal" BY <1>1, <1>2 DEF Leads
  <2> QED BY <1>3, <2>1, <2>2, <2>3 DEF SlotsTaken, Slots
<1>10. SignalsFit' BY <1>1 DEF SignalsFit, Slots
<1>11. ASSUME NEW u \in Threads PROVE PlaceFits(u)'
  <2>1. Old(u)' <=> Old(u) BY <1>4 DEF OldOnes
  <2>2. CASE u = t BY <1>1, <1>3, <2>1, <2>2 DEF PlaceFits
  <2>3. CASE u # t BY <1>1, <1>3, <2>1, <2>3 DEF PlaceFits, Slots
  <2> QED BY <2>2, <2>3
<1>12. LocksFit' BY <1>1, LocksKept
<1>13. QueuesFit' BY <1>1, QueuesKept
<1>14. Types' BY <1>1 DEF Types, Slots
<1>15. BlockedFits' BY <1>1, BlockedKept
<1> QED BY <1>6, <1>7, <1>8, <1>9, <1>10, <1>11, <1>12, <1>13, <1>14, <1>15

\* Everybody is in: the new ones become the old ones, all at once.
LEMMA FlipInvariant ==
  ASSUME IInv, NEW t \in Threads, Flip(t) PROVE IInv'
<1> USE DEF IInv, Flip, At, locals
<1>1. /\ pc' \in [Threads -> Labels] /\ pc'[t] = "signal" /\ pc[t] = "flip"
      /\ \A u \in Threads : u # t => pc'[u] = pc[u]
  BY GotoFits DEF Labels
<1>2. \A u \in Threads : u # t => ~Leads(u) BY <1>1 DEF OneLeader, Leads
<1>3. \A u \in Threads : u \in Came BY <1>1 DEF PlaceFits
<1>4. wait' \in BOOLEAN /\ wait' # wait /\ wait \in BOOLEAN BY DEF Types
<1>5. \A u \in Threads : ~Old(u) /\ Old(u)'
  BY <1>1, <1>3, <1>4 DEF Came, Old, Inside
<1>6. Came' = {} /\ \A u \in Threads : u \in OldOnes'
  BY <1>5 DEF Came, OldOnes, Old
<1>7. arrived = 0 /\ index[t] = 0 BY <1>1 DEF Counted, PlaceFits
<1>8. OneLeader' BY <1>1, <1>2 DEF OneLeader, Leads
<1>9. RoundsFit'
  <2>1. \A u, v \in Threads : passed[u] + 0 = passed[v] + 0 BY <1>5 DEF RoundsFit
  <2>2. \A u, v \in Threads : passed[u] + 1 = passed[v] + 1 BY <2>1 DEF Types
  <2> QED BY <1>5, <2>2 DEF RoundsFit
<1>10. \A u \in Threads : pc'[u] # "flip" BY <1>1, <1>2 DEF Leads
<1>11. Counted' BY <1>6, <1>7, <1>10, FS_EmptySet DEF Counted
<1>12. \A u \in Threads : pc'[u] = "signal" => u = t BY <1>1, <1>2 DEF Leads
<1>13. SlotsTaken'
  <2>1. \A i \in Slots : ~(i < arrived') BY <1>7, CountFacts
  <2>2. \A i \in Slots : \E u \in OldOnes' : id[u] = i
    <3>1. \A i \in Slots : \E u \in Came : id[u] = i BY <1>1 DEF SlotsTaken
    <3> QED BY <3>1, <1>6, CameFacts
  <2> QED BY <1>6, <1>10, <1>12, <2>1, <2>2 DEF SlotsTaken, Slots
<1>14. SignalsFit'
  <2>1. \A i \in Slots : signals[i] = wait BY <1>1, <1>2 DEF SignalsFit, Leads
  <2>2. \A i \in Slots : ~(i < index[t]) BY <1>7, CountFacts
  <2> QED BY <1>1, <1>4, <1>12, <2>1, <2>2 DEF SignalsFit, Slots
<1>15. ASSUME NEW u \in Threads PROVE PlaceFits(u)'
  <2>1. CASE u = t
    <3>1. 0 \in Slots BY CountFacts
    <3> QED BY <1>1, <1>5, <1>7, <2>1, <3>1 DEF PlaceFits, Slots
  <2>2. CASE u # t
    <3>1. pc[u] \notin {"arrive", "reset", "flip", "signal", "release_lock", "release"}
      BY <1>2, <1>3, <2>2 DEF Came, Leads
    <3> QED BY <1>1, <2>2, <3>1 DEF PlaceFits
  <2> QED BY <2>1, <2>2
<1>16. LocksFit' BY <1>1, LocksKept
<1>17. QueuesFit' BY <1>1, QueuesKept
<1>18. Types' BY <1>1, <1>4 DEF Types, Slots
<1>19. BlockedFits' BY <1>1, BlockedKept
<1> QED BY <1>8, <1>9, <1>11, <1>13, <1>14, <1>15, <1>16, <1>17, <1>18, <1>19

LEMMA SignalInvariant ==
  ASSUME IInv, NEW t \in Threads, Signal(t) PROVE IInv'
<1> USE DEF IInv, Signal, At
<1>1. PICK l \in {"signal", "release_lock"}, k \in Nat :
        /\ pc' = [pc EXCEPT ![t] = l] /\ index' = [index EXCEPT ![t] = k]
        /\ IF index[t] = N - 1 THEN l = "release_lock" /\ k = 0
                               ELSE l = "signal" /\ k = index[t] + 1
  <2>1. CASE index[t] = N - 1
    <3>1. pc' = [pc EXCEPT ![t] = "release_lock"] /\ index' = [index EXCEPT ![t] = 0]
      BY <2>1 DEF Goto
    <3> QED BY <2>1, <3>1
  <2>2. CASE index[t] # N - 1
    <3>1. pc' = [pc EXCEPT ![t] = "signal"] /\ index' = [index EXCEPT ![t] = index[t] + 1]
      BY <2>2 DEF Types
    <3>2. index[t] + 1 \in Nat BY DEF Types
    <3> QED BY <2>2, <3>1, <3>2
  <2> QED BY <2>1, <2>2
<1>2. /\ pc' \in [Threads -> Labels] /\ pc'[t] = l /\ pc[t] = "signal"
      /\ \A u \in Threads : u # t => pc'[u] = pc[u]
  BY <1>1 DEF Types, Labels
<1>3. /\ index' \in [Threads -> Nat] /\ index'[t] = k
      /\ \A u \in Threads : u # t => index'[u] = index[u]
  BY <1>1 DEF Types
<1>4. index[t] \in 0 .. N - 1 /\ N \in Nat /\ Old(t) BY <1>2, CountFacts DEF PlaceFits
<1>5. \A u \in Threads : u # t => ~Leads(u) BY <1>2 DEF OneLeader, Leads
<1>6. Came' = Came BY <1>2 DEF Came, Inside
<1>7. OldOnes' = OldOnes BY <1>2 DEF OldOnes, Old, Inside
<1>8. /\ signals' \in [Slots -> BOOLEAN] /\ signals'[index[t]] = wait
      /\ \A i \in Slots : i # index[t] => signals'[i] = signals[i]
  <2>1. mywait[t] \in BOOLEAN /\ wait \in BOOLEAN /\ mywait[t] # wait BY <1>4 DEF Types, Old
  <2>2. PICK w \in BOOLEAN : w = ~mywait[t] /\ w = wait BY <2>1
  <2>3. signals' = [signals EXCEPT ![index[t]] = w] BY <2>2
  <2> QED BY <1>4, <2>2, <2>3, CountFacts DEF Types
<1>9. OneLeader' BY <1>2, <1>5 DEF OneLeader, Leads
<1>10. RoundsFit'
  <2>1. \A u \in Threads : Old(u)' <=> Old(u) BY <1>7 DEF OldOnes
  <2> QED BY <2>1 DEF RoundsFit
<1>11. \A u \in Threads : pc[u] # "flip" /\ pc'[u] # "flip" BY <1>2, <1>5 DEF Leads
<1>12. Counted' BY <1>6, <1>11 DEF Counted
<1>13. \A u \in Threads : pc'[u] = "signal" => u = t /\ l = "signal" BY <1>2, <1>5 DEF Leads
<1>14. \A i \in Slots : signals[i] = wait <=> i < index[t] BY <1>2 DEF SignalsFit
<1>15. SlotsTaken'
  <2>1. \A i \in Slots : i < arrived => \E u \in Came : id[u] = i BY DEF SlotsTaken
  <2>2. ASSUME l = "signal"
        PROVE  /\ \A i \in Slots : i >= k => \E u \in OldOnes : id[u] = i
               /\ \A u \in Came : id[u] < k
    <3>1. k = index[t] + 1 BY <1>1, <2>2
    <3>2. /\ \A i \in Slots : i >= index[t] => \E u \in OldOnes : id[u] = i
          /\ \A u \in Came : id[u] < index[t]
      BY <1>2 DEF SlotsTaken
    <3>3. \A i \in Slots : i >= k => i >= index[t] BY <1>4, <3>1, CountFacts
    <3>4. \A u \in Came : id[u] \in 0 .. N - 1 BY CameFacts, CountFacts DEF Types
    <3> QED BY <1>4, <3>1, <3>2, <3>3, <3>4
  <2> QED BY <1>3, <1>6, <1>7, <1>11, <1>13, <2>1, <2>2 DEF SlotsTaken, Slots
<1>16. SignalsFit'
  <2>1. CASE l = "signal"
    <3>1. k = index[t] + 1 BY <1>1, <2>1
    <3>2. \A i \in Slots : i < k <=> i < index[t] \/ i = index[t] BY <1>4, <3>1, CountFacts
    <3>3. \A i \in Slots : signals'[i] = wait <=> i < k BY <1>8, <1>14, <3>2
    <3> QED BY <1>2, <1>3, <1>13, <2>1, <3>3 DEF SignalsFit, Slots
  <2>2. CASE l = "release_lock"
    <3>1. index[t] = N - 1 BY <1>1, <2>2
    <3>2. \A i \in Slots : i < index[t] \/ i = index[t] BY <1>4, <3>1, CountFacts
    <3>3. \A i \in Slots : signals'[i] = wait BY <1>8, <1>14, <3>2
    <3> QED BY <1>13, <2>2, <3>3 DEF SignalsFit, Slots
  <2> QED BY <2>1, <2>2
<1>17. ASSUME NEW u \in Threads PROVE PlaceFits(u)'
  <2>1. Old(u)' <=> Old(u) BY <1>7 DEF OldOnes
  <2>2. CASE u = t
    <3>1. l = "signal" => k \in Slots BY <1>1, <1>4, CountFacts
    <3>2. l = "release_lock" => k = 0 BY <1>1
    <3>3. entered[t] = passed[t] + 1 BY <1>2 DEF PlaceFits
    <3> QED BY <1>2, <1>3, <1>4, <2>1, <2>2, <3>1, <3>2, <3>3 DEF PlaceFits, Slots
  <2>3. CASE u # t BY <1>2, <1>3, <1>6, <2>1, <2>3 DEF PlaceFits, Slots
  <2> QED BY <2>2, <2>3
<1>18. LocksFit' BY <1>2, LocksKept
<1>19. QueuesFit' BY <1>2, <1>3, QueuesKept
<1>20. Types' BY <1>2, <1>3, <1>8 DEF Types, Slots, locals
<1>21. BlockedFits' BY <1>2, <1>3, BlockedKept
<1> QED BY <1>9, <1>10, <1>12, <1>15, <1>16, <1>17, <1>18, <1>19, <1>20, <1>21
----------------------------------------------------------------------------
(* Blocking and being made runnable.                                       *)

\* A thread goes from one place to another between its arrival and its return, or
\* from one part of the release loop to another.
LEMMA InnerStep ==
  ASSUME IInv, NEW t \in Threads, UNCHANGED <<arrived, wait, signals, passed, entered, id, mywait>>,
         \A u \in Threads : u # t => pc'[u] = pc[u] /\ index'[u] = index[u],
         \/ pc[t] \in {"spin", "block_lock", "recheck", "block"}
            /\ pc'[t] \in {"spin", "block_lock", "recheck", "block"}
         \/ pc[t] \in {"release_lock", "release"} /\ pc'[t] = "release",
         pc'[t] = "release" => index'[t] <= Len(blocked'[mywait[t]]),
         pc'[t] # "release" => index'[t] = 0,
         \A u \in Threads : pc[u] = "release" /\ u # t =>
           blocked'[mywait[u]] = blocked[mywait[u]]
  PROVE  /\ OneLeader' /\ RoundsFit' /\ Counted' /\ SlotsTaken' /\ SignalsFit'
         /\ (\A u \in Threads : PlaceFits(u))'
<1> USE DEF IInv
<1>1. /\ Came' = Came /\ OldOnes' = OldOnes
      /\ \A u \in Threads : Old(u)' <=> Old(u)
  BY DEF Came, OldOnes, Old, Inside
<1>2. OneLeader' /\ RoundsFit' /\ Counted' /\ SlotsTaken' /\ SignalsFit'
  BY <1>1, SensesKept DEF Leads
<1>3. ASSUME NEW u \in Threads PROVE PlaceFits(u)'
  <2>1. CASE u = t
    <3>1. entered[t] = passed[t] + 1 /\ (pc'[t] = "release" => Old(t)) BY DEF PlaceFits
    <3> QED BY <1>1, <2>1, <3>1 DEF PlaceFits
  <2>2. CASE u # t BY <1>1, <2>2 DEF PlaceFits, Slots
  <2> QED BY <2>1, <2>2
<1> QED BY <1>2, <1>3

\* The lock of a queue is taken, by the releasing thread or by one that will block.
LEMMA LockQueueStep ==
  ASSUME IInv, NEW t \in Threads, NEW from, NEW to, LockQueue(t, from, to),
         \/ from = "release_lock" /\ to = "release"
         \/ from = "block_lock" /\ to = "recheck"
  PROVE  IInv'
<1> USE DEF IInv, LockQueue, At, locals
<1>1. /\ pc' \in [Threads -> Labels] /\ pc'[t] = to /\ pc[t] = from
      /\ \A u \in Threads : u # t => pc'[u] = pc[u]
  BY GotoFits DEF Labels
<1>2. index[t] = 0 BY <1>1 DEF PlaceFits
<1>3. PICK b \in BOOLEAN : b = mywait[t] BY DEF Types
<1>4. /\ mtx' \in [BOOLEAN -> Threads \cup {NULL}] /\ mtx[b] = NULL /\ mtx'[b] = t
      /\ \A c \in BOOLEAN : c # b => mtx'[c] = mtx[c]
  BY <1>3 DEF Types
<1>5. /\ OneLeader' /\ RoundsFit' /\ Counted' /\ SlotsTaken' /\ SignalsFit'
      /\ (\A u \in Threads : PlaceFits(u))'
  <2>1. 0 <= Len(blocked[mywait[t]])
    <3>1. blocked[b] \in Seq(Threads) BY DEF Types
    <3> QED BY <1>3, <3>1
  <2> QED BY <1>1, <1>2, <2>1, InnerStep
<1>6. LocksFit'
  <2> SUFFICES ASSUME NEW u \in Threads, NEW c \in BOOLEAN
               PROVE  mtx'[c] = u <=> pc'[u] \in {"release", "recheck", "block"} /\ mywait[u] = c
    BY DEF LocksFit
  <2>1. u # NULL /\ t # NULL BY CountFacts
  <2>2. mtx[c] = u <=> pc[u] \in {"release", "recheck", "block"} /\ mywait[u] = c
    BY DEF LocksFit
  <2>3. CASE u = t BY <1>1, <1>3, <1>4, <2>1, <2>2, <2>3
  <2>4. CASE u # t BY <1>1, <1>3, <1>4, <2>1, <2>2, <2>4
  <2> QED BY <2>3, <2>4
<1>7. QueuesFit' BY <1>1, QueuesKept
<1>8. Types' BY <1>1, <1>4 DEF Types, Slots
<1>9. BlockedFits' BY <1>1, <1>2, BlockedKept
<1> QED BY <1>5, <1>6, <1>7, <1>8, <1>9

LEMMA StalledInvariant ==
  ASSUME IInv, NEW t \in Threads, Stalled(t) PROVE IInv'
<1> USE DEF IInv, Stalled, At, locals, barrier
<1>1. /\ pc' \in [Threads -> Labels] /\ pc'[t] = "block_lock" /\ pc[t] = "spin"
      /\ \A u \in Threads : u # t => pc'[u] = pc[u]
  BY GotoFits DEF Labels
<1>2. index[t] = 0 BY <1>1 DEF PlaceFits
<1>3. /\ OneLeader' /\ RoundsFit' /\ Counted' /\ SlotsTaken' /\ SignalsFit'
      /\ (\A u \in Threads : PlaceFits(u))'
  BY <1>1, <1>2, InnerStep
<1>4. LocksFit' BY <1>1, LocksKept
<1>5. QueuesFit' BY <1>1, QueuesKept
<1>6. Types' BY <1>1 DEF Types, Slots
<1>7. BlockedFits' BY <1>1, BlockedKept
<1> QED BY <1>3, <1>4, <1>5, <1>6, <1>7

LEMMA RecheckInvariant ==
  ASSUME IInv, NEW t \in Threads, Recheck(t) PROVE IInv'
<1> USE DEF IInv, Recheck, At, locals
<1>1. PICK l \in {"block", "spin"} :
        /\ Goto(t, l) /\ (l = "block" => ~Signalled(t))
        /\ mtx' = IF l = "block" THEN mtx ELSE [mtx EXCEPT ![mywait[t]] = NULL]
  OBVIOUS
<1>2. /\ pc' \in [Threads -> Labels] /\ pc'[t] = l /\ pc[t] = "recheck"
      /\ \A u \in Threads : u # t => pc'[u] = pc[u]
  BY <1>1, GotoFits DEF Labels
<1>3. index[t] = 0 BY <1>2 DEF PlaceFits
<1>4. /\ OneLeader' /\ RoundsFit' /\ Counted' /\ SlotsTaken' /\ SignalsFit'
      /\ (\A u \in Threads : PlaceFits(u))'
  BY <1>2, <1>3, InnerStep
<1>5. PICK b \in BOOLEAN : b = mywait[t] BY DEF Types
<1>6. mtx[b] = t BY <1>2, <1>5 DEF LocksFit
<1>7. /\ mtx' \in [BOOLEAN -> Threads \cup {NULL}]
      /\ mtx'[b] = IF l = "block" THEN t ELSE NULL
      /\ \A c \in BOOLEAN : c # b => mtx'[c] = mtx[c]
  <2>1. CASE l = "block" BY <1>1, <1>6, <2>1 DEF Types
  <2>2. CASE l = "spin" BY <1>1, <1>5, <2>2 DEF Types
  <2> QED BY <2>1, <2>2
<1>8. LocksFit'
  <2> SUFFICES ASSUME NEW u \in Threads, NEW c \in BOOLEAN
               PROVE  mtx'[c] = u <=> pc'[u] \in {"release", "recheck", "block"} /\ mywait[u] = c
    BY DEF LocksFit
  <2>1. u # NULL BY CountFacts
  <2>2. mtx[c] = u <=> pc[u] \in {"release", "recheck", "block"} /\ mywait[u] = c
    BY DEF LocksFit
  <2>3. CASE u = t
    <3>1. CASE c = b BY <1>2, <1>5, <1>7, <2>1, <2>3, <3>1
    <3>2. CASE c # b BY <1>2, <1>5, <1>7, <2>2, <2>3, <3>2
    <3> QED BY <3>1, <3>2
  <2>4. CASE u # t
    <3>1. CASE c = b BY <1>2, <1>6, <1>7, <2>1, <2>2, <2>4, <3>1
    <3>2. CASE c # b BY <1>2, <1>7, <2>2, <2>4, <3>2
    <3> QED BY <3>1, <3>2
  <2> QED BY <2>3, <2>4
<1>9. QueuesFit' BY <1>2, QueuesKept
<1>10. Types' BY <1>2, <1>7 DEF Types, Slots
<1>11. BlockedFits'
  <2>1. CASE l = "block" /\ Old(t)
    <3>1. /\ id[t] \in Slots /\ wait \in BOOLEAN /\ mywait[t] \in BOOLEAN
          /\ signals[id[t]] \in BOOLEAN /\ mywait[t] # wait
      BY <2>1 DEF Types, Old
    <3>2. ~Signalled(t) BY <1>1, <2>1
    <3>3. signals[id[t]] # wait BY <3>1, <3>2 DEF Signalled
    <3>4. PICK v \in Threads : pc[v] = "signal" BY <3>1, <3>3 DEF SignalsFit
    <3>5. pc'[v] = "signal" BY <1>2, <3>4
    <3> QED BY <1>2, <3>5, BlockedKept
  <2>2. CASE l = "spin" \/ ~Old(t)
    <3>1. ~(pc'[t] = "block" /\ Old(t)') BY <1>2, <2>2 DEF Old, Inside
    <3> QED BY <1>2, <3>1, BlockedKept
  <2> QED BY <2>1, <2>2
<1> QED BY <1>4, <1>8, <1>9, <1>10, <1>11
\* While a thread is in its callback, nobody empties the queue it joins.
LEMMA BlockCallbackInvariant ==
  ASSUME IInv, NEW t \in Threads, BlockCallback(t) PROVE IInv'
<1> USE DEF IInv, BlockCallback, At, locals
<1>1. /\ pc' \in [Threads -> Labels] /\ pc'[t] = "spin" /\ pc[t] = "block"
      /\ \A u \in Threads : u # t => pc'[u] = pc[u]
  BY GotoFits DEF Labels
<1>2. index[t] = 0 BY <1>1 DEF PlaceFits
<1>3. PICK b \in BOOLEAN : b = mywait[t] BY DEF Types
<1>4. mtx[b] = t BY <1>1, <1>3 DEF LocksFit
<1>5. PICK q \in Seq(Threads) : q = blocked[b] BY DEF Types
<1>6. /\ blocked' \in [BOOLEAN -> Seq(Threads)] /\ blocked'[b] = Append(q, t)
      /\ \A c \in BOOLEAN : c # b => blocked'[c] = blocked[c]
  <2>1. Append(q, t) \in Seq(Threads) BY AppendRange
  <2>2. blocked' = [blocked EXCEPT ![b] = Append(q, t)] BY <1>3, <1>5
  <2> QED BY <2>1, <2>2 DEF Types
<1>7. /\ mtx' \in [BOOLEAN -> Threads \cup {NULL}] /\ mtx'[b] = NULL
      /\ \A c \in BOOLEAN : c # b => mtx'[c] = mtx[c]
  BY <1>3 DEF Types
<1>8. /\ run' \in [Threads -> {"running", "blocked"}] /\ run'[t] = "blocked" /\ run[t] = "running"
      /\ \A u \in Threads : u # t => run'[u] = run[u]
  BY DEF Types
<1>9. \A u \in Threads : pc[u] = "release" => mywait[u] # b /\ mywait[u] \in BOOLEAN
  BY <1>1, <1>4 DEF LocksFit, Types
<1>10. /\ OneLeader' /\ RoundsFit' /\ Counted' /\ SlotsTaken' /\ SignalsFit'
       /\ (\A u \in Threads : PlaceFits(u))'
  <2>1. \A u \in Threads : pc[u] = "release" => blocked'[mywait[u]] = blocked[mywait[u]]
    BY <1>6, <1>9
  <2> QED BY <1>1, <1>2, <2>1, InnerStep
<1>11. LocksFit'
  <2> SUFFICES ASSUME NEW u \in Threads, NEW c \in BOOLEAN
               PROVE  mtx'[c] = u <=> pc'[u] \in {"release", "recheck", "block"} /\ mywait[u] = c
    BY DEF LocksFit
  <2>1. u # NULL BY CountFacts
  <2>2. mtx[c] = u <=> pc[u] \in {"release", "recheck", "block"} /\ mywait[u] = c
    BY DEF LocksFit
  <2>3. CASE c = b BY <1>1, <1>3, <1>4, <1>7, <2>1, <2>2, <2>3
  <2>4. CASE c # b BY <1>1, <1>3, <1>7, <2>2, <2>4
  <2> QED BY <2>3, <2>4
<1>12. QueuesFit'
  <2>1. \A c \in BOOLEAN : \A i \in Nat : Live(c, i)' <=> Live(c, i)
    BY <1>1 DEF Live
  <2>2. \A i \in Nat : Live(b, i) BY <1>9 DEF Live
  <2>3. ASSUME NEW c \in BOOLEAN, NEW i \in 1 .. Len(blocked[c]), Live(c, i)
        PROVE  /\ blocked[c][i] \in Threads /\ blocked[c][i] # t
               /\ run'[blocked[c][i]] = "blocked" /\ pc'[blocked[c][i]] = "spin"
               /\ mywait[blocked[c][i]] = c
    <3>1. blocked[c][i] \in Threads BY DEF Types
    <3>2. /\ run[blocked[c][i]] = "blocked" /\ pc[blocked[c][i]] = "spin"
          /\ mywait[blocked[c][i]] = c
      BY <2>3 DEF QueuesFit
    <3>3. blocked[c][i] # t BY <1>8, <3>2
    <3> QED BY <1>1, <1>8, <3>1, <3>2, <3>3
  <2>4. /\ Len(Append(q, t)) = Len(q) + 1 /\ Len(q) \in Nat
        /\ Append(q, t)[Len(q) + 1] = t
        /\ \A i \in 1 .. Len(q) : Append(q, t)[i] = q[i]
    OBVIOUS
  <2>5. \A j \in 1 .. Len(q) :
          /\ q[j] \in Threads /\ q[j] # t /\ run'[q[j]] = "blocked" /\ pc'[q[j]] = "spin"
          /\ mywait[q[j]] = b
    <3>1. \A j \in 1 .. Len(q) : Live(b, j) BY <2>2
    <3> QED BY <1>5, <2>3, <3>1
  <2>6. ASSUME NEW c \in BOOLEAN PROVE IsInjective(blocked'[c])
    <3>1. CASE c = b
      <4>1. IsInjective(q) BY <1>5 DEF QueuesFit
      <4>2. t \notin Range(q) BY <2>5 DEF Range
      <4>3. IsInjective(Append(q, t)) BY <4>1, <4>2, AppendNew
      <4>4. blocked'[c] = Append(q, t) BY <1>6, <3>1
      <4> QED BY <4>3, <4>4
    <3>2. CASE c # b BY <1>6, <3>2 DEF QueuesFit
    <3> QED BY <3>1, <3>2
  <2>7. ASSUME NEW c \in BOOLEAN, NEW i \in 1 .. Len(blocked'[c]), Live(c, i)'
        PROVE  /\ run'[blocked'[c][i]] = "blocked"
               /\ pc'[blocked'[c][i]] = "spin" /\ mywait'[blocked'[c][i]] = c
    <3>0. mywait' = mywait OBVIOUS
    <3>1. CASE c # b
      <4>1. blocked'[c] = blocked[c] BY <1>6, <3>1
      <4>2. i \in 1 .. Len(blocked[c]) /\ i \in Nat
        <5>1. blocked[c] \in Seq(Threads) BY DEF Types
        <5> HIDE DEF IInv, BlockCallback
        <5> QED BY <2>7, <4>1, <5>1
      <4>3. Live(c, i) BY <2>1, <2>7, <4>2
      <4> HIDE DEF IInv, BlockCallback
      <4> QED BY <2>3, <3>0, <4>1, <4>2, <4>3
    <3>2. CASE c = b
      <4>1. blocked'[c] = Append(q, t) BY <1>6, <3>2
      <4>2. i \in 1 .. Len(q) + 1 BY <2>4, <2>7, <4>1
      <4>3. CASE i = Len(q) + 1 BY <1>1, <1>3, <1>8, <2>4, <3>0, <3>2, <4>1, <4>3
      <4>4. CASE i # Len(q) + 1
        <5>1. i \in 1 .. Len(q) /\ Append(q, t)[i] = q[i] BY <2>4, <4>2, <4>4
        <5> HIDE DEF IInv, BlockCallback
        <5> QED BY <2>5, <3>0, <3>2, <4>1, <5>1
      <4> QED BY <4>3, <4>4
    <3> QED BY <3>1, <3>2
  <2> QED BY <2>6, <2>7 DEF QueuesFit
<1>13. Types' BY <1>1, <1>6, <1>7, <1>8 DEF Types, Slots
<1>14. BlockedFits'
  <2>1. ASSUME NEW u \in Threads, run'[u] = "blocked"
        PROVE  \E i \in 1 .. Len(blocked'[mywait[u]]) :
                 blocked'[mywait[u]][i] = u /\ Live(mywait[u], i)'
    <3>1. \A c \in BOOLEAN : \A i \in Nat : Live(c, i)' <=> Live(c, i)
      BY <1>1 DEF Live
    <3>2. /\ Len(Append(q, t)) = Len(q) + 1 /\ Len(q) \in Nat /\ Append(q, t)[Len(q) + 1] = t
          /\ \A i \in 1 .. Len(q) : Append(q, t)[i] = q[i]
      OBVIOUS
    <3>3. mywait[u] \in BOOLEAN BY DEF Types
    <3>4. CASE u = t
      <4>1. Live(b, Len(q) + 1) BY <1>9 DEF Live
      <4> QED BY <1>3, <1>6, <3>1, <3>2, <3>4, <4>1
    <3>5. CASE u # t
      <4>1. run[u] = "blocked" BY <1>8, <2>1, <3>5
      <4>2. PICK i \in 1 .. Len(blocked[mywait[u]]) :
              blocked[mywait[u]][i] = u /\ Live(mywait[u], i)
        BY <4>1 DEF BlockedFits
      <4>3. blocked[mywait[u]] \in Seq(Threads) BY <3>3 DEF Types
      <4>4. i \in Nat BY <4>2, <4>3
      <4>5. i \in 1 .. Len(blocked'[mywait[u]]) /\ blocked'[mywait[u]][i] = u
        <5>1. CASE mywait[u] = b BY <1>5, <1>6, <3>2, <4>2, <5>1
        <5>2. CASE mywait[u] # b
          <6>1. blocked'[mywait[u]] = blocked[mywait[u]] BY <1>6, <3>3, <5>2
          <6> QED BY <4>2, <6>1
        <5> QED BY <5>1, <5>2
      <4> QED BY <3>1, <3>3, <4>2, <4>4, <4>5
    <3> QED BY <3>4, <3>5
  <2>2. ASSUME NEW u \in Threads, Old(u)', run'[u] = "blocked" \/ pc'[u] = "block"
        PROVE  \E v \in Threads : pc'[v] \in {"signal", "release_lock", "release"}
    <3>1. Old(u) /\ (run[u] = "blocked" \/ pc[u] = "block")
      BY <1>1, <1>8, <2>2 DEF Old, Inside
    <3>2. PICK v \in Threads : pc[v] \in {"signal", "release_lock", "release"}
      BY <3>1 DEF BlockedFits
    <3> QED BY <1>1, <3>2
  <2>3. mywait' = mywait OBVIOUS
  <2> QED BY <2>1, <2>2, <2>3 DEF BlockedFits
<1> QED BY <1>10, <1>11, <1>12, <1>13, <1>14

\* One thread of the queue runs again; the loop does not come back to it.
LEMMA ReleaseOneInvariant ==
  ASSUME IInv, NEW t \in Threads, ReleaseOne(t) PROVE IInv'
<1> USE DEF IInv, ReleaseOne, At, barrier
<1>1. PICK b \in BOOLEAN : b = mywait[t] BY DEF Types
<1>2. PICK q \in Seq(Threads) : q = blocked[b] BY DEF Types
<1>3. /\ index' \in [Threads -> Nat] /\ index'[t] = index[t] + 1 /\ index[t] \in Nat
      /\ \A u \in Threads : u # t => index'[u] = index[u]
  <2>1. index \in [Threads -> Nat] BY DEF Types
  <2>2. index' = [index EXCEPT ![t] = @ + 1] OBVIOUS
  <2> HIDE DEF IInv, ReleaseOne
  <2> QED BY <2>1, <2>2
<1>4. index[t] + 1 \in 1 .. Len(q) /\ Len(q) \in Nat /\ index[t] < Len(q)
  BY <1>1, <1>2, <1>3
<1>5. PICK w \in Threads : w = q[index[t] + 1] BY <1>4
<1>6. /\ run' \in [Threads -> {"running", "blocked"}]
      /\ \A u \in Threads : u # w => run'[u] = run[u]
  BY <1>1, <1>2, <1>5 DEF Types
<1>7. \A u \in Threads : pc[u] = "release" => u = t BY DEF OneLeader, Leads
<1>8. /\ \A i \in Nat : Live(b, i) <=> index[t] < i
      /\ \A c \in BOOLEAN : \A i \in Nat : c # b => Live(c, i)
  BY <1>1, <1>7 DEF Live
<1>9. \A i \in Nat : Live(b, i)' <=> index[t] + 1 < i
  BY <1>1, <1>3, <1>7 DEF Live
<1>10. /\ OneLeader' /\ RoundsFit' /\ Counted' /\ SlotsTaken' /\ SignalsFit'
       /\ (\A u \in Threads : PlaceFits(u))'
  <2>1. index'[t] <= Len(blocked'[mywait[t]]) BY <1>1, <1>2, <1>3, <1>4
  <2> QED BY <1>3, <2>1, InnerStep
<1>11. LocksFit' BY DEF LocksFit
<1>12. QueuesFit'
  <2>1. mywait[w] = b
    <3>1. Live(b, index[t] + 1) BY <1>3, <1>8
    <3> QED BY <1>2, <1>4, <1>5, <3>1 DEF QueuesFit
  <2>2. \A j \in 1 .. Len(q) : q[j] = w => j = index[t] + 1
    <3>1. IsInjective(q) BY <1>2 DEF QueuesFit
    <3> QED BY <1>4, <1>5, <3>1 DEF IsInjective
  <2>3. ASSUME NEW c \in BOOLEAN, NEW i \in 1 .. Len(blocked[c]), Live(c, i)'
        PROVE  /\ run'[blocked[c][i]] = "blocked"
               /\ pc[blocked[c][i]] = "spin" /\ mywait[blocked[c][i]] = c
    <3>1. Live(c, i) /\ (c = b => index[t] + 1 < i)
      <4>1. CASE c = b BY <1>3, <1>8, <1>9, <2>3, <4>1
      <4>2. CASE c # b BY <1>8, <4>2
      <4> QED BY <4>1, <4>2
    <3>2. blocked[c][i] \in Threads BY DEF Types
    <3>3. /\ run[blocked[c][i]] = "blocked" /\ pc[blocked[c][i]] = "spin"
          /\ mywait[blocked[c][i]] = c
      BY <3>1 DEF QueuesFit
    <3>4. blocked[c][i] # w
      <4>1. CASE c = b BY <1>2, <1>3, <2>2, <3>1, <4>1
      <4>2. CASE c # b BY <2>1, <3>3, <4>2
      <4> QED BY <4>1, <4>2
    <3> QED BY <1>6, <3>2, <3>3, <3>4
  <2> QED BY <2>3 DEF QueuesFit
<1>13. Types' BY <1>3, <1>6 DEF Types, Slots
<1>14. BlockedFits'
  <2>1. ASSUME NEW u \in Threads, run'[u] = "blocked"
        PROVE  \E i \in 1 .. Len(blocked[mywait[u]]) :
                 blocked[mywait[u]][i] = u /\ Live(mywait[u], i)'
    <3>1. run[u] = "blocked" /\ u # w
      BY <1>1, <1>2, <1>5, <1>6, <2>1 DEF Types
    <3>2. PICK i \in 1 .. Len(blocked[mywait[u]]) :
            blocked[mywait[u]][i] = u /\ Live(mywait[u], i)
      BY <3>1 DEF BlockedFits
    <3>3. mywait[u] \in BOOLEAN BY DEF Types
    <3>4. blocked[mywait[u]] \in Seq(Threads) BY <3>3 DEF Types
    <3>5. i \in Nat BY <3>2, <3>4
    <3>6. Live(mywait[u], i)'
      <4>1. CASE mywait[u] = b
        <5>1. index[t] < i BY <1>8, <3>2, <3>5, <4>1
        <5>2. i # index[t] + 1 BY <1>2, <1>5, <3>1, <3>2, <4>1
        <5> QED BY <1>3, <1>9, <3>5, <4>1, <5>1, <5>2
      <4>2. CASE mywait[u] # b BY <1>1, <1>7, <4>2 DEF Live
      <4> QED BY <4>1, <4>2
    <3> QED BY <3>2, <3>6
  <2> QED BY <2>1 DEF BlockedFits
<1> QED BY <1>10, <1>11, <1>12, <1>13, <1>14
----------------------------------------------------------------------------
(* Going out.                                                              *)

\* An old thread returns.
LEMMA ReturnStep ==
  ASSUME IInv, NEW t \in Threads, Return(t), Old(t), UNCHANGED <<arrived, wait, signals, entered>>,
         pc[t] \in {"spin", "release"},
         \A v \in Threads : pc[v] = "signal" => id[t] < index[v],
         \A u \in Threads : pc[u] = "release" /\ u # t =>
           blocked'[mywait[u]] = blocked[mywait[u]]
  PROVE  /\ OneLeader' /\ RoundsFit' /\ Counted' /\ SlotsTaken' /\ SignalsFit'
         /\ (\A u \in Threads : PlaceFits(u))'
         /\ pc' \in [Threads -> Labels] /\ pc'[t] = "out" /\ id' \in [Threads -> Slots]
         /\ mywait' \in [Threads -> BOOLEAN] /\ index' \in [Threads -> Nat]
         /\ passed' \in [Threads -> Nat]
         /\ \A u \in Threads : u # t =>
              pc'[u] = pc[u] /\ mywait'[u] = mywait[u] /\ index'[u] = index[u]
<1> USE DEF IInv
<1>1. /\ pc' \in [Threads -> Labels] /\ pc'[t] = "out"
      /\ id' \in [Threads -> Slots] /\ mywait' \in [Threads -> BOOLEAN]
      /\ index' \in [Threads -> Nat] /\ index'[t] = 0
      /\ \A u \in Threads : u # t => pc'[u] = pc[u] /\ mywait'[u] = mywait[u]
                                 /\ index'[u] = index[u] /\ id'[u] = id[u]
  <2>1. 0 \in Slots BY CountFacts
  <2>2. /\ pc \in [Threads -> Labels] /\ id \in [Threads -> Slots]
        /\ mywait \in [Threads -> BOOLEAN] /\ index \in [Threads -> Nat]
    BY DEF Types
  <2> HIDE DEF IInv
  <2> QED BY <2>1, <2>2 DEF Return, Goto, Labels
<1>2. /\ passed' \in [Threads -> Nat] /\ passed'[t] = passed[t] + 1
      /\ \A u \in Threads : u # t => passed'[u] = passed[u]
  <2>1. passed \in [Threads -> Nat] BY DEF Types
  <2> HIDE DEF IInv
  <2> QED BY <2>1 DEF Return
<1>3. Came' = Came /\ t \notin Came BY <1>1 DEF Came, Old, Inside
<1>4. /\ ~Old(t)' /\ \A u \in Threads : u # t => (Old(u)' <=> Old(u))
  BY <1>1 DEF Old, Inside
<1>5. OneLeader' BY <1>1 DEF OneLeader, Leads
<1>6. RoundsFit'
  <2>1. \A u \in Threads :
          passed'[u] + (IF Old(u)' THEN 1 ELSE 0) = passed[u] + IF Old(u) THEN 1 ELSE 0
    <3> SUFFICES ASSUME NEW u \in Threads
                 PROVE passed'[u] + (IF Old(u)' THEN 1 ELSE 0) = passed[u] + IF Old(u) THEN 1 ELSE 0
      OBVIOUS
    <3>1. CASE u = t
      <4>1. passed[t] \in Nat /\ passed[t] + 1 + 0 = passed[t] + 1 BY DEF Types
      <4> QED BY <1>2, <1>4, <3>1, <4>1
    <3>2. CASE u # t BY <1>2, <1>4, <3>2
    <3> QED BY <3>1, <3>2
  <2> QED BY <2>1 DEF RoundsFit
<1>7. \A u \in Threads : /\ pc'[u] = "flip" <=> pc[u] = "flip"
                         /\ pc'[u] = "signal" <=> pc[u] = "signal"
                         /\ pc[u] = "signal" => u # t
  BY <1>1
<1>8. Counted' BY <1>3, <1>7 DEF Counted
<1>9. SlotsTaken'
  <2>1. \A u \in Came : id'[u] = id[u] BY <1>1, <1>3, CameFacts
  <2>2. ASSUME NEW v \in Threads, pc[v] = "signal", NEW i \in Slots, i >= index[v]
        PROVE  \E u \in OldOnes' : id'[u] = i
    <3>1. PICK u \in OldOnes : id[u] = i BY <2>2 DEF SlotsTaken
    <3>2. u # t
      <4>1. id[t] < index[v] /\ id[t] \in 0 .. N - 1 /\ index[v] \in 0 .. N - 1
        BY <2>2, CountFacts DEF PlaceFits, Types
      <4> QED BY <2>2, <3>1, <4>1, CountFacts
    <3> QED BY <1>1, <1>4, <3>1, <3>2 DEF OldOnes
  <2>3. /\ \A i \in Slots : i < arrived => \E u \in Came : id'[u] = i
        /\ \A v \in Threads : pc[v] = "flip" => \A i \in Slots : \E u \in Came : id'[u] = i
        /\ \A v \in Threads : pc[v] = "signal" => \A u \in Came : id'[u] < index'[v]
    BY <1>1, <1>7, <2>1 DEF SlotsTaken
  <2>4. \A v \in Threads : pc[v] = "signal" => index'[v] = index[v] BY <1>1, <1>7
  <2> QED BY <1>3, <1>7, <2>2, <2>3, <2>4 DEF SlotsTaken, Slots
<1>10. SignalsFit' BY <1>1, <1>7 DEF SignalsFit, Slots
<1>11. ASSUME NEW u \in Threads PROVE PlaceFits(u)'
  <2>1. CASE u = t
    <3>1. entered[t] = passed[t] + 1 BY DEF PlaceFits
    <3>2. entered'[t] = passed'[t] + 0 BY <1>2, <3>1 DEF Types
    <3> QED BY <1>1, <2>1, <3>2 DEF PlaceFits
  <2>2. CASE u # t
    <3>1. passed'[u] = passed[u] /\ entered'[u] = entered[u] BY <1>2, <2>2
    <3>2. /\ pc'[u] = pc[u] /\ mywait'[u] = mywait[u] /\ index'[u] = index[u]
          /\ (Old(u)' <=> Old(u))
          /\ pc[u] = "release" => blocked'[mywait[u]] = blocked[mywait[u]]
      BY <1>1, <1>4, <2>2
    <3> QED BY <1>3, <3>1, <3>2 DEF PlaceFits, Slots
  <2> QED BY <2>1, <2>2
<1> QED BY <1>1, <1>2, <1>5, <1>6, <1>8, <1>9, <1>10, <1>11

\* A thread whose slot is signalled is of the round that is over: the slots of the
\* new ones are not signalled, even while the loop is still setting the others.
LEMMA SignalledIsOld ==
  ASSUME IInv, NEW t \in Threads, pc[t] = "spin", Signalled(t)
  PROVE  Old(t) /\ \A v \in Threads : pc[v] = "signal" => id[t] < index[v]
<1> USE DEF IInv
<1>1. id[t] \in Slots /\ wait \in BOOLEAN /\ mywait[t] \in BOOLEAN /\ signals[id[t]] \in BOOLEAN
  BY DEF Types
<1>2. \A v \in Threads : pc[v] = "signal" => (signals[id[t]] = wait <=> id[t] < index[v])
  BY <1>1 DEF SignalsFit
<1>3. Old(t)
  <2> SUFFICES ASSUME mywait[t] = wait PROVE FALSE
    BY DEF Old, Inside
  <2>1. t \in Came BY DEF Came, Inside
  <2>2. signals[id[t]] # wait BY DEF Signalled
  <2>3. PICK v \in Threads : pc[v] = "signal" BY <1>1, <2>2 DEF SignalsFit
  <2>4. id[t] < index[v] BY <2>1, <2>3 DEF SlotsTaken
  <2> QED BY <1>2, <2>2, <2>3, <2>4
<1>4. signals[id[t]] = wait BY <1>1, <1>3 DEF Signalled, Old
<1> QED BY <1>2, <1>3, <1>4

LEMMA SpinEndsInvariant ==
  ASSUME IInv, NEW t \in Threads, SpinEnds(t) PROVE IInv'
<1> USE DEF SpinEnds, At, barrier
<1>1. Old(t) /\ \A v \in Threads : pc[v] = "signal" => id[t] < index[v]
  BY SignalledIsOld
<1>2. /\ OneLeader' /\ RoundsFit' /\ Counted' /\ SlotsTaken' /\ SignalsFit'
      /\ (\A u \in Threads : PlaceFits(u))'
      /\ pc' \in [Threads -> Labels] /\ pc'[t] = "out" /\ id' \in [Threads -> Slots]
      /\ mywait' \in [Threads -> BOOLEAN] /\ index' \in [Threads -> Nat]
      /\ passed' \in [Threads -> Nat]
      /\ \A u \in Threads : u # t =>
           pc'[u] = pc[u] /\ mywait'[u] = mywait[u] /\ index'[u] = index[u]
  BY <1>1, ReturnStep
<1>3. LocksFit' BY <1>2, LocksKept
<1>4. QueuesFit' BY <1>2, QueuesKept
<1>5. Types' BY <1>2 DEF IInv, Types, Slots
<1>6. BlockedFits' BY <1>2, BlockedKept
<1> QED BY <1>2, <1>3, <1>4, <1>5, <1>6 DEF IInv

\* The loop is through: the queue is emptied and its lock let go.
LEMMA ReleaseDoneInvariant ==
  ASSUME IInv, NEW t \in Threads, ReleaseDone(t) PROVE IInv'
<1> USE DEF ReleaseDone, At
<1>1. PICK b \in BOOLEAN : b = mywait[t] BY DEF IInv, Types
<1>2. \A u \in Threads : u # t => ~Leads(u) BY DEF IInv, OneLeader, Leads
<1>3. /\ blocked' \in [BOOLEAN -> Seq(Threads)] /\ blocked'[b] = <<>>
      /\ \A c \in BOOLEAN : c # b => blocked'[c] = blocked[c]
  BY <1>1 DEF IInv, Types
<1>4. /\ mtx' \in [BOOLEAN -> Threads \cup {NULL}] /\ mtx'[b] = NULL /\ mtx[b] = t
      /\ \A c \in BOOLEAN : c # b => mtx'[c] = mtx[c]
  BY <1>1 DEF IInv, Types, LocksFit
<1>5. /\ OneLeader' /\ RoundsFit' /\ Counted' /\ SlotsTaken' /\ SignalsFit'
      /\ (\A u \in Threads : PlaceFits(u))'
      /\ pc' \in [Threads -> Labels] /\ pc'[t] = "out" /\ id' \in [Threads -> Slots]
      /\ mywait' \in [Threads -> BOOLEAN] /\ index' \in [Threads -> Nat]
      /\ passed' \in [Threads -> Nat]
      /\ \A u \in Threads : u # t =>
           pc'[u] = pc[u] /\ mywait'[u] = mywait[u] /\ index'[u] = index[u]
  <2>1. Old(t) BY DEF IInv, PlaceFits
  <2>2. \A v \in Threads : pc[v] # "signal" /\ (pc[v] = "release" => v = t) BY <1>2 DEF Leads
  <2> QED BY <2>1, <2>2, ReturnStep
<1>6. LocksFit'
  <2> SUFFICES ASSUME NEW u \in Threads, NEW c \in BOOLEAN
               PROVE  mtx'[c] = u <=> pc'[u] \in {"release", "recheck", "block"} /\ mywait'[u] = c
    BY DEF LocksFit
  <2>1. u # NULL BY CountFacts
  <2>2. mtx[c] = u <=> pc[u] \in {"release", "recheck", "block"} /\ mywait[u] = c
    BY DEF IInv, LocksFit
  <2>3. CASE u = t BY <1>1, <1>4, <1>5, <2>1, <2>2, <2>3
  <2>4. CASE u # t BY <1>4, <1>5, <2>1, <2>2, <2>4
  <2> QED BY <2>3, <2>4
<1>7. QueuesFit'
  <2>1. \A c \in BOOLEAN : \A i \in Nat : c # b => Live(c, i)
    BY <1>1, <1>2 DEF Live, Leads
  <2>2. ASSUME NEW c \in BOOLEAN, c # b, NEW i \in 1 .. Len(blocked[c])
        PROVE  /\ run[blocked[c][i]] = "blocked"
               /\ pc'[blocked[c][i]] = "spin" /\ mywait'[blocked[c][i]] = c
    <3>1. blocked[c][i] \in Threads BY DEF IInv, Types
    <3>2. /\ run[blocked[c][i]] = "blocked" /\ pc[blocked[c][i]] = "spin"
          /\ mywait[blocked[c][i]] = c
      BY <2>1, <2>2 DEF IInv, QueuesFit
    <3>3. blocked[c][i] # t BY <3>2
    <3> QED BY <1>5, <3>1, <3>2, <3>3
  <2>3. 1 .. Len(blocked'[b]) = {} /\ IsInjective(blocked'[b])
    BY <1>3 DEF IsInjective
  <2>4. \A c \in BOOLEAN : IsInjective(blocked'[c])
    BY <1>3, <2>3 DEF IInv, QueuesFit
  <2> QED BY <1>3, <2>2, <2>3, <2>4 DEF QueuesFit
<1>8. Types' BY <1>3, <1>4, <1>5 DEF IInv, Types, Slots
<1>9. BlockedFits'
  <2>1. ASSUME NEW u \in Threads, run[u] = "blocked"
        PROVE  /\ u # t /\ mywait[u] \in BOOLEAN /\ mywait[u] # b
               /\ \E i \in 1 .. Len(blocked[mywait[u]]) :
                    blocked[mywait[u]][i] = u /\ i \in Nat
    <3>1. PICK i \in 1 .. Len(blocked[mywait[u]]) :
            blocked[mywait[u]][i] = u /\ Live(mywait[u], i)
      BY <2>1 DEF IInv, BlockedFits
    <3>2. mywait[u] \in BOOLEAN BY DEF IInv, Types
    <3>3. blocked[mywait[u]] \in Seq(Threads) BY <3>2 DEF IInv, Types
    <3>4. i \in Nat /\ Len(blocked[mywait[u]]) \in Nat /\ i <= Len(blocked[mywait[u]])
      BY <3>1, <3>3
    <3>5. mywait[u] # b
      <4> SUFFICES ASSUME mywait[u] = b PROVE FALSE OBVIOUS
      <4>1. index[t] < i BY <1>1, <3>1 DEF Live
      <4> QED BY <1>1, <3>4, <4>1
    <3> QED BY <2>1, <3>1, <3>2, <3>4, <3>5
  <2>2. \A c \in BOOLEAN : \A i \in Nat : Live(c, i)'
    BY <1>2, <1>5 DEF Live, Leads
  <2>3. ASSUME NEW u \in Threads, run[u] = "blocked"
        PROVE  (\E i \in 1 .. Len(blocked[mywait[u]]) :
                  blocked[mywait[u]][i] = u /\ Live(mywait[u], i))'
    <3>1. mywait'[u] = mywait[u] /\ blocked'[mywait[u]] = blocked[mywait[u]]
      BY <1>3, <1>5, <2>1, <2>3
    <3>2. \A i \in Nat : Live(mywait[u], i)' BY <2>1, <2>2, <2>3, <3>1 DEF Live
    <3> QED BY <2>1, <2>3, <3>1, <3>2
  <2>4. ASSUME NEW u \in Threads, Old(u)', run[u] = "blocked" \/ pc'[u] = "block" PROVE FALSE
    <3>1. u # t /\ mywait'[u] = mywait[u] /\ pc'[u] = pc[u] BY <1>5, <2>1, <2>4
    <3>2. mywait[u] = b
      <4>1. /\ mywait[u] \in BOOLEAN /\ wait \in BOOLEAN
            /\ mywait[u] # wait /\ b # wait
        BY <1>1, <2>4, <3>1 DEF IInv, Types, Old, PlaceFits
      <4> QED BY <4>1
    <3>3. pc[u] = "block" BY <2>1, <2>4, <3>1, <3>2
    <3> QED BY <1>4, <3>1, <3>2, <3>3 DEF IInv, LocksFit
  <2> QED BY <2>3, <2>4 DEF BlockedFits
<1> QED BY <1>5, <1>6, <1>7, <1>8, <1>9 DEF IInv
----------------------------------------------------------------------------
LEMMA NextInvariant == IInv /\ [Next]_vars => IInv'
<1> SUFFICES ASSUME IInv, [Next]_vars PROVE IInv'
  OBVIOUS
<1>1. ASSUME NEW t \in Threads, ReleaseLock(t) PROVE IInv'
  BY <1>1, LockQueueStep DEF ReleaseLock
<1>2. ASSUME NEW t \in Threads, BlockLock(t) PROVE IInv'
  BY <1>2, LockQueueStep DEF BlockLock
<1>3. ASSUME NEW t \in Threads, ThreadStep(t) PROVE IInv'
  BY <1>1, <1>2, <1>3, ArriveInvariant, ResetInvariant, FlipInvariant, SignalInvariant,
    ReleaseOneInvariant, ReleaseDoneInvariant, SpinEndsInvariant, StalledInvariant,
    RecheckInvariant, BlockCallbackInvariant
  DEF ThreadStep
<1>4. CASE UNCHANGED vars
  <2> USE <1>4 DEF vars, barrier, locals, IInv
  <2>1. /\ Came' = Came /\ OldOnes' = OldOnes /\ \A u \in Threads : Old(u)' <=> Old(u)
    BY DEF Came, OldOnes, Old, Inside
  <2>2. OneLeader' /\ RoundsFit' /\ Counted' /\ SlotsTaken' /\ SignalsFit'
    BY <2>1, SensesKept DEF Leads
  <2>3. ASSUME NEW u \in Threads PROVE PlaceFits(u)'
    BY <2>1 DEF PlaceFits, Slots
  <2>4. LocksFit' /\ QueuesFit' BY DEF LocksFit, QueuesFit, Live
  <2>5. BlockedFits' BY <2>1 DEF BlockedFits, Live
  <2>6. Types' BY DEF Types, Slots
  <2> QED BY <2>2, <2>3, <2>4, <2>5, <2>6
<1> QED BY <1>3, <1>4, WaitCallInvariant DEF Next, Finished

THEOREM Invariance == Spec => []IInv
BY InitInvariant, NextInvariant, PTL DEF Spec
----------------------------------------------------------------------------
(* What follows from the invariant.                                        *)

\* No thread returns from upthread_barrier_wait before all have called it for that
\* round, though released threads come back while the release loop still runs.
THEOREM NobodyLeavesEarly == Spec => []BarrierSync
<1>1. IInv => BarrierSync
  <2> SUFFICES ASSUME IInv, NEW t \in Threads, NEW u \in Threads PROVE passed[t] <= entered[u]
    BY DEF BarrierSync
  <2>1. /\ passed[t] \in Nat /\ passed[u] \in Nat
        /\ entered[u] = passed[u] + IF pc[u] = "out" THEN 0 ELSE 1
        /\ passed[t] + (IF Old(t) THEN 1 ELSE 0) = passed[u] + IF Old(u) THEN 1 ELSE 0
    BY DEF IInv, Types, PlaceFits, RoundsFit
  <2>2. Old(u) => pc[u] # "out" BY DEF Old, Inside
  <2>3. CASE Old(u)
    <3>1. entered[u] = passed[u] + 1 BY <2>1, <2>2, <2>3
    <3>2. passed[t] + (IF Old(t) THEN 1 ELSE 0) = passed[u] + 1 BY <2>1, <2>3
    <3> QED BY <2>1, <3>1, <3>2
  <2>4. CASE ~Old(u)
    <3>1. passed[t] + (IF Old(t) THEN 1 ELSE 0) = passed[u] + 0 BY <2>1, <2>4
    <3> QED BY <2>1, <3>1
  <2> QED BY <2>3, <2>4
<1> QED BY <1>1, Invariance, PTL

\* Every thread inside has a slot of the signals array, and no queue of blocked
\* threads is full when one more joins it.
THEOREM ArraysLongEnough == Spec => []ArraysFit
<1>1. IInv => ArraysFit
  <2> SUFFICES ASSUME IInv PROVE ArraysFit OBVIOUS
  <2> USE DEF IInv
  <2>1. arrived <= N BY CountFacts, CameFacts DEF Counted
  <2>2. ASSUME NEW t \in Threads, pc[t] = "block" PROVE Len(blocked[mywait[t]]) < N
    <3>1. PICK b \in BOOLEAN : b = mywait[t] BY DEF Types
    <3>2. PICK q \in Seq(Threads) : q = blocked[b] BY DEF Types
    <3>3. \A i \in Nat : Live(b, i)
      <4>1. mtx[b] = t BY <2>2, <3>1 DEF LocksFit
      <4> QED BY <2>2, <4>1 DEF Live, LocksFit
    <3>4. \A i \in 1 .. Len(q) : pc[q[i]] = "spin"
      <4>1. \A i \in 1 .. Len(q) : i \in Nat OBVIOUS
      <4> QED BY <3>2, <3>3, <4>1 DEF QueuesFit
    <3>5. q \in Seq(Threads \ {t}) /\ IsInjective(q)
      <4>1. \A i \in 1 .. Len(q) : q[i] \in Threads \ {t} BY <2>2, <3>4
      <4> QED BY <3>2, <4>1 DEF QueuesFit
    <3>6. IsFiniteSet(Threads \ {t}) /\ Cardinality(Threads \ {t}) = N - 1
      BY CountFacts, FS_RemoveElement
    <3>7. Len(q) <= N - 1 /\ Len(q) \in Nat BY <3>5, <3>6, InjectiveLength
    <3> QED BY <3>1, <3>2, <3>7, CountFacts
  <2> QED BY <2>1, <2>2 DEF ArraysFit, Types
<1> QED BY <1>1, Invariance, PTL

\* The release loop makes runnable only threads that are off their vcore, each once.
THEOREM ReleasesOnlyBlocked == Spec => []WakesOnlyBlocked
<1>1. IInv => WakesOnlyBlocked
  <2> SUFFICES ASSUME IInv, NEW t \in Threads, pc[t] = "release",
                      NEW i \in index[t] + 1 .. Len(blocked[mywait[t]])
               PROVE  /\ run[blocked[mywait[t]][i]] = "blocked"
                      /\ \A j \in 1 .. i - 1 : blocked[mywait[t]][j] # blocked[mywait[t]][i]
    BY DEF WakesOnlyBlocked, At
  <2> USE DEF IInv
  <2>1. PICK b \in BOOLEAN : b = mywait[t] BY DEF Types
  <2>2. PICK q \in Seq(Threads) : q = blocked[b] BY DEF Types
  <2>3. i \in 1 .. Len(q) /\ i > index[t] /\ i \in Nat /\ index[t] \in Nat
    <3>1. index[t] \in Nat /\ Len(q) \in Nat BY DEF Types
    <3> QED BY <2>1, <2>2, <3>1
  <2>4. Live(b, i) BY <2>1, <2>3 DEF Live, OneLeader, Leads
  <2>5. run[q[i]] = "blocked" BY <2>2, <2>3, <2>4 DEF QueuesFit
  <2>6. \A j \in 1 .. i - 1 : q[j] # q[i]
    <3>1. IsInjective(q) BY <2>2 DEF QueuesFit
    <3>2. \A j \in 1 .. i - 1 : j \in DOMAIN q /\ j # i BY <2>3
    <3> QED BY <2>3, <3>1, <3>2 DEF IsInjective
  <2> QED BY <2>1, <2>2, <2>5, <2>6
<1> QED BY <1>1, Invariance, PTL

\* No release passes by a thread: whoever is off its vcore though its round is over is
\* still ahead of the release loop.  It is what AllPass rests on.
THEOREM ReleaseReachesAll == Spec => []NobodyLeftBlocked
<1>1. IInv => NobodyLeftBlocked
  <2> SUFFICES ASSUME IInv, NEW t \in Threads, run[t] = "blocked", mywait[t] # wait
               PROVE  \E u \in Threads :
                        \/ pc[u] \in {"signal", "release_lock"}
                        \/ /\ pc[u] = "release" /\ mywait[u] = mywait[t]
                           /\ \E i \in index[u] + 1 .. Len(blocked[mywait[u]]) :
                                blocked[mywait[u]][i] = t
    BY DEF NobodyLeftBlocked
  <2> USE DEF IInv
  <2>1. PICK i \in 1 .. Len(blocked[mywait[t]]) : blocked[mywait[t]][i] = t /\ Live(mywait[t], i)
    BY DEF BlockedFits
  <2>2. mywait[t] \in BOOLEAN /\ wait \in BOOLEAN BY DEF Types
  <2>3. pc[t] = "spin" BY <2>1, <2>2 DEF QueuesFit
  <2>4. PICK u \in Threads : pc[u] \in {"signal", "release_lock", "release"}
    BY <2>3 DEF BlockedFits, Old, Inside
  <2>5. CASE pc[u] = "release"
    <3>1. mywait[u] = mywait[t]
      <4>1. mywait[u] \in BOOLEAN /\ mywait[u] # wait BY <2>5 DEF Types, PlaceFits, Old
      <4> QED BY <2>2, <4>1
    <3>2. index[u] < i /\ index[u] \in Nat BY <2>1, <2>5, <3>1 DEF Live, Types
    <3>3. blocked[mywait[t]] \in Seq(Threads) BY <2>2 DEF Types
    <3>4. i \in index[u] + 1 .. Len(blocked[mywait[t]]) BY <2>1, <3>2, <3>3
    <3> QED BY <2>1, <2>5, <3>1, <3>4
  <2> QED BY <2>4, <2>5
<1> QED BY <1>1, Invariance, PTL
============================================================================
