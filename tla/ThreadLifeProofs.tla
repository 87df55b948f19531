--------------------------- MODULE ThreadLifeProofs ---------------------------
(***************************************************************************)
(* Proofs about ThreadLife, and about the lithe backend over it.           *)
(***************************************************************************)
EXTENDS LitheThreads, FiniteSetTheorems, TLAPS

\* The code of t still uses its own TCB: until the exit callback is past its swap.
UsesTcb(t) == pc[t] \notin {"unborn", "exit_wake", "exited"}

\* j waits for u to exit.
Waits(j, u) == pc[j] = "join_read" /\ place[j] = "parked" /\ target[j] = u

\* A TCB is alive as long as anybody may follow its address.
TcbsAlive ==
  /\ \A t \in Threads : UsesTcb(t) => Alive(t)
  /\ \A j \in Threads : pc[j] \in Joining => target[j] \in Threads /\ Alive(target[j])
  /\ \A u \in handles : Alive(u)
  /\ \A t \in Threads : pc[t] = "unborn" => addr[t] = NULL

\* One party is to free a TCB: who has the handle, the one joiner, or the exit callback of a
\* detached thread.
OneClaim ==
  /\ \A u \in handles : ~detached[addr[u]] /\ \A j \in Threads : pc[j] \in Joining => target[j] # u
  /\ \A j, k \in Threads : pc[j] \in Joining /\ pc[k] \in Joining /\ target[j] = target[k] => j = k
  /\ \A j \in Threads : pc[j] \in Joining => ~detached[addr[target[j]]]
  /\ \A u \in Threads : pc[u] \in {"exit_free", "exit_insert"} => detached[addr[u]]

\* What the joiner field can hold: before the swap of the exit nothing or a joiner that waits,
\* after it something; a joiner that goes on has a target that exited.
JoinerFits ==
  /\ \A u \in Threads : UsesTcb(u) =>
       joiner[addr[u]] = NULL \/ \E j \in Threads : Waits(j, u) /\ joiner[addr[u]] = addr[j]
  /\ \A u \in Threads : pc[u] = "exit_wake" => \E j \in Threads : Waits(j, u) /\ temp_pth[u] = addr[j]
  /\ \A u \in Threads : pc[u] \in {"exit_wake", "exited"} /\ Alive(u) => joiner[addr[u]] # NULL
  /\ \A j \in Threads : pc[j] = "join_read" /\ place[j] # "parked" => pc[target[j]] = "exited"
  /\ \A j \in Threads : pc[j] \in {"join_free", "join_insert"} => pc[target[j]] = "exited"

\* The return value is in the TCB from upthread_exit until the TCB is freed.
ResultKept ==
  /\ \A u \in Threads : pc[u] \in Exiting \cup {"exited"} /\ Alive(u) => retval[addr[u]] = u
  /\ JoinGetsResult

IInv == TypeOK /\ TcbsAlive /\ OneClaim /\ JoinerFits /\ ResultKept
----------------------------------------------------------------------------
(* One lemma for each operation.                                          *)

LEMMA InitInvariant == Init => IInv
  BY ThreadLifeAssumption
  DEF ThreadLifeAssumption, Init, IInv, TypeOK, TcbsAlive, OneClaim, JoinerFits, ResultKept,
      JoinGetsResult,
      UsesTcb, Waits, Alive, Labels, Exiting, Joining

LEMMA DispatchInvariant ==
  ASSUME IInv, NEW t \in Threads, Dispatch(t) PROVE IInv'
<1> USE DEF IInv, Dispatch, memory, fields, calls, client
<1>1. TypeOK' BY DEF TypeOK
<1>2. TcbsAlive' BY DEF TcbsAlive, UsesTcb, Alive
<1>3. OneClaim' BY DEF OneClaim
<1>4. JoinerFits' BY DEF JoinerFits, UsesTcb, Waits, Alive, TypeOK
<1>5. ResultKept' BY DEF ResultKept, JoinGetsResult, Alive
<1> QED BY <1>1, <1>2, <1>3, <1>4, <1>5

LEMMA YieldInvariant ==
  ASSUME IInv, NEW t \in Threads, Yield(t) PROVE IInv'
<1> USE ThreadLifeAssumption
    DEF ThreadLifeAssumption, IInv, Yield, At, Goto, Exiting, Joining, Labels, memory, fields,
        calls, client
<1>1. TypeOK' BY DEF TypeOK
<1>2. TcbsAlive' BY DEF TypeOK, TcbsAlive, UsesTcb, Alive
<1>3. OneClaim' BY DEF TypeOK, TcbsAlive, OneClaim, UsesTcb, Alive
<1>4. JoinerFits' BY DEF TypeOK, TcbsAlive, OneClaim, JoinerFits, UsesTcb, Waits, Alive
<1>5. ResultKept' BY DEF TypeOK, TcbsAlive, JoinerFits, ResultKept, JoinGetsResult, UsesTcb, Alive
<1> QED BY <1>1, <1>2, <1>3, <1>4, <1>5

LEMMA PublishInvariant ==
  ASSUME IInv, NEW t \in Threads, Publish(t) PROVE IInv'
<1> USE ThreadLifeAssumption
    DEF ThreadLifeAssumption, IInv, Publish, At, Goto, Exiting, Joining, Labels, memory, fields,
        calls, client
<1>1. TypeOK' BY DEF TypeOK
<1>2. TcbsAlive' BY DEF TypeOK, TcbsAlive, UsesTcb, Alive
<1>3. OneClaim' BY DEF TypeOK, TcbsAlive, OneClaim, UsesTcb, Alive
<1>4. JoinerFits' BY DEF TypeOK, TcbsAlive, OneClaim, JoinerFits, UsesTcb, Waits, Alive
<1>5. ResultKept' BY DEF TypeOK, TcbsAlive, JoinerFits, ResultKept, JoinGetsResult, UsesTcb, Alive
<1> QED BY <1>1, <1>2, <1>3, <1>4, <1>5

LEMMA CreateInvariant ==
  ASSUME IInv, NEW t \in Threads, NEW u \in Threads, NEW s \in Slots,
         NEW det \in BOOLEAN, Create(t, u, s, det)
  PROVE  IInv'
<1> USE ThreadLifeAssumption
    DEF ThreadLifeAssumption, IInv, Create, At, Goto, Alloc, Exiting, Joining, Labels, memory,
        fields, calls, client
<1>1. TypeOK' BY DEF TypeOK
<1>2. TcbsAlive' BY DEF TypeOK, TcbsAlive, UsesTcb, Alive
<1>3. OneClaim' BY DEF TypeOK, TcbsAlive, OneClaim, UsesTcb, Alive
<1>4. JoinerFits'
  <2> USE DEF TypeOK, TcbsAlive, OneClaim, UsesTcb, Waits, Alive
  <2>1. ASSUME NEW w \in Threads, UsesTcb(w)'
        PROVE  (joiner[addr[w]] = NULL \/ \E j \in Threads : Waits(j, w) /\ joiner[addr[w]] = addr[j])'
    BY <2>1 DEF JoinerFits
  <2>2. ASSUME NEW w \in Threads, pc'[w] = "exit_wake"
        PROVE  (\E j \in Threads : Waits(j, w) /\ temp_pth[w] = addr[j])'
    <3>1. w # t /\ w # u /\ pc[w] = "exit_wake" BY <2>2
    <3>2. PICK j \in Threads : Waits(j, w) /\ temp_pth[w] = addr[j] BY <3>1 DEF JoinerFits
    <3>3. j # t /\ j # u BY <3>2
    <3>4. Waits(j, w)' /\ temp_pth'[w] = addr'[j] BY <3>2, <3>3
    <3> QED BY <3>4
  <2>3. (\A w \in Threads : pc[w] \in {"exit_wake", "exited"} /\ Alive(w) => joiner[addr[w]] # NULL)'
    BY DEF JoinerFits
  <2>4. (\A j \in Threads : pc[j] = "join_read" /\ place[j] # "parked" => pc[target[j]] = "exited")'
    BY DEF JoinerFits
  <2>5. (\A j \in Threads : pc[j] \in {"join_free", "join_insert"} => pc[target[j]] = "exited")'
    BY DEF JoinerFits
  <2> QED BY <2>1, <2>2, <2>3, <2>4, <2>5 DEF JoinerFits
<1>5. ResultKept' BY DEF TypeOK, TcbsAlive, JoinerFits, ResultKept, JoinGetsResult, UsesTcb, Alive
<1> QED BY <1>1, <1>2, <1>3, <1>4, <1>5

LEMMA JoinCallInvariant ==
  ASSUME IInv, NEW t \in Threads, NEW u \in Threads, JoinCall(t, u) PROVE IInv'
<1> USE ThreadLifeAssumption
    DEF ThreadLifeAssumption, IInv, JoinCall, At, Goto, Exiting, Joining, Labels, memory, fields,
        calls, client
<1>1. TypeOK' BY DEF TypeOK
<1>2. TcbsAlive' BY DEF TypeOK, TcbsAlive, UsesTcb, Alive
<1>3. OneClaim' BY DEF TypeOK, TcbsAlive, OneClaim, UsesTcb, Alive
<1>4. JoinerFits' BY DEF TypeOK, TcbsAlive, OneClaim, JoinerFits, UsesTcb, Waits, Alive
<1>5. ResultKept' BY DEF TypeOK, TcbsAlive, JoinerFits, ResultKept, JoinGetsResult, UsesTcb, Alive
<1> QED BY <1>1, <1>2, <1>3, <1>4, <1>5

LEMMA JoinSwapInvariant ==
  ASSUME IInv, NEW t \in Threads, JoinSwap(t) PROVE IInv'
<1> USE ThreadLifeAssumption
    DEF ThreadLifeAssumption, IInv, JoinSwap, At, Goto, Exiting, Joining, Labels, memory, fields,
        calls, client
<1>1. TypeOK' BY DEF TypeOK
<1>2. TcbsAlive' BY DEF TypeOK, TcbsAlive, UsesTcb, Alive
<1>3. OneClaim' BY DEF TypeOK, TcbsAlive, OneClaim, UsesTcb, Alive
<1>4. JoinerFits' BY DEF TypeOK, TcbsAlive, OneClaim, JoinerFits, UsesTcb, Waits, Alive
<1>5. ResultKept' BY DEF TypeOK, TcbsAlive, JoinerFits, ResultKept, JoinGetsResult, UsesTcb, Alive
<1> QED BY <1>1, <1>2, <1>3, <1>4, <1>5

LEMMA JoinReadInvariant ==
  ASSUME IInv, NEW t \in Threads, JoinRead(t) PROVE IInv'
<1> USE ThreadLifeAssumption
    DEF ThreadLifeAssumption, IInv, JoinRead, At, Goto, Exiting, Joining, Labels, memory, fields,
        calls, client
<1>1. TypeOK' BY DEF TypeOK, TcbsAlive, UsesTcb, Alive
<1>2. TcbsAlive' BY DEF TypeOK, TcbsAlive, UsesTcb, Alive
<1>3. OneClaim' BY DEF TypeOK, TcbsAlive, OneClaim, UsesTcb, Alive
<1>4. JoinerFits' BY DEF TypeOK, TcbsAlive, OneClaim, JoinerFits, UsesTcb, Waits, Alive
<1>5. ResultKept' BY DEF TypeOK, TcbsAlive, JoinerFits, ResultKept, JoinGetsResult, UsesTcb, Alive
<1> QED BY <1>1, <1>2, <1>3, <1>4, <1>5

LEMMA ExitInvariant ==
  ASSUME IInv, NEW t \in Threads, Exit(t) PROVE IInv'
<1> USE ThreadLifeAssumption
    DEF ThreadLifeAssumption, IInv, Exit, At, Goto, Exiting, Joining, Labels, memory, fields,
        calls, client
<1>1. TypeOK' BY DEF TypeOK
<1>2. TcbsAlive' BY DEF TypeOK, TcbsAlive, UsesTcb, Alive
<1>3. OneClaim' BY DEF TypeOK, TcbsAlive, OneClaim, UsesTcb, Alive
<1>4. JoinerFits' BY DEF TypeOK, TcbsAlive, OneClaim, JoinerFits, UsesTcb, Waits, Alive
<1>5. ResultKept' BY DEF TypeOK, TcbsAlive, JoinerFits, ResultKept, JoinGetsResult, UsesTcb, Alive
<1> QED BY <1>1, <1>2, <1>3, <1>4, <1>5

LEMMA ExitTestInvariant ==
  ASSUME IInv, NEW t \in Threads, ExitTest(t) PROVE IInv'
<1> USE ThreadLifeAssumption
    DEF ThreadLifeAssumption, IInv, ExitTest, At, Goto, Exiting, Joining, Labels, memory, fields,
        calls, client
<1>1. TypeOK' BY DEF TypeOK
<1>2. TcbsAlive' BY DEF TypeOK, TcbsAlive, UsesTcb, Alive
<1>3. OneClaim' BY DEF TypeOK, TcbsAlive, OneClaim, UsesTcb, Alive
<1>4. JoinerFits' BY DEF TypeOK, TcbsAlive, OneClaim, JoinerFits, UsesTcb, Waits, Alive
<1>5. ResultKept' BY DEF TypeOK, TcbsAlive, JoinerFits, ResultKept, JoinGetsResult, UsesTcb, Alive
<1> QED BY <1>1, <1>2, <1>3, <1>4, <1>5

LEMMA ExitSwapInvariant ==
  ASSUME IInv, NEW t \in Threads, ExitSwap(t) PROVE IInv'
<1> USE ThreadLifeAssumption
    DEF ThreadLifeAssumption, IInv, ExitSwap, At, Goto, Exiting, Joining, Labels, memory, fields,
        calls, client
<1>1. TypeOK' BY DEF TypeOK, TcbsAlive, UsesTcb, Alive
<1>2. TcbsAlive' BY DEF TypeOK, TcbsAlive, UsesTcb, Alive
<1>3. OneClaim' BY DEF TypeOK, TcbsAlive, OneClaim, UsesTcb, Alive
<1>4. JoinerFits'
  <2> USE DEF TypeOK, TcbsAlive, OneClaim, UsesTcb, Waits, Alive
  <2>1. ASSUME NEW w \in Threads, UsesTcb(w)'
        PROVE  (joiner[addr[w]] = NULL \/ \E j \in Threads : Waits(j, w) /\ joiner[addr[w]] = addr[j])'
    <3>1. w # t /\ UsesTcb(w) BY <2>1
    <3>2. addr[w] # addr[t] BY <3>1
    <3>3. joiner'[addr'[w]] = joiner[addr[w]] BY <3>2
    <3>4. CASE joiner[addr[w]] = NULL BY <3>3, <3>4
    <3>5. CASE joiner[addr[w]] # NULL
      <4>1. PICK j \in Threads : Waits(j, w) /\ joiner[addr[w]] = addr[j]
        BY <3>1, <3>5 DEF JoinerFits
      <4>2. Waits(j, w)' BY <4>1
      <4> QED BY <3>3, <4>1, <4>2
    <3> QED BY <3>4, <3>5
  <2>2. ASSUME NEW w \in Threads, pc'[w] = "exit_wake"
        PROVE  (\E j \in Threads : Waits(j, w) /\ temp_pth[w] = addr[j])'
    <3>1. PICK j \in Threads : Waits(j, w) /\ temp_pth'[w] = addr[j]
      <4>1. CASE w = t BY <2>2, <4>1 DEF JoinerFits
      <4>2. CASE w # t BY <2>2, <4>2 DEF JoinerFits
      <4> QED BY <4>1, <4>2
    <3>2. Waits(j, w)' BY <3>1
    <3> QED BY <3>1, <3>2
  <2>3. (\A w \in Threads : pc[w] \in {"exit_wake", "exited"} /\ Alive(w) => joiner[addr[w]] # NULL)'
    BY DEF JoinerFits
  <2>4. (\A j \in Threads : pc[j] = "join_read" /\ place[j] # "parked" => pc[target[j]] = "exited")'
    BY DEF JoinerFits
  <2>5. (\A j \in Threads : pc[j] \in {"join_free", "join_insert"} => pc[target[j]] = "exited")'
    BY DEF JoinerFits
  <2> QED BY <2>1, <2>2, <2>3, <2>4, <2>5 DEF JoinerFits
<1>5. ResultKept'
  <2>1. UNCHANGED <<retval, addr, owner, mapped, zombie_list, target, result>> OBVIOUS
  <2>2. \A u \in Threads : pc'[u] = pc[u] \/ (u = t /\ pc[t] = "exit_swap")
    BY DEF TypeOK
  <2>3. \A u \in Threads : pc'[u] \in {"join_free", "join_insert"} => pc[u] = pc'[u]
    BY DEF TypeOK
  <2>4. \A u \in Threads :
          pc[u] \in Exiting \cup {"exited"} /\ Alive(u) => retval[addr[u]] = u
    BY DEF ResultKept
  <2>5. \A u \in Threads : Alive(u)' <=> Alive(u) BY <2>1 DEF Alive
  <2> QED BY <2>1, <2>2, <2>3, <2>4, <2>5 DEF ResultKept, JoinGetsResult
<1> QED BY <1>1, <1>2, <1>3, <1>4, <1>5

LEMMA ExitWakeInvariant ==
  ASSUME IInv, NEW t \in Threads, ExitWake(t) PROVE IInv'
<1> USE ThreadLifeAssumption
    DEF ThreadLifeAssumption, IInv, ExitWake, At, Goto, Exiting, Joining, Labels, memory, fields,
        calls, client
<1>1. TypeOK' BY DEF TypeOK
<1>2. TcbsAlive' BY DEF TypeOK, TcbsAlive, UsesTcb, Alive
<1>3. OneClaim' BY DEF TypeOK, TcbsAlive, OneClaim, UsesTcb, Alive
<1>4. JoinerFits'
  <2> USE DEF TypeOK, TcbsAlive, OneClaim, UsesTcb, Waits, Alive
  <2>1. ASSUME NEW w \in Threads, UsesTcb(w)'
        PROVE  (joiner[addr[w]] = NULL \/ \E j \in Threads : Waits(j, w) /\ joiner[addr[w]] = addr[j])'
    BY <2>1 DEF JoinerFits
  <2>2. ASSUME NEW w \in Threads, pc'[w] = "exit_wake"
        PROVE  (\E j \in Threads : Waits(j, w) /\ temp_pth[w] = addr[j])'
    <3>1. w # t /\ pc[w] = "exit_wake" BY <2>2
    <3>2. PICK j \in Threads : Waits(j, w) /\ temp_pth[w] = addr[j] BY <3>1 DEF JoinerFits
    <3>3. PICK k \in Threads : Waits(k, t) /\ temp_pth[t] = addr[k] BY DEF JoinerFits
    <3>4. owner[temp_pth[t]] = k BY <3>3
    <3>5. j # k /\ j # t BY <3>1, <3>2, <3>3
    <3>6. Waits(j, w)' /\ temp_pth'[w] = addr'[j] BY <3>1, <3>2, <3>4, <3>5
    <3> QED BY <3>6
  <2>3. (\A w \in Threads : pc[w] \in {"exit_wake", "exited"} /\ Alive(w) => joiner[addr[w]] # NULL)'
    BY DEF JoinerFits
  <2>4. (\A j \in Threads : pc[j] = "join_read" /\ place[j] # "parked" => pc[target[j]] = "exited")'
    BY DEF JoinerFits
  <2>5. (\A j \in Threads : pc[j] \in {"join_free", "join_insert"} => pc[target[j]] = "exited")'
    BY DEF JoinerFits
  <2> QED BY <2>1, <2>2, <2>3, <2>4, <2>5 DEF JoinerFits
<1>5. ResultKept' BY DEF TypeOK, TcbsAlive, JoinerFits, ResultKept, JoinGetsResult, UsesTcb, Alive
<1> QED BY <1>1, <1>2, <1>3, <1>4, <1>5

LEMMA DetachInvariant ==
  ASSUME IInv, NEW t \in Threads, NEW u \in Threads, Detach(t, u) PROVE IInv'
<1> USE ThreadLifeAssumption
    DEF ThreadLifeAssumption, IInv, Detach, At, Goto, Exiting, Joining, Labels, memory, fields,
        calls, client
<1>1. TypeOK' BY DEF TypeOK
<1>2. TcbsAlive' BY DEF TypeOK, TcbsAlive, UsesTcb, Alive
<1>3. OneClaim' BY DEF TypeOK, TcbsAlive, OneClaim, UsesTcb, Alive
<1>4. JoinerFits' BY DEF TypeOK, TcbsAlive, OneClaim, JoinerFits, UsesTcb, Waits, Alive
<1>5. ResultKept' BY DEF TypeOK, TcbsAlive, JoinerFits, ResultKept, JoinGetsResult, UsesTcb, Alive
<1> QED BY <1>1, <1>2, <1>3, <1>4, <1>5

LEMMA FreeTestInvariant ==
  ASSUME IInv, NEW t \in Threads, FreeTest(t) PROVE IInv'
<1> USE ThreadLifeAssumption
    DEF ThreadLifeAssumption, IInv, FreeTest, At, Goto, Exiting, Joining, Labels, memory, fields,
        calls, client
<1>1. TypeOK' BY DEF TypeOK
<1>2. TcbsAlive' BY DEF TypeOK, TcbsAlive, UsesTcb, Alive
<1>3. OneClaim' BY DEF TypeOK, TcbsAlive, OneClaim, UsesTcb, Alive
<1>4. JoinerFits' BY DEF TypeOK, TcbsAlive, OneClaim, JoinerFits, UsesTcb, Waits, Alive
<1>5. ResultKept' BY DEF TypeOK, TcbsAlive, JoinerFits, ResultKept, JoinGetsResult, UsesTcb, Alive
<1> QED BY <1>1, <1>2, <1>3, <1>4, <1>5

LEMMA FreeInsertInvariant ==
  ASSUME IInv, NEW t \in Threads, FreeInsert(t) PROVE IInv'
<1> USE ThreadLifeAssumption
    DEF ThreadLifeAssumption, IInv, FreeInsert, At, Goto, FreeDone, FreeSlot, Exiting, Joining,
        Labels, memory, fields, calls, client
<1>1. TypeOK' BY DEF TypeOK, TcbsAlive, UsesTcb, Alive
<1>2. TcbsAlive' BY DEF TypeOK, TcbsAlive, OneClaim, JoinerFits, UsesTcb, Alive
<1>3. OneClaim' BY DEF TypeOK, TcbsAlive, OneClaim, UsesTcb, Alive
<1>4. JoinerFits' BY DEF TypeOK, TcbsAlive, OneClaim, JoinerFits, UsesTcb, Waits, Alive
<1>5. ResultKept' BY DEF TypeOK, TcbsAlive, JoinerFits, ResultKept, JoinGetsResult, UsesTcb, Alive
<1> QED BY <1>1, <1>2, <1>3, <1>4, <1>5

LEMMA FreeUnmapInvariant ==
  ASSUME IInv, NEW t \in Threads, FreeUnmap(t) PROVE IInv'
<1> USE ThreadLifeAssumption
    DEF ThreadLifeAssumption, IInv, FreeUnmap, At, Goto, FreeDone, FreeSlot, Exiting, Joining,
        Labels, memory, fields, calls, client
<1>1. TypeOK' BY DEF TypeOK
<1>2. TcbsAlive' BY DEF TypeOK, TcbsAlive, OneClaim, JoinerFits, UsesTcb, Alive
<1>3. OneClaim' BY DEF TypeOK, TcbsAlive, OneClaim, UsesTcb, Alive
<1>4. JoinerFits' BY DEF TypeOK, TcbsAlive, OneClaim, JoinerFits, UsesTcb, Waits, Alive
<1>5. ResultKept' BY DEF TypeOK, TcbsAlive, JoinerFits, ResultKept, JoinGetsResult, UsesTcb, Alive
<1> QED BY <1>1, <1>2, <1>3, <1>4, <1>5

LEMMA NextInvariant == ASSUME IInv, [Next]_vars PROVE IInv'
<1>1. ASSUME NEW t \in Threads, CallStep(t) PROVE IInv'
  BY <1>1, PublishInvariant, JoinSwapInvariant, JoinReadInvariant, ExitTestInvariant, ExitSwapInvariant,
     ExitWakeInvariant, FreeTestInvariant, FreeInsertInvariant, FreeUnmapInvariant DEF CallStep
<1>2. CASE UNCHANGED vars
  BY <1>2 DEF vars, memory, fields, calls, client, IInv, TypeOK, TcbsAlive, OneClaim, JoinerFits,
     ResultKept, JoinGetsResult, UsesTcb, Waits, Alive
<1>3. ASSUME NEW t \in Threads, ClientStep(t) PROVE IInv'
  BY <1>2, <1>3, CreateInvariant, JoinCallInvariant, DetachInvariant, ExitInvariant, YieldInvariant
  DEF ClientStep, JoinDetached
<1>4. CASE Finished BY <1>2, <1>4 DEF Finished
<1> QED BY <1>1, <1>2, <1>3, <1>4, DispatchInvariant DEF Next

LEMMA Invariance == Spec => []IInv
<1> QED BY InitInvariant, NextInvariant, PTL DEF Spec
----------------------------------------------------------------------------
\* For any threads and slots, any limit of zombie_list and any number of vcores: every variable of
\* ThreadLife keeps to its type.
THEOREM LifeTypeCorrect == Spec => []TypeOK
<1>1. IInv => TypeOK BY DEF IInv
<1> QED BY <1>1, Invariance, PTL

\* No step of a thread, its callbacks or its joiner follows the address of a TCB that was freed or given
\* to another thread, in whatever order create, join, exit and detach meet.
THEOREM NoTcbStale == Spec => []NoStaleTcb
<1>1. IInv => NoStaleTcb
  BY DEF IInv, TypeOK, TcbsAlive, JoinerFits, NoStaleTcb, UsesTcb, Waits, Joining
<1> QED BY <1>1, Invariance, PTL

\* upthread_join returns the return value of the thread it was called for.
THEOREM JoinCorrect == Spec => []JoinGetsResult
<1>1. IInv => JoinGetsResult BY DEF IInv, ResultKept
<1> QED BY <1>1, Invariance, PTL

----------------------------------------------------------------------------
(* Where memory is: the second invariant, on top of the first.              *)

\* Somebody will free u's TCB, or its detach came too late.
Claimed(u) == u \in handles \cup late \/ \E j \in Threads : pc[j] \in Joining /\ target[j] = u

ClaimsKept ==
  /\ \A u \in Threads :
       Alive(u) /\ (pc[u] \in {"exit_swap", "exit_wake", "exited"} \/ ~detached[addr[u]]) => Claimed(u)
  /\ \A s \in Slots : owner[s] # NULL <=> s \in mapped \ zombie_list

\* The threads between the test of the size of zombie_list and the insertion.
Inserting == {t \in Threads : pc[t] \in {"join_insert", "exit_insert"}}

\* Each of them is on a vcore; zombie_list had room when the last of them looked.
Counts ==
  /\ IsFiniteSet(Running) /\ Cardinality(Running) <= NumVCores
  /\ Inserting \subseteq Running
  /\ Cardinality(zombie_list) + Cardinality(Inserting) <= MaxZombies + NumVCores - 1

MInv == ClaimsKept /\ Counts

LEMMA InitCounts == Init => MInv
<1> SUFFICES ASSUME Init PROVE MInv OBVIOUS
<1> USE ThreadLifeAssumption DEF ThreadLifeAssumption, Init
<1>1. ClaimsKept BY DEF ClaimsKept, Alive, Claimed
<1>2. Running = {Main} /\ Inserting = {} /\ zombie_list = {} BY DEF Running, Inserting
<1>3. IsFiniteSet(Running) /\ Cardinality(Running) = 1 BY <1>2, FS_Singleton
<1>4. Cardinality(zombie_list) = 0 /\ Cardinality(Inserting) = 0 BY <1>2, FS_EmptySet
<1>5. Inserting \subseteq Running BY <1>2
<1>6. Counts BY <1>3, <1>4, <1>5 DEF Counts
<1> QED BY <1>1, <1>6 DEF MInv

\* Finite sets.
LEMMA SetsFinite ==
  ASSUME IInv, MInv
  PROVE  /\ IsFiniteSet(zombie_list) /\ Cardinality(zombie_list) \in Nat
         /\ IsFiniteSet(Inserting) /\ Cardinality(Inserting) \in Nat
         /\ IsFiniteSet(Running) /\ Cardinality(Running) \in Nat
<1>1. IsFiniteSet(zombie_list) BY ThreadLifeAssumption, FS_Subset DEF ThreadLifeAssumption, IInv,
            TypeOK
<1>2. IsFiniteSet(Inserting) /\ IsFiniteSet(Running) BY FS_Subset DEF MInv, Counts
<1> QED BY <1>1, <1>2, FS_CardinalityType

\* Most steps put nobody on a vcore and nothing on zombie_list.
LEMMA CountsShrink ==
  ASSUME IInv, MInv, Running' \subseteq Running, zombie_list' \subseteq zombie_list,
         Inserting' = Inserting, Inserting' \subseteq Running'
  PROVE  Counts'
<1> USE ThreadLifeAssumption DEF ThreadLifeAssumption
<1>1. IsFiniteSet(Running') /\ Cardinality(Running') <= Cardinality(Running) /\ Cardinality(Running') \in Nat
  BY SetsFinite, FS_Subset, FS_CardinalityType
<1>2. Cardinality(zombie_list') <= Cardinality(zombie_list) /\ Cardinality(zombie_list') \in Nat
  BY SetsFinite, FS_Subset, FS_CardinalityType
<1> QED BY <1>1, <1>2, SetsFinite DEF MInv, Counts

LEMMA DispatchCounts ==
  ASSUME IInv, MInv, NEW t \in Threads, Dispatch(t) PROVE Counts'
<1> USE ThreadLifeAssumption DEF ThreadLifeAssumption
<1>1. /\ Running' = Running \cup {t} /\ t \notin Running
      /\ Inserting' = Inserting /\ UNCHANGED zombie_list
  BY DEF Dispatch, Running, Inserting, IInv, TypeOK, memory
<1>2. IsFiniteSet(Running') /\ Cardinality(Running') = Cardinality(Running) + 1
  BY <1>1, SetsFinite, FS_AddElement
<1> QED BY <1>1, <1>2, SetsFinite DEF Dispatch, MInv, Counts

LEMMA FreeTestCounts ==
  ASSUME IInv, MInv, NEW t \in Threads, FreeTest(t) PROVE Counts'
<1> USE ThreadLifeAssumption DEF ThreadLifeAssumption
<1>1. /\ Inserting' = Inserting \cup {t} /\ t \notin Inserting /\ t \in Running
      /\ Running' = Running /\ UNCHANGED zombie_list
  BY DEF FreeTest, At, Goto, Running, Inserting, IInv, TypeOK, memory
<1>2. Inserting' \subseteq Running BY <1>1 DEF MInv, Counts
<1>3. Cardinality(Inserting') <= NumVCores /\ Cardinality(Inserting') \in Nat
  BY <1>2, SetsFinite, FS_Subset, FS_CardinalityType DEF MInv, Counts
<1>4. Cardinality(zombie_list) <= MaxZombies - 1 BY SetsFinite DEF FreeTest
<1> QED BY <1>1, <1>2, <1>3, <1>4, SetsFinite DEF MInv, Counts

LEMMA FreeInsertCounts ==
  ASSUME IInv, MInv, NEW t \in Threads, FreeInsert(t) PROVE Counts'
<1> USE ThreadLifeAssumption DEF ThreadLifeAssumption
<1>1. Inserting' = Inserting \ {t} /\ t \in Inserting
  BY DEF FreeInsert, FreeDone, At, Goto, Inserting, IInv, TypeOK
<1>2. Running' \subseteq Running /\ Inserting' \subseteq Running'
  BY <1>1 DEF FreeInsert, FreeDone, At, Goto, Running, Inserting, IInv, TypeOK, MInv, Counts
<1>3. Cardinality(Inserting') = Cardinality(Inserting) - 1 BY <1>1, SetsFinite, FS_RemoveElement
<1>4. /\ Cardinality(zombie_list') <= Cardinality(zombie_list) + 1
      /\ Cardinality(zombie_list') \in Nat
  <2>1. zombie_list' = zombie_list \cup {FreeSlot(t)} BY DEF FreeInsert
  <2>2. \/ zombie_list' = zombie_list
        \/ FreeSlot(t) \notin zombie_list
    BY <2>1
  <2>3. CASE zombie_list' = zombie_list BY <2>3, SetsFinite
  <2>4. CASE FreeSlot(t) \notin zombie_list
    <3>1. Cardinality(zombie_list') = Cardinality(zombie_list) + 1
      BY <2>1, <2>4, SetsFinite, FS_AddElement
    <3> QED BY <3>1, SetsFinite
  <2> QED BY <2>2, <2>3, <2>4
<1>5. IsFiniteSet(Running') /\ Cardinality(Running') <= Cardinality(Running) /\ Cardinality(Running') \in Nat
  BY <1>2, SetsFinite, FS_Subset, FS_CardinalityType
<1> QED BY <1>2, <1>3, <1>4, <1>5, SetsFinite DEF MInv, Counts

LEMMA YieldMemory ==
  ASSUME IInv, MInv, NEW t \in Threads, Yield(t) PROVE MInv'
<1> USE ThreadLifeAssumption
    DEF ThreadLifeAssumption, IInv, MInv, Yield, At, Goto, Exiting, Joining, memory, fields,
        calls, client
<1>1. ClaimsKept' BY DEF TypeOK, TcbsAlive, OneClaim, JoinerFits, UsesTcb, Waits, Alive,
            ClaimsKept, Claimed
<1>2. /\ Running' \subseteq Running /\ zombie_list' \subseteq zombie_list
      /\ Inserting' = Inserting /\ Inserting' \subseteq Running'
  BY DEF TypeOK, TcbsAlive, JoinerFits, UsesTcb, Waits, Alive, Running, Inserting, Counts
<1>3. Counts' BY <1>2, CountsShrink
<1> QED BY <1>1, <1>2, <1>3

LEMMA PublishMemory ==
  ASSUME IInv, MInv, NEW t \in Threads, Publish(t) PROVE MInv'
<1> USE ThreadLifeAssumption
    DEF ThreadLifeAssumption, IInv, MInv, Publish, At, Goto, Exiting, Joining, memory, fields,
        calls, client
<1>1. ClaimsKept' BY DEF TypeOK, TcbsAlive, OneClaim, JoinerFits, UsesTcb, Waits, Alive,
            ClaimsKept, Claimed
<1>2. /\ Running' \subseteq Running /\ zombie_list' \subseteq zombie_list
      /\ Inserting' = Inserting /\ Inserting' \subseteq Running'
  BY DEF TypeOK, TcbsAlive, JoinerFits, UsesTcb, Waits, Alive, Running, Inserting, Counts
<1>3. Counts' BY <1>2, CountsShrink
<1> QED BY <1>1, <1>2, <1>3

LEMMA CreateMemory ==
  ASSUME IInv, MInv, NEW t \in Threads, NEW u \in Threads, NEW s \in Slots,
         NEW det \in BOOLEAN, Create(t, u, s, det)
  PROVE  MInv'
<1> USE ThreadLifeAssumption
    DEF ThreadLifeAssumption, IInv, MInv, Create, At, Goto, Alloc, Exiting, Joining, memory,
        fields, calls, client
<1>1. ClaimsKept'
  <2>1. ASSUME NEW w \in Threads, Alive(w)',
               pc'[w] \in {"exit_swap", "exit_wake", "exited"} \/ ~detached'[addr'[w]]
        PROVE  Claimed(w)'
    <3>1. CASE w = u BY <2>1, <3>1 DEF TypeOK, Alive, Claimed
    <3>2. CASE w # u
      <4>1. addr'[w] = addr[w] /\ addr[w] # s BY <2>1, <3>2 DEF TypeOK, Alive
      <4>2. Alive(w) BY <2>1, <4>1 DEF TypeOK, Alive
      <4>3. pc[w] \in {"exit_swap", "exit_wake", "exited"} \/ ~detached[addr[w]]
        BY <2>1, <3>2, <4>1, <4>2 DEF TypeOK, Alive
      <4>4. Claimed(w) BY <4>2, <4>3 DEF ClaimsKept
      <4> QED BY <4>4 DEF TypeOK, Claimed
    <3> QED BY <3>1, <3>2
  <2>2. (\A x \in Slots : owner[x] # NULL <=> x \in mapped \ zombie_list)'
    BY DEF TypeOK, ClaimsKept
  <2> QED BY <2>1, <2>2 DEF ClaimsKept
<1>2. /\ Running' \subseteq Running /\ zombie_list' \subseteq zombie_list
      /\ Inserting' = Inserting /\ Inserting' \subseteq Running'
  <2>1. Running' \subseteq Running /\ zombie_list' \subseteq zombie_list BY DEF TypeOK, Running
  <2>2. Inserting' = Inserting BY DEF TypeOK, Inserting
  <2>3. t \notin Inserting /\ u \notin Inserting BY DEF Inserting
  <2>4. \A w \in Inserting : place'[w] = place[w] /\ w \in Running
    BY <2>3 DEF TypeOK, Inserting, Counts
  <2> QED BY <2>1, <2>2, <2>4 DEF Running, Inserting
<1>3. Counts' BY <1>2, CountsShrink
<1> QED BY <1>1, <1>2, <1>3

LEMMA JoinCallMemory ==
  ASSUME IInv, MInv, NEW t \in Threads, NEW u \in Threads, JoinCall(t, u) PROVE MInv'
<1> USE ThreadLifeAssumption
    DEF ThreadLifeAssumption, IInv, MInv, JoinCall, At, Goto, Exiting, Joining, memory, fields,
        calls, client
<1>1. ClaimsKept' BY DEF TypeOK, TcbsAlive, OneClaim, JoinerFits, UsesTcb, Waits, Alive,
            ClaimsKept, Claimed
<1>2. /\ Running' \subseteq Running /\ zombie_list' \subseteq zombie_list
      /\ Inserting' = Inserting /\ Inserting' \subseteq Running'
  BY DEF TypeOK, TcbsAlive, JoinerFits, UsesTcb, Waits, Alive, Running, Inserting, Counts
<1>3. Counts' BY <1>2, CountsShrink
<1> QED BY <1>1, <1>2, <1>3

LEMMA JoinSwapMemory ==
  ASSUME IInv, MInv, NEW t \in Threads, JoinSwap(t) PROVE MInv'
<1> USE ThreadLifeAssumption
    DEF ThreadLifeAssumption, IInv, MInv, JoinSwap, At, Goto, Exiting, Joining, memory, fields,
        calls, client
<1>1. ClaimsKept' BY DEF TypeOK, TcbsAlive, OneClaim, JoinerFits, UsesTcb, Waits, Alive,
            ClaimsKept, Claimed
<1>2. /\ Running' \subseteq Running /\ zombie_list' \subseteq zombie_list
      /\ Inserting' = Inserting /\ Inserting' \subseteq Running'
  BY DEF TypeOK, TcbsAlive, JoinerFits, UsesTcb, Waits, Alive, Running, Inserting, Counts
<1>3. Counts' BY <1>2, CountsShrink
<1> QED BY <1>1, <1>2, <1>3

LEMMA JoinReadMemory ==
  ASSUME IInv, MInv, NEW t \in Threads, JoinRead(t) PROVE MInv'
<1> USE ThreadLifeAssumption
    DEF ThreadLifeAssumption, IInv, MInv, JoinRead, At, Goto, Exiting, Joining, memory, fields,
        calls, client
<1>1. ClaimsKept' BY DEF TypeOK, TcbsAlive, OneClaim, JoinerFits, UsesTcb, Waits, Alive,
            ClaimsKept, Claimed
<1>2. /\ Running' \subseteq Running /\ zombie_list' \subseteq zombie_list
      /\ Inserting' = Inserting /\ Inserting' \subseteq Running'
  BY DEF TypeOK, TcbsAlive, JoinerFits, UsesTcb, Waits, Alive, Running, Inserting, Counts
<1>3. Counts' BY <1>2, CountsShrink
<1> QED BY <1>1, <1>2, <1>3

LEMMA ExitMemory ==
  ASSUME IInv, MInv, NEW t \in Threads, Exit(t) PROVE MInv'
<1> USE ThreadLifeAssumption
    DEF ThreadLifeAssumption, IInv, MInv, Exit, At, Goto, Exiting, Joining, memory, fields,
        calls, client
<1>1. ClaimsKept' BY DEF TypeOK, TcbsAlive, OneClaim, JoinerFits, UsesTcb, Waits, Alive,
            ClaimsKept, Claimed
<1>2. /\ Running' \subseteq Running /\ zombie_list' \subseteq zombie_list
      /\ Inserting' = Inserting /\ Inserting' \subseteq Running'
  BY DEF TypeOK, TcbsAlive, JoinerFits, UsesTcb, Waits, Alive, Running, Inserting, Counts
<1>3. Counts' BY <1>2, CountsShrink
<1> QED BY <1>1, <1>2, <1>3

LEMMA ExitTestMemory ==
  ASSUME IInv, MInv, NEW t \in Threads, ExitTest(t) PROVE MInv'
<1> USE ThreadLifeAssumption
    DEF ThreadLifeAssumption, IInv, MInv, ExitTest, At, Goto, Exiting, Joining, memory, fields,
        calls, client
<1>1. ClaimsKept' BY DEF TypeOK, TcbsAlive, OneClaim, JoinerFits, UsesTcb, Waits, Alive,
            ClaimsKept, Claimed
<1>2. /\ Running' \subseteq Running /\ zombie_list' \subseteq zombie_list
      /\ Inserting' = Inserting /\ Inserting' \subseteq Running'
  BY DEF TypeOK, TcbsAlive, JoinerFits, UsesTcb, Waits, Alive, Running, Inserting, Counts
<1>3. Counts' BY <1>2, CountsShrink
<1> QED BY <1>1, <1>2, <1>3

LEMMA ExitSwapMemory ==
  ASSUME IInv, MInv, NEW t \in Threads, ExitSwap(t) PROVE MInv'
<1> USE ThreadLifeAssumption
    DEF ThreadLifeAssumption, IInv, MInv, ExitSwap, At, Goto, Exiting, Joining, memory, fields,
        calls, client
<1>1. ClaimsKept' BY DEF TypeOK, TcbsAlive, OneClaim, JoinerFits, UsesTcb, Waits, Alive,
            ClaimsKept, Claimed
<1>2. /\ Running' \subseteq Running /\ zombie_list' \subseteq zombie_list
      /\ Inserting' = Inserting /\ Inserting' \subseteq Running'
  BY DEF TypeOK, TcbsAlive, JoinerFits, UsesTcb, Waits, Alive, Running, Inserting, Counts
<1>3. Counts' BY <1>2, CountsShrink
<1> QED BY <1>1, <1>2, <1>3

LEMMA ExitWakeMemory ==
  ASSUME IInv, MInv, NEW t \in Threads, ExitWake(t) PROVE MInv'
<1> USE ThreadLifeAssumption
    DEF ThreadLifeAssumption, IInv, MInv, ExitWake, At, Goto, Exiting, Joining, memory, fields,
        calls, client
<1>1. ClaimsKept' BY DEF TypeOK, TcbsAlive, OneClaim, JoinerFits, UsesTcb, Waits, Alive,
            ClaimsKept, Claimed
<1>2. /\ Running' \subseteq Running /\ zombie_list' \subseteq zombie_list
      /\ Inserting' = Inserting /\ Inserting' \subseteq Running'
  BY DEF TypeOK, TcbsAlive, JoinerFits, UsesTcb, Waits, Alive, Running, Inserting, Counts
<1>3. Counts' BY <1>2, CountsShrink
<1> QED BY <1>1, <1>2, <1>3

LEMMA DetachMemory ==
  ASSUME IInv, MInv, NEW t \in Threads, NEW u \in Threads, Detach(t, u) PROVE MInv'
<1> USE ThreadLifeAssumption
    DEF ThreadLifeAssumption, IInv, MInv, Detach, At, Goto, Exiting, Joining, memory, fields,
        calls, client
<1>1. ClaimsKept' BY DEF TypeOK, TcbsAlive, OneClaim, JoinerFits, UsesTcb, Waits, Alive,
            ClaimsKept, Claimed
<1>2. /\ Running' \subseteq Running /\ zombie_list' \subseteq zombie_list
      /\ Inserting' = Inserting /\ Inserting' \subseteq Running'
  BY DEF TypeOK, TcbsAlive, JoinerFits, UsesTcb, Waits, Alive, Running, Inserting, Counts
<1>3. Counts' BY <1>2, CountsShrink
<1> QED BY <1>1, <1>2, <1>3

LEMMA DispatchMemory ==
  ASSUME IInv, MInv, NEW t \in Threads, Dispatch(t) PROVE MInv'
<1> USE ThreadLifeAssumption
    DEF ThreadLifeAssumption, IInv, MInv, Dispatch, At, Goto, Exiting, Joining, memory, fields,
        calls, client
<1>1. ClaimsKept' BY DEF TypeOK, TcbsAlive, OneClaim, JoinerFits, UsesTcb, Waits, Alive,
            ClaimsKept, Claimed
<1>2. Counts' BY DispatchCounts
<1> QED BY <1>1, <1>2

LEMMA FreeTestMemory ==
  ASSUME IInv, MInv, NEW t \in Threads, FreeTest(t) PROVE MInv'
<1> USE ThreadLifeAssumption
    DEF ThreadLifeAssumption, IInv, MInv, FreeTest, At, Goto, Exiting, Joining, memory, fields,
        calls, client
<1>1. ClaimsKept' BY DEF TypeOK, TcbsAlive, OneClaim, JoinerFits, UsesTcb, Waits, Alive,
            ClaimsKept, Claimed
<1>2. Counts' BY FreeTestCounts
<1> QED BY <1>1, <1>2

LEMMA FreeInsertMemory ==
  ASSUME IInv, MInv, NEW t \in Threads, FreeInsert(t) PROVE MInv'
<1> USE ThreadLifeAssumption
    DEF ThreadLifeAssumption, IInv, MInv, FreeInsert, At, Goto, FreeDone, FreeSlot, Exiting,
        Joining, memory, fields, calls, client
<1>1. ClaimsKept' BY DEF TypeOK, TcbsAlive, OneClaim, JoinerFits, UsesTcb, Waits, Alive,
            ClaimsKept, Claimed
<1>2. Counts' BY FreeInsertCounts
<1> QED BY <1>1, <1>2

LEMMA FreeUnmapMemory ==
  ASSUME IInv, MInv, NEW t \in Threads, FreeUnmap(t) PROVE MInv'
<1> USE ThreadLifeAssumption
    DEF ThreadLifeAssumption, IInv, MInv, FreeUnmap, At, Goto, FreeDone, FreeSlot, Exiting,
        Joining, memory, fields, calls, client
<1>1. ClaimsKept' BY DEF TypeOK, TcbsAlive, OneClaim, JoinerFits, UsesTcb, Waits, Alive,
            ClaimsKept, Claimed
<1>2. /\ Running' \subseteq Running /\ zombie_list' \subseteq zombie_list
      /\ Inserting' = Inserting /\ Inserting' \subseteq Running'
  BY DEF TypeOK, TcbsAlive, JoinerFits, UsesTcb, Waits, Alive, Running, Inserting, Counts
<1>3. Counts' BY <1>2, CountsShrink
<1> QED BY <1>1, <1>2, <1>3

LEMMA NextMemory == ASSUME IInv, MInv, [Next]_vars PROVE MInv'
<1>1. ASSUME NEW t \in Threads, CallStep(t) PROVE MInv'
  BY <1>1, PublishMemory, JoinSwapMemory, JoinReadMemory, ExitTestMemory, ExitSwapMemory, ExitWakeMemory,
     FreeTestMemory, FreeInsertMemory, FreeUnmapMemory DEF CallStep
<1>2. CASE UNCHANGED vars
  BY <1>2 DEF vars, memory, fields, calls, client, MInv, ClaimsKept, Claimed, Counts, Running,
            Inserting, Alive
<1>3. ASSUME NEW t \in Threads, ClientStep(t) PROVE MInv'
  BY <1>2, <1>3, CreateMemory, JoinCallMemory, DetachMemory, ExitMemory,
      YieldMemory DEF ClientStep, JoinDetached
<1>4. CASE Finished BY <1>2, <1>4 DEF Finished
<1> QED BY <1>1, <1>2, <1>3, <1>4, DispatchMemory DEF Next

\* The TCB of every thread that is gone is freed, or will be by who has its handle or joins it, or is one of
\* those whose detach came after the exit had looked; and zombie_list exceeds its limit by less than the
\* number of vcores.
THEOREM MemoryNotLost == Spec => []MemoryAccounted
<1>1. ASSUME IInv, MInv PROVE MemoryAccounted
  <2>1. ASSUME NEW t \in Threads, pc[t] = "exited" /\ addr[t] # NULL /\ owner[addr[t]] = t
        PROVE  t \in handles \/ t \in late \/ \E j \in Threads : pc[j] \in Joining /\ target[j] = t
    <3>1. Alive(t)
      BY <1>1, <2>1, ThreadLifeAssumption DEF ThreadLifeAssumption, IInv, TypeOK, MInv,
            ClaimsKept, Alive
    <3> QED BY <1>1, <2>1, <3>1 DEF MInv, ClaimsKept, Claimed
  <2>2. \A s \in mapped \ zombie_list : owner[s] # NULL
    BY <1>1 DEF IInv, TypeOK, MInv, ClaimsKept
  <2>3. Cardinality(zombie_list) + Cardinality({t \in Threads : pc[t] \in {"join_insert", "exit_insert"}})
          <= MaxZombies + NumVCores - 1
    BY <1>1 DEF MInv, Counts, Inserting
  <2> QED BY <2>1, <2>2, <2>3 DEF MemoryAccounted
<1>2. Spec => [](IInv /\ MInv)
  <2>1. Init => IInv /\ MInv BY InitInvariant, InitCounts
  <2>2. (IInv /\ MInv) /\ [Next]_vars => (IInv /\ MInv)' BY NextInvariant, NextMemory
  <2> QED BY <2>1, <2>2, PTL DEF Spec
<1> QED BY <1>1, <1>2, PTL
----------------------------------------------------------------------------
\* The backend for Lithe behaves like the threads of pvcq, so that the theorems above hold of it.
THEOREM LitheIsThreadLife == LitheSpec => Spec
<1>1. LitheInit => Init BY DEF LitheInit
<1>2. [LitheNext]_lvars => [Next]_vars
  <2>1. ASSUME NEW t \in Threads, ContextStep(t) PROVE CallStep(t)
    BY <2>1 DEF ContextStep, CallStep, ContextPublish, ContextBlock, ContextResult, ContextExit,
       ContextExitSwap, ContextUnblock, ContextFree
  <2>2. LitheNext => Next
    BY <2>1 DEF LitheNext, Next, ClientStep, ContextCreate, ContextJoin, ContextJoinDetached,
       ContextDetach, ContextExitCall, ContextYield, HartRuns
  <2> QED BY <2>2 DEF lvars
<1> QED BY <1>1, <1>2, PTL DEF LitheSpec, Spec
----------------------------------------------------------------------------
(* The harts of lithe.                                                     *)

\* The contexts that can use a hart.
Active == {t \in Threads : pc[t] \in {"client", "publish", "exit_cb"} \cup Joining}

HInv == IsFiniteSet(Active) /\ harts = Cardinality(Active)

\* Each active context lives in a slot of its own.
LEMMA ActiveFit ==
  ASSUME IInv PROVE IsFiniteSet(Active) /\ Cardinality(Active) <= Cardinality({s \in Slots : owner[s] # NULL})
<1> DEFINE Owned == {s \in Slots : owner[s] # NULL}
           f == [t \in Active |-> addr[t]]
<1>1. ASSUME NEW t \in Active PROVE addr[t] \in Owned /\ owner[addr[t]] = t
  BY ThreadLifeAssumption
  DEF ThreadLifeAssumption, Active, IInv, TypeOK, TcbsAlive, UsesTcb, Alive, Joining
<1>2. f \in [Active -> Owned] BY <1>1
<1>3. \A t, u \in Active : f[t] = f[u] => t = u BY <1>1
<1>4. f \in Injection(Active, Owned) BY <1>2, <1>3 DEF Injection, IsInjective
<1>5. IsFiniteSet(Owned) BY ThreadLifeAssumption, FS_Subset DEF ThreadLifeAssumption
<1> QED BY <1>4, <1>5, FS_Injection

LEMMA ActiveSame == ASSUME HInv, UNCHANGED harts, Active' = Active PROVE HInv'
  BY DEF HInv

LEMMA LitheNextInvariant ==
  ASSUME IInv, HInv, [LitheNext]_lvars PROVE HInv'
<1> USE DEF IInv, TypeOK, At, Goto, Joining, Exiting, memory, fields, calls, client
<1>1. ASSUME NEW t \in Threads, NEW u \in Threads, NEW s \in Slots, NEW det \in BOOLEAN,
             ContextCreate(t, u, s, det)
      PROVE HInv'
  <2>1. Active' = Active \cup {u} /\ u \notin Active BY <1>1 DEF ContextCreate, Create, Active
  <2>2. harts' = harts + 1 BY <1>1 DEF ContextCreate
  <2> QED BY <2>1, <2>2, FS_AddElement DEF HInv
<1>2. ASSUME NEW t \in Threads, ContextExit(t) PROVE HInv'
  <2>1. Active' = Active \ {t} /\ t \in Active BY <1>2 DEF ContextExit, ExitTest, Active
  <2>2. harts' = harts - 1 BY <1>2 DEF ContextExit
  <2> QED BY <2>1, <2>2, FS_RemoveElement DEF HInv
<1>3. ASSUME NEW t \in Threads,
             \/ ContextPublish(t) \/ ContextBlock(t) \/ ContextResult(t) \/ ContextExitSwap(t)
             \/ ContextUnblock(t) \/ ContextFree(t) \/ ContextExitCall(t) \/ ContextYield(t) \/ HartRuns(t)
      PROVE Active' = Active /\ UNCHANGED harts
  BY <1>3
  DEF Active, ContextPublish, ContextBlock, ContextResult, ContextExitSwap, ContextUnblock,
      ContextFree,
      ContextExitCall, ContextYield, HartRuns, Publish, JoinSwap, JoinRead, ExitSwap, ExitWake, FreeTest,
      FreeInsert, FreeUnmap, FreeDone, Exit, Yield, Dispatch
<1>4. ASSUME NEW t \in Threads, NEW u \in Threads,
             ContextJoin(t, u) \/ ContextJoinDetached(t, u) \/ ContextDetach(t, u)
      PROVE Active' = Active /\ UNCHANGED harts
  BY <1>4 DEF Active, ContextJoin, ContextJoinDetached, ContextDetach, JoinCall, JoinDetached,
            Detach, vars
<1>5. CASE Finished /\ UNCHANGED harts BY <1>5, ActiveSame DEF Finished, vars, Active
<1>6. CASE UNCHANGED lvars BY <1>6, ActiveSame DEF lvars, vars, Active
<1> QED BY <1>1, <1>2, <1>3, <1>4, <1>5, <1>6, ActiveSame DEF LitheNext, ContextStep

\* Lithe is asked for exactly as many harts as there are contexts that can use one: a hart is given back
\* once, before its context can be freed and its joiner go on.
THEOREM HartsMatchContexts == LitheSpec => []HartsCounted
<1>1. LitheInit => HInv
  <2> SUFFICES ASSUME LitheInit PROVE HInv OBVIOUS
  <2>1. Active = {Main} /\ harts = 1
    BY ThreadLifeAssumption DEF ThreadLifeAssumption, LitheInit, Init, Active, Joining
  <2> QED BY <2>1, FS_Singleton DEF HInv
<1>2. IInv /\ HInv /\ [LitheNext]_lvars => HInv' BY LitheNextInvariant
<1>3. LitheSpec => []IInv BY LitheIsThreadLife, Invariance, PTL
<1>4. IInv /\ HInv => HartsCounted BY ActiveFit DEF HInv, HartsCounted, Active
<1> QED BY <1>1, <1>2, <1>3, <1>4, PTL DEF LitheSpec
==============================================================================
