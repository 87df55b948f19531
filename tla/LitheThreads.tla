----------------------------- MODULE LitheThreads -----------------------------
(***************************************************************************)
(* The lithe backend (src/src/lithe/upthread.c): a thread is a context of  *)
(* Lithe's fork-join scheduler, which is external.  Allocation, join, exit *)
(* and detach are those of pvcq; in addition the backend keeps Lithe's     *)
(* count of the harts (hardware threads) it can use in step with the       *)
(* contexts: lithe_fork_join_context_init asks for one more, the exit      *)
(* callback gives it back before anybody may free the context.             *)
(***************************************************************************)
EXTENDS ThreadLife

VARIABLE harts   \* the sum of the hart requests, the main context's hart included

lvars == <<vars, harts>>
----------------------------------------------------------------------------
\* The main context comes with the hart the process started on.
LitheInit == Init /\ harts = 1

\* Seeded fault: the hart of a detached context is not given back.
ContextExit_OnlyJoinable(t) ==
  ExitTest(t) /\ harts' = IF detached[addr[t]] THEN harts ELSE harts - 1

\* __ctx_alloc
ContextAlloc(s)             == Alloc(s)

\* The hart is asked for in lithe_fork_join_context_init, which also starts the context.
ContextCreate(t, u, s, det) == ContextAlloc(s) /\ Create(t, u, s, det) /\ harts' = harts + 1
ContextPublish(t)           == Publish(t) /\ UNCHANGED harts
ContextYield(t)             == Yield(t) /\ UNCHANGED harts
ContextDetach(t, u)         == Detach(t, u) /\ UNCHANGED harts
ContextExitCall(t)          == Exit(t) /\ UNCHANGED harts

\* context_exit: the hart first, then the flag.
ContextExit(t)              == ExitTest(t) /\ harts' = harts - 1
ContextExitSwap(t)          == ExitSwap(t) /\ UNCHANGED harts
ContextUnblock(t)           == ExitWake(t) /\ UNCHANGED harts

ContextJoin(t, u)           == JoinCall(t, u) /\ UNCHANGED harts
ContextJoinDetached(t, u)   == JoinDetached(t, u) /\ UNCHANGED harts
ContextBlock(t)             == JoinSwap(t) /\ UNCHANGED harts
ContextResult(t)            == JoinRead(t) /\ UNCHANGED harts

\* __ctx_free
ContextFree(t)              == (FreeTest(t) \/ FreeInsert(t) \/ FreeUnmap(t)) /\ UNCHANGED harts

\* Lithe runs the contexts.
HartRuns(t)                 == Dispatch(t) /\ UNCHANGED harts
----------------------------------------------------------------------------
ContextStep(t) ==
  \/ ContextPublish(t)
  \/ ContextBlock(t)
  \/ ContextResult(t)
  \/ ContextExit(t)
  \/ ContextExitSwap(t)
  \/ ContextUnblock(t)
  \/ ContextFree(t)

LitheNext ==
  \/ \E t \in Threads :
       \/ ContextStep(t)
       \/ \E u \in Threads, s \in Slots, det \in BOOLEAN : ContextCreate(t, u, s, det)
       \/ \E u \in Threads : ContextJoin(t, u) \/ ContextJoinDetached(t, u) \/ ContextDetach(t, u)
       \/ ContextExitCall(t)
       \/ ContextYield(t)
       \/ HartRuns(t)
  \/ Finished /\ UNCHANGED harts

LitheSpec == LitheInit /\ [][LitheNext]_lvars

\* As in ThreadLife.
LitheFairSpec ==
  /\ LitheSpec
  /\ \A t \in Threads : WF_lvars(ContextStep(t) \/ ContextYield(t)) /\ SF_lvars(HartRuns(t))
----------------------------------------------------------------------------
\* The backend asks for as many harts as there are contexts that can still use one:
\* every way to end a context gives its hart back once, and before its memory is free
\* and before its joiner may go on.
HartsCounted ==
  /\ harts = Cardinality({t \in Threads : pc[t] \in {"client", "publish", "exit_cb"} \cup Joining})
  /\ harts <= Cardinality({s \in Slots : owner[s] # NULL})
============================================================================
