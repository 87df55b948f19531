------------------------------ MODULE SchedOps ------------------------------
(***************************************************************************)
(* What a second-level scheduler (2LS) promises to the rest of the system, *)
(* whatever queues it keeps: the contract behind `struct schedule_ops`.    *)
(* Each thread is in one phase of its life.  The schedulers of gq, pvcq    *)
(* and juggle are to implement this module.                                *)
(***************************************************************************)
EXTENDS Naturals, FiniteSets

CONSTANTS Threads,   \* every thread there can be, the main thread included
          Main,      \* thread0, which exists and runs from the start
          Capacity   \* the number of vcores

VARIABLE phase

Phases == {"unborn", "parked", "runnable", "running", "dead"}

Running == {t \in Threads : phase[t] = "running"}

Init == phase = [t \in Threads |-> IF t = Main THEN "running" ELSE "unborn"]

Move(t, from, to) == phase[t] = from /\ phase' = [phase EXCEPT ![t] = to]

\* upthread_create: the thread exists, nobody may run it yet.
Create(t) == Move(t, "unborn", "parked")

\* A callback of uthread_yield, or a system call: the thread is off its vcore
\* and is not in the ready queues.
Park(t) == Move(t, "running", "parked")

\* thread_runnable: only a parked thread is ever handed to the ready queues.
Ready(t) == Move(t, "parked", "runnable")

\* sched_entry finds the thread: it runs on a vcore that ran nothing.
Dispatch(t) == Cardinality(Running) < Capacity /\ Move(t, "runnable", "running")

\* upthread_exit.
Exit(t) == Move(t, "running", "dead")

Next == \E t \in Threads : Create(t) \/ Park(t) \/ Ready(t) \/ Dispatch(t) \/ Exit(t)

Spec == Init /\ [][Next]_phase
============================================================================
