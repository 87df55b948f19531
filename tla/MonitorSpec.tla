---------------------------- MODULE MonitorSpec ----------------------------
(***************************************************************************)
(* What a condition variable promises the threads of a monitor.  To wait   *)
(* is to give up the lock and to join the waiting threads in one step.  A  *)
(* notification takes the thread that waited longest; only a notified      *)
(* thread comes back, once, and it has the lock again then.                *)
(***************************************************************************)
EXTENDS Sequences, Functions

CONSTANTS Threads, NULL

VARIABLES
  holder,     \* who is in the monitor
  waiting,    \* the threads that wait, longest first
  notified    \* the threads that were notified and have not come back

Init == holder = NULL /\ waiting = <<>> /\ notified = {}

\* From outside, or back from a wait.
Enter(t) ==
  /\ holder = NULL /\ t \notin Range(waiting)
  /\ holder' = t
  /\ notified' = notified \ {t}
  /\ UNCHANGED waiting

Leave(t) ==
  /\ holder = t
  /\ holder' = NULL
  /\ UNCHANGED <<waiting, notified>>

Wait(t) ==
  /\ holder = t
  /\ holder' = NULL
  /\ waiting' = Append(waiting, t)
  /\ UNCHANGED notified

\* In the monitor or outside; a broadcast is one of these for each thread.
Notify(t) ==
  /\ waiting # <<>> /\ t \notin Range(waiting) \cup notified
  /\ waiting' = Tail(waiting)
  /\ notified' = notified \cup {Head(waiting)}
  /\ UNCHANGED holder

Next == \E t \in Threads : Enter(t) \/ Leave(t) \/ Wait(t) \/ Notify(t)

Spec == Init /\ [][Next]_<<holder, waiting, notified>>
============================================================================
