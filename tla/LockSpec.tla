------------------------------ MODULE LockSpec ------------------------------
(***************************************************************************)
(* What a mutex promises its clients: at most one thread holds it, a       *)
(* recursive one any number of times over, and it is free again once the   *)
(* holder undid each of its acquisitions.                                  *)
(***************************************************************************)
EXTENDS Naturals

CONSTANTS Threads, NULL, Recursive

VARIABLES holder, depth

Init == holder = NULL /\ depth = 0

Acquire(t) ==
  /\ holder = NULL \/ (Recursive /\ holder = t)
  /\ holder' = t
  /\ depth' = depth + 1

Release(t) ==
  /\ holder = t
  /\ depth' = depth - 1
  /\ holder' = IF depth = 1 THEN NULL ELSE t

Next == \E t \in Threads : Acquire(t) \/ Release(t)

Spec == Init /\ [][Next]_<<holder, depth>>
============================================================================
