----------------------------- MODULE MCBarrier -----------------------------
(***************************************************************************)
(* A small instance of Barrier for TLC.                                    *)
(***************************************************************************)
EXTENDS Barrier
============================================================================
