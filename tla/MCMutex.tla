------------------------------ MODULE MCMutex ------------------------------
(***************************************************************************)
(* A small instance of Mutex for TLC.                                      *)
(***************************************************************************)
EXTENDS Mutex
============================================================================
