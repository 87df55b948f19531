----------------------------- MODULE MCCondVar -----------------------------
(***************************************************************************)
(* A small instance of CondVar for TLC.                                    *)
(***************************************************************************)
EXTENDS CondVar
============================================================================
