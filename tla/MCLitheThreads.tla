---------------------------- MODULE MCLitheThreads ----------------------------
(***************************************************************************)
(* A small instance of LitheThreads, and with it of ThreadLife, for TLC.   *)
(***************************************************************************)
EXTENDS LitheThreads
============================================================================
