--------------------------- MODULE MCPerVcoreQueue ---------------------------
(***************************************************************************)
(* Small instances of PerVcoreQueue for TLC.                               *)
(***************************************************************************)
EXTENDS PerVcoreQueue
============================================================================
