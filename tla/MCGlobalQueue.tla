---------------------------- MODULE MCGlobalQueue ----------------------------
(***************************************************************************)
(* Small instances of GlobalQueue for TLC.                                 *)
(***************************************************************************)
EXTENDS GlobalQueue, TLC

VCoreSymmetry == Permutations(VCores)

\* Threads other than thread0 are interchangeable.
FullSymmetry == VCoreSymmetry \cup Permutations(Threads \ {Main})
============================================================================
