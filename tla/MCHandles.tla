------------------------------ MODULE MCHandles ------------------------------
(***************************************************************************)
(* Instances of Handles for TLC.                                           *)
(***************************************************************************)
EXTENDS Handles, TLC

Symmetric == Permutations(Thread) \cup Permutations(Folder)
=============================================================================
