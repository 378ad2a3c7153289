------------------------------- MODULE MCWatch ------------------------------
(***************************************************************************)
(* Instances of Watch for TLC.                                             *)
(***************************************************************************)
EXTENDS Watch, TLC

\* Folders are interchangeable.
Symmetry == Permutations(Folder)
=============================================================================
