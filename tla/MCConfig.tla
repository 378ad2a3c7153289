------------------------------ MODULE MCConfig ------------------------------
(***************************************************************************)
(* Instances of Config for TLC.                                            *)
(***************************************************************************)
EXTENDS Config, TLC

\* Processes and folders are interchangeable.
Symmetry == Permutations(Proc) \cup Permutations(Folder)
=============================================================================
