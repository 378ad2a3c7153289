------------------------------ MODULE MCMoves -------------------------------
(***************************************************************************)
(* Instances of Moves for TLC.                                             *)
(***************************************************************************)
EXTENDS Moves, TLC

\* Files are interchangeable.
Symmetry == Permutations(Inode)
=============================================================================
