--------------------------- MODULE MCNotebookMove ---------------------------
(***************************************************************************)
(* Instances of NotebookMove for TLC.                                      *)
(***************************************************************************)
EXTENDS NotebookMove, TLC

\* The clients that post the move are interchangeable.
Symmetry == Permutations(Movers)

=============================================================================
