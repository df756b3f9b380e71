--------------------------- MODULE MCNonceManager ---------------------------
(* NonceManager for TLC: the tasks are interchangeable.                    *)
EXTENDS NonceManager, TLC

Symmetry == Permutations(Tasks)
=============================================================================
