---------------------------- MODULE MCUtxoCache ----------------------------
(* UtxoCache for TLC: queries only differ by name, and so do addresses.    *)
EXTENDS UtxoCache, TLC

Symmetry == Permutations(Queries) \cup Permutations(Addresses)

=============================================================================
