------------------------- MODULE MCUtxoReservation -------------------------
(* UtxoReservation on a few UTXOs and requests, for TLC.                   *)
EXTENDS UtxoReservation, TLC

Symmetry == Permutations(Requests)
=============================================================================
