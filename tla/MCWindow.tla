------------------------------ MODULE MCWindow ------------------------------
(* Up to three tabs, a raw file of each of two kinds, two types.            *)
EXTENDS Window, TLC

MCClass == [f \in Files |-> f]
Addresses == Permutations(Viewers)
=============================================================================
