------------------------------ MODULE MCBuffer ------------------------------
(* The two buffers of one request and one of another, with one block more    *)
(* than buffers, so that a resize has a new address to take.                 *)
EXTENDS Buffer, TLC

CONSTANTS i, o, k, b1, b2, b3, b4, c1, c2, c3

Addresses == Permutations(Blocks) \cup Permutations(Cells)
=============================================================================
