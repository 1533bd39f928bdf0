------------------------------ MODULE MCDbPool ------------------------------
(* Two D-Bus calls and the event loop on a pool with two objects.          *)
EXTENDS DbPool, TLC

Symmetry == Permutations(Callers) \cup Permutations(Odbs)
=============================================================================
