--------------------------- MODULE MCSecretItems ---------------------------
(* One database with one entry and two clients.                            *)
EXTENDS SecretItems, TLC

Symmetry == Permutations(Callers) \cup Permutations(Uuids) \cup Permutations(Cells)
            \cup Permutations(Items) \cup Permutations(Values)
=============================================================================
