--------------------------- MODULE MCNotifyCache ---------------------------
(* Three apps and room for two.                                            *)
EXTENDS NotifyCache, TLC

Symmetry == Permutations(Apps)
=============================================================================
