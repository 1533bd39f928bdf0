----------------------------- MODULE MCServices -----------------------------
(* Two databases that share an SSH key.                                    *)
EXTENDS Services, TLC

CONSTANTS u1, u2, p1, p2, k1, k2

Path == u1 :> p1 @@ u2 :> p2
KeySets == u1 :> {k1, k2} @@ u2 :> {k2}

\* Bound: the events of one database at a time are lost or late.
OneDisturbed == dropped \cup missed \cup late # Uuids

Symmetry == Permutations(Openers) \cup Permutations(Odbs)
=============================================================================
