--------------------------- MODULE MCAgentClient ---------------------------
(* Two databases that share an SSH key.                                    *)
EXTENDS AgentClient, TLC

CONSTANTS u1, u2, k1, k2

KeySets == u1 :> {k1, k2} @@ u2 :> {k2}

Symmetry == Permutations(Openers) \cup Permutations(Odbs)
=============================================================================
