----------------------------- MODULE MCPamStore -----------------------------
(* Logins and kpxcctl runs on one set of files.                            *)
EXTENDS PamStore, TLC

Symmetry == Permutations(Conns) \cup Permutations(Ctls) \cup
            Permutations(Tokens) \cup Permutations(Secrets)

\* Nothing is claimed once two actors have contended for the files: the state
\* in which they do is the last one explored.
Uncontended == ~contended
=============================================================================
