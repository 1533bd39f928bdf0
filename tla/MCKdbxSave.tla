----------------------------- MODULE MCKdbxSave -----------------------------
(* Two goroutines saving through two handles on one file.                  *)
EXTENDS KdbxSave, TLC

Symmetry == Permutations(Threads) \cup Permutations(Handles) \cup
            Permutations(Inodes) \cup Permutations(Edits)

MaxKept == 2   \* edits acknowledged or written by others, together

\* No state is explored beyond the first race (the invariants are checked on
\* the state the race leads to, not on its successors), nor beyond MaxKept
\* edits that have to be kept.
Bounds == ~raced /\ Cardinality(acked \cup ext) <= MaxKept
=============================================================================
