--------------------------- MODULE MCSharedFunction ----------------------------
(* Small instances of SharedFunction. *)
EXTENDS SharedFunction, TLC

Symmetry == Permutations(Threads) \cup Permutations(Strong)
            \cup Permutations(Weak) \cup Permutations(Blocks)
================================================================================
