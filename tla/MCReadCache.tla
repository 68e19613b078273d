---------------------------- MODULE MCReadCache ----------------------------
(* ReadCache on two keys, two readers and one mutation handler. *)
EXTENDS ReadCache, TLC

Symmetry == Permutations(Keys) \cup Permutations(Readers)
            \cup Permutations(Writers) \cup Permutations(Calls)
=============================================================================
