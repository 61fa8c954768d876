-------------------------- MODULE MCIndexExchange --------------------------
(* Small instances of IndexExchange for TLC.                               *)
EXTENDS IndexExchange, TLC

\* File names that are treated alike are interchangeable (safety runs only).
MCSymmetry == Permutations(Hidden) \union Permutations(Names \ Hidden)
=============================================================================
