---------------------------- MODULE MCIndexBuild ----------------------------
(* Small instances of IndexBuild: two sources, a version of one chunk and  *)
(* one of two; all sources are selected, or those of one directory.        *)
EXTENDS IndexBuild, TLC

CONSTANTS a, b, short, long

MCNumChunks == (short :> 1) @@ (long :> 2)
Everything == {{a, b}}
WholeOrPart == {{a, b}, {a}, {b}}

Symmetry == Permutations(Sources)
=============================================================================
