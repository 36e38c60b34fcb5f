---------------------------- MODULE MCReindexJob ----------------------------
(* Small instances of ReindexJob: a server process with two goroutines and *)
(* a command process with one thread that starts a run or polls.           *)
EXTENDS ReindexJob, TLC

CONSTANTS s1, s2, c1, server, cli, j1, j2, j3

MCProcOf == (s1 :> server) @@ (s2 :> server) @@ (c1 :> cli)

Symmetry == Permutations({s1, s2}) \cup Permutations(Jobs)
=============================================================================
