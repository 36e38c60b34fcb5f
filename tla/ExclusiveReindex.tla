-------------------------- MODULE ExclusiveReindex --------------------------
(***************************************************************************)
(* What the reindex coordinator promises to the rest of the system: the    *)
(* index has at most one writer.  A job that asks to run either becomes    *)
(* the writer, when there is none, or leaves without having been one; a    *)
(* job that has left never comes back.                                     *)
(*                                                                         *)
(* ReindexJob.tla is the protocol that keeps the promise with an           *)
(* in-process map, an advisory file lock and two small files.              *)
(***************************************************************************)
CONSTANT Jobs

VARIABLES
  writers,  \* the jobs that may write the index now
  gone      \* the jobs that were refused, finished, aborted or killed

vars == <<writers, gone>>

Init == writers = {} /\ gone = {}

(* A job becomes the writer of an index that has none. *)
Enter(j) ==
  /\ writers = {}
  /\ j \notin gone
  /\ writers' = {j}
  /\ UNCHANGED gone

(* Jobs leave: one that was refused, one that ended, or, when a process    *)
(* dies, every job of that process at once.                                *)
Leave(S) ==
  /\ S \cap gone = {}
  /\ writers' = writers \ S
  /\ gone' = gone \cup S

Next == (\E j \in Jobs : Enter(j)) \/ (\E S \in SUBSET Jobs : Leave(S))

Spec == Init /\ [][Next]_vars
=============================================================================
