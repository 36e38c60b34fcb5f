---------------------------- MODULE AtomicIndex -----------------------------
(***************************************************************************)
(* What indexing promises to queries.  Queries see one image of the        *)
(* sources: some of them, each complete and in one version.  A rebuild     *)
(* takes a snapshot of the files, works on it for as long as it likes, and *)
(* either makes it the visible image in one step or gives it up.           *)
(*                                                                         *)
(* IndexBuild.tla is the build that keeps the promise with a document      *)
(* store that knows no transactions and one small file.                    *)
(***************************************************************************)
CONSTANTS
  Sources,   \* source paths
  Versions,  \* contents a source may have
  Absent     \* the version of a source that is not there

VARIABLES
  files,     \* the source tree
  building,  \* whether a rebuild is going on
  taken,     \* the snapshot it works on
  visible    \* the image queries see

vars == <<files, building, taken, visible>>

Image == [Sources -> Versions \cup {Absent}]
Empty == [s \in Sources |-> Absent]

Init == files \in Image /\ building = FALSE /\ taken = Empty /\ visible = Empty

Edit == files' \in Image /\ UNCHANGED <<building, taken, visible>>

(* A rebuild may leave sources out (another scope, a subdirectory, a       *)
(* limit), but what it takes is what the files say now.                    *)
Snapshot ==
  /\ ~building
  /\ building' = TRUE
  /\ taken' \in Image
  /\ \A s \in Sources : taken'[s] \in {files[s], Absent}
  /\ UNCHANGED <<files, visible>>

End == building /\ building' = FALSE /\ taken' = Empty /\ UNCHANGED files

(* The whole snapshot becomes visible at once ...                          *)
Publish == End /\ visible' = taken

(* ... or nothing changes.                                                 *)
GiveUp == End /\ UNCHANGED visible

Next == Edit \/ Snapshot \/ Publish \/ GiveUp

Spec == Init /\ [][Next]_vars
=============================================================================
