---------------------------- MODULE IndexStore ------------------------------
(***************************************************************************)
(* What the server and the rag-index command share: the active-index file, *)
(* the Chroma collection and the reindex lock.  How a generation is built  *)
(* is IndexBuild.tla and how the lock works is ReindexJob.tla; here an     *)
(* index run takes the lock, takes the id of the collection, and either    *)
(* fails or activates a complete generation, which is then never changed   *)
(* (ActivatedGenerationsFrozen, ActiveIsComplete, SingleWriter).           *)
(*                                                                         *)
(* The collection has a name and an id.  Chroma makes a new id when the    *)
(* name is ensured and there is no collection, and answers 404 to an id    *)
(* that is gone.                                                           *)
(***************************************************************************)
EXTENDS Naturals, FiniteSets

CONSTANTS
  Runners,     \* who may run an index build: handlers of the server, commands
  Nobody,      \* the lock's holder when it is free
  MaxGen,      \* bound: generations
  MaxMishaps   \* bound: lost collections, runs for another one, server crashes

ASSUME IndexStoreAssumption ==
  /\ Nobody \notin Runners
  /\ MaxGen \in Nat /\ MaxMishaps \in Nat

VARIABLES
  active,    \* the active generation the file names for this collection, 0 for none
  newest,    \* the newest generation
  current,   \* the id of the collection, 0 when there is none
  lastId,    \* the last id Chroma has given
  held,      \* the activated generations whose records the collection holds
  lease,     \* who holds the reindex lock
  mishaps,   \* how many there were
  foreign    \* whether a run for another collection was the last to switch

storeVars == <<active, newest, current, lastId, held, lease, mishaps, foreign>>

StoreTypeOK ==
  /\ newest \in 0..MaxGen /\ active \in 0..newest
  /\ lastId \in Nat /\ current \in {0, lastId}
  /\ held \subseteq 1..newest
  /\ lease \in Runners \cup {Nobody}
  /\ mishaps \in 0..MaxMishaps /\ foreign \in BOOLEAN

StoreInit ==
  /\ active = 0 /\ newest = 0
  /\ current = 0 /\ lastId = 0 /\ held = {}
  /\ lease = Nobody
  /\ mishaps = 0 /\ foreign = FALSE
-----------------------------------------------------------------------------
(* The id EnsureCollection (get_or_create) answers.                        *)
EnsuredId == IF current = 0 THEN lastId + 1 ELSE current

Ensured ==
  /\ current' = EnsuredId
  /\ lastId' = IF current = 0 THEN lastId + 1 ELSE lastId
  /\ UNCHANGED <<active, newest, held, lease, mishaps, foreign>>

TakeLease(x) ==
  /\ lease = Nobody
  /\ lease' = x
  /\ UNCHANGED <<active, newest, current, lastId, held, mishaps, foreign>>

FreeLease ==
  /\ lease' = Nobody
  /\ UNCHANGED <<active, newest, current, lastId, held, mishaps, foreign>>

(* Mutation: the active-index file names a generation nobody has built.    *)
SwitchedUnbuilt(id) ==
  /\ newest < MaxGen
  /\ active' = newest + 1
  /\ foreign' = FALSE
  /\ UNCHANGED <<newest, held, current, lastId, lease, mishaps>>

(* A run that wrote to collection id activates its generation.  When the   *)
(* collection was lost after the last write, nobody notices.               *)
Switched(id) ==
  /\ newest < MaxGen
  /\ newest' = newest + 1 /\ active' = newest + 1
  /\ held' = IF id = current THEN held \cup {newest + 1} ELSE held
  /\ foreign' = FALSE
  /\ UNCHANGED <<current, lastId, lease, mishaps>>
-----------------------------------------------------------------------------
Mishap == mishaps < MaxMishaps /\ mishaps' = mishaps + 1

(* The collection is deleted behind the program's back.                    *)
LoseCollection ==
  /\ current # 0
  /\ current' = 0 /\ held' = {}
  /\ Mishap
  /\ UNCHANGED <<active, newest, lastId, lease, foreign>>

(* A run for another collection takes the active-index file over, which    *)
(* the server then reads as naming no generation.                          *)
ForeignRun ==
  /\ lease = Nobody /\ active # 0
  /\ active' = 0 /\ foreign' = TRUE
  /\ Mishap
  /\ UNCHANGED <<newest, current, lastId, held, lease>>
=============================================================================
