----------------------------- MODULE IndexBuild -----------------------------
(***************************************************************************)
(* Building an index generation (internal/ingest/ingest.go) over the       *)
(* active-index file (internal/indexstate/state.go) and the Chroma         *)
(* collection (internal/store/chroma.go).                                  *)
(*                                                                         *)
(* A run reads the sources, decides from the file which draft generation   *)
(* to build or to resume, lets a few workers bring every source's records  *)
(* of that generation in order, deletes what the draft holds of sources    *)
(* that are gone, and replaces the file.  Queries filter by the active     *)
(* generation the file names.  Nothing is transactional: a run may fail,   *)
(* time out or be killed between any two requests, and the next run picks  *)
(* up the draft it finds.  ReindexJob.tla shows there is one run at a time.*)
(*                                                                         *)
(* The text of a document, its fingerprint (sourceFingerprint) and its     *)
(* chunks (chunk.Split) are one value here, its version; a fingerprint     *)
(* that also covers the embedding model and the chunk size is a version    *)
(* too.  A write of a batch of records is one step per record, so that a   *)
(* run may stop after any of them.                                         *)
(***************************************************************************)
EXTENDS Naturals, FiniteSets

CONSTANTS
  Sources,      \* source paths, docs/... and code/...
  Versions,     \* contents a source may have
  Absent,       \* a source that is not there
  NumChunks,    \* how many chunks chunk.Split makes of a version
  Collections,  \* values of RAG_COLLECTION_NAME
  NoCollection, \* the collection name of an index that was never built
  Selections,   \* the values of INDEX_SUBDIR, each as the sources under it
  Limits,       \* values of INDEX_LIMIT (0: all)
  Workers,      \* RAG_EMBED_CONCURRENCY
  MaxGens,      \* bound: generations ever started
  MaxEdits,     \* bound: edits of the sources
  MaxAborts,    \* bound: runs that fail or are killed
  MaxLate       \* bound: requests of a dead run that Chroma applies later

NoGen == 0
Gens == 1..MaxGens

ASSUME IndexBuildAssumption ==
  /\ Absent \notin Versions
  /\ NumChunks \in [Versions -> Nat \ {0}]
  /\ NoCollection \notin Collections
  /\ Selections \subseteq SUBSET Sources
  /\ Limits \subseteq Nat
  /\ Workers \in Nat \ {0}
  /\ MaxGens \in Nat /\ MaxEdits \in Nat /\ MaxAborts \in Nat /\ MaxLate \in Nat

VARIABLES
  files,      \* the source tree
  manifest,   \* the contents of the active-index file
  store,      \* the records in Chroma
  clock,      \* the last generation newGeneration returned
  run,        \* what Reindex has decided and where it is
  work,       \* what each document's worker is about to do
  pend,       \* the records each document's worker still has to write
  toDrop,     \* sources deleteStaleBuildSources still has to delete
  late,       \* requests of dead runs on their way in the server
  activated,  \* history: generations that were ever active
  edits, aborts

vars == <<files, manifest, store, clock, run, work, pend, toDrop, late, activated,
          edits, aborts>>
runVars == <<run, work, pend, toDrop>>
bounds == <<edits, aborts>>

Image == [Sources -> Versions \cup {Absent}]
Empty == [s \in Sources |-> Absent]
Present(image) == {s \in Sources : image[s] # Absent}

(* A record: its id is made of generation, source and index, so an upsert  *)
(* replaces the record with the same three.  text is what was embedded,    *)
(* hash the source_hash of the metadata; via is history.                   *)
Record == [coll : Collections, gen : Gens, src : Sources, idx : Nat,
           text : Versions, hash : Versions, via : {"embed", "copy"}]

Manifest == [coll : Collections \cup {NoCollection}, active : 0..MaxGens,
             resume : 0..MaxGens, resumeFresh : BOOLEAN,
             resumeSelection : SUBSET Sources, sources : Image]

RunState == [phase : {"idle", "index", "reconcile"},
             coll : Collections \cup {NoCollection}, build : 0..MaxGens,
             active : 0..MaxGens, sources : Image, fresh : BOOLEAN, docs : Image]

Stages == {"none", "todo", "dropToCopy", "dropToEmbed", "copy", "embed", "write", "done"}

LateRequest == [kind : {"delete", "upsert"}, coll : Collections, gen : Gens,
                src : Sources, recs : SUBSET Record]

RecordsOf(coll, gen, s) == {r \in store : r.coll = coll /\ r.gen = gen /\ r.src = s}
SameId(r, q) == r.coll = q.coll /\ r.gen = q.gen /\ r.src = q.src /\ r.idx = q.idx
Upsert(recs, r) == {q \in recs : ~SameId(q, r)} \cup {r}

Idle == [phase |-> "idle", coll |-> NoCollection, build |-> NoGen, active |-> NoGen,
         sources |-> Empty, fresh |-> FALSE, docs |-> Empty]

EmptyManifest == [coll |-> NoCollection, active |-> NoGen, resume |-> NoGen,
                  resumeFresh |-> FALSE, resumeSelection |-> {}, sources |-> Empty]

Init ==
  /\ files \in Image
  /\ manifest = EmptyManifest
  /\ store = {}
  /\ clock = NoGen
  /\ run = Idle
  /\ work = [s \in Sources |-> "none"]
  /\ pend = [s \in Sources |-> {}]
  /\ toDrop = {}
  /\ late = {}
  /\ activated = {}
  /\ edits = 0 /\ aborts = 0

(* Somebody edits, adds or deletes a source.                               *)
Edit(s, v) ==
  /\ edits < MaxEdits
  /\ files[s] # v
  /\ files' = [files EXCEPT ![s] = v]
  /\ edits' = edits + 1
  /\ UNCHANGED <<manifest, store, clock, runVars, late, activated, aborts>>
-----------------------------------------------------------------------------
(* Reindex, up to indexDocuments                                           *)

(* loadDocuments: the selected sources as they are now, cut to INDEX_LIMIT. *)
Loaded(selection, limit, docs) ==
  LET found == Present(files) \cap selection
  IN  /\ \A s \in Present(docs) : s \in found /\ docs[s] = files[s]
      /\ Cardinality(Present(docs)) =
           IF limit > 0 /\ limit < Cardinality(found) THEN limit ELSE Cardinality(found)

(* A manifest of another collection counts as none.                        *)
Usable(coll) == IF manifest.coll \in {NoCollection, coll} THEN manifest ELSE EmptyManifest

(* A draft is resumed unless a fresh index is asked for and it is not one. *)
Resumable(m, fresh) == m.resume # NoGen /\ (fresh => m.resumeFresh)

Begin(coll, selection, docs, m, gen, fresh) ==
  /\ run' = [phase |-> "index", coll |-> coll, build |-> gen, active |-> m.active,
             sources |-> m.sources, fresh |-> fresh, docs |-> docs]
  /\ work' = [s \in Sources |-> IF docs[s] = Absent THEN "none" ELSE "todo"]
  /\ UNCHANGED <<files, store, pend, toDrop, late, activated, bounds>>

(* Mutation: a resumed run goes by its own FRESH_INDEX.                    *)
ResumeRunOwnFresh(coll, selection, limit, docs, fresh) ==
  LET m == Usable(coll)
  IN  /\ run = Idle
      /\ Loaded(selection, limit, docs)
      /\ Resumable(m, fresh)
      /\ m.resumeSelection = selection
      /\ Begin(coll, selection, docs, m, m.resume, fresh)
      /\ UNCHANGED <<manifest, clock>>

(* Mutation: an empty resume generation is taken for one.                  *)
ResumeRunUnasked(coll, selection, limit, docs, fresh) ==
  LET m == Usable(coll)
  IN  /\ run = Idle
      /\ Loaded(selection, limit, docs)
      /\ m.resume # NoGen => m.resumeSelection = selection
      /\ Begin(coll, selection, docs, m, m.resume, m.resumeFresh)
      /\ UNCHANGED <<manifest, clock>>

ResumeRun(coll, selection, limit, docs, fresh) ==
  LET m == Usable(coll)
  IN  /\ run = Idle
      /\ Loaded(selection, limit, docs)
      /\ Resumable(m, fresh)
      /\ m.resumeSelection = selection
      /\ Begin(coll, selection, docs, m, m.resume, m.resumeFresh)
      /\ UNCHANGED <<manifest, clock>>

(* Mutation: the announcement forgets the active generation.               *)
StartRunForgetsActive(coll, selection, limit, docs, fresh) ==
  LET m == Usable(coll)
  IN  /\ run = Idle
      /\ Loaded(selection, limit, docs)
      /\ ~Resumable(m, fresh)
      /\ m.resume # NoGen => m.resumeSelection = selection
      /\ clock < MaxGens
      /\ clock' = clock + 1
      /\ manifest' = [m EXCEPT !.coll = coll, !.active = NoGen, !.resume = clock + 1,
                               !.resumeFresh = fresh, !.resumeSelection = selection]
      /\ Begin(coll, selection, docs, m, clock + 1, fresh)

(* A new draft is announced in the file before anything is written to it;  *)
(* the active generation and its sources stay.  A draft with another       *)
(* selection makes the run fail, a fresh one too, which changes nothing.   *)
StartRun(coll, selection, limit, docs, fresh) ==
  LET m == Usable(coll)
  IN  /\ run = Idle
      /\ Loaded(selection, limit, docs)
      /\ ~Resumable(m, fresh)
      /\ m.resume # NoGen => m.resumeSelection = selection
      /\ clock < MaxGens
      /\ clock' = clock + 1
      /\ manifest' = [m EXCEPT !.coll = coll, !.resume = clock + 1,
                               !.resumeFresh = fresh, !.resumeSelection = selection]
      /\ Begin(coll, selection, docs, m, clock + 1, fresh)
-----------------------------------------------------------------------------
(* indexDocument, one per worker at a time                                 *)

Busy == {s \in Sources : work[s] \notin {"none", "todo", "done"}}
Draft(s) == RecordsOf(run.coll, run.build, s)
Hash(s) == run.docs[s]

Rec(s, i, text, via) ==
  [coll |-> run.coll, gen |-> run.build, src |-> s, idx |-> i, text |-> text,
   hash |-> Hash(s), via |-> via]

(* Mutation: only the number of chunks is compared.                        *)
DraftCompleteByCount(s) == {r.idx : r \in Draft(s)} = 1..NumChunks[Hash(s)]

(* reuseBuildSource: the draft has all chunks of the source and each was   *)
(* made of this very version.                                              *)
DraftComplete(s) ==
  /\ {r.idx : r \in Draft(s)} = 1..NumChunks[Hash(s)]
  /\ \A r \in Draft(s) : r.hash = Hash(s)

Unchanged(s) == run.active # NoGen /\ ~run.fresh /\ run.sources[s] = Hash(s)

(* Whatever is in the draft of a source that cannot be reused is deleted   *)
(* first.                                                                  *)
Examine(s) ==
  /\ run.phase = "index"
  /\ work[s] = "todo"
  /\ Cardinality(Busy) < Workers
  /\ work' = [work EXCEPT ![s] =
       CASE DraftComplete(s) -> "done"
         [] Unchanged(s) /\ ~DraftComplete(s) ->
              IF Draft(s) # {} THEN "dropToCopy" ELSE "copy"
         [] OTHER -> IF Draft(s) # {} THEN "dropToEmbed" ELSE "embed"]
  /\ UNCHANGED <<files, manifest, store, clock, run, pend, toDrop, late, activated,
                 bounds>>

(* deleteBuildSourceRecords *)
DropDraft(s) ==
  /\ work[s] \in {"dropToCopy", "dropToEmbed"}
  /\ store' = store \ Draft(s)
  /\ work' = [work EXCEPT ![s] = IF @ = "dropToCopy" THEN "copy" ELSE "embed"]
  /\ UNCHANGED <<files, manifest, clock, run, pend, toDrop, late, activated, bounds>>

(* copyUnchangedSource reads what the active generation has of the source; *)
(* a source without records there is embedded like a changed one.          *)
ReadActive(s) ==
  LET old == RecordsOf(run.coll, run.active, s)
  IN  /\ work[s] = "copy"
      /\ work' = [work EXCEPT ![s] = IF old = {} THEN "embed" ELSE "write"]
      /\ pend' = [pend EXCEPT ![s] = {Rec(s, r.idx, r.text, "copy") : r \in old}]
      /\ UNCHANGED <<files, manifest, store, clock, run, toDrop, late, activated, bounds>>

(* indexChangedSource *)
Embed(s) ==
  /\ work[s] = "embed"
  /\ work' = [work EXCEPT ![s] = "write"]
  /\ pend' = [pend EXCEPT ![s] = {Rec(s, i, Hash(s), "embed") : i \in 1..NumChunks[Hash(s)]}]
  /\ UNCHANGED <<files, manifest, store, clock, run, toDrop, late, activated, bounds>>

(* Records are written in the order of the chunks.                         *)
NextRecs(s) == {r \in pend[s] : \A q \in pend[s] : r.idx <= q.idx}

(* Mutation: a batch size of zero, with which the loop does not advance.   *)
WriteNothing(s) ==
  /\ work[s] = "write"
  /\ pend[s] # {}
  /\ UNCHANGED vars

(* writeBatches, or Chroma.Add after each batch of embeddings.             *)
Write(s) ==
  /\ work[s] = "write"
  /\ \E r \in NextRecs(s) :
       /\ store' = Upsert(store, r)
       /\ pend' = [pend EXCEPT ![s] = @ \ {r}]
       /\ work' = [work EXCEPT ![s] = IF pend[s] = {r} THEN "done" ELSE "write"]
  /\ UNCHANGED <<files, manifest, clock, run, toDrop, late, activated, bounds>>
-----------------------------------------------------------------------------
(* Reindex, after indexDocuments                                           *)

(* Mutation: what the draft holds of other sources is left there.          *)
ListDraftNoStale ==
  /\ run.phase = "index"
  /\ \A s \in Sources : work[s] \in {"none", "done"}
  /\ run' = [run EXCEPT !.phase = "reconcile"]
  /\ UNCHANGED <<files, manifest, store, clock, work, pend, toDrop, late, activated,
                 bounds>>

(* deleteStaleBuildSources lists the draft's sources ...                   *)
ListDraft ==
  /\ run.phase = "index"
  /\ \A s \in Sources : work[s] \in {"none", "done"}
  /\ run' = [run EXCEPT !.phase = "reconcile"]
  /\ toDrop' = {s \in Sources : Draft(s) # {} /\ run.docs[s] = Absent}
  /\ UNCHANGED <<files, manifest, store, clock, work, pend, late, activated, bounds>>

(* ... and deletes those that are not among the documents.                 *)
DropStale(s) ==
  /\ run.phase = "reconcile"
  /\ s \in toDrop
  /\ store' = store \ Draft(s)
  /\ toDrop' = toDrop \ {s}
  /\ UNCHANGED <<files, manifest, clock, run, work, pend, late, activated, bounds>>

EndRun ==
  /\ run' = Idle
  /\ work' = [s \in Sources |-> "none"]
  /\ pend' = [s \in Sources |-> {}]
  /\ toDrop' = {}

(* Mutation: the resume fields are not cleared.                            *)
ActivateKeepsResume ==
  /\ run.phase = "reconcile"
  /\ toDrop = {}
  /\ manifest' = [manifest EXCEPT !.coll = run.coll, !.active = run.build,
                                  !.sources = run.docs]
  /\ activated' = activated \cup {run.build}
  /\ EndRun
  /\ UNCHANGED <<files, store, clock, late, bounds>>

(* The draft becomes the active generation: Save by rename.                *)
Activate ==
  /\ run.phase = "reconcile"
  /\ toDrop = {}
  /\ manifest' = [EmptyManifest EXCEPT !.coll = run.coll, !.active = run.build,
                                       !.sources = run.docs]
  /\ activated' = activated \cup {run.build}
  /\ EndRun
  /\ UNCHANGED <<files, store, clock, late, bounds>>

(* A request fails, the deadline passes, or the process is killed.  The    *)
(* file and the store stay as they are.  Requests that were on their way,  *)
(* one of each worker, may still be carried out when nobody waits for them *)
(* any more.  A batch can be all that is left; its records arrive singly.  *)
Request(kind, s, recs) ==
  [kind |-> kind, coll |-> run.coll, gen |-> run.build, src |-> s, recs |-> recs]

Outstanding ==
  {Request("delete", s, {}) :
     s \in {u \in Sources : work[u] \in {"dropToCopy", "dropToEmbed"}} \cup toDrop}
  \cup UNION {{Request("upsert", s, {r}) : r \in pend[s]} : s \in Sources}

Abort ==
  /\ run # Idle
  /\ aborts < MaxAborts
  /\ aborts' = aborts + 1
  /\ EndRun
  /\ \/ late' = late
     \/ /\ MaxLate > 0
        /\ \E ops \in SUBSET Outstanding : late' = late \cup ops
        /\ Cardinality(late') <= MaxLate
  /\ UNCHANGED <<files, manifest, store, clock, activated, edits>>

ApplyLate(op) ==
  /\ late' = late \ {op}
  /\ store' = IF op.kind = "delete"
                THEN store \ RecordsOf(op.coll, op.gen, op.src)
                ELSE {q \in store : \A r \in op.recs : ~SameId(q, r)} \cup op.recs
  /\ UNCHANGED <<files, manifest, clock, runVars, activated, bounds>>
-----------------------------------------------------------------------------
Run ==
  \E coll \in Collections, selection \in Selections, limit \in Limits,
     docs \in Image, fresh \in BOOLEAN :
    \/ ResumeRun(coll, selection, limit, docs, fresh)
    \/ StartRun(coll, selection, limit, docs, fresh)

Work ==
  \/ \E s \in Sources :
       Examine(s) \/ DropDraft(s) \/ ReadActive(s) \/ Embed(s) \/ Write(s) \/ DropStale(s)
  \/ ListDraft
  \/ Activate

Next ==
  \/ \E s \in Sources, v \in Versions \cup {Absent} : Edit(s, v)
  \/ Run
  \/ Work
  \/ Abort
  \/ \E op \in late : ApplyLate(op)

Spec == Init /\ [][Next]_vars

(* A run that is neither killed nor refused goes on: every request is      *)
(* answered or times out, and a worker that is free takes the next source. *)
FairSpec == Spec /\ WF_vars(Work)
-----------------------------------------------------------------------------
TypeOK ==
  /\ files \in Image
  /\ manifest \in Manifest
  /\ store \subseteq Record
  /\ clock \in 0..MaxGens
  /\ run \in RunState
  /\ work \in [Sources -> Stages]
  /\ pend \in [Sources -> SUBSET Record]
  /\ toDrop \subseteq Sources
  /\ late \subseteq LateRequest
  /\ activated \subseteq Gens
  /\ edits \in 0..MaxEdits
  /\ aborts \in 0..MaxAborts

(* The records a generation consists of when it holds an image.            *)
Holds(coll, gen, s, v) ==
  LET recs == RecordsOf(coll, gen, s)
  IN  IF v = Absent
        THEN recs = {}
        ELSE /\ {r.idx : r \in recs} = 1..NumChunks[v]
             /\ \A r \in recs : r.text = v /\ r.hash = v

(* The generation queries filter by has every chunk of every source the    *)
(* manifest lists, made of the listed version, and no record of anything   *)
(* else, however often the build was cut off and resumed while sources     *)
(* were edited, deleted or deselected.                                     *)
ActiveIsComplete ==
  manifest.active # NoGen =>
    \A s \in Sources : Holds(manifest.coll, manifest.active, s, manifest.sources[s])

(* No step touches a record of a generation that is or was active: a query *)
(* that read the pointer before it moved still reads a whole index.        *)
ActivatedIsFrozen ==
  [][\A g \in activated :
       {r \in store' : r.gen = g} = {r \in store : r.gen = g}]_vars

(* The active generation is replaced by the end of a run and by nothing    *)
(* else: a run that starts, fails or dies leaves the previous one visible. *)
PointerMovesAtTheEnd ==
  [][manifest'.active # manifest.active =>
       /\ run.phase = "reconcile"
       /\ manifest'.active = run.build]_vars

(* A draft begun as a fresh index holds no record copied from an older     *)
(* generation, whatever the runs that resume it ask for.                   *)
FreshDraftHasNoCopies ==
  \A r \in store :
    /\ run.fresh /\ r.gen = run.build => r.via = "embed"
    /\ manifest.resumeFresh /\ r.gen = manifest.resume => r.via = "embed"

(* A run comes to an end, one way or the other.                            *)
RunEnds == run # Idle ~> run = Idle

(* The build implements the atomic index.  The file lists an image once    *)
(* there is an active generation; a source is visible in the version it is *)
(* listed in if the generation holds exactly that.                         *)
Broken == <<"broken">>
Listed == IF manifest.active = NoGen THEN Empty ELSE manifest.sources
VisibleVersion(s) ==
  IF Holds(manifest.coll, manifest.active, s, Listed[s]) THEN Listed[s] ELSE Broken

Atomic == INSTANCE AtomicIndex WITH
  building <- run # Idle,
  taken <- run.docs,
  visible <- [s \in Sources |-> VisibleVersion(s)]

AtomicImage == Atomic!Spec
-----------------------------------------------------------------------------
(* What the documentation says and the build does not keep.                *)

(* README.md, Index Consistency: "If reindexing fails before that switch,  *)
(* the previous query state remains active."  Nothing but a switch hides   *)
(* an index that was visible; but a run for another collection name        *)
(* rewrites the file without the pointer before it builds anything.        *)
FailureKeepsTheIndex ==
  [][manifest.active # NoGen => manifest'.active # NoGen]_vars
=============================================================================
