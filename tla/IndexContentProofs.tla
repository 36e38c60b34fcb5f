------------------------- MODULE IndexContentProofs -------------------------
(***************************************************************************)
(* What an index generation contains, for any sources, versions, numbers   *)
(* of chunks, selections, limits, workers and bounds, and that the build   *)
(* implements the atomic index.                                            *)
(*                                                                         *)
(* The active generation is complete because the draft was when it was     *)
(* activated, and the draft is complete source by source:                  *)
(*   RunInv     a run agrees with the file it read at its start, and       *)
(*              copies only what is unchanged since;                       *)
(*   FreshInv   no record has a generation that was not announced, and     *)
(*              those of a fresh draft were embedded;                      *)
(*   DraftOf    what the draft has of a source, given what its worker has  *)
(*              done and still has pending;                                *)
(*   ListInv    after the workers, what the draft has of other sources is  *)
(*              on the list of what is to be deleted.                      *)
(* Copying makes this circular: a draft is complete because the generation *)
(* it copies from was.  So ActiveIsComplete is a part of the inductive     *)
(* invariant, not only a consequence.                                      *)
(***************************************************************************)
EXTENDS IndexBuildProofs

RunInv ==
  /\ run.phase # "idle" =>
       /\ run.coll = manifest.coll /\ run.active = manifest.active
       /\ run.sources = manifest.sources /\ run.fresh = manifest.resumeFresh
  /\ run.phase = "idle" => ~run.fresh
  /\ manifest.coll = NoCollection => manifest.active = NoGen /\ manifest.resume = NoGen
  /\ manifest.active # NoGen => manifest.active \in activated
  /\ \A s \in Sources : work[s] \in {"copy", "dropToCopy"} => Unchanged(s)

Honest(r) ==
  /\ r.gen <= clock
  /\ manifest.resumeFresh /\ r.gen = manifest.resume => r.via = "embed"

(* Also of what is pending, or in a request that outlived its run.         *)
FreshInv ==
  /\ \A r \in store : Honest(r)
  /\ \A s \in Sources : \A r \in pend[s] : Honest(r)
  /\ \A op \in late : \A r \in op.recs : Honest(r)

(* The records are those of one version, all of them.                      *)
Complete(recs, v) ==
  /\ {r.idx : r \in recs} = 1..NumChunks[v]
  /\ \A r \in recs : r.text = v /\ r.hash = v

DraftOf(s) ==
  /\ work[s] = "done" => Complete(Draft(s), Hash(s))
  /\ work[s] = "write" => pend[s] # {} /\ Complete(Draft(s) \cup pend[s], Hash(s))
  /\ work[s] \in {"copy", "embed"} => Draft(s) = {}
  /\ \A r \in pend[s] : r.coll = run.coll /\ r.src = s

ListInv ==
  /\ run.phase # "idle" => \A s \in Sources : Hash(s) # Absent => work[s] # "none"
  /\ \A s \in toDrop : Hash(s) = Absent
  /\ run.phase = "reconcile" =>
       /\ \A s \in Sources : work[s] \in {"none", "done"}
       /\ \A s \in Sources \ toDrop : Hash(s) = Absent => Draft(s) = {}

Content ==
  /\ \A r \in store : r.text = r.hash
  /\ \A s \in Sources : DraftOf(s)
  /\ ListInv
  /\ ActiveIsComplete

CInv == FInv /\ RunInv /\ FreshInv /\ (MaxLate = 0 => Content)
-----------------------------------------------------------------------------
(* A run and the file                                                      *)

LEMMA RunInvStep == TInv /\ DraftInv /\ RunInv /\ [Next]_vars => RunInv'
  <1> SUFFICES ASSUME TInv, DraftInv, RunInv, [Next]_vars PROVE RunInv'
    OBVIOUS
  <1> USE IndexBuildAssumption
  <1>0. manifest \in Manifest /\ run \in RunState /\ work \in [Sources -> Stages]
    BY DEF TInv, TypeOK
  <1>1. ASSUME UNCHANGED <<manifest, run, activated>>,
               \A s \in Sources : work'[s] \in {"copy", "dropToCopy"} => Unchanged(s)
        PROVE  RunInv'
    BY <1>1 DEF RunInv, Unchanged, Hash
  <1>2. ASSUME UNCHANGED <<manifest, run, activated, work>> PROVE RunInv'
    BY <1>1, <1>2 DEF RunInv
  <1>3. ASSUME NEW coll \in Collections, NEW selection, NEW docs, NEW m \in Manifest,
               NEW gen, NEW fresh, Begin(coll, selection, docs, m, gen, fresh),
               manifest'.coll = coll, manifest'.active = m.active,
               manifest'.sources = m.sources, manifest'.resumeFresh = fresh,
               m.active # NoGen => m.active \in activated
        PROVE  RunInv'
    <2>1. run' = [phase |-> "index", coll |-> coll, build |-> gen, active |-> m.active,
                  sources |-> m.sources, fresh |-> fresh, docs |-> docs]
          /\ activated' = activated /\ manifest'.coll # NoCollection
          /\ \A s \in Sources : work'[s] \in {"none", "todo"}
      BY <1>3 DEF Begin
    <2>2. run'.phase = "index" /\ run'.coll = coll /\ run'.active = m.active
          /\ run'.sources = m.sources /\ run'.fresh = fresh
      BY <2>1
    <2> QED
      BY <1>3, <2>1, <2>2 DEF RunInv
  <1>4. ASSUME NEW coll \in Collections, NEW selection \in Selections, NEW limit \in Limits,
               NEW docs \in Image, NEW fresh \in BOOLEAN,
               ResumeRun(coll, selection, limit, docs, fresh)
        PROVE  RunInv'
    <2>1. Usable(coll).resume # NoGen
      BY <1>4 DEF ResumeRun, Resumable
    <2>2. Usable(coll) = manifest /\ manifest.coll = coll
      BY <2>1 DEF Usable, EmptyManifest, RunInv
    <2>3. /\ Begin(coll, selection, docs, manifest, manifest.resume, manifest.resumeFresh)
          /\ manifest' = manifest
      BY <1>4, <2>2 DEF ResumeRun
    <2>4. /\ manifest'.coll = coll /\ manifest'.active = manifest.active
          /\ manifest'.sources = manifest.sources
          /\ manifest'.resumeFresh = manifest.resumeFresh
          /\ manifest.active # NoGen => manifest.active \in activated
      BY <2>2, <2>3 DEF RunInv
    <2> QED
      BY <1>0, <1>3, <2>3, <2>4
  <1>5. ASSUME NEW coll \in Collections, NEW selection \in Selections, NEW limit \in Limits,
               NEW docs \in Image, NEW fresh \in BOOLEAN,
               StartRun(coll, selection, limit, docs, fresh)
        PROVE  RunInv'
    <2> DEFINE m == Usable(coll)
    <2>1. /\ Begin(coll, selection, docs, m, clock + 1, fresh)
          /\ manifest' = [m EXCEPT !.coll = coll, !.resume = clock + 1,
                                   !.resumeFresh = fresh, !.resumeSelection = selection]
      BY <1>5 DEF StartRun
    <2>2. m \in Manifest
      BY UsableType DEF TInv
    <2>3. m.active # NoGen => m.active \in activated
      BY DEF Usable, EmptyManifest, RunInv
    <2> HIDE DEF m
    <2>4. /\ manifest'.coll = coll /\ manifest'.active = m.active
          /\ manifest'.sources = m.sources /\ manifest'.resumeFresh = fresh
      BY <2>1, <2>2 DEF Manifest
    <2> QED
      BY <1>3, <2>1, <2>2, <2>3, <2>4
  <1>6. ASSUME NEW s \in Sources, Examine(s) PROVE RunInv'
    <2>1. \A u \in Sources : work'[u] \in {"copy", "dropToCopy"} => Unchanged(u)
      BY <1>0, <1>6 DEF Examine, RunInv
    <2> QED
      BY <1>1, <1>6, <2>1 DEF Examine
  <1>7. ASSUME NEW s \in Sources, DropDraft(s) PROVE RunInv'
    <2>1. \A u \in Sources : work'[u] \in {"copy", "dropToCopy"} => Unchanged(u)
      BY <1>0, <1>7 DEF DropDraft, RunInv
    <2> QED
      BY <1>1, <1>7, <2>1 DEF DropDraft
  <1>8. ASSUME NEW s \in Sources, ReadActive(s) \/ Embed(s) \/ Write(s) PROVE RunInv'
    <2>1. /\ \A u \in Sources : work'[u] \in {"copy", "dropToCopy"} => work'[u] = work[u]
          /\ UNCHANGED <<manifest, run, activated>>
      BY <1>0, <1>8 DEF ReadActive, Embed, Write
    <2> QED
      BY <1>1, <2>1 DEF RunInv
  <1>9. ASSUME ListDraft PROVE RunInv'
    <2>1. /\ run.phase = "index" /\ run'.phase = "reconcile" /\ run'.coll = run.coll
          /\ run'.active = run.active /\ run'.sources = run.sources
          /\ run'.fresh = run.fresh /\ run'.docs = run.docs
          /\ UNCHANGED <<manifest, work, activated>>
      BY <1>0, <1>9 DEF ListDraft, RunState
    <2> QED
      BY <2>1 DEF RunInv, Unchanged, Hash
  <1>10. ASSUME EndRun, manifest'.coll # NoCollection \/ manifest' = manifest,
                manifest'.active # NoGen => manifest'.active \in activated'
         PROVE  RunInv'
    BY <1>10 DEF EndRun, Idle, RunInv
  <1>11. ASSUME Activate PROVE RunInv'
    <2>1. run.coll \in Collections
      BY <1>11 DEF Activate, TInv, WorkInv
    <2>2. manifest'.coll = run.coll /\ manifest'.active = run.build
      BY <1>11 DEF Activate, EmptyManifest
    <2> QED
      BY <1>10, <1>11, <2>1, <2>2 DEF Activate
  <1>12. ASSUME Abort PROVE RunInv'
    BY <1>10, <1>12 DEF Abort, RunInv
  <1>13. ASSUME NEW s \in Sources, DropStale(s) PROVE RunInv'
    BY <1>2, <1>13 DEF DropStale
  <1>14. ASSUME NEW s \in Sources, NEW v \in Versions \cup {Absent}, Edit(s, v)
         PROVE  RunInv'
    BY <1>2, <1>14 DEF Edit, runVars
  <1>15. ASSUME NEW op \in late, ApplyLate(op) PROVE RunInv'
    BY <1>2, <1>15 DEF ApplyLate, runVars
  <1>16. ASSUME UNCHANGED vars PROVE RunInv'
    BY <1>2, <1>16 DEF vars
  <1> QED
    BY <1>4, <1>5, <1>6, <1>7, <1>8, <1>9, <1>11, <1>12, <1>13, <1>14, <1>15, <1>16
    DEF Next, Run, Work
-----------------------------------------------------------------------------
(* Fresh drafts                                                            *)

(* A step that announces no generation keeps all honest when the records   *)
(* it writes, prepares or leaves on their way are.                         *)
LEMMA HonestStays ==
  ASSUME FreshInv,
         \A r \in store' : r \in store \/ Honest(r),
         \A s \in Sources : \A r \in pend'[s] : r \in pend[s] \/ Honest(r),
         \A op \in late' : op \in late \/ \A r \in op.recs : Honest(r),
         UNCHANGED clock,
         manifest'.resumeFresh =>
           manifest.resumeFresh /\ manifest'.resume = manifest.resume
  PROVE  FreshInv'
  <1>1. \A r : Honest(r) => Honest(r)'
    BY DEF Honest
  <1> QED
    BY <1>1 DEF FreshInv

(* What was ever written or is on its way is older than a generation that  *)
(* is announced now.                                                       *)
LEMMA FreshStep == FInv /\ RunInv /\ FreshInv /\ [Next]_vars => FreshInv'
  <1> SUFFICES ASSUME FInv, RunInv, FreshInv, [Next]_vars PROVE FreshInv'
    OBVIOUS
  <1> USE IndexBuildAssumption
  <1>0. /\ manifest \in Manifest /\ run \in RunState /\ pend \in [Sources -> SUBSET Record]
        /\ late \subseteq LateRequest /\ clock \in Nat /\ store \subseteq Record
    BY DEF FInv, TInv, TypeOK
  <1>1. ASSUME \A r \in store' : r \in store \/ Honest(r),
               \A s \in Sources : \A r \in pend'[s] : r \in pend[s] \/ Honest(r),
               UNCHANGED <<manifest, clock, late>>
        PROVE  FreshInv'
    BY <1>1, HonestStays
  <1>2. ASSUME \A r \in store' : r \in store, UNCHANGED <<pend, manifest, clock, late>>
        PROVE  FreshInv'
    BY <1>1, <1>2
  <1>3. ASSUME NEW coll \in Collections, NEW selection \in Selections, NEW limit \in Limits,
               NEW docs \in Image, NEW fresh \in BOOLEAN,
               ResumeRun(coll, selection, limit, docs, fresh)
        PROVE  FreshInv'
    BY <1>2, <1>3 DEF ResumeRun, Begin
  <1>4. ASSUME NEW coll \in Collections, NEW selection \in Selections, NEW limit \in Limits,
               NEW docs \in Image, NEW fresh \in BOOLEAN,
               StartRun(coll, selection, limit, docs, fresh)
        PROVE  FreshInv'
    <2> DEFINE m == Usable(coll)
    <2>1. /\ UNCHANGED <<store, pend, late>> /\ clock' = clock + 1
          /\ manifest' = [m EXCEPT !.coll = coll, !.resume = clock + 1,
                                   !.resumeFresh = fresh, !.resumeSelection = selection]
      BY <1>4 DEF StartRun, Begin
    <2>2. m \in Manifest
      BY UsableType DEF FInv, TInv
    <2> HIDE DEF m
    <2>3. manifest'.resume = clock + 1
      BY <2>1, <2>2 DEF Manifest
    <2>4. \A r \in Record : r.gen \in Nat
      BY DEF Record, Gens
    <2>5. ASSUME NEW r \in Record, Honest(r) PROVE Honest(r)'
      BY <1>0, <2>1, <2>3, <2>4, <2>5 DEF Honest
    <2>6. /\ \A s \in Sources : pend[s] \subseteq Record
          /\ \A op \in late : op.recs \subseteq Record
      BY <1>0 DEF LateRequest
    <2> QED
      BY <1>0, <2>1, <2>5, <2>6 DEF FreshInv
  <1>5. ASSUME NEW s \in Sources, ReadActive(s) PROVE FreshInv'
    <2> DEFINE new == {Rec(s, r.idx, r.text, "copy") : r \in RecordsOf(run.coll, run.active, s)}
    <2>1. work[s] = "copy" /\ run.phase # "idle"
      BY <1>5 DEF ReadActive, FInv, TInv, WorkInv
    <2>2. ~manifest.resumeFresh /\ run.build <= clock
      BY <2>1 DEF RunInv, Unchanged, FInv, DraftInv
    <2>3. \A r \in new : Honest(r)
      BY <2>2 DEF Rec, Honest
    <2>4. /\ pend' = [pend EXCEPT ![s] = new]
          /\ UNCHANGED <<store, manifest, clock, late>>
      BY <1>5 DEF ReadActive
    <2> HIDE DEF new
    <2>5. \A u \in Sources : \A r \in pend'[u] : r \in pend[u] \/ r \in new
      BY <1>0, <2>4
    <2> QED
      BY <1>1, <2>3, <2>4, <2>5
  <1>6. ASSUME NEW s \in Sources, Embed(s) PROVE FreshInv'
    <2> DEFINE new == {Rec(s, i, Hash(s), "embed") : i \in 1..NumChunks[Hash(s)]}
    <2>1. run.build <= clock
      BY DEF FInv, DraftInv
    <2>2. \A r \in new : Honest(r)
      BY <2>1 DEF Rec, Honest
    <2>3. /\ pend' = [pend EXCEPT ![s] = new]
          /\ UNCHANGED <<store, manifest, clock, late>>
      BY <1>6 DEF Embed
    <2> HIDE DEF new
    <2>4. \A u \in Sources : \A r \in pend'[u] : r \in pend[u] \/ r \in new
      BY <1>0, <2>3
    <2> QED
      BY <1>1, <2>2, <2>3, <2>4
  <1>7. ASSUME NEW s \in Sources, Write(s) PROVE FreshInv'
    <2>1. PICK r \in pend[s] : store' = Upsert(store, r) /\ pend' = [pend EXCEPT ![s] = @ \ {r}]
      BY <1>7 DEF Write, NextRecs
    <2>2. \A q \in store' : q \in store \/ Honest(q)
      BY <2>1 DEF Upsert, FreshInv
    <2>3. \A u \in Sources : \A q \in pend'[u] : q \in pend[u]
      BY <1>0, <2>1
    <2> QED
      BY <1>1, <1>7, <2>2, <2>3 DEF Write
  <1>8. ASSUME NEW s \in Sources, Examine(s) \/ DropDraft(s) \/ DropStale(s) PROVE FreshInv'
    BY <1>2, <1>8 DEF Examine, DropDraft, DropStale
  <1>9. ASSUME ListDraft \/ UNCHANGED vars PROVE FreshInv'
    BY <1>2, <1>9 DEF ListDraft, vars
  <1>10. ASSUME EndRun, store' = store, clock' = clock,
                \A op \in late' : op \in late \/ \A r \in op.recs : Honest(r),
                manifest'.resumeFresh =>
                  manifest.resumeFresh /\ manifest'.resume = manifest.resume
         PROVE  FreshInv'
    <2>1. \A s \in Sources : pend'[s] = {}
      BY <1>10 DEF EndRun
    <2> QED
      BY <1>10, <2>1, HonestStays
  <1>11. ASSUME Activate PROVE FreshInv'
    <2>1. ~manifest'.resumeFresh
      BY <1>11 DEF Activate, EmptyManifest
    <2> QED
      BY <1>10, <1>11, <2>1 DEF Activate
  <1>12. ASSUME Abort PROVE FreshInv'
    <2>1. ASSUME NEW op \in Outstanding PROVE \A r \in op.recs : Honest(r)
      <3>1. (\E s \in Sources : op = Request("delete", s, {}))
            \/ \E s \in Sources : \E r \in pend[s] : op = Request("upsert", s, {r})
        BY RequestForms DEF FInv
      <3> QED
        BY <3>1 DEF Request, FreshInv
    <2>2. \A op \in late' : op \in late \/ \A r \in op.recs : Honest(r)
      BY <1>12, <2>1 DEF Abort
    <2> QED
      BY <1>10, <1>12, <2>2 DEF Abort
  <1>13. ASSUME NEW op \in late, ApplyLate(op) PROVE FreshInv'
    <2>1. \A r \in store' : r \in store \/ Honest(r)
      BY <1>13 DEF ApplyLate, FreshInv
    <2>2. UNCHANGED <<manifest, clock, pend>> /\ \A o \in late' : o \in late
      BY <1>13 DEF ApplyLate, runVars
    <2> QED
      BY <2>1, <2>2, HonestStays
  <1>14. ASSUME NEW s \in Sources, NEW v \in Versions \cup {Absent}, Edit(s, v)
         PROVE  FreshInv'
    BY <1>2, <1>14 DEF Edit, runVars
  <1> QED
    BY <1>3, <1>4, <1>5, <1>6, <1>7, <1>8, <1>9, <1>11, <1>12, <1>13, <1>14
    DEF Next, Run, Work
-----------------------------------------------------------------------------
(* The contents of the draft and of the active generation                  *)

(* All that the steps of a run may rely on while no request outlives it.   *)
Sound == TInv /\ DraftInv /\ RunInv /\ Content

(* The draft is not the active generation, so a step that changes only     *)
(* records of the draft leaves the active one complete.                    *)
LEMMA ActiveStays ==
  ASSUME Sound, manifest' = manifest,
         \A r \in store' \cup store :
           (r.coll = run.coll /\ r.gen = run.build) \/ (r \in store /\ r \in store')
  PROVE  ActiveIsComplete'
  <1>1. manifest.active # NoGen => manifest.active # run.build
    BY DEF Sound, RunInv, DraftInv
  <1>2. ASSUME manifest.active # NoGen, NEW s \in Sources
        PROVE  RecordsOf(manifest.coll, manifest.active, s)'
                 = RecordsOf(manifest.coll, manifest.active, s)
    BY <1>1, <1>2 DEF RecordsOf
  <1>3. \A s \in Sources :
          manifest.active # NoGen =>
            Holds(manifest.coll, manifest.active, s, manifest.sources[s])'
    BY <1>2 DEF Holds, Sound, Content, ActiveIsComplete
  <1> QED
    BY <1>3 DEF ActiveIsComplete

(* A worker changes what the draft has of its own source.                  *)
LEMMA WorkerContent ==
  ASSUME Sound, NEW s \in Sources, work[s] \notin {"none", "done"}, work'[s] # "none",
         UNCHANGED <<run, manifest, toDrop>>,
         \A r \in store' \cup store :
           \/ r.coll = run.coll /\ r.gen = run.build /\ r.src = s
           \/ r \in store /\ r \in store',
         \A r \in store' : r.text = r.hash,
         \A u \in Sources \ {s} : work'[u] = work[u] /\ pend'[u] = pend[u],
         DraftOf(s)'
  PROVE  Content'
  <1>1. \A u \in Sources \ {s} : Draft(u)' = Draft(u)
    BY DEF Draft, RecordsOf
  <1>2. ASSUME NEW u \in Sources \ {s} PROVE DraftOf(u)'
    <2>1. DraftOf(u)
      BY DEF Sound, Content
    <2> QED
      BY <1>1, <2>1 DEF DraftOf, Hash
  <1>3. run.phase # "reconcile"
    BY DEF Sound, Content, ListInv
  <1>4. ListInv'
    BY <1>3 DEF Sound, Content, ListInv, Hash
  <1>5. ActiveIsComplete'
    BY ActiveStays
  <1> QED
    BY <1>2, <1>4, <1>5 DEF Content

(* A step that changes neither the store nor the file, and leaves nobody   *)
(* at work.                                                                *)
LEMMA QuietContent ==
  ASSUME Sound, UNCHANGED store, ActiveIsComplete',
         \A s \in Sources : work'[s] \in {"none", "todo"} /\ pend'[s] = {},
         toDrop' = {}, run'.phase \in {"idle", "index"},
         run'.phase = "index" =>
           \A s \in Sources : run'.docs[s] # Absent => work'[s] # "none"
  PROVE  Content'
  <1>1. \A s \in Sources : DraftOf(s)'
    BY DEF DraftOf
  <1>2. ListInv'
    BY DEF ListInv, Hash
  <1> QED
    BY <1>1, <1>2 DEF Sound, Content

(* A new run leaves the active generation as it is, or finds none.         *)
LEMMA BeginContent ==
  ASSUME Sound, NEW coll, NEW selection, NEW docs \in Image, NEW m, NEW gen, NEW fresh,
         run = Idle, Begin(coll, selection, docs, m, gen, fresh),
         manifest'.active # NoGen =>
           /\ manifest'.coll = manifest.coll /\ manifest'.active = manifest.active
           /\ manifest'.sources = manifest.sources
  PROVE  Content'
  <1>1. /\ UNCHANGED <<store, pend, toDrop>>
        /\ run'.phase = "index" /\ run'.docs = docs
        /\ work' = [s \in Sources |-> IF docs[s] = Absent THEN "none" ELSE "todo"]
    BY DEF Begin
  <1>2. toDrop = {} /\ \A s \in Sources : pend[s] = {}
    BY DEF Idle, Sound, TInv, WorkInv
  <1>3. ActiveIsComplete'
    BY <1>1 DEF Sound, Content, ActiveIsComplete, Holds, RecordsOf
  <1>4. /\ \A s \in Sources : work'[s] \in {"none", "todo"} /\ pend'[s] = {}
        /\ toDrop' = {} /\ \A s \in Sources : run'.docs[s] # Absent => work'[s] # "none"
    BY <1>1, <1>2
  <1> QED
    BY <1>1, <1>3, <1>4, QuietContent

(* reuseBuildSource: what is complete stays; copyUnchangedSource is        *)
(* entered for unchanged sources only.                                     *)
LEMMA ExamineContent ==
  ASSUME Sound, NEW s \in Sources, Examine(s)
  PROVE  Content'
  <1>1. /\ work[s] = "todo" /\ UNCHANGED <<run, manifest, toDrop, store, pend>>
        /\ \A u \in Sources \ {s} : work'[u] = work[u]
    BY DEF Examine, Sound, TInv, TypeOK
  <1>2. work'[s] = CASE DraftComplete(s) -> "done"
                     [] Unchanged(s) /\ ~DraftComplete(s) ->
                          IF Draft(s) # {} THEN "dropToCopy" ELSE "copy"
                     [] OTHER -> IF Draft(s) # {} THEN "dropToEmbed" ELSE "embed"
    BY DEF Examine, Sound, TInv, TypeOK
  <1>3. /\ work'[s] \in {"done", "dropToCopy", "copy", "dropToEmbed", "embed"}
        /\ work'[s] = "done" => DraftComplete(s)
        /\ work'[s] \in {"copy", "embed"} => Draft(s) = {}
    BY <1>2
  <1>4. DraftComplete(s) => Complete(Draft(s), Hash(s))
    BY DEF DraftComplete, Complete, Draft, RecordsOf, Sound, Content
  <1>5. pend[s] = {} /\ Draft(s)' = Draft(s) /\ Hash(s)' = Hash(s)
    BY <1>1 DEF Sound, TInv, WorkInv, Draft, RecordsOf, Hash
  <1>6. DraftOf(s)'
    BY <1>1, <1>3, <1>4, <1>5 DEF DraftOf, Complete
  <1>7. \A r \in store' : r.text = r.hash
    BY <1>1 DEF Sound, Content
  <1> QED
    BY <1>1, <1>3, <1>6, <1>7, WorkerContent

(* deleteBuildSourceRecords clears the draft of the source.                *)
LEMMA DropDraftContent ==
  ASSUME Sound, NEW s \in Sources, DropDraft(s)
  PROVE  Content'
  <1>1. /\ work[s] \in {"dropToCopy", "dropToEmbed"} /\ work'[s] \in {"copy", "embed"}
        /\ store' = store \ Draft(s) /\ UNCHANGED <<run, manifest, toDrop, pend>>
        /\ \A u \in Sources \ {s} : work'[u] = work[u]
    BY DEF DropDraft, Sound, TInv, TypeOK
  <1>2. Draft(s)' = {} /\ pend[s] = {}
    BY <1>1 DEF Draft, RecordsOf, Sound, TInv, WorkInv
  <1>3. DraftOf(s)'
    BY <1>1, <1>2 DEF DraftOf
  <1>4. \A r \in store' \cup store :
          \/ r.coll = run.coll /\ r.gen = run.build /\ r.src = s
          \/ r \in store /\ r \in store'
    BY <1>1 DEF Draft, RecordsOf
  <1>5. \A r \in store' : r.text = r.hash
    BY <1>1 DEF Sound, Content
  <1> QED
    BY <1>1, <1>3, <1>4, <1>5, WorkerContent

(* What is read from the active generation for an unchanged source is this *)
(* version, whole, as soon as it is anything.                              *)
LEMMA ReadActiveContent ==
  ASSUME Sound, NEW s \in Sources, ReadActive(s)
  PROVE  Content'
  <1> DEFINE old == RecordsOf(run.coll, run.active, s)
             new == {Rec(s, r.idx, r.text, "copy") : r \in old}
  <1>1. /\ work[s] = "copy" /\ UNCHANGED <<run, manifest, toDrop, store>>
        /\ work'[s] = IF old = {} THEN "embed" ELSE "write"
        /\ pend'[s] = new
        /\ \A u \in Sources \ {s} : work'[u] = work[u] /\ pend'[u] = pend[u]
    <2>1. /\ pend' = [pend EXCEPT ![s] = new]
          /\ work' = [work EXCEPT ![s] = IF old = {} THEN "embed" ELSE "write"]
          /\ work[s] = "copy" /\ UNCHANGED <<run, manifest, toDrop, store>>
      BY DEF ReadActive
    <2>2. pend \in [Sources -> SUBSET Record] /\ work \in [Sources -> Stages]
      BY DEF Sound, TInv, TypeOK
    <2> HIDE DEF old, new
    <2> QED
      BY <2>1, <2>2
  <1>2. Draft(s) = {} /\ Draft(s)' = {} /\ Hash(s)' = Hash(s)
    <2>1. Draft(s) = {}
      BY <1>1 DEF Sound, Content, DraftOf
    <2>2. Draft(s)' = Draft(s) /\ Hash(s)' = Hash(s)
      BY <1>1 DEF Draft, RecordsOf, Hash
    <2> QED
      BY <2>1, <2>2
  <1>3. /\ run.phase # "idle" /\ run.active # NoGen /\ run.sources[s] = Hash(s)
        /\ Hash(s) \in Versions
    BY <1>1 DEF Sound, RunInv, Unchanged, TInv, WorkInv, Hash
  <1>4. Holds(run.coll, run.active, s, Hash(s))
    BY <1>3 DEF Sound, RunInv, Content, ActiveIsComplete
  <1>5. /\ {r.idx : r \in old} = 1..NumChunks[Hash(s)] /\ \A r \in old : r.text = Hash(s)
    BY <1>3, <1>4, IndexBuildAssumption DEF Holds
  <1>6. Complete(new, Hash(s))
    <2>1. {r.idx : r \in new} = {r.idx : r \in old}
      <3>1. \A r : Rec(s, r.idx, r.text, "copy").idx = r.idx
        BY DEF Rec
      <3>2. \A q \in new : \E r \in old : q.idx = r.idx
        BY <3>1
      <3>3. \A r \in old : \E q \in new : q.idx = r.idx
        BY <3>1
      <3> HIDE DEF old, new
      <3> QED
        BY <3>2, <3>3
    <2>2. \A r \in new : r.text = Hash(s) /\ r.hash = Hash(s)
      BY <1>5 DEF Rec
    <2> HIDE DEF old, new
    <2> QED
      BY <1>5, <2>1, <2>2 DEF Complete
  <1>7. \A r \in new : r.coll = run.coll /\ r.src = s
    BY DEF Rec
  <1>8. new = {} <=> old = {}
    OBVIOUS
  <1> HIDE DEF old, new
  <1>9. Complete(Draft(s) \cup pend[s], Hash(s))' \/ work'[s] # "write"
    BY <1>1, <1>2, <1>6 DEF Complete
  <1>10. DraftOf(s)'
    BY <1>1, <1>2, <1>7, <1>8, <1>9 DEF DraftOf
  <1>11. \A r \in store' : r.text = r.hash
    BY <1>1 DEF Sound, Content
  <1> QED
    BY <1>1, <1>10, <1>11, WorkerContent

(* indexChangedSource makes every chunk from the text that was loaded.     *)
LEMMA EmbedContent ==
  ASSUME Sound, NEW s \in Sources, Embed(s)
  PROVE  Content'
  <1> DEFINE new == {Rec(s, i, Hash(s), "embed") : i \in 1..NumChunks[Hash(s)]}
  <1>1. /\ work[s] = "embed" /\ UNCHANGED <<run, manifest, toDrop, store>>
        /\ work'[s] = "write" /\ pend'[s] = new
        /\ \A u \in Sources \ {s} : work'[u] = work[u] /\ pend'[u] = pend[u]
    <2>1. /\ pend' = [pend EXCEPT ![s] = new] /\ work' = [work EXCEPT ![s] = "write"]
          /\ work[s] = "embed" /\ UNCHANGED <<run, manifest, toDrop, store>>
      BY DEF Embed
    <2>2. pend \in [Sources -> SUBSET Record] /\ work \in [Sources -> Stages]
      BY DEF Sound, TInv, TypeOK
    <2> HIDE DEF new
    <2> QED
      BY <2>1, <2>2
  <1>2. Draft(s) = {} /\ Draft(s)' = {} /\ Hash(s)' = Hash(s)
    <2>1. Draft(s) = {}
      BY <1>1 DEF Sound, Content, DraftOf
    <2>2. Draft(s)' = Draft(s) /\ Hash(s)' = Hash(s)
      BY <1>1 DEF Draft, RecordsOf, Hash
    <2> QED
      BY <2>1, <2>2
  <1>3. Hash(s) \in Versions /\ NumChunks[Hash(s)] \in Nat \ {0}
    BY <1>1, IndexBuildAssumption DEF Sound, TInv, WorkInv, Hash
  <1>4. Complete(new, Hash(s))
    <2>1. \A i : Rec(s, i, Hash(s), "embed").idx = i
      BY DEF Rec
    <2>2. {r.idx : r \in new} = 1..NumChunks[Hash(s)]
      BY <2>1
    <2>3. \A r \in new : r.text = Hash(s) /\ r.hash = Hash(s)
      BY DEF Rec
    <2> QED
      BY <2>2, <2>3 DEF Complete
  <1>5. \A r \in new : r.coll = run.coll /\ r.src = s
    BY DEF Rec
  <1>6. new # {}
    <2>1. 1 \in 1..NumChunks[Hash(s)]
      BY <1>3
    <2> QED
      BY <2>1
  <1> HIDE DEF new
  <1>7. DraftOf(s)'
    BY <1>1, <1>2, <1>4, <1>5, <1>6 DEF DraftOf, Complete
  <1>8. \A r \in store' : r.text = r.hash
    BY <1>1 DEF Sound, Content
  <1> QED
    BY <1>1, <1>7, <1>8, WorkerContent

(* A write moves a record from what is pending to the draft, over the one  *)
(* with the same id if there is one.                                       *)
LEMMA WriteContent ==
  ASSUME Sound, NEW s \in Sources, Write(s)
  PROVE  Content'
  <1>1. PICK r \in pend[s] :
          /\ store' = Upsert(store, r)
          /\ pend' = [pend EXCEPT ![s] = @ \ {r}]
          /\ work' = [work EXCEPT ![s] = IF pend[s] = {r} THEN "done" ELSE "write"]
    BY DEF Write, NextRecs
  <1>2. /\ work[s] = "write" /\ UNCHANGED <<run, manifest, toDrop>>
        /\ work'[s] = (IF pend[s] = {r} THEN "done" ELSE "write") /\ pend'[s] = pend[s] \ {r}
        /\ \A u \in Sources \ {s} : work'[u] = work[u] /\ pend'[u] = pend[u]
    BY <1>1 DEF Write, Sound, TInv, TypeOK
  <1>3. /\ r.coll = run.coll /\ r.gen = run.build /\ r.src = s
        /\ \A q \in pend[s] : q.coll = run.coll /\ q.src = s
    BY DEF Sound, DraftInv, Content, DraftOf
  <1>4. Complete(Draft(s) \cup pend[s], Hash(s)) /\ Hash(s)' = Hash(s)
    BY <1>2 DEF Sound, Content, DraftOf, Hash
  <1>5. Draft(s)' = {q \in Draft(s) : q.idx # r.idx} \cup {r}
    BY <1>1, <1>2, <1>3 DEF Draft, RecordsOf, Upsert, SameId
  <1>6. Complete(Draft(s)' \cup pend'[s], Hash(s))
    <2>1. {q.idx : q \in Draft(s)' \cup pend'[s]} = {q.idx : q \in Draft(s) \cup pend[s]}
      BY <1>2, <1>5
    <2>2. Draft(s)' \cup pend'[s] \subseteq Draft(s) \cup pend[s]
      BY <1>2, <1>5
    <2> QED
      BY <1>4, <2>1, <2>2 DEF Complete
  <1>7. DraftOf(s)'
    <2>1. CASE pend[s] = {r}
      <3>1. pend'[s] = {} /\ work'[s] = "done"
        BY <1>2, <2>1
      <3>2. Draft(s)' \cup pend'[s] = Draft(s)'
        BY <3>1
      <3> QED
        BY <1>4, <1>6, <3>1, <3>2 DEF DraftOf, Complete
    <2>2. CASE pend[s] # {r}
      <3>1. pend'[s] # {} /\ work'[s] = "write"
        BY <1>2, <2>2
      <3> QED
        BY <1>2, <1>3, <1>4, <1>6, <3>1 DEF DraftOf, Complete
    <2> QED
      BY <2>1, <2>2
  <1>8. \A q \in store' \cup store :
          \/ q.coll = run.coll /\ q.gen = run.build /\ q.src = s
          \/ q \in store /\ q \in store'
    BY <1>1, <1>3 DEF Upsert, SameId
  <1>9. r.text = r.hash /\ \A q \in store : q.text = q.hash
    BY <1>4 DEF Complete, Sound, Content
  <1>10. \A q \in store' : q.text = q.hash
    BY <1>1, <1>9 DEF Upsert
  <1> QED
    BY <1>2, <1>7, <1>8, <1>10, WorkerContent

(* deleteStaleBuildSources: listing, then deleting source by source.       *)
LEMMA ListDraftContent ==
  ASSUME Sound, ListDraft
  PROVE  Content'
  <1>1. /\ run.phase = "index" /\ run'.phase = "reconcile" /\ run'.coll = run.coll
        /\ run'.build = run.build /\ run'.docs = run.docs
        /\ UNCHANGED <<manifest, store, work, pend>>
        /\ \A s \in Sources : work[s] \in {"none", "done"}
        /\ toDrop' = {s \in Sources : Draft(s) # {} /\ run.docs[s] = Absent}
    BY DEF ListDraft, Sound, TInv, TypeOK, RunState
  <1>2. \A s \in Sources : Draft(s)' = Draft(s) /\ Hash(s)' = Hash(s)
    BY <1>1 DEF Draft, RecordsOf, Hash
  <1>3. \A s \in Sources : DraftOf(s)'
    BY <1>1, <1>2 DEF DraftOf, Sound, Content
  <1>4. ListInv'
    BY <1>1, <1>2 DEF ListInv, Sound, Content, Hash
  <1>5. ActiveIsComplete'
    BY <1>1 DEF Sound, Content, ActiveIsComplete, Holds, RecordsOf
  <1> QED
    BY <1>1, <1>3, <1>4, <1>5 DEF Sound, Content

LEMMA DropStaleContent ==
  ASSUME Sound, NEW s \in Sources, DropStale(s)
  PROVE  Content'
  <1>1. /\ s \in toDrop /\ run.phase = "reconcile" /\ toDrop' = toDrop \ {s}
        /\ store' = store \ Draft(s) /\ UNCHANGED <<run, manifest, work, pend>>
    BY DEF DropStale
  <1>2. /\ \A u \in Sources \ {s} : Draft(u)' = Draft(u)
        /\ Draft(s)' = {} /\ Hash(s) = Absent /\ \A u \in Sources : Hash(u)' = Hash(u)
    BY <1>1 DEF Draft, RecordsOf, Hash, Sound, Content, ListInv
  <1>3. work[s] = "none"
    BY <1>1, <1>2, IndexBuildAssumption DEF Sound, TInv, WorkInv, Hash
  <1>4. \A u \in Sources : DraftOf(u)'
    <2>1. ASSUME NEW u \in Sources \ {s} PROVE DraftOf(u)'
      <3>1. DraftOf(u) /\ Draft(u)' = Draft(u) /\ Hash(u)' = Hash(u)
        BY <1>2 DEF Sound, Content
      <3> QED
        BY <1>1, <3>1 DEF DraftOf
    <2>2. work'[s] = "none" /\ pend'[s] = {}
      BY <1>1, <1>3 DEF Sound, TInv, WorkInv
    <2>3. DraftOf(s)'
      BY <2>2 DEF DraftOf
    <2> QED
      BY <2>1, <2>3
  <1>5. ListInv'
    <2>1. ListInv /\ toDrop \subseteq Sources
      BY DEF Sound, Content, TInv, TypeOK
    <2>2. \A u \in Sources \ toDrop' : Hash(u)' = Absent => Draft(u)' = {}
      BY <1>1, <1>2, <2>1 DEF ListInv
    <2> QED
      BY <1>1, <1>2, <2>1, <2>2 DEF ListInv
  <1>6. ActiveIsComplete'
    BY <1>1, ActiveStays DEF Draft, RecordsOf
  <1> QED
    BY <1>1, <1>4, <1>5, <1>6 DEF Sound, Content

(* A draft that is activated holds the snapshot of its run: each document  *)
(* was brought in order by its worker, and the rest was deleted.           *)
LEMMA DraftHoldsDocs ==
  ASSUME Sound, run.phase = "reconcile", toDrop = {}, NEW s \in Sources
  PROVE  Holds(run.coll, run.build, s, run.docs[s])
  <1>1. CASE run.docs[s] = Absent
    BY <1>1 DEF Sound, Content, ListInv, Holds, Draft, Hash
  <1>2. CASE run.docs[s] # Absent
    <2>1. work[s] = "done"
      BY <1>2 DEF Sound, Content, ListInv, Hash
    <2> QED
      BY <1>2, <2>1 DEF Sound, Content, DraftOf, Complete, Holds, Draft, Hash
  <1> QED
    BY <1>1, <1>2

LEMMA EndRunContent ==
  ASSUME Sound, EndRun, UNCHANGED store, ActiveIsComplete'
  PROVE  Content'
  <1>1. /\ \A s \in Sources : work'[s] \in {"none", "todo"} /\ pend'[s] = {}
        /\ toDrop' = {} /\ run'.phase = "idle"
    BY DEF EndRun, Idle
  <1> QED
    BY <1>1, QuietContent

LEMMA ActivateContent ==
  ASSUME Sound, Activate
  PROVE  Content'
  <1>1. /\ run.phase = "reconcile" /\ toDrop = {} /\ EndRun /\ store' = store
        /\ manifest'.coll = run.coll /\ manifest'.active = run.build
        /\ manifest'.sources = run.docs
    BY DEF Activate, EmptyManifest
  <1>2. \A s \in Sources : Holds(run.coll, run.build, s, run.docs[s])
    BY <1>1, DraftHoldsDocs
  <1>3. ActiveIsComplete'
    BY <1>1, <1>2 DEF ActiveIsComplete, Holds, RecordsOf
  <1> QED
    BY <1>1, <1>3, EndRunContent

LEMMA ContentStep == Sound /\ late = {} /\ [Next]_vars => Content'
  <1> SUFFICES ASSUME Sound, late = {}, [Next]_vars PROVE Content'
    OBVIOUS
  <1>1. ASSUME UNCHANGED <<manifest, store, run, work, pend, toDrop>> PROVE Content'
    BY <1>1 DEF Sound, Content, DraftOf, Complete, Draft, Hash, RecordsOf, ListInv,
                ActiveIsComplete, Holds
  <1>2. ASSUME NEW coll \in Collections, NEW selection \in Selections, NEW limit \in Limits,
               NEW docs \in Image, NEW fresh \in BOOLEAN,
               ResumeRun(coll, selection, limit, docs, fresh)
        PROVE  Content'
    BY <1>2, BeginContent DEF ResumeRun
  <1>3. ASSUME NEW coll \in Collections, NEW selection \in Selections, NEW limit \in Limits,
               NEW docs \in Image, NEW fresh \in BOOLEAN,
               StartRun(coll, selection, limit, docs, fresh)
        PROVE  Content'
    <2> DEFINE m == Usable(coll)
    <2>1. /\ run = Idle /\ Begin(coll, selection, docs, m, clock + 1, fresh)
          /\ manifest' = [m EXCEPT !.coll = coll, !.resume = clock + 1,
                                   !.resumeFresh = fresh, !.resumeSelection = selection]
      BY <1>3 DEF StartRun
    <2>2. m \in Manifest
      BY UsableType DEF Sound, TInv
    <2>3. m.active # NoGen =>
            /\ coll = manifest.coll /\ m.active = manifest.active
            /\ m.sources = manifest.sources
      BY DEF Usable, EmptyManifest, Sound, RunInv
    <2> HIDE DEF m
    <2>4. /\ manifest'.coll = coll /\ manifest'.active = m.active
          /\ manifest'.sources = m.sources
      BY <2>1, <2>2 DEF Manifest
    <2> QED
      BY <2>1, <2>3, <2>4, BeginContent
  <1>4. ASSUME Abort PROVE Content'
    <2>1. EndRun /\ UNCHANGED <<store, manifest>>
      BY <1>4 DEF Abort
    <2>2. ActiveIsComplete'
      BY <2>1 DEF Sound, Content, ActiveIsComplete, Holds, RecordsOf
    <2> QED
      BY <2>1, <2>2, EndRunContent
  <1>5. ASSUME NEW s \in Sources, NEW v \in Versions \cup {Absent}, Edit(s, v)
        PROVE  Content'
    BY <1>1, <1>5 DEF Edit, runVars
  <1>6. ASSUME UNCHANGED vars PROVE Content'
    BY <1>1, <1>6 DEF vars
  <1> QED
    BY <1>2, <1>3, <1>4, <1>5, <1>6, ExamineContent, DropDraftContent, ReadActiveContent,
       EmbedContent, WriteContent, ListDraftContent, DropStaleContent, ActivateContent
    DEF Next, Run, Work

LEMMA CInvHolds == Spec => []CInv
  <1>1. Init => CInv
    <2>1. Init => TInv /\ DraftInv
      BY TInvInit, DraftInit
    <2>2. Init => LateInv /\ RunInv /\ FreshInv /\ Content
      BY DEF Init, LateInv, RunInv, FreshInv, Content, DraftOf, ListInv, ActiveIsComplete,
             Idle, EmptyManifest, Empty, Hash
    <2> QED
      BY <2>1, <2>2 DEF CInv, FInv
  <1>2. CInv /\ [Next]_vars => CInv'
    <2> SUFFICES ASSUME CInv, [Next]_vars PROVE CInv'
      OBVIOUS
    <2>1. FInv' /\ RunInv' /\ FreshInv'
      BY TInvStep, DraftStep, LateStep, RunInvStep, FreshStep DEF CInv, FInv
    <2>2. MaxLate = 0 => Content'
      BY ContentStep DEF CInv, FInv, LateInv, Sound
    <2> QED
      BY <2>1, <2>2 DEF CInv
  <1> QED
    BY <1>1, <1>2, PTL DEF Spec
-----------------------------------------------------------------------------
(* A draft begun as a fresh index has no record copied from an older       *)
(* generation, whatever the runs that resume it ask for: also when Chroma  *)
(* carries out requests of runs that are over.                             *)
THEOREM FreshHasNoCopies == Spec => []FreshDraftHasNoCopies
  <1>1. CInv => FreshDraftHasNoCopies
    <2> SUFFICES ASSUME CInv, NEW r \in store
                 PROVE  /\ run.fresh /\ r.gen = run.build => r.via = "embed"
                        /\ manifest.resumeFresh /\ r.gen = manifest.resume => r.via = "embed"
      BY DEF FreshDraftHasNoCopies
    <2>1. Honest(r)
      BY DEF CInv, FreshInv
    <2>2. run.fresh => run.build = manifest.resume /\ manifest.resumeFresh
      BY DEF CInv, RunInv, FInv, DraftInv
    <2> QED
      BY <2>1, <2>2 DEF Honest
  <1> QED
    BY <1>1, CInvHolds, PTL

(* As long as Chroma carries out no request after the run that sent it is  *)
(* over, the generation queries filter by has every chunk of every listed  *)
(* source in the listed version and nothing else, however often its build  *)
(* was cut off and resumed while sources were edited.                      *)
THEOREM ActiveComplete ==
  ASSUME MaxLate = 0
  PROVE  Spec => []ActiveIsComplete
  <1>1. CInv => ActiveIsComplete
    BY DEF CInv, Content
  <1> QED
    BY <1>1, CInvHolds, PTL
-----------------------------------------------------------------------------
(* The atomic index                                                        *)

Visible == [s \in Sources |-> VisibleVersion(s)]

(* What queries see is what the file lists.                                *)
LEMMA VisibleIsListed == TInv /\ Content => Visible = Listed
  <1> SUFFICES ASSUME TInv, Content PROVE Visible = Listed
    OBVIOUS
  <1>1. Listed \in [Sources -> Versions \cup {Absent}]
    BY DEF Listed, Empty, TInv, TypeOK, Manifest, Image
  <1>2. ASSUME NEW s \in Sources PROVE VisibleVersion(s) = Listed[s]
    <2>1. Holds(manifest.coll, manifest.active, s, Listed[s])
      <3>1. CASE manifest.active = NoGen
        <4>1. RecordsOf(manifest.coll, NoGen, s) = {}
          BY DEF RecordsOf, TInv, TypeOK, Record, Gens, NoGen
        <4>2. Listed[s] = Absent
          BY <3>1 DEF Listed, Empty
        <4> QED
          BY <3>1, <4>1, <4>2 DEF Holds
      <3>2. CASE manifest.active # NoGen
        BY <3>2 DEF Listed, Content, ActiveIsComplete
      <3> QED
        BY <3>1, <3>2
    <2> QED
      BY <2>1 DEF VisibleVersion
  <1> QED
    BY <1>1, <1>2 DEF Visible

(* Every step of the build is a step of the atomic index or none of its    *)
(* business: starting takes the snapshot, activating publishes it, failing *)
(* gives it up, and nothing else shows.                                    *)
LEMMA AtomicStep ==
  ASSUME NEW c, Collections = {c}, Sound, late = {}, Visible = Listed, Visible' = Listed',
         [Next]_vars
  PROVE  Atomic!Next \/ UNCHANGED <<files, run # Idle, run.docs, Visible>>
  <1>0. /\ manifest \in Manifest /\ files \in Image /\ run \in RunState
        /\ run.phase # "idle" => run # Idle
    BY DEF Sound, TInv, TypeOK, Idle
  <1>1. ASSUME UNCHANGED manifest PROVE Visible' = Visible
    BY <1>1 DEF Listed
  <1>2. ASSUME UNCHANGED <<files, run, manifest>>
        PROVE  UNCHANGED <<files, run # Idle, run.docs, Visible>>
    BY <1>1, <1>2
  <1>3. ASSUME NEW s \in Sources, NEW v \in Versions \cup {Absent}, Edit(s, v)
        PROVE  Atomic!Next
    <2>1. files' \in Image
      BY <1>0, <1>3 DEF Edit, Image
    <2>2. UNCHANGED <<run, manifest>>
      BY <1>3 DEF Edit, runVars
    <2> QED
      BY <1>1, <2>1, <2>2 DEF Atomic!Next, Atomic!Edit, Atomic!Image, Image, Visible
  <1>4. ASSUME NEW coll \in Collections, NEW selection \in Selections, NEW limit \in Limits,
               NEW docs \in Image, NEW m, NEW gen, NEW fresh, run = Idle,
               Loaded(selection, limit, docs), Begin(coll, selection, docs, m, gen, fresh),
               Visible' = Visible
        PROVE  Atomic!Next
    <2>1. run'.phase = "index" /\ run'.docs = docs /\ files' = files
      BY <1>4 DEF Begin
    <2>2. run' # Idle
      BY <2>1 DEF Idle
    <2>3. \A s \in Sources : docs[s] \in {files[s], Absent}
      BY <1>4 DEF Loaded, Present
    <2> QED
      BY <1>4, <2>1, <2>2, <2>3
      DEF Atomic!Next, Atomic!Snapshot, Atomic!Image, Image, Visible
  <1>5. ASSUME NEW coll \in Collections, NEW selection \in Selections, NEW limit \in Limits,
               NEW docs \in Image, NEW fresh \in BOOLEAN,
               ResumeRun(coll, selection, limit, docs, fresh)
        PROVE  Atomic!Next
    BY <1>1, <1>4, <1>5 DEF ResumeRun
  <1>6. ASSUME NEW coll \in Collections, NEW selection \in Selections, NEW limit \in Limits,
               NEW docs \in Image, NEW fresh \in BOOLEAN,
               StartRun(coll, selection, limit, docs, fresh)
        PROVE  Atomic!Next
    <2>1. Usable(coll) = manifest
      BY <1>0 DEF Usable, Manifest
    <2>2. /\ run = Idle /\ Loaded(selection, limit, docs)
          /\ Begin(coll, selection, docs, manifest, clock + 1, fresh)
          /\ manifest' = [manifest EXCEPT !.coll = coll, !.resume = clock + 1,
                            !.resumeFresh = fresh, !.resumeSelection = selection]
      BY <1>6, <2>1 DEF StartRun
    <2>3. manifest'.active = manifest.active /\ manifest'.sources = manifest.sources
      BY <1>0, <2>2 DEF Manifest
    <2>4. Visible' = Visible
      BY <2>3 DEF Listed
    <2> QED
      BY <1>4, <2>2, <2>4
  <1>7. ASSUME NEW s \in Sources,
               Examine(s) \/ DropDraft(s) \/ ReadActive(s) \/ Embed(s) \/ Write(s)
               \/ DropStale(s)
        PROVE  UNCHANGED <<files, run # Idle, run.docs, Visible>>
    <2>1. UNCHANGED <<files, run, manifest>>
      BY <1>7 DEF Examine, DropDraft, ReadActive, Embed, Write, DropStale
    <2> QED
      BY <1>2, <2>1
  <1>8. ASSUME ListDraft
        PROVE  UNCHANGED <<files, run # Idle, run.docs, Visible>>
    <2>1. /\ run.phase = "index" /\ run'.phase = "reconcile" /\ run'.docs = run.docs
          /\ UNCHANGED <<files, manifest>>
      BY <1>0, <1>8 DEF ListDraft, RunState
    <2>2. run # Idle /\ run' # Idle
      BY <2>1 DEF Idle
    <2> QED
      BY <1>1, <2>1, <2>2
  <1>9. ASSUME Activate PROVE Atomic!Next
    <2>1. /\ run.phase = "reconcile" /\ run' = Idle /\ files' = files
          /\ manifest'.active = run.build /\ manifest'.sources = run.docs
      BY <1>9 DEF Activate, EndRun, EmptyManifest
    <2>2. run # Idle /\ run.build # NoGen
      BY <2>1 DEF Idle, Sound, TInv, WorkInv, Gens, NoGen
    <2>3. Visible' = run.docs /\ run'.docs = Empty
      BY <2>1, <2>2 DEF Listed, Idle
    <2> QED
      BY <2>1, <2>2, <2>3
      DEF Atomic!Next, Atomic!Publish, Atomic!End, Atomic!Empty, Empty, Visible
  <1>10. ASSUME Abort PROVE Atomic!Next
    <2>1. run # Idle /\ run' = Idle /\ UNCHANGED <<files, manifest>>
      BY <1>10 DEF Abort, EndRun
    <2>2. Visible' = Visible /\ run'.docs = Empty
      BY <1>1, <2>1 DEF Idle
    <2> QED
      BY <2>1, <2>2
      DEF Atomic!Next, Atomic!GiveUp, Atomic!End, Atomic!Empty, Empty, Visible
  <1>11. ASSUME UNCHANGED vars PROVE UNCHANGED <<files, run # Idle, run.docs, Visible>>
    BY <1>2, <1>11 DEF vars
  <1> QED
    BY <1>3, <1>5, <1>6, <1>7, <1>8, <1>9, <1>10, <1>11 DEF Next, Run, Work

(* With one collection name, and as long as Chroma carries out no request  *)
(* after the run that sent it is over, the build implements the atomic     *)
(* index: queries see the snapshot of one run, whole, and it changes only  *)
(* by the end of another.                                                  *)
THEOREM ImplementsAtomicIndex ==
  ASSUME NEW c, Collections = {c}, MaxLate = 0
  PROVE  Spec => AtomicImage
  <1>1. Init => Atomic!Init
    <2> SUFFICES ASSUME Init PROVE Atomic!Init
      OBVIOUS
    <2>1. TInv /\ Content
      BY TInvInit
      DEF Init, Content, DraftOf, ListInv, ActiveIsComplete, Idle, EmptyManifest, Empty, Hash
    <2>2. Visible = Empty
      BY <2>1, VisibleIsListed DEF Init, Listed, EmptyManifest
    <2> QED
      BY <2>2 DEF Init, Atomic!Init, Atomic!Empty, Atomic!Image, Empty, Image, Idle, Visible
  <1>2. CInv => Sound /\ late = {} /\ Visible = Listed
    BY VisibleIsListed DEF CInv, FInv, LateInv, Sound
  <1>3. CInv' => (Visible = Listed)'
    BY <1>2, PTL
  <1>4. CInv /\ CInv' /\ [Next]_vars => [Atomic!Next]_(Atomic!vars)
    BY <1>2, <1>3, AtomicStep DEF Atomic!vars, Visible
  <1> QED
    BY <1>1, <1>4, CInvHolds, PTL DEF AtomicImage, Atomic!Spec, Spec
=============================================================================
