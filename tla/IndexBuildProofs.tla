-------------------------- MODULE IndexBuildProofs --------------------------
(***************************************************************************)
(* Proofs about IndexBuild, for any sources, versions, collections,        *)
(* selections, limits, workers and bounds.                                 *)
(*                                                                         *)
(* What keeps an activated generation as it is: the file never offers it   *)
(* for resumption, so no run builds it, and everything a run writes or     *)
(* deletes carries the generation the run builds.  This needs Chroma to    *)
(* carry out no request after the run that sent it is over (MaxLate = 0);  *)
(* without that the run MCIndexBuild_late shows a counterexample.          *)
(***************************************************************************)
EXTENDS IndexBuild, TLAPS

(* A run that is on has a collection, a draft and documents to work on.    *)
WorkInv ==
  /\ run.phase # "idle" => run.coll \in Collections /\ run.build \in Gens
  /\ run.phase = "idle" => toDrop = {} /\ \A s \in Sources : work[s] = "none"
  /\ \A s \in Sources : work[s] # "none" => run.docs[s] \in Versions
  /\ \A s \in Sources : pend[s] # {} => work[s] = "write"

TInv == TypeOK /\ WorkInv

(* No generation that was ever active is offered or built again, and what  *)
(* the workers are about to write belongs to the draft.                    *)
DraftInv ==
  /\ manifest.resume <= clock /\ run.build <= clock
  /\ \A g \in activated : g <= clock
  /\ manifest.resume \notin activated
  /\ run.build \notin activated
  /\ run.phase # "idle" => manifest.resume = run.build
  /\ \A s \in Sources : \A r \in pend[s] : r.gen = run.build
-----------------------------------------------------------------------------
LEMMA TInvInit == Init => TInv
  BY IndexBuildAssumption
  DEF Init, TInv, TypeOK, WorkInv, Idle, EmptyManifest, Manifest, RunState, Image, Empty,
      Stages, NoGen, Gens

LEMMA UsableType ==
  ASSUME TypeOK, NEW coll \in Collections
  PROVE  Usable(coll) \in Manifest
  BY IndexBuildAssumption
  DEF TypeOK, Usable, EmptyManifest, Manifest, Image, Empty, NoGen

LEMMA RecType ==
  ASSUME TInv, NEW s \in Sources, work[s] # "none", NEW i \in Nat, NEW v \in Versions,
         NEW via \in {"embed", "copy"}
  PROVE  Rec(s, i, v, via) \in Record
  BY DEF TInv, TypeOK, WorkInv, Rec, Hash, Record

LEMMA IdleType == Idle \in RunState
  BY IndexBuildAssumption DEF Idle, RunState, Image, Empty, NoGen

(* A run that begins with a manifest m takes its fields from it.           *)
LEMMA BeginType ==
  ASSUME TInv, NEW coll \in Collections, NEW selection, NEW docs \in Image,
         NEW m \in Manifest, NEW gen \in Gens, NEW fresh \in BOOLEAN,
         run = Idle, Begin(coll, selection, docs, m, gen, fresh)
  PROVE  /\ run' \in RunState /\ work' \in [Sources -> Stages] /\ WorkInv'
         /\ pend' \in [Sources -> SUBSET Record] /\ toDrop' \subseteq Sources
         /\ files' \in Image /\ store' \subseteq Record /\ late' \subseteq LateRequest
         /\ activated' \subseteq Gens
         /\ edits' \in 0..MaxEdits /\ aborts' \in 0..MaxAborts
  <1>1. /\ run' = [phase |-> "index", coll |-> coll, build |-> gen, active |-> m.active,
                   sources |-> m.sources, fresh |-> fresh, docs |-> docs]
        /\ work' = [s \in Sources |-> IF docs[s] = Absent THEN "none" ELSE "todo"]
        /\ UNCHANGED <<files, store, pend, toDrop, late, activated, edits, aborts>>
    BY DEF Begin, bounds
  <1>2. run' \in RunState
    BY <1>1 DEF RunState, Manifest, Gens
  <1>3. work' \in [Sources -> Stages]
    BY <1>1 DEF Stages
  <1>4. \A s \in Sources : pend[s] = {}
    BY DEF TInv, WorkInv, Idle
  <1>5. \A s \in Sources : work'[s] # "none" => docs[s] \in Versions
    BY <1>1 DEF Image
  <1>6. WorkInv'
    BY <1>1, <1>4, <1>5 DEF WorkInv
  <1> QED
    BY <1>1, <1>2, <1>3, <1>6 DEF TInv, TypeOK

LEMMA EndRunType ==
  ASSUME EndRun
  PROVE  /\ run' \in RunState /\ work' \in [Sources -> Stages] /\ WorkInv'
         /\ pend' \in [Sources -> SUBSET Record] /\ toDrop' \subseteq Sources
  <1>1. run' = Idle /\ run'.phase = "idle"
    BY DEF EndRun, Idle
  <1>2. WorkInv'
    BY <1>1 DEF EndRun, WorkInv
  <1> QED
    BY <1>1, <1>2, IdleType DEF EndRun, Stages

(* A worker's step changes its own stage and pending records only.         *)
LEMMA WorkerType ==
  ASSUME TInv, NEW s \in Sources, work[s] # "none", NEW stage \in Stages \ {"none"},
         NEW recs \in SUBSET Record, recs # {} => stage = "write",
         run' = run, toDrop' = toDrop,
         work' = [work EXCEPT ![s] = stage], pend' = [pend EXCEPT ![s] = recs]
  PROVE  /\ work' \in [Sources -> Stages] /\ WorkInv'
         /\ pend' \in [Sources -> SUBSET Record]
  <1>1. work' \in [Sources -> Stages] /\ pend' \in [Sources -> SUBSET Record]
    BY DEF TInv, TypeOK
  <1>2. /\ \A u \in Sources : work'[u] # "none" => work[u] # "none"
        /\ \A u \in Sources : work'[u] = "none" <=> work[u] = "none"
        /\ \A u \in Sources : pend'[u] # {} => work'[u] = "write"
    BY DEF TInv, TypeOK, WorkInv
  <1> QED
    BY <1>1, <1>2 DEF TInv, TypeOK, WorkInv

(* A request in flight deletes a source from the draft or writes a record  *)
(* that is pending.                                                        *)
LEMMA RequestForms ==
  ASSUME TInv, NEW op \in Outstanding
  PROVE  (\E s \in Sources : op = Request("delete", s, {}))
         \/ \E s \in Sources : \E r \in pend[s] : op = Request("upsert", s, {r})
  BY DEF Outstanding, TInv, TypeOK

LEMMA RequestType ==
  ASSUME TInv, run # Idle, run.phase # "idle", NEW op \in Outstanding
  PROVE  op \in LateRequest
  <1>1. CASE \E s \in Sources : op = Request("delete", s, {})
    BY <1>1 DEF TInv, WorkInv, Request, LateRequest
  <1>2. CASE \E s \in Sources : \E r \in pend[s] : op = Request("upsert", s, {r})
    BY <1>2 DEF TInv, TypeOK, WorkInv, Request, LateRequest
  <1>3. (\E s \in Sources : op = Request("delete", s, {}))
        \/ \E s \in Sources : \E r \in pend[s] : op = Request("upsert", s, {r})
    BY RequestForms
  <1> QED
    BY <1>1, <1>2, <1>3

(* Well-formedness, and that only documents of the run are worked on, are  *)
(* kept by every step.                                                     *)
LEMMA TInvStep == TInv /\ [Next]_vars => TInv'
  <1> SUFFICES ASSUME TInv, [Next]_vars PROVE TInv'
    OBVIOUS
  <1> USE IndexBuildAssumption
  <1>1. ASSUME NEW s \in Sources, NEW v \in Versions \cup {Absent}, Edit(s, v)
        PROVE  TInv'
    BY <1>1 DEF Edit, TInv, TypeOK, WorkInv, Image, runVars
  <1>2. ASSUME NEW coll \in Collections, NEW selection \in Selections, NEW limit \in Limits,
               NEW docs \in Image, NEW fresh \in BOOLEAN,
               ResumeRun(coll, selection, limit, docs, fresh)
        PROVE  TInv'
    <2> DEFINE m == Usable(coll)
    <2>1. m \in Manifest
      BY UsableType DEF TInv
    <2>2. m.resume \in Gens /\ m.resumeFresh \in BOOLEAN
      BY <1>2, <2>1 DEF ResumeRun, Resumable, Manifest, NoGen, Gens
    <2>3. Begin(coll, selection, docs, m, m.resume, m.resumeFresh)
          /\ run = Idle /\ manifest' = manifest /\ clock' = clock
      BY <1>2 DEF ResumeRun
    <2> HIDE DEF m
    <2>4. /\ run' \in RunState /\ work' \in [Sources -> Stages] /\ WorkInv'
           /\ pend' \in [Sources -> SUBSET Record] /\ toDrop' \subseteq Sources
           /\ files' \in Image /\ store' \subseteq Record /\ late' \subseteq LateRequest
           /\ activated' \subseteq Gens
           /\ edits' \in 0..MaxEdits /\ aborts' \in 0..MaxAborts
      BY <2>1, <2>2, <2>3, BeginType DEF Begin, Idle
    <2>5. manifest \in Manifest /\ clock \in 0..MaxGens
      BY DEF TInv, TypeOK
    <2> QED
      BY <2>3, <2>4, <2>5 DEF TInv, TypeOK
  <1>3. ASSUME NEW coll \in Collections, NEW selection \in Selections, NEW limit \in Limits,
               NEW docs \in Image, NEW fresh \in BOOLEAN,
               StartRun(coll, selection, limit, docs, fresh)
        PROVE  TInv'
    <2> DEFINE m == Usable(coll)
    <2>1. m \in Manifest
      BY UsableType DEF TInv
    <2>2. clock + 1 \in Gens /\ clock' = clock + 1 /\ clock' \in 0..MaxGens
      BY <1>3 DEF StartRun, TInv, TypeOK, Gens
    <2>3. Begin(coll, selection, docs, m, clock + 1, fresh) /\ run = Idle
      BY <1>3 DEF StartRun
    <2>4. manifest' = [m EXCEPT !.coll = coll, !.resume = clock + 1,
                                !.resumeFresh = fresh, !.resumeSelection = selection]
      BY <1>3 DEF StartRun
    <2>5. manifest' \in Manifest
      BY <2>1, <2>2, <2>4 DEF Manifest, Gens
    <2> HIDE DEF m
    <2>6. /\ run' \in RunState /\ work' \in [Sources -> Stages] /\ WorkInv'
           /\ pend' \in [Sources -> SUBSET Record] /\ toDrop' \subseteq Sources
           /\ files' \in Image /\ store' \subseteq Record /\ late' \subseteq LateRequest
           /\ activated' \subseteq Gens
           /\ edits' \in 0..MaxEdits /\ aborts' \in 0..MaxAborts
      BY <2>1, <2>2, <2>3, BeginType DEF Begin, Idle
    <2> QED
      BY <2>2, <2>5, <2>6 DEF TInv, TypeOK
  <1>4. ASSUME NEW s \in Sources, Examine(s) PROVE TInv'
    BY <1>4 DEF Examine, TInv, TypeOK, WorkInv, Stages, bounds
  <1>5. ASSUME NEW s \in Sources, DropDraft(s) PROVE TInv'
    BY <1>5 DEF DropDraft, TInv, TypeOK, WorkInv, Stages, bounds
  <1>6. ASSUME NEW s \in Sources, ReadActive(s) PROVE TInv'
    <2> DEFINE old == RecordsOf(run.coll, run.active, s)
               recs == {Rec(s, r.idx, r.text, "copy") : r \in old}
               stage == IF old = {} THEN "embed" ELSE "write"
    <2>1. work[s] # "none"
      BY <1>6 DEF ReadActive
    <2>2. \A r \in old : r.idx \in Nat /\ r.text \in Versions
      BY DEF RecordsOf, TInv, TypeOK, Record
    <2>3. recs \in SUBSET Record /\ (recs # {} => stage = "write")
      BY <2>1, <2>2, RecType
    <2>4. stage \in Stages \ {"none"}
      BY DEF Stages
    <2>5. /\ work' = [work EXCEPT ![s] = stage] /\ pend' = [pend EXCEPT ![s] = recs]
          /\ UNCHANGED <<files, manifest, store, clock, run, toDrop, late, activated,
                         edits, aborts>>
      BY <1>6 DEF ReadActive, bounds
    <2> HIDE DEF recs, stage
    <2> QED
      BY <2>1, <2>3, <2>4, <2>5, WorkerType DEF TInv, TypeOK
  <1>7. ASSUME NEW s \in Sources, Embed(s) PROVE TInv'
    <2> DEFINE recs == {Rec(s, i, Hash(s), "embed") : i \in 1..NumChunks[Hash(s)]}
    <2>1. work[s] # "none" /\ Hash(s) \in Versions
      BY <1>7 DEF Embed, TInv, WorkInv, Hash
    <2>2. recs \in SUBSET Record
      <3>1. 1..NumChunks[Hash(s)] \subseteq Nat
        BY <2>1
      <3> QED
        BY <2>1, <3>1, RecType
    <2>3. /\ work' = [work EXCEPT ![s] = "write"] /\ pend' = [pend EXCEPT ![s] = recs]
          /\ UNCHANGED <<files, manifest, store, clock, run, toDrop, late, activated,
                         edits, aborts>>
      BY <1>7 DEF Embed, bounds
    <2> HIDE DEF recs
    <2>4. "write" \in Stages \ {"none"}
      BY DEF Stages
    <2> QED
      BY <2>1, <2>2, <2>3, <2>4, WorkerType DEF TInv, TypeOK
  <1>8. ASSUME NEW s \in Sources, Write(s) PROVE TInv'
    <2>1. PICK r \in NextRecs(s) :
            /\ store' = Upsert(store, r)
            /\ pend' = [pend EXCEPT ![s] = @ \ {r}]
            /\ work' = [work EXCEPT ![s] = IF pend[s] = {r} THEN "done" ELSE "write"]
      BY <1>8 DEF Write
    <2>2. work[s] = "write" /\ UNCHANGED <<files, manifest, clock, run, toDrop, late,
                                           activated, edits, aborts>>
      BY <1>8 DEF Write, bounds
    <2> DEFINE recs == pend[s] \ {r}
               stage == IF pend[s] = {r} THEN "done" ELSE "write"
    <2>3. r \in Record /\ recs \in SUBSET Record /\ (recs # {} => stage = "write")
      BY DEF NextRecs, TInv, TypeOK
    <2>4. stage \in Stages \ {"none"}
      BY DEF Stages
    <2>5. pend' = [pend EXCEPT ![s] = recs] /\ work' = [work EXCEPT ![s] = stage]
      BY <2>1 DEF TInv, TypeOK
    <2>6. store' \subseteq Record
      BY <2>1, <2>3 DEF Upsert, TInv, TypeOK
    <2> HIDE DEF recs, stage
    <2> QED
      BY <2>2, <2>3, <2>4, <2>5, <2>6, WorkerType DEF TInv, TypeOK
  <1>9. ASSUME ListDraft PROVE TInv'
    <2>1. run' = [run EXCEPT !.phase = "reconcile"] /\ run.phase = "index"
      BY <1>9 DEF ListDraft
    <2>2. run' \in RunState /\ run'.phase = "reconcile" /\ run'.coll = run.coll
          /\ run'.build = run.build /\ run'.docs = run.docs
      BY <2>1 DEF TInv, TypeOK, RunState
    <2> QED
      BY <1>9, <2>1, <2>2 DEF ListDraft, TInv, TypeOK, WorkInv, bounds
  <1>10. ASSUME NEW s \in Sources, DropStale(s) PROVE TInv'
    BY <1>10 DEF DropStale, TInv, TypeOK, WorkInv, bounds
  <1>11. ASSUME Activate PROVE TInv'
    <2>1. EndRun /\ manifest' = [EmptyManifest EXCEPT !.coll = run.coll,
                                   !.active = run.build, !.sources = run.docs]
          /\ activated' = activated \cup {run.build} /\ run.phase = "reconcile"
          /\ UNCHANGED <<files, store, clock, late, edits, aborts>>
      BY <1>11 DEF Activate, bounds
    <2>2. EmptyManifest \in Manifest
      BY DEF EmptyManifest, Manifest, Image, Empty, NoGen
    <2>3. manifest' \in Manifest
      BY <2>1, <2>2 DEF Manifest, TInv, TypeOK, RunState
    <2>4. activated' \subseteq Gens
      BY <2>1 DEF TInv, TypeOK, WorkInv
    <2> QED
      BY <2>1, <2>3, <2>4, EndRunType DEF TInv, TypeOK
  <1>12. ASSUME Abort PROVE TInv'
    <2>1. EndRun /\ run # Idle /\ aborts' \in 0..MaxAborts
          /\ UNCHANGED <<files, manifest, store, clock, activated, edits>>
      BY <1>12 DEF Abort, TInv, TypeOK
    <2>2. late' \subseteq LateRequest
      <3>1. CASE late' = late
        BY <3>1 DEF TInv, TypeOK
      <3>2. CASE \E ops \in SUBSET Outstanding : late' = late \cup ops
        <4>1. CASE run.phase = "idle"
          <5>1. toDrop = {} /\ \A s \in Sources : work[s] = "none" /\ pend[s] = {}
            BY <4>1 DEF TInv, WorkInv
          <5>2. \A s \in Sources : work[s] \notin {"dropToCopy", "dropToEmbed"}
                                 /\ pend[s] = {}
            BY <5>1
          <5>3. Outstanding = {}
            <6> DEFINE deleting == {u \in Sources : work[u] \in {"dropToCopy", "dropToEmbed"}}
            <6>1. deleting \cup toDrop = {}
              BY <5>1, <5>2
            <6>2. UNION {{Request("upsert", s, {r}) : r \in pend[s]} : s \in Sources} = {}
              <7>1. \A s \in Sources : {Request("upsert", s, {r}) : r \in pend[s]} = {}
                BY <5>2
              <7> QED
                BY <7>1
            <6> HIDE DEF deleting
            <6>3. {Request("delete", s, {}) : s \in deleting \cup toDrop} = {}
              BY <6>1
            <6> QED
              BY <6>2, <6>3 DEF Outstanding, deleting
          <5> QED
            BY <3>2, <5>3 DEF TInv, TypeOK
        <4>2. CASE run.phase # "idle"
          <5>1. Outstanding \subseteq LateRequest
            BY <2>1, <4>2, RequestType
          <5> QED
            BY <3>2, <5>1 DEF TInv, TypeOK
        <4> QED
          BY <4>1, <4>2
      <3> QED
        BY <1>12, <3>1, <3>2 DEF Abort
    <2> QED
      BY <2>1, <2>2, EndRunType DEF TInv, TypeOK
  <1>13. ASSUME NEW op \in late, ApplyLate(op) PROVE TInv'
    <2>1. op.recs \subseteq Record
      BY DEF TInv, TypeOK, LateRequest
    <2>2. store' \subseteq Record
      BY <1>13, <2>1 DEF ApplyLate, TInv, TypeOK
    <2> QED
      BY <1>13, <2>2 DEF ApplyLate, TInv, TypeOK, WorkInv, runVars, bounds
  <1>14. ASSUME UNCHANGED vars PROVE TInv'
    BY <1>14 DEF vars, TInv, TypeOK, WorkInv
  <1> QED
    BY <1>1, <1>2, <1>3, <1>4, <1>5, <1>6, <1>7, <1>8, <1>9, <1>10, <1>11, <1>12, <1>13,
       <1>14
    DEF Next, Run, Work

LEMMA TInvHolds == Spec => []TInv
  BY TInvInit, TInvStep, PTL DEF Spec
-----------------------------------------------------------------------------
(* Every variable keeps its type: a record is written for documents of a   *)
(* run only, under a generation that was announced.                        *)
THEOREM TypeCorrect == Spec => []TypeOK
  <1>1. TInv => TypeOK
    BY DEF TInv
  <1> QED
    BY <1>1, TInvHolds, PTL
-----------------------------------------------------------------------------
(* With MaxLate = 0 no request outlives its run.                           *)
LateInv == MaxLate = 0 => late = {}

FInv == TInv /\ DraftInv /\ LateInv

LEMMA LateStep == TInv /\ LateInv /\ [Next]_vars => LateInv'
  <1> SUFFICES ASSUME LateInv, [Next]_vars, MaxLate = 0 PROVE late' = {}
    BY DEF LateInv
  <1>1. late = {}
    BY DEF LateInv
  <1>2. ASSUME Run PROVE late' = late
    BY <1>2 DEF Run, ResumeRun, StartRun, Begin
  <1>3. ASSUME Work PROVE late' = late
    BY <1>3 DEF Work, Examine, DropDraft, ReadActive, Embed, Write, DropStale, ListDraft,
                Activate
  <1>4. ASSUME Abort PROVE late' = late
    BY <1>4 DEF Abort
  <1>5. ASSUME NEW op \in late PROVE FALSE
    BY <1>1, <1>5
  <1>6. ASSUME NEW s \in Sources, NEW v \in Versions \cup {Absent}, Edit(s, v)
        PROVE  late' = late
    BY <1>6 DEF Edit
  <1>7. ASSUME UNCHANGED vars PROVE late' = late
    BY <1>7 DEF vars
  <1> QED
    BY <1>1, <1>2, <1>3, <1>4, <1>5, <1>6, <1>7 DEF Next

LEMMA DraftInit == Init => DraftInv
  BY IndexBuildAssumption
  DEF Init, DraftInv, Idle, EmptyManifest, NoGen

(* A run begins with the generation the file offers for resumption.        *)
LEMMA BeginDraft ==
  ASSUME TInv, NEW coll \in Collections, NEW selection, NEW docs, NEW m, NEW fresh,
         NEW gen \in Nat, gen \notin activated,
         clock' \in Nat, clock <= clock', gen <= clock',
         run = Idle, Begin(coll, selection, docs, m, gen, fresh), manifest'.resume = gen,
         \A g \in activated : g <= clock
  PROVE  DraftInv'
  <1>1. /\ run'.build = gen
        /\ pend' = pend /\ activated' = activated
    BY DEF Begin
  <1>2. \A s \in Sources : pend[s] = {}
    BY DEF TInv, WorkInv, Idle
  <1>3. \A g \in activated : g <= clock'
    BY IndexBuildAssumption DEF TInv, TypeOK, Gens
  <1> QED
    BY <1>1, <1>2, <1>3 DEF DraftInv

LEMMA EndRunDraft ==
  ASSUME TInv, EndRun, clock' = clock, manifest'.resume \in 0..clock,
         activated' \subseteq Gens, \A g \in activated' : g <= clock,
         manifest'.resume \notin activated'
  PROVE  DraftInv'
  <1>1. run'.build = 0 /\ run'.phase = "idle" /\ \A s \in Sources : pend'[s] = {}
    BY DEF EndRun, Idle, NoGen
  <1>2. 0 \notin activated' /\ 0 <= clock
    BY IndexBuildAssumption DEF Gens, TInv, TypeOK
  <1> QED
    BY <1>1, <1>2 DEF DraftInv, TInv, TypeOK

(* A worker prepares records of the draft and of nothing else.             *)
LEMMA WorkerDraft ==
  ASSUME TInv, DraftInv, NEW s \in Sources, NEW recs,
         \A r \in recs : r.gen = run.build,
         pend' = [pend EXCEPT ![s] = recs], UNCHANGED <<manifest, clock, run, activated>>
  PROVE  DraftInv'
  BY DEF TInv, TypeOK, DraftInv

LEMMA DraftStep == TInv /\ DraftInv /\ [Next]_vars => DraftInv'
  <1> SUFFICES ASSUME TInv, DraftInv, [Next]_vars PROVE DraftInv'
    OBVIOUS
  <1> USE IndexBuildAssumption
  <1>1. clock \in Nat /\ manifest.resume \in Nat /\ run.build \in Nat
        /\ activated \subseteq Gens
    BY DEF TInv, TypeOK, Manifest, RunState
  <1>2. ASSUME UNCHANGED <<manifest, clock, run, pend, activated>> PROVE DraftInv'
    BY <1>2 DEF DraftInv
  <1>3. ASSUME NEW coll \in Collections, NEW selection \in Selections, NEW limit \in Limits,
               NEW docs \in Image, NEW fresh \in BOOLEAN,
               ResumeRun(coll, selection, limit, docs, fresh)
        PROVE  DraftInv'
    <2> DEFINE m == Usable(coll)
    <2>1. m.resume # NoGen /\ run = Idle /\ clock' = clock /\ manifest' = manifest
          /\ Begin(coll, selection, docs, m, m.resume, m.resumeFresh)
      BY <1>3 DEF ResumeRun, Resumable
    <2>2. m = manifest
      BY <2>1 DEF Usable, EmptyManifest
    <2>3. m.resume \notin activated /\ m.resume <= clock /\ \A g \in activated : g <= clock
      BY <2>2 DEF DraftInv
    <2> HIDE DEF m
    <2> QED
      BY <1>1, <2>1, <2>2, <2>3, BeginDraft DEF Begin, Idle
  <1>4. ASSUME NEW coll \in Collections, NEW selection \in Selections, NEW limit \in Limits,
               NEW docs \in Image, NEW fresh \in BOOLEAN,
               StartRun(coll, selection, limit, docs, fresh)
        PROVE  DraftInv'
    <2> DEFINE m == Usable(coll)
               gen == clock + 1
    <2>1. run = Idle /\ clock' = gen /\ Begin(coll, selection, docs, m, gen, fresh)
          /\ manifest' = [m EXCEPT !.coll = coll, !.resume = gen,
                                   !.resumeFresh = fresh, !.resumeSelection = selection]
      BY <1>4 DEF StartRun
    <2>2. m \in Manifest
      BY UsableType DEF TInv
    <2>3. manifest'.resume = gen
      BY <2>1, <2>2 DEF Manifest
    <2>4. gen \in Nat /\ clock <= gen /\ gen \notin activated
          /\ \A g \in activated : g <= clock
      BY <1>1 DEF DraftInv, Gens
    <2> HIDE DEF m, gen
    <2> QED
      BY <1>1, <2>1, <2>3, <2>4, BeginDraft DEF Begin, Idle
  <1>5. ASSUME NEW s \in Sources, ReadActive(s) PROVE DraftInv'
    <2> DEFINE recs == {Rec(s, r.idx, r.text, "copy") : r \in RecordsOf(run.coll, run.active, s)}
    <2>1. \A r \in recs : r.gen = run.build
      BY DEF Rec
    <2>2. pend' = [pend EXCEPT ![s] = recs] /\ UNCHANGED <<manifest, clock, run, activated>>
      BY <1>5 DEF ReadActive
    <2> HIDE DEF recs
    <2> QED
      BY <2>1, <2>2, WorkerDraft
  <1>6. ASSUME NEW s \in Sources, Embed(s) PROVE DraftInv'
    <2> DEFINE recs == {Rec(s, i, Hash(s), "embed") : i \in 1..NumChunks[Hash(s)]}
    <2>1. \A r \in recs : r.gen = run.build
      BY DEF Rec
    <2>2. pend' = [pend EXCEPT ![s] = recs] /\ UNCHANGED <<manifest, clock, run, activated>>
      BY <1>6 DEF Embed
    <2> HIDE DEF recs
    <2> QED
      BY <2>1, <2>2, WorkerDraft
  <1>7. ASSUME NEW s \in Sources, Write(s) PROVE DraftInv'
    <2>1. PICK r : pend' = [pend EXCEPT ![s] = @ \ {r}]
      BY <1>7 DEF Write
    <2> DEFINE recs == pend[s] \ {r}
    <2>2. pend' = [pend EXCEPT ![s] = recs]
      BY <2>1 DEF TInv, TypeOK
    <2>3. \A q \in recs : q.gen = run.build
      BY DEF DraftInv
    <2> HIDE DEF recs
    <2> QED
      BY <1>7, <2>2, <2>3, WorkerDraft DEF Write
  <1>8. ASSUME ListDraft PROVE DraftInv'
    <2>1. run'.build = run.build /\ (run'.phase # "idle" => run.phase # "idle")
          /\ UNCHANGED <<manifest, clock, pend, activated>>
      BY <1>8 DEF ListDraft, TInv, TypeOK, RunState
    <2> QED
      BY <2>1 DEF DraftInv
  <1>9. ASSUME Activate PROVE DraftInv'
    <2>1. /\ EndRun /\ clock' = clock /\ run.phase # "idle"
          /\ activated' = activated \cup {run.build}
          /\ manifest' = [EmptyManifest EXCEPT !.coll = run.coll, !.active = run.build,
                                               !.sources = run.docs]
      BY <1>9 DEF Activate
    <2>2. manifest'.resume = 0
      BY <2>1 DEF EmptyManifest, NoGen
    <2>3. activated' \subseteq Gens /\ \A g \in activated' : g <= clock
      BY <1>1, <2>1 DEF TInv, WorkInv, DraftInv
    <2>4. 0 \notin activated' /\ 0 \in 0..clock
      BY <1>1, <2>3 DEF Gens
    <2> QED
      BY <2>1, <2>2, <2>3, <2>4, EndRunDraft
  <1>10. ASSUME Abort PROVE DraftInv'
    <2>1. EndRun /\ UNCHANGED <<manifest, clock, activated>>
      BY <1>10 DEF Abort
    <2>2. manifest.resume \in 0..clock /\ manifest.resume \notin activated
          /\ \A g \in activated : g <= clock
      BY <1>1 DEF DraftInv
    <2> QED
      BY <1>1, <2>1, <2>2, EndRunDraft
  <1>11. ASSUME NEW s \in Sources, Examine(s) \/ DropDraft(s) \/ DropStale(s) PROVE DraftInv'
    BY <1>2, <1>11 DEF Examine, DropDraft, DropStale
  <1>12. ASSUME NEW s \in Sources, NEW v \in Versions \cup {Absent}, Edit(s, v)
         PROVE  DraftInv'
    BY <1>2, <1>12 DEF Edit, runVars
  <1>13. ASSUME NEW op \in late, ApplyLate(op) PROVE DraftInv'
    BY <1>2, <1>13 DEF ApplyLate, runVars
  <1>14. ASSUME UNCHANGED vars PROVE DraftInv'
    BY <1>2, <1>14 DEF vars
  <1> QED
    BY <1>3, <1>4, <1>5, <1>6, <1>7, <1>8, <1>9, <1>10, <1>11, <1>12, <1>13, <1>14
    DEF Next, Run, Work

LEMMA FInvHolds == Spec => []FInv
  <1>1. Init => LateInv
    BY DEF Init, LateInv
  <1>2. Init => FInv
    BY <1>1, TInvInit, DraftInit DEF FInv
  <1>3. FInv /\ [Next]_vars => FInv'
    BY TInvStep, DraftStep, LateStep DEF FInv
  <1> QED
    BY <1>2, <1>3, PTL DEF Spec
-----------------------------------------------------------------------------
(* As long as Chroma carries out no request after the run that sent it is  *)
(* over, no step adds, replaces or deletes a record of a generation that   *)
(* is or was active: a query that read the pointer before it moved reads   *)
(* the same records as one that came earlier.                              *)
THEOREM ActivatedFrozen ==
  ASSUME MaxLate = 0
  PROVE  Spec => ActivatedIsFrozen
  <1> DEFINE Same == \A g \in activated :
                       {r \in store' : r.gen = g} = {r \in store : r.gen = g}
  <1>1. FInv /\ [Next]_vars => Same
    <2> SUFFICES ASSUME FInv, [Next]_vars PROVE Same
      OBVIOUS
    <2>1. late = {}
      BY DEF FInv, LateInv
    <2>2. run.build \notin activated
      BY DEF FInv, DraftInv
    <2>3. ASSUME store' = store PROVE Same
      BY <2>3
    <2>4. ASSUME NEW s \in Sources, store' = store \ Draft(s) PROVE Same
      BY <2>2, <2>4 DEF Draft, RecordsOf
    <2>5. ASSUME NEW s \in Sources, Write(s) PROVE Same
      <3>1. PICK r \in pend[s] : store' = Upsert(store, r)
        BY <2>5 DEF Write, NextRecs
      <3>2. r.gen = run.build
        BY DEF FInv, DraftInv
      <3> QED
        BY <2>2, <3>1, <3>2 DEF Upsert, SameId
    <2>6. ASSUME NEW s \in Sources,
                 Examine(s) \/ DropDraft(s) \/ ReadActive(s) \/ Embed(s) \/ DropStale(s)
          PROVE  Same
      <3>1. store' = store \/ store' = store \ Draft(s)
        BY <2>6 DEF Examine, DropDraft, ReadActive, Embed, DropStale
      <3> HIDE DEF Same
      <3> QED
        BY <2>3, <2>4, <3>1
    <2>7. ASSUME ListDraft \/ Activate \/ Abort \/ Run \/ UNCHANGED vars PROVE Same
      <3>1. CASE Run
        <4>1. PICK coll, selection, docs, m, gen, fresh :
                Begin(coll, selection, docs, m, gen, fresh)
          BY <3>1 DEF Run, ResumeRun, StartRun
        <4> QED
          BY <2>3, <4>1 DEF Begin
      <3>2. CASE ListDraft \/ Activate \/ Abort \/ UNCHANGED vars
        <4>1. store' = store
          BY <3>2 DEF ListDraft, Activate, Abort, vars
        <4> QED
          BY <2>3, <4>1
      <3> QED
        BY <2>7, <3>1, <3>2
    <2>8. ASSUME NEW s \in Sources, NEW v \in Versions \cup {Absent}, Edit(s, v) PROVE Same
      BY <2>3, <2>8 DEF Edit
    <2> HIDE DEF Same
    <2> QED
      BY <2>1, <2>5, <2>6, <2>7, <2>8 DEF Next, Work
  <1>2. FInv /\ [Next]_vars => [Same]_vars
    BY <1>1
  <1> QED
    BY <1>2, FInvHolds, PTL DEF ActivatedIsFrozen, Spec

(* With one collection name, the active generation is replaced by the last *)
(* step of a run, by the generation this run built, and by nothing else:   *)
(* starting, failing or dying leaves the previous index visible.           *)
THEOREM PointerMoves ==
  ASSUME NEW c, Collections = {c}
  PROVE  Spec => PointerMovesAtTheEnd
  <1> DEFINE Moves == manifest'.active # manifest.active =>
                        run.phase = "reconcile" /\ manifest'.active = run.build
  <1>1. TInv /\ [Next]_vars => Moves
    <2> SUFFICES ASSUME TInv, [Next]_vars PROVE Moves
      OBVIOUS
    <2>1. manifest \in Manifest
      BY DEF TInv, TypeOK
    <2>2. ASSUME manifest' = manifest PROVE Moves
      BY <2>2
    <2>3. ASSUME NEW coll \in Collections, NEW selection, NEW limit, NEW docs, NEW fresh,
                 StartRun(coll, selection, limit, docs, fresh)
          PROVE  Moves
      <3>1. Usable(coll) = manifest
        BY <2>1 DEF Usable, Manifest
      <3>2. manifest'.active = manifest.active
        BY <2>1, <2>3, <3>1 DEF StartRun, Manifest
      <3> QED
        BY <3>2
    <2>4. ASSUME Activate PROVE Moves
      BY <2>4 DEF Activate, EmptyManifest
    <2>5. ASSUME NEW coll \in Collections, NEW selection, NEW limit, NEW docs, NEW fresh,
                 ResumeRun(coll, selection, limit, docs, fresh)
          PROVE  Moves
      BY <2>2, <2>5 DEF ResumeRun
    <2>6. ASSUME ListDraft \/ Abort \/ UNCHANGED vars PROVE Moves
      BY <2>2, <2>6 DEF ListDraft, Abort, vars
    <2>7. ASSUME NEW s \in Sources,
                 Examine(s) \/ DropDraft(s) \/ ReadActive(s) \/ Embed(s) \/ Write(s)
                 \/ DropStale(s)
          PROVE  Moves
      BY <2>2, <2>7 DEF Examine, DropDraft, ReadActive, Embed, Write, DropStale
    <2>8. ASSUME NEW s \in Sources, NEW v \in Versions \cup {Absent}, Edit(s, v) PROVE Moves
      BY <2>2, <2>8 DEF Edit
    <2>9. ASSUME NEW op \in late, ApplyLate(op) PROVE Moves
      BY <2>2, <2>9 DEF ApplyLate
    <2> HIDE DEF Moves
    <2> QED
      BY <2>3, <2>4, <2>5, <2>6, <2>7, <2>8, <2>9 DEF Next, Work, Run
  <1>2. TInv /\ [Next]_vars => [Moves]_vars
    BY <1>1
  <1> QED
    BY <1>2, TInvHolds, PTL DEF PointerMovesAtTheEnd, Spec
=============================================================================
