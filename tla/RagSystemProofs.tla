--------------------------- MODULE RagSystemProofs --------------------------
(***************************************************************************)
(* Proofs about RagSystem, for any goroutines, commands, calls, chunks,    *)
(* generations, limits and number of mishaps.                              *)
(***************************************************************************)
EXTENDS RagSystem, FiniteSetTheorems, TLAPS

(* What a step of anybody does to the store.                               *)
StoreStep ==
  \/ UNCHANGED storeVars
  \/ Ensured
  \/ \E x \in Runners : TakeLease(x)
  \/ FreeLease
  \/ \E id \in Nat : Switched(id)
  \/ \E x \in Runners \cup {Nobody} :
       lease' = x /\ UNCHANGED <<active, newest, current, lastId, held, foreign>>
                  /\ mishaps' \in 0..MaxMishaps

(* It stays in its type, and generations and ids only grow.                *)
Grows == StoreTypeOK' /\ newest <= newest' /\ lastId <= lastId'
-----------------------------------------------------------------------------
LEMMA StoreGrows ==
  ASSUME StoreTypeOK, StoreStep
  PROVE  Grows
  <1> USE IndexStoreAssumption DEF StoreTypeOK, Grows
  <1>1. CASE UNCHANGED storeVars
    BY <1>1 DEF storeVars
  <1>2. CASE Ensured
    BY <1>2 DEF Ensured, EnsuredId
  <1>3. ASSUME NEW x \in Runners, TakeLease(x) PROVE Grows
    BY <1>3 DEF TakeLease
  <1>4. CASE FreeLease
    BY <1>4 DEF FreeLease
  <1>5. ASSUME NEW id \in Nat, Switched(id) PROVE Grows
    <2>1. newest' = newest + 1 /\ active' = newest + 1 /\ newest \in Nat /\ newest < MaxGen
      BY <1>5 DEF Switched
    <2>2. held' \subseteq 1..newest'
      BY <1>5, <2>1 DEF Switched
    <2>3. newest' \in 0..MaxGen /\ active' \in 0..newest' /\ newest <= newest'
      BY <2>1
    <2>4. UNCHANGED <<current, lastId, lease, mishaps>> /\ foreign' = FALSE
      BY <1>5 DEF Switched
    <2>5. current' \in {0, lastId'} /\ lastId' \in Nat /\ lastId <= lastId'
      BY <2>4
    <2>6. lease' \in Runners \cup {Nobody} /\ mishaps' \in 0..MaxMishaps /\ foreign' \in BOOLEAN
      BY <2>4
    <2> QED
      BY <2>2, <2>3, <2>5, <2>6
  <1>6. ASSUME NEW x \in Runners \cup {Nobody}, lease' = x,
               UNCHANGED <<active, newest, current, lastId, held, foreign>>,
               mishaps' \in 0..MaxMishaps
        PROVE  Grows
    BY <1>6
  <1> QED
    BY <1>1, <1>2, <1>3, <1>4, <1>5, <1>6 DEF StoreStep

LEMMA OutsideGrows ==
  ASSUME StoreTypeOK, LoseCollection \/ ForeignRun
  PROVE  Grows
  <1> USE IndexStoreAssumption DEF StoreTypeOK, Grows, Mishap
  <1>1. CASE LoseCollection
    BY <1>1 DEF LoseCollection
  <1>2. CASE ForeignRun
    BY <1>2 DEF ForeignRun
  <1> QED
    BY <1>1, <1>2

LEMMA EnsuredIdType ==
  ASSUME StoreTypeOK, Ensured
  PROVE  EnsuredId \in 0..lastId' /\ lastId' \in Nat
  BY DEF StoreTypeOK, Ensured, EnsuredId
-----------------------------------------------------------------------------
(* The operators of QueryService.                                          *)
LEMMA NoCallType ==
  /\ NoCall \in [Slots -> Call]
  /\ \A r \in Slots : NoCall[r] \in Calls[r]
  <1>1. ASSUME NEW r \in Slots PROVE NoCall[r] \in Calls[r] /\ Calls[r] \subseteq Call
    BY QueryServiceAssumption DEF NoCall
  <1> QED
    BY <1>1, Zenon DEF NoCall

LEMMA StoredType ==
  ASSUME StoreTypeOK, NEW g, NEW s
  PROVE  Stored(g, s) \subseteq Chunks
  <1>1. CASE g \in held
    <2>1. g \in 1..MaxGen
      BY <1>1, IndexStoreAssumption DEF StoreTypeOK
    <2> QED
      BY <2>1, QueryServiceAssumption DEF Stored, Matching
  <1> QED
    BY <1>1 DEF Stored

LEMMA PageType ==
  ASSUME StoreTypeOK, NEW r
  PROVE  Page(r) \subseteq Stored(gen[r], Head(todo[r])) /\ Page(r) \subseteq Chunks
  BY StoredType DEF Page

LEMMA KeptType ==
  ASSUME NEW c, NEW S
  PROVE  Kept(c, S) \subseteq S
  BY DEF Kept, Nearest

LEMMA NearestType ==
  ASSUME NEW S, NEW n
  PROVE  Nearest(S, n) \subseteq S
  BY DEF Nearest

LEMMA LimitsType ==
  /\ MaxTopK \in Nat /\ DefaultTopK \in Nat /\ Near \in Nat
  /\ Widening \in Nat /\ FewCandidates \in Nat /\ PageSize \in Nat
  BY QueryServiceAssumption

LEMMA CandidatesType ==
  ASSUME NEW k \in Int, k > 0
  PROVE  Candidates(k) \in Nat
  <1>1. k * Widening \in Nat
    BY LimitsType
  <1> QED
    BY <1>1, LimitsType DEF Candidates

LEMMA WantedType ==
  ASSUME NEW c \in Call
  PROVE  Wanted(c) \in Int
  <1>1. c.topK \in Int
    BY DEF Call
  <1> QED
    BY <1>1, LimitsType DEF Wanted

LEMMA ScopeUsedType ==
  ASSUME NEW c \in Call
  PROVE  ScopeUsed(c) \in Scopes /\ ScopesToPage(c) \in Seq(Scopes)
  <1>1. ScopeUsed(c) \in Scopes
    BY QueryServiceAssumption DEF ScopeUsed, Scopes
  <1>2. <<"docs", "code">> \in Seq(Scopes) /\ <<ScopeUsed(c)>> \in Seq(Scopes) /\ << >> \in Seq(Scopes)
    BY <1>1 DEF Scopes
  <1> QED
    BY <1>1, <1>2 DEF ScopesToPage
-----------------------------------------------------------------------------
(* Types.                                                                  *)

(* What has the right type stays so while generations and ids grow.        *)
LEMMA Widened ==
  ASSUME StoreTypeOK, ServerTypeOK, Grows
  PROVE  /\ cached \in 0..lastId' /\ lastId' \in Nat /\ newest' \in Nat
         /\ gen \in [Slots -> 0..newest'] /\ col \in [Slots -> 0..lastId']
  <1>1. 0..newest \subseteq 0..newest' /\ 0..lastId \subseteq 0..lastId'
    BY DEF StoreTypeOK, Grows
  <1>2. lastId' \in Nat /\ newest' \in Nat
    BY IndexStoreAssumption DEF Grows, StoreTypeOK
  <1> QED
    BY <1>1, <1>2 DEF ServerTypeOK

LEMMA ServerKeeps ==
  ASSUME StoreTypeOK, ServerTypeOK, Grows, UNCHANGED serverVars
  PROVE  ServerTypeOK'
  BY Widened DEF ServerTypeOK, serverVars, serviceVars, locals

LEMMA CommandKeeps ==
  ASSUME StoreTypeOK, CommandTypeOK, Grows, UNCHANGED commandVars
  PROVE  CommandTypeOK'
  <1>1. 0..newest \subseteq 0..newest' /\ 0..lastId \subseteq 0..lastId'
    BY DEF StoreTypeOK, Grows
  <1> QED
    BY <1>1 DEF CommandTypeOK, commandVars

(* Answers, and steps of a read, which leave the store alone.              *)
LEMMA AnswersType ==
  ASSUME ServerTypeOK, NEW r \in Slots, NEW v \in Verdicts, NEW S \in SUBSET Chunks,
         Answers(r, v, S)
  PROVE  /\ at' \in [Slots -> Places] /\ verdict' \in [Slots -> Verdicts]
         /\ found' \in [Slots -> SUBSET Chunks]
  BY DEF ServerTypeOK, Answers, Places

LEMMA BeginType ==
  ASSUME StoreTypeOK, ServerTypeOK, NEW r \in Slots, NEW c \in Calls[r], Begin(r, c)
  PROVE  ServerTypeOK' /\ StoreStep
  <1>1. c \in Call
    BY QueryServiceAssumption
  <1>2. call' \in [Slots -> Call] /\ \A x \in Slots : call'[x] \in Calls[x]
    BY <1>1 DEF Begin, ServerTypeOK
  <1>3. /\ at' \in [Slots -> Places] /\ verdict' \in [Slots -> Verdicts]
        /\ found' \in [Slots -> SUBSET Chunks]
    <2>1. FirstPlace(c) \in Places
      BY DEF FirstPlace, Places, Requesting
    <2>2. {"rejected", "failed", "ok"} \subseteq Verdicts
      BY DEF Verdicts
    <2>3. CASE \E v \in {"rejected", "failed", "ok"} : Answers(r, v, {})
      BY <2>2, <2>3, AnswersType
    <2>4. CASE at' = [at EXCEPT ![r] = FirstPlace(c)] /\ UNCHANGED <<verdict, found>>
      BY <2>1, <2>4 DEF ServerTypeOK
    <2> QED
      BY <2>3, <2>4 DEF Begin
  <1>4. UNCHANGED <<storeVars, serviceVars, gen, col, limit, todo>>
    BY DEF Begin
  <1> QED
    BY <1>2, <1>3, <1>4 DEF ServerTypeOK, StoreStep, storeVars, serviceVars

LEMMA ReadsType ==
  ASSUME StoreTypeOK, ServerTypeOK, NEW r \in Slots, Reads(r)
  PROVE  ServerTypeOK' /\ StoreStep
  <1> USE DEF storeVars, serviceVars
  <1>0. UNCHANGED storeVars
    BY DEF Reads, LoadNothing, LoadPointer, Aim, ReadPage, NextScope, EndList, EndCount, Query,
           Get, Fail
  <1> SUFFICES ServerTypeOK'
    BY <1>0 DEF StoreStep
  <1>1. ASSUME NEW v \in {"ok", "failed"}, NEW S \in SUBSET Chunks, Answers(r, v, S),
               UNCHANGED <<serviceVars, call, gen, col, limit, todo>>
        PROVE  ServerTypeOK'
    <2>1. v \in Verdicts
      BY DEF Verdicts
    <2>2. /\ at' \in [Slots -> Places] /\ verdict' \in [Slots -> Verdicts]
          /\ found' \in [Slots -> SUBSET Chunks]
      BY <1>1, <2>1, AnswersType
    <2> QED
      BY <1>0, <1>1, <2>2 DEF ServerTypeOK
  <1>2. CASE LoadNothing(r)
    BY <1>1, <1>2 DEF LoadNothing
  <1>3. CASE LoadPointer(r)
    <2>1. call[r] \in Call
      BY DEF ServerTypeOK
    <2>2. limit' \in [Slots -> Nat]
      BY <1>3, <2>1, WantedType, CandidatesType DEF LoadPointer, ServerTypeOK
    <2>3. todo' \in [Slots -> Seq(Scopes)]
      BY <1>3, <2>1, ScopeUsedType DEF LoadPointer, ServerTypeOK
    <2>4. gen' \in [Slots -> 0..newest]
      BY <1>3 DEF LoadPointer, ServerTypeOK, StoreTypeOK
    <2>5. at' \in [Slots -> Places]
      BY <1>3 DEF LoadPointer, Goes, ServerTypeOK, Places
    <2> QED
      BY <1>0, <1>3, <2>2, <2>3, <2>4, <2>5 DEF LoadPointer, ServerTypeOK
  <1>4. CASE Aim(r)
    BY <1>0, <1>4 DEF Aim, Goes, Target, ServerTypeOK, Places, Requesting
  <1>5. CASE ReadPage(r)
    BY <1>0, <1>5, PageType DEF ReadPage, ServerTypeOK
  <1>6. CASE NextScope(r)
    <2>1. todo[r] \in Seq(Scopes) /\ Len(todo[r]) > 1
      BY <1>6 DEF NextScope, ServerTypeOK
    <2>2. Tail(todo[r]) \in Seq(Scopes)
      BY <2>1
    <2> QED
      BY <1>0, <1>6, <2>2 DEF NextScope, ServerTypeOK
  <1>7. CASE EndList(r)
    BY <1>1, <1>7 DEF EndList, ServerTypeOK
  <1>8. CASE EndCount(r)
    <2>1. CASE Answers(r, "ok", {}) /\ UNCHANGED limit
      BY <1>1, <1>8, <2>1 DEF EndCount
    <2>2. CASE /\ at' = [at EXCEPT ![r] = "aim"]
               /\ limit' = [limit EXCEPT ![r] = Cardinality(found[r])]
               /\ found' = [found EXCEPT ![r] = {}]
               /\ UNCHANGED verdict
      <3>1. Cardinality(found[r]) \in Nat
        BY FS_Subset, FS_CardinalityType, QueryServiceAssumption DEF ServerTypeOK
      <3> QED
        BY <1>0, <1>8, <2>2, <3>1 DEF EndCount, ServerTypeOK, Places
    <2> QED
      BY <1>8, <2>1, <2>2 DEF EndCount
  <1>9. CASE Query(r)
    <2>1. Kept(call[r], Nearest(Stored(gen[r], ScopeUsed(call[r])), limit[r])) \subseteq Chunks
      BY KeptType, NearestType, StoredType
    <2> QED
      BY <1>1, <1>9, <2>1 DEF Query
  <1>10. CASE Get(r)
    <2>1. (IF col[r] = current THEN Stored(gen[r], "all") \cap {call[r].chunk} ELSE {}) \subseteq Chunks
      BY StoredType
    <2> QED
      BY <1>1, <1>10, <2>1 DEF Get
  <1>11. CASE Fail(r)
    BY <1>1, <1>11 DEF Fail
  <1> QED
    BY <1>0, <1>2, <1>3, <1>4, <1>5, <1>6, <1>7, <1>8, <1>9, <1>10, <1>11 DEF Reads

(* Steps that change the store: the rest of the goroutine is as typed as   *)
(* it was.                                                                 *)
LEMMA ReindexesType ==
  ASSUME StoreTypeOK, ServerTypeOK, NEW r \in Slots,
         Reindexes(r) \/ AskId(r) \/ Probe(r) \/ ProbeFails(r) \/ Reply(r)
  PROVE  ServerTypeOK' /\ StoreStep
  <1>1. StoreStep
    <2>1. r \in Runners
      BY QueryServiceAssumption
    <2>2. col[r] \in Nat
      BY DEF ServerTypeOK, StoreTypeOK
    <2>3. CASE UNCHANGED storeVars \/ Ensured
      BY <2>3 DEF StoreStep
    <2>4. CASE Start(r)
      BY <2>1, <2>4 DEF Start, StoreStep
    <2>5. CASE Ingest(r)
      BY <2>2, <2>5 DEF Ingest, StoreStep
    <2>6. CASE Finish(r)
      BY <2>6 DEF Finish, StoreStep
    <2> QED
      BY <2>3, <2>4, <2>5, <2>6
      DEF Reindexes, StartRefused, ReindexFails, Renew, AskId, Probe, ProbeFails, Reply
  <1>2. Grows
    BY <1>1, StoreGrows
  <1>3. /\ cached \in 0..lastId' /\ lastId' \in Nat /\ newest' \in Nat
        /\ gen \in [Slots -> 0..newest'] /\ col \in [Slots -> 0..lastId']
    BY <1>2, Widened
  <1> SUFFICES ServerTypeOK'
    BY <1>1
  <1>4. ASSUME NEW v \in Verdicts, Answers(r, v, {}), UNCHANGED <<serving, call, gen, col, limit, todo>>,
               cached' \in 0..lastId'
        PROVE  ServerTypeOK'
    <2>1. /\ at' \in [Slots -> Places] /\ verdict' \in [Slots -> Verdicts]
          /\ found' \in [Slots -> SUBSET Chunks]
      BY <1>4, AnswersType
    <2> QED
      BY <1>3, <1>4, <2>1 DEF ServerTypeOK
  <1>5. {"ok", "failed", "blocked"} \subseteq Verdicts
    BY DEF Verdicts
  <1>6. {"build", "ingest", "ensure", "store", "finish", "idle"} \subseteq Places
    BY DEF Places
  <1>7. CASE Start(r)
    BY <1>3, <1>6, <1>7 DEF Start, Goes, ServerTypeOK, serviceVars, locals
  <1>8. CASE StartRefused(r)
    BY <1>3, <1>4, <1>5, <1>8 DEF StartRefused, serviceVars
  <1>9. CASE AskId(r)
    <2>1. EnsuredId \in 0..lastId'
      BY <1>9, EnsuredIdType DEF AskId
    <2> QED
      BY <1>3, <1>6, <1>9, <2>1 DEF AskId, Goes, ServerTypeOK, serviceVars
  <1>10. CASE Ingest(r)
    <2>1. newest + 1 \in 0..newest'
      BY <1>3, <1>10 DEF Ingest, Switched
    <2> QED
      BY <1>3, <1>6, <1>10, <2>1 DEF Ingest, Goes, ServerTypeOK, serviceVars
  <1>11. CASE ReindexFails(r)
    BY <1>3, <1>5, <1>6, <1>11 DEF ReindexFails, ServerTypeOK, serviceVars, locals
  <1>12. CASE Renew(r)
    BY <1>3, <1>6, <1>12 DEF Renew, Goes, ServerTypeOK, locals
  <1>13. CASE Finish(r)
    BY <1>3, <1>4, <1>5, <1>13 DEF Finish, serviceVars
  <1>14. CASE Probe(r)
    <2>1. cached' \in 0..lastId'
      BY <1>3, <1>14 DEF Probe
    <2> QED
      BY <1>4, <1>5, <1>14, <2>1 DEF Probe
  <1>15. CASE ProbeFails(r)
    BY <1>3, <1>4, <1>5, <1>15 DEF ProbeFails, serviceVars
  <1>16. CASE Reply(r)
    <2>1. /\ call' = [call EXCEPT ![r] = NoCall[r]] /\ NoCall \in [Slots -> Call]
          /\ \A x \in Slots : NoCall[x] \in Calls[x]
      BY <1>16, NoCallType DEF Reply
    <2>2. call' \in [Slots -> Call] /\ \A x \in Slots : call'[x] \in Calls[x]
      BY <2>1 DEF ServerTypeOK
    <2>3. gen' \in [Slots -> 0..newest'] /\ col' \in [Slots -> 0..lastId']
      BY <1>3, <1>16 DEF Reply
    <2>4. limit' \in [Slots -> Nat] /\ found' \in [Slots -> SUBSET Chunks]
      BY <1>16 DEF Reply, ServerTypeOK
    <2>5. todo' \in [Slots -> Seq(Scopes)]
      BY <1>16 DEF Reply, ServerTypeOK
    <2>6. at' \in [Slots -> Places] /\ verdict' \in [Slots -> Verdicts]
      BY <1>6, <1>16 DEF Reply, Goes, ServerTypeOK, Verdicts
    <2>7. serving' \in BOOLEAN /\ cached' \in 0..lastId'
      BY <1>3, <1>16 DEF Reply, ServerTypeOK, serviceVars
    <2> QED
      BY <2>2, <2>3, <2>4, <2>5, <2>6, <2>7 DEF ServerTypeOK
  <1> QED
    BY <1>7, <1>8, <1>9, <1>10, <1>11, <1>12, <1>13, <1>14, <1>15, <1>16 DEF Reindexes

LEMMA RestedType ==
  ASSUME NEW newer \in Nat, NEW last \in Nat
  PROVE  /\ Blank("idle") \in [Slots -> Places]
         /\ Blank(0) \in [Slots -> 0..newer] /\ Blank(0) \in [Slots -> 0..last]
         /\ Blank(0) \in [Slots -> Nat]
         /\ Blank({}) \in [Slots -> SUBSET Chunks] /\ Blank(<< >>) \in [Slots -> Seq(Scopes)]
         /\ Blank("none") \in [Slots -> Verdicts]
  BY DEF Blank, Places, Verdicts

LEMMA ServerType ==
  ASSUME StoreTypeOK, ServerTypeOK, ServerNext
  PROVE  ServerTypeOK' /\ StoreStep
  <1>1. ASSUME NEW r \in Slots, Advance(r) PROVE ServerTypeOK' /\ StoreStep
    BY <1>1, ReadsType, ReindexesType DEF Advance
  <1>2. ASSUME NEW r \in Slots, NEW c \in Calls[r], Begin(r, c) PROVE ServerTypeOK' /\ StoreStep
    BY <1>2, BeginType
  <1>3. CASE Serve
    <2>1. StoreStep
      BY <1>3 DEF Serve, StoreStep
    <2>2. Grows
      BY <2>1, StoreGrows
    <2>3. /\ lastId' \in Nat /\ newest' \in Nat
          /\ gen \in [Slots -> 0..newest'] /\ col \in [Slots -> 0..lastId']
      BY <2>2, Widened
    <2>4. cached' \in 0..lastId'
      BY <1>3, EnsuredIdType DEF Serve
    <2>5. serving' = TRUE /\ UNCHANGED <<at, call, gen, col, limit, found, todo, verdict>>
      BY <1>3 DEF Serve, locals
    <2> QED
      BY <2>1, <2>3, <2>4, <2>5 DEF ServerTypeOK
  <1>4. CASE Crash
    <2>1. lease' \in Runners \cup {Nobody} /\ mishaps' \in 0..MaxMishaps
      BY <1>4, IndexStoreAssumption DEF Crash, Mishap, StoreTypeOK
    <2>2. StoreStep
      BY <1>4, <2>1 DEF Crash, StoreStep
    <2>3. newest' \in Nat /\ lastId' \in Nat
      BY <1>4, IndexStoreAssumption DEF Crash, StoreTypeOK
    <2>4. serving' = FALSE /\ cached' = 0 /\ Rested
      BY <1>4 DEF Crash
    <2>5. cached' \in 0..lastId'
      BY <2>3, <2>4
    <2>6. ServerTypeOK'
      BY <2>3, <2>4, <2>5, RestedType, NoCallType DEF Rested, ServerTypeOK
    <2> QED
      BY <2>2, <2>6
  <1> QED
    BY <1>1, <1>2, <1>3, <1>4 DEF ServerNext

LEMMA CommandType ==
  ASSUME StoreTypeOK, CommandTypeOK, CommandNext
  PROVE  CommandTypeOK' /\ StoreStep
  <1> PICK k \in Commands : Launch(k) \/ Works(k) \/ Deadline(k) \/ Kill(k)
    BY DEF CommandNext
  <1>0. k \in Runners /\ target[k] \in Nat /\ newest \in Nat /\ lastId \in Nat
    BY IndexCommandAssumption, IndexStoreAssumption DEF CommandTypeOK, StoreTypeOK
  <1>1. StoreStep
    <2>1. CASE UNCHANGED storeVars \/ Ensured \/ FreeLease
      BY <2>1 DEF StoreStep
    <2>2. CASE StartRun(k)
      BY <1>0, <2>2 DEF StartRun, StoreStep
    <2>3. CASE Succeed(k)
      BY <1>0, <2>3 DEF Succeed, StoreStep
    <2>4. CASE Kill(k)
      BY <2>4 DEF Kill, StoreStep, StoreTypeOK
    <2> QED
      BY <2>1, <2>2, <2>3, <2>4
      DEF Works, Launch, RunRefused, Attempt, AttemptFails, TimerFires, GiveUp, Deadline, EndRun, storeVars
  <1>2. Grows
    BY <1>1, StoreGrows
  <1>3. /\ target \in [Commands -> 0..lastId'] /\ made \in [Commands -> 0..newest']
    <2>1. 0..newest \subseteq 0..newest' /\ 0..lastId \subseteq 0..lastId'
      BY <1>2 DEF StoreTypeOK, Grows
    <2> QED
      BY <2>1 DEF CommandTypeOK
  <1>4. newest' \in Nat /\ lastId' \in Nat
    BY <1>2, IndexStoreAssumption DEF Grows, StoreTypeOK
  <1> SUFFICES CommandTypeOK'
    BY <1>1
  <1>5. ASSUME NEW status \in {"zero", "nonzero"}, Exits(k, status) PROVE CommandTypeOK'
    BY <1>3, <1>4, <1>5 DEF Exits, CommandTypeOK, Steps
  <1>6. CASE Launch(k)
    BY <1>3, <1>5, <1>6 DEF Launch, To, CommandTypeOK, Steps
  <1>7. CASE StartRun(k) \/ TimerFires(k) \/ GiveUp(k) \/ AttemptFails(k) \/ Deadline(k)
    BY <1>3, <1>7
    DEF StartRun, TimerFires, GiveUp, AttemptFails, Deadline, To, CommandTypeOK, Steps, Working, storeVars
  <1>8. CASE RunRefused(k) \/ EndRun(k) \/ Kill(k)
    BY <1>5, <1>8 DEF RunRefused, EndRun, Kill
  <1>9. CASE Attempt(k)
    <2>1. EnsuredId \in 0..lastId'
      BY <1>9, EnsuredIdType DEF Attempt
    <2> QED
      BY <1>3, <1>9, <2>1 DEF Attempt, To, CommandTypeOK, Steps, Working
  <1>10. CASE Succeed(k)
    <2>1. newest + 1 \in 0..newest'
      BY <1>0, <1>10, <1>4 DEF Succeed, Switched
    <2> QED
      BY <1>3, <1>10, <2>1 DEF Succeed, To, CommandTypeOK, Steps
  <1> QED
    BY <1>6, <1>7, <1>8, <1>9, <1>10 DEF Works

LEMMA HistoryType ==
  ASSUME StoreTypeOK, seen \in [Slots -> SUBSET (0..newest)], Grows, Remember
  PROVE  seen' \in [Slots -> SUBSET (0..newest')] /\ sound' \in [Slots -> BOOLEAN]
  <1>1. 0..newest \subseteq 0..newest' /\ active' \in 0..newest'
    BY DEF StoreTypeOK, Grows
  <1>2. ASSUME NEW r \in Slots
        PROVE  (IF Asking(r)' THEN seen[r] \cup {active'} ELSE {}) \subseteq 0..newest'
    BY <1>1
  <1> QED
    BY <1>2, Zenon DEF Remember

LEMMA TypeStep ==
  ASSUME TypeOK, [Next]_vars
  PROVE  TypeOK'
  <1> USE DEF TypeOK
  <1>1. CASE ByServer(ServerNext)
    <2>1. ServerTypeOK' /\ Grows
      BY <1>1, ServerType, StoreGrows DEF ByServer
    <2>2. CommandTypeOK'
      BY <1>1, <2>1, CommandKeeps DEF ByServer
    <2> QED
      BY <1>1, <2>1, <2>2, HistoryType DEF ByServer, Grows
  <1>2. CASE ByCommand(CommandNext)
    <2>1. CommandTypeOK' /\ Grows
      BY <1>2, CommandType, StoreGrows DEF ByCommand
    <2>2. ServerTypeOK'
      BY <1>2, <2>1, ServerKeeps DEF ByCommand
    <2> QED
      BY <1>2, <2>1, <2>2, HistoryType DEF ByCommand, Grows
  <1>3. CASE Outside
    <2>1. Grows
      BY <1>3, OutsideGrows DEF Outside
    <2> QED
      BY <1>3, <2>1, ServerKeeps, CommandKeeps, HistoryType DEF Outside, Grows
  <1>4. CASE UNCHANGED vars
    BY <1>4 DEF vars, history, storeVars, serverVars, serviceVars, locals, commandVars,
                StoreTypeOK, ServerTypeOK, CommandTypeOK
  <1> QED
    BY <1>1, <1>2, <1>3, <1>4 DEF Next

LEMMA TypeInit == Init => TypeOK
  <1> SUFFICES ASSUME Init PROVE TypeOK
    OBVIOUS
  <1>0. newest = 0 /\ lastId = 0 /\ 0 \in Nat /\ 0 \in 0..0
    BY DEF Init, StoreInit
  <1>1. StoreTypeOK
    <2>1. 0 \in 0..MaxGen /\ 0 \in 0..MaxMishaps
      BY IndexStoreAssumption
    <2> QED
      BY <1>0, <2>1 DEF Init, StoreInit, StoreTypeOK
  <1>2. ServerTypeOK
    <2>1. /\ Blank("idle") \in [Slots -> Places] /\ Blank(0) \in [Slots -> 0..0]
          /\ Blank(0) \in [Slots -> Nat] /\ Blank({}) \in [Slots -> SUBSET Chunks]
          /\ Blank(<< >>) \in [Slots -> Seq(Scopes)] /\ Blank("none") \in [Slots -> Verdicts]
      BY <1>0, RestedType
    <2>2. ServerInit
      BY DEF Init
    <2>3. /\ gen \in [Slots -> 0..newest] /\ col \in [Slots -> 0..lastId] /\ cached \in 0..lastId
      BY <1>0, <2>1, <2>2 DEF ServerInit
    <2> QED
      BY <2>1, <2>2, <2>3, NoCallType DEF ServerInit, ServerTypeOK
  <1>3. CommandTypeOK
    BY DEF Init, StoreInit, CommandInit, CommandTypeOK, Steps
  <1>4. seen \in [Slots -> SUBSET (0..newest)] /\ sound \in [Slots -> BOOLEAN]
    BY DEF Init, Blank
  <1> QED
    BY <1>1, <1>2, <1>3, <1>4 DEF TypeOK

(* The system's state keeps its type: ids and generations are ones that    *)
(* were given, whatever is lost, switched or restarted.                    *)
THEOREM TypeCorrect == Spec => []TypeOK
  BY TypeInit, TypeStep, PTL DEF Spec
-----------------------------------------------------------------------------
(* The reindex lock.                                                       *)

(* A call is only where calls of its kind go.                              *)
Fit(r) ==
  /\ at[r] \in {"start", "build", "ingest", "finish"} => call[r].op = "reindex"
  /\ at[r] \in {"ensure", "store"} => call[r].op \in {"reindex", "readyz"}
  /\ at[r] \in {"load", "aim"} => call[r].op \in Asks
  /\ at[r] \in {"count", "query"} => call[r].op = "search"
  /\ at[r] = "get" => call[r].op = "get_chunk"
  /\ at[r] = "list" => call[r].op = "list_sources"

AllFit == \A r \in Slots : Fit(r)

(* A step of one goroutine leaves the others where they are.               *)
Same(x) ==
  /\ at'[x] = at[x] /\ call'[x] = call[x] /\ verdict'[x] = verdict[x]
  /\ gen'[x] = gen[x] /\ col'[x] = col[x] /\ limit'[x] = limit[x]
  /\ found'[x] = found[x] /\ todo'[x] = todo[x]

LEMMA OthersStay ==
  ASSUME ServerTypeOK, NEW r \in Slots, Advance(r) \/ \E c \in Calls[r] : Begin(r, c),
         NEW x \in Slots, x # r
  PROVE  Same(x)
  <1> USE DEF ServerTypeOK, Same, Answers, Goes, serviceVars, locals
  <1>1. ASSUME NEW c \in Calls[r], Begin(r, c) PROVE Same(x)
    BY <1>1 DEF Begin
  <1>2. CASE LoadNothing(r) \/ LoadPointer(r) \/ Aim(r) \/ ReadPage(r) \/ NextScope(r)
    BY <1>2 DEF LoadNothing, LoadPointer, Aim, ReadPage, NextScope
  <1>3. CASE EndList(r) \/ EndCount(r) \/ Query(r) \/ Get(r) \/ Fail(r)
    BY <1>3 DEF EndList, EndCount, Query, Get, Fail
  <1>4. CASE Start(r) \/ StartRefused(r) \/ Ingest(r) \/ ReindexFails(r) \/ Renew(r) \/ Finish(r)
    BY <1>4 DEF Start, StartRefused, Ingest, ReindexFails, Renew, Finish
  <1>5. CASE AskId(r) \/ Probe(r) \/ ProbeFails(r) \/ Reply(r)
    BY <1>5 DEF AskId, Probe, ProbeFails, Reply
  <1> QED
    BY <1>1, <1>2, <1>3, <1>4, <1>5 DEF Advance, Reads, Reindexes

LEMMA FitMoves ==
  ASSUME ServerTypeOK, NEW r \in Slots, Fit(r), Advance(r) \/ \E c \in Calls[r] : Begin(r, c)
  PROVE  Fit(r)'
  <1> USE DEF ServerTypeOK, Fit, Asks, Answers, Goes, locals
  <1>1. ASSUME NEW c \in Calls[r], Begin(r, c) PROVE Fit(r)'
    <2>0. c \in Call
      BY QueryServiceAssumption
    <2>1. c.op \in {"search", "get_chunk", "list_sources", "reindex", "readyz"}
      BY <2>0 DEF Call
    <2>2. call'[r] = c
      BY <1>1 DEF Begin
    <2>3. at'[r] \in {"answered", FirstPlace(c)}
      BY <1>1 DEF Begin
    <2> QED
      BY <2>1, <2>2, <2>3 DEF FirstPlace
  <1>2. CASE LoadNothing(r) \/ LoadPointer(r) \/ ReadPage(r) \/ NextScope(r)
    BY <1>2 DEF LoadNothing, LoadPointer, ReadPage, NextScope
  <1>3. CASE Aim(r)
    BY <1>3 DEF Aim, Target
  <1>4. CASE EndList(r) \/ EndCount(r) \/ Query(r) \/ Get(r) \/ Fail(r)
    BY <1>4 DEF EndList, EndCount, Query, Get, Fail
  <1>5. CASE Start(r) \/ StartRefused(r) \/ Ingest(r) \/ ReindexFails(r) \/ Renew(r) \/ Finish(r)
    BY <1>5 DEF Start, StartRefused, Ingest, ReindexFails, Renew, Finish
  <1>6. CASE AskId(r) \/ Probe(r) \/ ProbeFails(r) \/ Reply(r)
    BY <1>6 DEF AskId, Probe, ProbeFails, Reply
  <1> QED
    BY <1>1, <1>2, <1>3, <1>4, <1>5, <1>6 DEF Advance, Reads, Reindexes

LEMMA FitStep ==
  ASSUME TypeOK, AllFit, [Next]_vars
  PROVE  AllFit'
  <1> USE DEF TypeOK, AllFit
  <1>1. CASE UNCHANGED serverVars
    BY <1>1 DEF serverVars, Fit
  <1>2. ASSUME NEW r \in Slots, Advance(r) \/ \E c \in Calls[r] : Begin(r, c) PROVE AllFit'
    <2>1. ASSUME NEW x \in Slots, x # r PROVE Fit(x)'
      BY <1>2, <2>1, OthersStay DEF Same, Fit
    <2> QED
      BY <1>2, <2>1, FitMoves
  <1>3. CASE Serve
    BY <1>3 DEF Serve, Fit
  <1>4. CASE Crash
    BY <1>4 DEF Crash, Rested, Blank, Fit
  <1> QED
    BY <1>1, <1>2, <1>3, <1>4
    DEF Next, ByServer, ByCommand, Outside, ServerNext, vars

(* Whether x is in a run, when x is a goroutine and when it is a command.  *)
LEMMA InRunOf ==
  /\ \A r \in Slots : InRun(r) <=>
       call[r].op = "reindex" /\ at[r] \in {"build", "ingest", "ensure", "store", "finish"}
  /\ \A k \in Commands : InRun(k) <=> step[k] \in Working \cup {"finish", "gaveup"}
  BY RagSystemAssumption DEF InRun

(* Who goes on keeps the lock or takes it, who ends a run gives it back.   *)
LEMMA LeaseMoves ==
  ASSUME StoreTypeOK, ServerTypeOK, LeaseIsOwned, NEW r \in Slots, Fit(r),
         Advance(r) \/ \E c \in Calls[r] : Begin(r, c)
  PROVE  /\ InRun(r)' <=> lease' = r
         /\ \A x \in Runners \ {r} : lease' = x <=> lease = x
  <1> DEFINE Runs == {"build", "ingest", "ensure", "store", "finish"}
  <1>1. r \in Runners /\ r # Nobody /\ Nobody \notin Runners
    BY QueryServiceAssumption, IndexStoreAssumption
  <1>2. InRun(r) <=> call[r].op = "reindex" /\ at[r] \in Runs
    BY InRunOf
  <1>3. InRun(r)' <=> call'[r].op = "reindex" /\ at'[r] \in Runs
    BY RagSystemAssumption DEF InRun
  <1>4. InRun(r) <=> lease = r
    BY <1>1 DEF LeaseIsOwned
  <1> HIDE DEF Runs
  <1>5. ASSUME lease' = lease, InRun(r)' <=> InRun(r)
        PROVE  /\ InRun(r)' <=> lease' = r
               /\ \A x \in Runners \ {r} : lease' = x <=> lease = x
    BY <1>4, <1>5
  <1> USE DEF ServerTypeOK, Fit, Asks, Answers, Goes, storeVars, locals, Runs
  <1>6. ASSUME NEW c \in Calls[r], Begin(r, c) PROVE lease' = lease /\ (InRun(r)' <=> InRun(r))
    BY <1>2, <1>3, <1>6 DEF Begin, FirstPlace
  <1>7. CASE LoadNothing(r) \/ LoadPointer(r) \/ ReadPage(r) \/ NextScope(r)
    BY <1>2, <1>3, <1>5, <1>7 DEF LoadNothing, LoadPointer, ReadPage, NextScope
  <1>8. CASE Aim(r)
    BY <1>2, <1>3, <1>5, <1>8 DEF Aim
  <1>9. CASE EndList(r) \/ EndCount(r) \/ Query(r) \/ Get(r) \/ Fail(r)
    BY <1>2, <1>3, <1>5, <1>9 DEF EndList, EndCount, Query, Get, Fail, Requesting
  <1>10. CASE StartRefused(r) \/ ReindexFails(r) \/ Renew(r) \/ Reply(r) \/ Probe(r) \/ ProbeFails(r)
    BY <1>2, <1>3, <1>5, <1>10 DEF StartRefused, ReindexFails, Renew, Reply, Probe, ProbeFails, Ensured
  <1>11. CASE AskId(r) \/ Ingest(r)
    BY <1>2, <1>3, <1>5, <1>11 DEF AskId, Ensured, Ingest, Switched
  <1>12. CASE Start(r)
    BY <1>1, <1>3, <1>12 DEF Start, TakeLease
  <1>13. CASE Finish(r)
    BY <1>1, <1>2, <1>3, <1>4, <1>13 DEF Finish, FreeLease
  <1> QED
    BY <1>5, <1>6, <1>7, <1>8, <1>9, <1>10, <1>11, <1>12, <1>13 DEF Advance, Reads, Reindexes

LEMMA LeaseByCommand ==
  ASSUME StoreTypeOK, CommandTypeOK, LeaseIsOwned, NEW k \in Commands,
         Launch(k) \/ Works(k) \/ Deadline(k) \/ Kill(k)
  PROVE  /\ InRun(k)' <=> lease' = k
         /\ \A x \in Runners \ {k} : lease' = x <=> lease = x
         /\ \A x \in Commands \ {k} : step'[x] = step[x]
  <1>1. k \in Runners /\ k # Nobody /\ Nobody \notin Runners
    BY IndexCommandAssumption, IndexStoreAssumption
  <1>2. InRun(k) <=> step[k] \in Working \cup {"finish", "gaveup"}
    BY InRunOf
  <1>3. InRun(k)' <=> step'[k] \in Working \cup {"finish", "gaveup"}
    BY RagSystemAssumption DEF InRun
  <1>4. InRun(k) <=> lease = k
    BY <1>1 DEF LeaseIsOwned
  <1> USE DEF CommandTypeOK, To, Exits, Working, storeVars
  <1>5. CASE Launch(k) \/ RunRefused(k) \/ TimerFires(k) \/ GiveUp(k) \/ Deadline(k)
    BY <1>2, <1>3, <1>4, <1>5 DEF Launch, RunRefused, TimerFires, GiveUp, Deadline
  <1>6. CASE Attempt(k) \/ AttemptFails(k) \/ Succeed(k)
    BY <1>2, <1>3, <1>4, <1>6 DEF Attempt, AttemptFails, Succeed, Ensured, Switched
  <1>7. CASE StartRun(k)
    BY <1>1, <1>3, <1>7 DEF StartRun, TakeLease
  <1>8. CASE EndRun(k)
    BY <1>1, <1>2, <1>3, <1>4, <1>8 DEF EndRun, FreeLease
  <1>9. CASE Kill(k)
    BY <1>1, <1>2, <1>3, <1>4, <1>9 DEF Kill
  <1> QED
    BY <1>5, <1>6, <1>7, <1>8, <1>9 DEF Works

LeaseInv == TypeOK /\ AllFit /\ LeaseIsOwned

LEMMA LeaseStep ==
  ASSUME LeaseInv, [Next]_vars
  PROVE  LeaseInv'
  <1> USE DEF LeaseInv, TypeOK
  <1>1. TypeOK' /\ AllFit'
    BY TypeStep, FitStep
  <1>2. Slots \cap Commands = {} /\ Runners = Slots \cup Commands
    BY RagSystemAssumption
  <1>3. ASSUME NEW r \in Slots, Advance(r) \/ \E c \in Calls[r] : Begin(r, c),
               UNCHANGED commandVars
        PROVE  LeaseIsOwned'
    <2>1. Fit(r)
      BY DEF AllFit
    <2>2. /\ InRun(r)' <=> lease' = r
          /\ \A x \in Runners \ {r} : lease' = x <=> lease = x
      BY <1>3, <2>1, LeaseMoves
    <2>3. \A x \in Slots \ {r} : at'[x] = at[x] /\ call'[x] = call[x]
      BY <1>3, OthersStay DEF Same
    <2>4. step' = step
      BY <1>3 DEF commandVars
    <2>5. \A x \in Runners \ {r} : InRun(x)' <=> InRun(x)
      BY <1>2, <2>3, <2>4 DEF InRun
    <2> QED
      BY <2>2, <2>5 DEF LeaseIsOwned
  <1>4. ASSUME ByServer(Crash) PROVE LeaseIsOwned'
    <2>1. \A r \in Slots : ~InRun(r)'
      BY <1>2, <1>4 DEF ByServer, Crash, Rested, Blank, InRun
    <2>2. \A k \in Commands : InRun(k)' <=> InRun(k)
      BY <1>2, <1>4 DEF ByServer, commandVars, InRun
    <2>3. lease' = IF lease \in Slots THEN Nobody ELSE lease
      BY <1>4 DEF ByServer, Crash
    <2>4. Nobody \notin Runners
      BY IndexStoreAssumption
    <2>5. ASSUME NEW r \in Slots PROVE InRun(r)' <=> lease' = r
      BY <1>2, <2>1, <2>3, <2>4
    <2>6. ASSUME NEW k \in Commands PROVE InRun(k)' <=> lease' = k
      <3>1. k \notin Slots /\ k \in Runners /\ k # Nobody
        BY <1>2, <2>4
      <3>2. lease' = k <=> lease = k
        BY <2>3, <3>1
      <3> QED
        BY <2>2, <3>1, <3>2 DEF LeaseIsOwned
    <2> QED
      BY <1>2, <2>5, <2>6 DEF LeaseIsOwned
  <1>5. ASSUME NEW k \in Commands, Launch(k) \/ Works(k) \/ Deadline(k) \/ Kill(k),
               UNCHANGED serverVars
        PROVE  LeaseIsOwned'
    <2>1. /\ InRun(k)' <=> lease' = k
          /\ \A x \in Runners \ {k} : lease' = x <=> lease = x
          /\ \A x \in Commands \ {k} : step'[x] = step[x]
      BY <1>5, LeaseByCommand
    <2>2. at' = at /\ call' = call
      BY <1>5 DEF serverVars
    <2>3. \A x \in Runners \ {k} : InRun(x)' <=> InRun(x)
      BY <1>2, <2>1, <2>2 DEF InRun
    <2> QED
      BY <2>1, <2>3 DEF LeaseIsOwned
  <1>6. ASSUME UNCHANGED <<lease, at, call, step>> PROVE LeaseIsOwned'
    <2>1. \A x \in Runners : InRun(x)' <=> InRun(x)
      BY <1>6 DEF InRun
    <2> QED
      BY <1>6, <2>1 DEF LeaseIsOwned
  <1>7. ASSUME ByServer(Serve) \/ Outside \/ UNCHANGED vars PROVE LeaseIsOwned'
    <2>1. UNCHANGED <<lease, at, call, step>>
      BY <1>7 DEF ByServer, Serve, Ensured, Outside, LoseCollection, ForeignRun, vars, storeVars,
                  serverVars, commandVars
    <2> QED
      BY <1>6, <2>1
  <1> QED
    BY <1>1, <1>3, <1>4, <1>5, <1>7 DEF Next, ByServer, ByCommand, ServerNext, CommandNext

LEMMA LeaseFirst == Init => LeaseInv
  <1> SUFFICES ASSUME Init PROVE LeaseInv
    OBVIOUS
  <1>1. /\ lease = Nobody /\ Nobody \notin Runners /\ \A r \in Slots : at[r] = "idle"
        /\ \A k \in Commands : step[k] = "ready"
    BY IndexStoreAssumption DEF Init, StoreInit, ServerInit, CommandInit, Blank
  <1>2. AllFit
    BY <1>1 DEF AllFit, Fit
  <1>3. LeaseIsOwned
    BY <1>1 DEF LeaseIsOwned, InRun, Working
  <1> QED
    BY <1>2, <1>3, TypeInit DEF LeaseInv

(* However runs of the server and of commands end, by success, an error, a *)
(* deadline, a crash or a kill, the lock is held by the run that is on and *)
(* by nobody when there is none.                                           *)
THEOREM LeaseIsOwnedAlways == Spec => []LeaseIsOwned
  <1>1. LeaseInv => LeaseIsOwned
    BY DEF LeaseInv
  <1> QED
    BY <1>1, LeaseFirst, LeaseStep, PTL DEF Spec
-----------------------------------------------------------------------------
(* What successes name.                                                    *)

(* The file names the newest generation, or no run's of this collection.   *)
PointerIsNewest == foreign \/ active = newest

(* A reindex that has not failed knows its generation once it has one.     *)
Names(r) ==
  \/ call[r].op # "reindex"
  \/ at[r] \notin {"ensure", "store", "finish", "answered"}
  \/ verdict[r] = "failed" \/ (at[r] = "answered" /\ verdict[r] # "ok")
  \/ gen[r] > 0

CommandNames(k) == step[k] = "finish" \/ exit[k] = "zero" => made[k] > 0

ReportInv ==
  /\ TypeOK /\ AllFit /\ PointerIsNewest
  /\ \A r \in Slots : Names(r)
  /\ \A k \in Commands : CommandNames(k)

LEMMA PointerStep ==
  ASSUME StoreTypeOK, PointerIsNewest, StoreStep \/ LoseCollection \/ ForeignRun
  PROVE  PointerIsNewest'
  <1> USE DEF PointerIsNewest
  <1>1. CASE StoreStep
    BY <1>1 DEF StoreStep, storeVars, Ensured, TakeLease, FreeLease, Switched
  <1>2. CASE LoseCollection \/ ForeignRun
    BY <1>2 DEF LoseCollection, ForeignRun
  <1> QED
    BY <1>1, <1>2

LEMMA NamesMoves ==
  ASSUME StoreTypeOK, ServerTypeOK, NEW r \in Slots, Fit(r), Names(r),
         Advance(r) \/ \E c \in Calls[r] : Begin(r, c)
  PROVE  Names(r)'
  <1> USE DEF ServerTypeOK, Names, Answers, Goes, locals
  <1>1. ASSUME NEW c \in Calls[r], Begin(r, c) PROVE Names(r)'
    <2>1. call'[r] = c
      BY <1>1 DEF Begin
    <2>2. CASE c.op # "reindex"
      BY <2>1, <2>2
    <2>3. CASE c.op = "reindex"
      <3>1. ~Rejected(c) /\ ~Refused(c) /\ ~Pointless(c) /\ FirstPlace(c) = "start"
        BY <2>3 DEF Rejected, Refused, Pointless, FirstPlace
      <3> QED
        BY <1>1, <3>1 DEF Begin
    <2> QED
      BY <2>2, <2>3
  <1>2. CASE Reads(r)
    <2>1. at[r] \in {"load", "aim", "count", "query", "get", "list"} /\ call' = call
      BY <1>2 DEF Reads, LoadNothing, LoadPointer, Aim, ReadPage, NextScope, EndList, EndCount,
                  Query, Get, Fail, Requesting
    <2>2. call'[r].op # "reindex"
      BY <2>1 DEF Fit, Asks
    <2> QED
      BY <2>2
  <1>3. CASE Start(r) \/ StartRefused(r) \/ ReindexFails(r) \/ Renew(r)
    BY <1>3 DEF Start, StartRefused, ReindexFails, Renew
  <1>4. CASE Ingest(r)
    <2>1. newest + 1 > 0
      BY IndexStoreAssumption DEF StoreTypeOK
    <2> QED
      BY <1>4, <2>1 DEF Ingest
  <1>5. CASE Finish(r)
    BY <1>5 DEF Finish
  <1>6. CASE AskId(r) \/ Probe(r) \/ ProbeFails(r) \/ Reply(r)
    BY <1>6 DEF AskId, Probe, ProbeFails, Reply
  <1> QED
    BY <1>1, <1>2, <1>3, <1>4, <1>5, <1>6 DEF Advance, Reindexes

LEMMA CommandNamesMoves ==
  ASSUME StoreTypeOK, CommandTypeOK, NEW k \in Commands, \A x \in Commands : CommandNames(x),
         Launch(k) \/ Works(k) \/ Deadline(k) \/ Kill(k)
  PROVE  \A x \in Commands : CommandNames(x)'
  <1> TAKE x \in Commands
  <1>1. CommandNames(x)
    OBVIOUS
  <1> USE DEF CommandTypeOK, CommandNames, To, Working
  <1>2. ASSUME NEW status \in {"zero", "nonzero"}, Exits(k, status), step[k] = "finish" \/ status = "nonzero"
        PROVE  CommandNames(x)'
    BY <1>1, <1>2 DEF Exits
  <1>3. CASE Launch(k)
    BY <1>1, <1>2, <1>3 DEF Launch
  <1>4. CASE RunRefused(k) \/ Kill(k)
    BY <1>2, <1>4 DEF RunRefused, Kill
  <1>5. CASE EndRun(k)
    BY <1>2, <1>5 DEF EndRun
  <1>6. CASE StartRun(k) \/ Attempt(k) \/ AttemptFails(k) \/ TimerFires(k) \/ GiveUp(k) \/ Deadline(k)
    BY <1>1, <1>6 DEF StartRun, Attempt, AttemptFails, TimerFires, GiveUp, Deadline
  <1>7. CASE Succeed(k)
    <2>1. newest + 1 > 0
      BY IndexStoreAssumption DEF StoreTypeOK
    <2> QED
      BY <1>1, <1>7, <2>1 DEF Succeed
  <1> QED
    BY <1>3, <1>4, <1>5, <1>6, <1>7 DEF Works

LEMMA ReportStep ==
  ASSUME ReportInv, [Next]_vars
  PROVE  ReportInv'
  <1> USE DEF ReportInv, TypeOK
  <1>1. TypeOK' /\ AllFit'
    BY TypeStep, FitStep
  <1>2. PointerIsNewest'
    <2>1. CASE Next
      BY <2>1, PointerStep, ServerType, CommandType DEF Next, ByServer, ByCommand, Outside
    <2>2. CASE UNCHANGED vars
      BY <2>2 DEF vars, storeVars, PointerIsNewest
    <2> QED
      BY <2>1, <2>2
  <1>3. \A r \in Slots : Names(r)'
    <2>1. CASE UNCHANGED serverVars
      BY <2>1 DEF serverVars, locals, Names
    <2>2. ASSUME NEW r \in Slots, Advance(r) \/ \E c \in Calls[r] : Begin(r, c)
          PROVE  \A x \in Slots : Names(x)'
      <3>1. Names(r)'
        BY <2>2, NamesMoves DEF AllFit
      <3>2. ASSUME NEW x \in Slots, x # r PROVE Names(x)'
        <4>1. Same(x) /\ Names(x)
          BY <2>2, <3>2, OthersStay
        <4> QED
          BY <4>1 DEF Same, Names
      <3> QED
        BY <3>1, <3>2
    <2>3. CASE Serve
      BY <2>3 DEF Serve, locals, Names
    <2>4. CASE Crash
      BY <2>4 DEF Crash, Rested, Blank, Names
    <2> QED
      BY <2>1, <2>2, <2>3, <2>4 DEF Next, ByServer, ByCommand, Outside, ServerNext, vars
  <1>4. \A k \in Commands : CommandNames(k)'
    <2>1. CASE UNCHANGED commandVars
      BY <2>1 DEF commandVars, CommandNames
    <2>2. CASE CommandNext
      BY <2>2, CommandNamesMoves DEF CommandNext
    <2> QED
      BY <2>1, <2>2 DEF Next, ByServer, ByCommand, Outside, vars
  <1> QED
    BY <1>1, <1>2, <1>3, <1>4

LEMMA ReportFirst == Init => ReportInv
  <1> SUFFICES ASSUME Init PROVE ReportInv
    OBVIOUS
  <1>1. /\ active = newest /\ \A r \in Slots : at[r] = "idle"
        /\ \A k \in Commands : step[k] = "ready" /\ exit[k] = "none"
    BY DEF Init, StoreInit, ServerInit, CommandInit, Blank
  <1>2. AllFit
    BY <1>1 DEF AllFit, Fit
  <1> QED
    BY <1>1, <1>2, TypeInit DEF ReportInv, PointerIsNewest, Names, CommandNames

(* A reindex that the tool or the command reports as done names a          *)
(* generation that is active or has been replaced since.                   *)
THEOREM ReportsMatchTheIndexAlways == Spec => []ReportsMatchTheIndex
  <1>1. ASSUME ReportInv PROVE ReportsMatchTheIndex
    <2> USE <1>1 DEF ReportInv, TypeOK
    <2>1. ASSUME NEW g \in 0..newest, g > 0 PROVE IsInForce(g)
      BY <2>1, IndexStoreAssumption DEF StoreTypeOK, PointerIsNewest, IsInForce
    <2>2. ASSUME NEW r \in Slots, at[r] = "answered", call[r].op = "reindex", verdict[r] = "ok"
          PROVE  IsInForce(gen[r])
      <3>1. gen[r] \in 0..newest /\ gen[r] > 0
        BY <2>2 DEF ServerTypeOK, Names
      <3> QED
        BY <2>1, <3>1
    <2>3. ASSUME NEW k \in Commands, exit[k] = "zero" PROVE IsInForce(made[k])
      <3>1. made[k] \in 0..newest /\ made[k] > 0
        BY <2>3 DEF CommandTypeOK, CommandNames
      <3> QED
        BY <2>1, <3>1
    <2> QED
      BY <2>2, <2>3 DEF ReportsMatchTheIndex
  <1> QED
    BY <1>1, ReportFirst, ReportStep, PTL DEF Spec
=============================================================================
