---------------------------- MODULE QueryService ----------------------------
(***************************************************************************)
(* The server (cmd/rag-mcp, internal/rag): MCP tool calls, requests of the *)
(* web interface and readiness probes, each on a goroutine of its own,     *)
(* over the shared store.  A call goes from place to place (at), and every *)
(* request to Chroma is a step of its own, so that anything may happen     *)
(* between two of them.                                                    *)
(*                                                                         *)
(* The chunks of a generation are numbers: a smaller one is nearer to the  *)
(* query.  A source filter is the set of sources it lets through.          *)
(***************************************************************************)
EXTENDS IndexStore, Integers, Sequences

CONSTANTS
  Slots,            \* goroutines that handle calls
  Calls,            \* the calls each of them may get
  Holds,            \* the chunks of each generation
  ScopeOf,          \* a chunk's scope, "docs" or "code"
  SourceOf,         \* a chunk's source path
  DefaultScope,     \* RAG_SCOPE_DEFAULT
  MaxTopK,          \* RAG_MAX_TOP_K
  DefaultTopK,      \* defaultMCPTopK
  Near,             \* RAG_MAX_SEARCH_DISTANCE
  Farthest,         \* the largest distance a call may ask for
  Widening,         \* candidates per wanted match: 8 in the code
  FewCandidates,    \* candidates in any case: 20 in the code
  PageSize          \* records per page: 500 in the code

Chunks == DOMAIN ScopeOf
Scopes == {"all", "docs", "code"}

(* A call.  topK and dist are 0 when they are not given, chunk is 0 for a  *)
(* blank id; through is the set of sources the filter lets through.        *)
Call == [via : {"mcp", "ui"},
         op : {"search", "get_chunk", "list_sources", "reindex", "readyz"},
         text : {"words", "blank", "nonsense"}, topK : Int, dist : Nat,
         scope : Scopes \cup {"", "other"}, through : SUBSET STRING, chunk : Nat]

ASSUME QueryServiceAssumption ==
  /\ Slots \subseteq Runners
  /\ Calls \in [Slots -> (SUBSET Call) \ {{}}]
  /\ Chunks \subseteq Nat \ {0} /\ IsFiniteSet(Chunks)
  /\ ScopeOf \in [Chunks -> {"docs", "code"}] /\ SourceOf \in [Chunks -> STRING]
  /\ Holds \in [1..MaxGen -> SUBSET Chunks]
  /\ DefaultScope \in Scopes
  /\ {MaxTopK, DefaultTopK, Near, Farthest, Widening, FewCandidates, PageSize} \subseteq Nat \ {0}

VARIABLES
  serving,   \* FALSE while NewService tries to reach Chroma
  cached,    \* Service.collectionID, 0 before NewService
  at,        \* where each goroutine is
  call,      \* the call it handles
  gen,       \* the generation it read, or the one its reindex activated
  col,       \* the collection id it uses
  limit,     \* how many candidates a search asks for, 0 before it knows
  found,     \* chunks counted, listed or matched so far
  todo,      \* the scopes still to page through
  verdict    \* what the call reports

serviceVars == <<serving, cached>>
locals == <<gen, col, limit, found, todo>>
serverVars == <<serviceVars, at, call, locals, verdict>>

Requesting == {"load", "count", "query", "get", "list"}
Places == Requesting \cup
  {"idle", "aim", "start", "build", "ingest", "ensure", "store", "finish", "answered"}
Verdicts == {"none", "ok", "failed", "rejected", "blocked"}

ServerTypeOK ==
  /\ serving \in BOOLEAN /\ cached \in 0..lastId
  /\ at \in [Slots -> Places]
  /\ call \in [Slots -> Call] /\ \A r \in Slots : call[r] \in Calls[r]
  /\ gen \in [Slots -> 0..newest]
  /\ col \in [Slots -> 0..lastId]
  /\ limit \in [Slots -> Nat]
  /\ found \in [Slots -> SUBSET Chunks]
  /\ todo \in [Slots -> Seq(Scopes)]
  /\ verdict \in [Slots -> Verdicts]

Blank(value) == [r \in Slots |-> value]

(* A goroutine without a call counts as having any one.                    *)
NoCall == [r \in Slots |-> CHOOSE c \in Calls[r] : TRUE]

Rested ==
  /\ at' = Blank("idle") /\ call' = NoCall /\ gen' = Blank(0) /\ col' = Blank(0) /\ limit' = Blank(0)
  /\ found' = Blank({}) /\ todo' = Blank(<<>>) /\ verdict' = Blank("none")

ServerInit ==
  /\ serving = FALSE /\ cached = 0
  /\ at = Blank("idle") /\ call = NoCall
  /\ gen = Blank(0) /\ col = Blank(0) /\ limit = Blank(0)
  /\ found = Blank({}) /\ todo = Blank(<<>>) /\ verdict = Blank("none")
-----------------------------------------------------------------------------
(* What a call asks for.                                                   *)

(* The web interface takes a missing scope for all, an MCP tool for the    *)
(* default.  Anything else an MCP tool is given counts as all.             *)
ScopeUsed(c) ==
  CASE c.scope \in Scopes -> c.scope
    [] c.scope = "" /\ c.via = "mcp" -> DefaultScope
    [] OTHER -> "all"

(* 0 is no limit: only the web interface gets that far without one.        *)
Wanted(c) ==
  LET k == IF c.via = "mcp" /\ c.topK <= 0 THEN DefaultTopK ELSE c.topK
  IN  IF k > MaxTopK THEN MaxTopK ELSE k

Threshold(c) == IF c.dist = 0 THEN Near ELSE c.dist

Candidates(k) ==
  LET most == IF MaxTopK > FewCandidates THEN MaxTopK ELSE FewCandidates
  IN  IF k * Widening < most THEN k * Widening ELSE most

(* HTTP 400: checked by the handlers of the web interface alone.           *)
Rejected(c) ==
  /\ c.via = "ui"
  /\ \/ c.op = "search" /\ (c.text = "blank" \/ c.topK < 0 \/ c.dist > Farthest)
     \/ c.op = "get_chunk" /\ c.chunk = 0
     \/ c.op \in {"search", "list_sources"} /\ c.scope = "other"

(* Arguments the service itself answers with an error.                     *)
Refused(c) ==
  \/ c.op = "search" /\ c.dist > Farthest
  \/ c.op = "get_chunk" /\ c.chunk = 0

Pointless(c) == c.op = "search" /\ c.text # "words"
-----------------------------------------------------------------------------
(* What Chroma answers.                                                    *)
InScope(x, s) == s = "all" \/ ScopeOf[x] = s

Matching(g, s) == {x \in Holds[g] : InScope(x, s)}

Nearest(S, n) == {x \in S : Cardinality({y \in S : y < x}) < n}

(* The records of a generation, none when the collection was made anew.    *)
Stored(g, s) == IF g \in held THEN Matching(g, s) ELSE {}

(* Mutation: the offset counts the records of the scopes before.           *)
PageBeyond(r) ==
  LET s == Head(todo[r])
      past == Cardinality(found[r])
      S == Stored(gen[r], s)
  IN  IF col[r] = current
      THEN {x \in S : Cardinality({y \in S : y < x}) \in past..(past + PageSize - 1)}
      ELSE {}

(* Mutation: each page is read from the generation active by now.          *)
PageOfToday(r) ==
  LET s == Head(todo[r])
      past == Cardinality({x \in found[r] : InScope(x, s)})
      S == Stored(active, s)
  IN  IF col[r] = current
      THEN {x \in S : Cardinality({y \in S : y < x}) \in past..(past + PageSize - 1)}
      ELSE {}

(* The next page of records.  A 404 is taken for an empty page.            *)
Page(r) ==
  LET s == Head(todo[r])
      past == Cardinality({x \in found[r] : InScope(x, s)})
      S == Stored(gen[r], s)
  IN  IF col[r] = current
      THEN {x \in S : Cardinality({y \in S : y < x}) \in past..(past + PageSize - 1)}
      ELSE {}

(* What SearchWithOptions keeps of the candidates.                         *)
Kept(c, S) ==
  LET good == {x \in S : SourceOf[x] \in c.through /\ InScope(x, ScopeUsed(c))
                           /\ x <= Threshold(c)}
  IN  IF Wanted(c) = 0 THEN good ELSE Nearest(good, Wanted(c))
-----------------------------------------------------------------------------
Goes(r, from, to) == at[r] = from /\ at' = [at EXCEPT ![r] = to]

Answers(r, v, S) ==
  /\ at' = [at EXCEPT ![r] = "answered"]
  /\ verdict' = [verdict EXCEPT ![r] = v]
  /\ found' = [found EXCEPT ![r] = S]

FirstPlace(c) ==
  CASE c.op = "reindex" -> "start"
    [] c.op = "readyz" -> "ensure"
    [] OTHER -> "load"

Begin(r, c) ==
  /\ serving /\ at[r] = "idle"
  /\ call' = [call EXCEPT ![r] = c]
  /\ \/ Rejected(c) /\ Answers(r, "rejected", {})
     \/ ~Rejected(c) /\ Refused(c) /\ Answers(r, "failed", {})
     \/ ~Rejected(c) /\ ~Refused(c) /\ Pointless(c) /\ Answers(r, "ok", {})
     \/ /\ ~Rejected(c) /\ ~Refused(c) /\ ~Pointless(c)
        /\ at' = [at EXCEPT ![r] = FirstPlace(c)]
        /\ UNCHANGED <<verdict, found>>
  /\ UNCHANGED <<storeVars, serviceVars, gen, col, limit, todo>>

(* activeGeneration, and for a search the embedding of the query.          *)
LoadNothing(r) ==
  /\ at[r] = "load" /\ active = 0
  /\ Answers(r, "ok", {})
  /\ UNCHANGED <<storeVars, serviceVars, call, gen, col, limit, todo>>

ScopesToPage(c) ==
  CASE c.op = "search" -> <<ScopeUsed(c)>>
    [] c.op = "list_sources" /\ ScopeUsed(c) = "all" -> <<"docs", "code">>
    [] c.op = "list_sources" /\ ScopeUsed(c) # "all" -> <<ScopeUsed(c)>>
    [] OTHER -> <<>>

LoadPointer(r) ==
  /\ active # 0
  /\ Goes(r, "load", "aim")
  /\ gen' = [gen EXCEPT ![r] = active]
  /\ limit' = [limit EXCEPT ![r] =
       IF call[r].op = "search" /\ Wanted(call[r]) > 0 THEN Candidates(Wanted(call[r])) ELSE 0]
  /\ todo' = [todo EXCEPT ![r] = ScopesToPage(call[r])]
  /\ UNCHANGED <<storeVars, serviceVars, call, col, found, verdict>>

(* getCollectionID, evaluated before the request that uses the id.         *)
Target(r) ==
  CASE call[r].op = "get_chunk" -> "get"
    [] call[r].op = "list_sources" -> "list"
    [] call[r].op = "search" /\ limit[r] = 0 -> "count"
    [] OTHER -> "query"

Aim(r) ==
  /\ Goes(r, "aim", Target(r))
  /\ col' = [col EXCEPT ![r] = cached]
  /\ UNCHANGED <<storeVars, serviceVars, call, gen, limit, found, todo, verdict>>

ReadPage(r) ==
  /\ at[r] \in {"count", "list"} /\ Page(r) # {}
  /\ found' = [found EXCEPT ![r] = @ \cup Page(r)]
  /\ UNCHANGED <<storeVars, serviceVars, at, call, gen, col, limit, todo, verdict>>

NextScope(r) ==
  /\ at[r] = "list" /\ Len(todo[r]) > 1 /\ Page(r) = {}
  /\ todo' = [todo EXCEPT ![r] = Tail(@)]
  /\ UNCHANGED <<storeVars, serviceVars, at, call, gen, col, limit, found, verdict>>

EndList(r) ==
  /\ at[r] = "list" /\ Len(todo[r]) = 1 /\ Page(r) = {}
  /\ Answers(r, "ok", found[r])
  /\ UNCHANGED <<storeVars, serviceVars, call, gen, col, limit, todo>>

(* CountRecords has the number; a search over nothing ends here.           *)
EndCount(r) ==
  /\ at[r] = "count" /\ Page(r) = {}
  /\ \/ found[r] = {} /\ Answers(r, "ok", {}) /\ UNCHANGED limit
     \/ /\ found[r] # {}
        /\ at' = [at EXCEPT ![r] = "aim"]
        /\ limit' = [limit EXCEPT ![r] = Cardinality(found[r])]
        /\ found' = [found EXCEPT ![r] = {}]
        /\ UNCHANGED verdict
  /\ UNCHANGED <<storeVars, serviceVars, call, gen, col, todo>>

(* Query, unlike the pages, takes a 404 for an error (Fail).               *)
Query(r) ==
  /\ at[r] = "query" /\ col[r] = current
  /\ Answers(r, "ok", Kept(call[r],
       Nearest(Stored(gen[r], ScopeUsed(call[r])), limit[r])))
  /\ UNCHANGED <<storeVars, serviceVars, call, gen, col, limit, todo>>

Get(r) ==
  /\ at[r] = "get"
  /\ Answers(r, "ok", IF col[r] = current
                      THEN Stored(gen[r], "all") \cap {call[r].chunk} ELSE {})
  /\ UNCHANGED <<storeVars, serviceVars, call, gen, col, limit, todo>>

(* The file cannot be read, the query cannot be embedded, or a request to  *)
(* Chroma fails.                                                           *)
Fail(r) ==
  /\ at[r] \in Requesting
  /\ Answers(r, "failed", {})
  /\ UNCHANGED <<storeVars, serviceVars, call, gen, col, limit, todo>>
-----------------------------------------------------------------------------
(* RunReindex.                                                             *)
Start(r) ==
  /\ Goes(r, "start", "build")
  /\ TakeLease(r)
  /\ UNCHANGED <<serviceVars, call, locals, verdict>>

(* Refused because of a run, or because of a status check that holds the   *)
(* lock for a moment; or a file operation failed.                          *)
StartRefused(r) ==
  /\ at[r] = "start"
  /\ \E v \in {"blocked", "failed"} : Answers(r, v, {})
  /\ UNCHANGED <<storeVars, serviceVars, call, gen, col, limit, todo>>

(* EnsureCollection: at the start of an ingest, after it, and in a probe.  *)
AskId(r) ==
  /\ Goes(r, "build", "ingest") \/ Goes(r, "ensure", "store")
  /\ col' = [col EXCEPT ![r] = EnsuredId]
  /\ Ensured
  /\ UNCHANGED <<serviceVars, call, gen, limit, found, todo, verdict>>

Ingest(r) ==
  /\ Goes(r, "ingest", "ensure")
  /\ gen' = [gen EXCEPT ![r] = newest + 1]
  /\ Switched(col[r])
  /\ UNCHANGED <<serviceVars, call, col, limit, found, todo, verdict>>

(* An ingest that fails, and an EnsureCollection that fails before or      *)
(* after it; Chroma may have done what it did not confirm.                 *)
ReindexFails(r) ==
  /\ call[r].op = "reindex"
  /\ at[r] \in {"build", "ingest", "ensure"}
  /\ at' = [at EXCEPT ![r] = "finish"]
  /\ verdict' = [verdict EXCEPT ![r] = "failed"]
  /\ UNCHANGED storeVars \/ (at[r] # "ingest" /\ Ensured)
  /\ UNCHANGED <<serviceVars, call, locals>>

(* setCollectionID after a reindex.                                        *)
Renew(r) ==
  /\ call[r].op = "reindex" /\ Goes(r, "store", "finish")
  /\ cached' = col[r]
  /\ UNCHANGED <<storeVars, serving, call, locals, verdict>>

(* Finish: the end is recorded or not, the lock is dropped in any case.    *)
Finish(r) ==
  /\ at[r] = "finish"
  /\ \E v \in {"ok", "failed"} :
       /\ verdict[r] = "failed" => v = "failed"
       /\ Answers(r, v, {})
  /\ FreeLease
  /\ UNCHANGED <<serviceVars, call, gen, col, limit, todo>>
-----------------------------------------------------------------------------
(* Mutation: a readiness check keeps the id only when there is none yet.   *)
ProbeTimid(r) ==
  /\ call[r].op = "readyz" /\ at[r] = "store"
  /\ cached' = IF cached = 0 THEN col[r] ELSE cached
  /\ \E v \in {"ok", "failed"} : Answers(r, v, {})
  /\ UNCHANGED <<storeVars, serving, call, gen, col, limit, todo>>

(* CheckReadiness: checkChroma keeps the id, then checkOllama decides.     *)
Probe(r) ==
  /\ call[r].op = "readyz" /\ at[r] = "store"
  /\ cached' = col[r]
  /\ \E v \in {"ok", "failed"} : Answers(r, v, {})
  /\ UNCHANGED <<storeVars, serving, call, gen, col, limit, todo>>

ProbeFails(r) ==
  /\ call[r].op = "readyz" /\ at[r] = "ensure"
  /\ Answers(r, "failed", {})
  /\ UNCHANGED storeVars \/ Ensured
  /\ UNCHANGED <<serviceVars, call, gen, col, limit, todo>>

Reply(r) ==
  /\ Goes(r, "answered", "idle")
  /\ gen' = [gen EXCEPT ![r] = 0] /\ col' = [col EXCEPT ![r] = 0]
  /\ limit' = [limit EXCEPT ![r] = 0] /\ found' = [found EXCEPT ![r] = {}]
  /\ todo' = [todo EXCEPT ![r] = <<>>] /\ verdict' = [verdict EXCEPT ![r] = "none"]
  /\ call' = [call EXCEPT ![r] = NoCall[r]]
  /\ UNCHANGED <<storeVars, serviceVars>>
-----------------------------------------------------------------------------
(* NewService.  When it gives up, the container starts it again.           *)
Serve ==
  /\ ~serving /\ serving' = TRUE
  /\ cached' = EnsuredId
  /\ Ensured
  /\ UNCHANGED <<at, call, locals, verdict>>

Crash ==
  /\ serving /\ serving' = FALSE /\ cached' = 0
  /\ Mishap
  /\ Rested
  /\ lease' = IF lease \in Slots THEN Nobody ELSE lease
  /\ UNCHANGED <<active, newest, current, lastId, held, foreign>>

Reads(r) ==
  \/ LoadNothing(r) \/ LoadPointer(r) \/ Aim(r)
  \/ ReadPage(r) \/ NextScope(r) \/ EndList(r) \/ EndCount(r)
  \/ Query(r) \/ Get(r) \/ Fail(r)

Reindexes(r) ==
  \/ Start(r) \/ StartRefused(r) \/ Ingest(r) \/ ReindexFails(r)
  \/ Renew(r) \/ Finish(r)

(* What a goroutine does once it has a call.                               *)
Advance(r) ==
  \/ Reads(r) \/ Reindexes(r) \/ AskId(r) \/ Probe(r) \/ ProbeFails(r) \/ Reply(r)

ServerNext ==
  \/ \E r \in Slots : Advance(r) \/ \E c \in Calls[r] : Begin(r, c)
  \/ Serve \/ Crash
=============================================================================
