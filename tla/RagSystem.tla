----------------------------- MODULE RagSystem ------------------------------
(***************************************************************************)
(* The server and the rag-index command over one store: searches and       *)
(* listings while generations are switched, collections are lost and made  *)
(* again, the server is restarted, and the two compete for the lock.       *)
(***************************************************************************)
EXTENDS QueryService, IndexCommand

ASSUME RagSystemAssumption == Runners = Slots \cup Commands /\ Slots \cap Commands = {}

VARIABLES
  seen,   \* history: the generations that were active during each call
  sound   \* history: whether nothing was amiss during it

history == <<seen, sound>>
vars == <<storeVars, serverVars, commandVars, history>>

TypeOK ==
  /\ StoreTypeOK /\ ServerTypeOK /\ CommandTypeOK
  /\ seen \in [Slots -> SUBSET (0..newest)]
  /\ sound \in [Slots -> BOOLEAN]

Init ==
  /\ StoreInit /\ ServerInit /\ CommandInit
  /\ seen = Blank({}) /\ sound = Blank(TRUE)

(* The server uses the collection there is, and it has the active records. *)
Healthy == cached = current /\ (active # 0 => active \in held)

Asks == {"search", "get_chunk", "list_sources"}
Asking(r) == at[r] # "idle" /\ call[r].op \in Asks

Remember ==
  /\ seen' = [r \in Slots |-> IF Asking(r)' THEN seen[r] \cup {active'} ELSE {}]
  /\ sound' = [r \in Slots |-> Asking(r)' => sound[r] /\ Healthy']

ByServer(A) == A /\ UNCHANGED commandVars /\ Remember
ByCommand(A) == A /\ UNCHANGED serverVars /\ Remember
Outside == (LoseCollection \/ ForeignRun) /\ UNCHANGED <<serverVars, commandVars>> /\ Remember

Next == ByServer(ServerNext) \/ ByCommand(CommandNext) \/ Outside

Spec == Init /\ [][Next]_vars

(* A command goes on, because requests are answered or time out, and its   *)
(* deadline passes.  Nobody has to call, to probe or to start a command.   *)
Fairness ==
  \A k \in Commands : WF_vars(ByCommand(Works(k))) /\ WF_vars(ByCommand(Deadline(k)))

FairSpec == Spec /\ Fairness
-----------------------------------------------------------------------------
Told(r) ==
  /\ Asking(r) /\ at[r] = "answered" /\ verdict[r] = "ok"
  /\ ~Pointless(call[r])

(* What a call is about in a generation: all of it when it is listed, and  *)
(* for a search what it would keep if it looked at every record.           *)
Truth(c, g) ==
  CASE g = 0 -> {}
    [] g # 0 /\ c.op = "search" -> Kept(c, Matching(g, ScopeUsed(c)))
    [] g # 0 /\ c.op = "list_sources" -> Matching(g, ScopeUsed(c))
    [] g # 0 /\ c.op = "get_chunk" -> Holds[g] \cap {c.chunk}

(* The source filter is applied to the candidates, so it may miss chunks   *)
(* that are not among them.                                                *)
MissesSome(c, g) ==
  /\ c.op = "search" /\ Wanted(c) > 0
  /\ \E x \in Holds[g] : SourceOf[x] \notin c.through
  /\ Cardinality(Matching(g, ScopeUsed(c))) > Candidates(Wanted(c))

(* Whatever is switched, lost or restarted during a call that reports no   *)
(* error, its answer is from one generation that was active meanwhile: no  *)
(* mixture, and nothing the search over that generation would not find.    *)
AnswersAreFromOneSnapshot ==
  \A r \in Slots : Told(r) => \E g \in seen[r] : found[r] \subseteq Truth(call[r], g)

(* And it is all of the answer if the collection was neither lost nor its  *)
(* id stale during the call: paging, the limit of candidates and the       *)
(* number of wanted matches leave nothing out.                             *)
SoundAnswersAreComplete ==
  \A r \in Slots : Told(r) /\ sound[r] =>
    \E g \in seen[r] :
      found[r] = Truth(call[r], g) \/ (g # 0 /\ MissesSome(call[r], g))

(* A success, of the tool or of the command (exit code 0), names a         *)
(* generation that is active or was replaced by a newer one, or by a run   *)
(* for another collection.                                                 *)
IsInForce(g) == g # 0 /\ (g <= active \/ foreign)

ReportsMatchTheIndex ==
  /\ \A r \in Slots :
       at[r] = "answered" /\ call[r].op = "reindex" /\ verdict[r] = "ok" => IsInForce(gen[r])
  /\ \A k \in Commands : exit[k] = "zero" => IsInForce(made[k])

(* The lock is held by the run that is on, also while the command waits    *)
(* for its next attempt, and by nobody when there is none: no end of a     *)
(* run, by error, deadline, crash or kill, leaves it behind.               *)
InRun(x) ==
  \/ x \in Slots /\ call[x].op = "reindex"
       /\ at[x] \in {"build", "ingest", "ensure", "store", "finish"}
  \/ x \in Commands /\ step[x] \in Working \cup {"finish", "gaveup"}

LeaseIsOwned == \A x \in Runners : InRun(x) <=> lease = x

(* The command ends, by its deadline at the latest, whatever error its     *)
(* attempts meet.                                                          *)
CommandEnds == \A k \in Commands : step[k] # "ready" ~> step[k] = "exited"

(* A stale collection id does not stay: while readiness checks keep        *)
(* reaching Chroma, the id is right from some time on, although a slow     *)
(* check or reindex may put an old id back over a newer one.               *)
ProbeKeepsId == \E r \in Slots : ByServer(Probe(r))

IdHeals == []<><<ProbeKeepsId>>_vars => <>[](cached = current)
=============================================================================
