----------------------------- MODULE EmbedPool ------------------------------
(***************************************************************************)
(* The worker pool of an index run (indexDocuments of                      *)
(* internal/ingest/ingest.go): a feeder goroutine, a few workers, a        *)
(* goroutine that closes the results, and the caller that collects them.   *)
(*                                                                         *)
(* jobs is an unbuffered channel the feeder closes, results a buffered one *)
(* that is closed when all workers have returned; workCtx is cancelled by  *)
(* a worker that met an error, by the end of the caller's context, and     *)
(* when the caller returns.  What a worker does for one document is        *)
(* IndexBuild.tla; here it succeeds, fails, or gives up because of         *)
(* workCtx.                                                                *)
(***************************************************************************)
EXTENDS Naturals, Sequences

CONSTANTS
  Workers,  \* the goroutines: RAG_EMBED_CONCURRENCY, but not more than documents
  N         \* how many documents there are

ASSUME EmbedPoolAssumption == Workers # {} /\ N \in Nat \ {0}

Docs == 1..N

VARIABLES
  next,        \* the document the feeder offers next
  feeding,     \* FALSE when the feeder has closed jobs and returned
  at,          \* where each worker is
  got,         \* each worker's document and what indexDocument returned for it
  cancelled,   \* whether workCtx is done
  results,     \* the contents of the channel
  closed,      \* whether results is closed
  out,         \* the documents of the results the caller has kept
  firstErr,    \* the caller's firstErr, "ok" for nil
  answer,      \* what indexDocuments returned, "none" before
  parentDone,  \* history: whether the caller's context ended
  failed       \* history: documents that could not be indexed

feedVars == <<next, feeding>>
workerVars == <<at, got>>
callerVars == <<out, firstErr, answer>>
history == <<parentDone, failed>>
vars == <<feedVars, workerVars, cancelled, results, closed, callerVars, history>>

Errors == {"failed", "cancelled"}
Result == [doc : Docs, err : Errors \cup {"ok"}]
Places == {"receive", "index", "cancel", "send", "done"}

Init ==
  /\ next = 1 /\ feeding = TRUE
  /\ at = [w \in Workers |-> "receive"]
  /\ got = [w \in Workers |-> [doc |-> 1, err |-> "ok"]]
  /\ cancelled = FALSE
  /\ results = <<>> /\ closed = FALSE
  /\ out = {} /\ firstErr = "ok" /\ answer = "none"
  /\ parentDone = FALSE /\ failed = {}

Goes(w, from, to) == at[w] = from /\ at' = [at EXCEPT ![w] = to]
-----------------------------------------------------------------------------
(* Mutation: the feeder offers one document too many.                      *)
FeedTooFar(w) ==
  /\ feeding /\ next <= N + 1
  /\ Goes(w, "receive", "index")
  /\ got' = [got EXCEPT ![w].doc = next]
  /\ next' = next + 1
  /\ UNCHANGED <<feeding, cancelled, results, closed, callerVars, history>>

(* jobs <- doc meets a worker that receives.  With workCtx done too,       *)
(* select may take either branch.                                          *)
Feed(w) ==
  /\ feeding /\ next <= N
  /\ Goes(w, "receive", "index")
  /\ got' = [got EXCEPT ![w].doc = next]
  /\ next' = next + 1
  /\ UNCHANGED <<feeding, cancelled, results, closed, callerVars, history>>

(* Mutation: the feeder does not look at workCtx.                          *)
FeederEndsLast ==
  /\ feeding /\ next > N
  /\ feeding' = FALSE
  /\ UNCHANGED <<next, workerVars, cancelled, results, closed, callerVars, history>>

FeederEnds ==
  /\ feeding /\ (next > N \/ cancelled)
  /\ feeding' = FALSE
  /\ UNCHANGED <<next, workerVars, cancelled, results, closed, callerVars, history>>

(* indexDocument returns.  It may fail at any time, but speaks of the      *)
(* context only when workCtx is done.                                      *)
Index(w, err) ==
  /\ err = "cancelled" => cancelled
  /\ Goes(w, "index", IF err = "ok" THEN "send" ELSE "cancel")
  /\ got' = [got EXCEPT ![w].err = err]
  /\ failed' = IF err = "failed" THEN failed \cup {got[w].doc} ELSE failed
  /\ UNCHANGED <<feedVars, cancelled, results, closed, callerVars, parentDone>>

Cancel(w) ==
  /\ Goes(w, "cancel", "send")
  /\ cancelled' = TRUE
  /\ UNCHANGED <<feedVars, got, results, closed, callerVars, history>>

(* Mutation: the worker cancels after every document, error or not.        *)
SendCancelling(w) ==
  /\ Len(results) < N
  /\ Goes(w, "send", IF got[w].err = "ok" THEN "receive" ELSE "done")
  /\ results' = Append(results, got[w])
  /\ cancelled' = TRUE
  /\ UNCHANGED <<feedVars, got, closed, callerVars, history>>

(* The channel has room for as many results as there are documents.  After *)
(* an error the worker returns.                                            *)
Send(w) ==
  /\ Len(results) < N
  /\ Goes(w, "send", IF got[w].err = "ok" THEN "receive" ELSE "done")
  /\ results' = Append(results, got[w])
  /\ UNCHANGED <<feedVars, got, cancelled, closed, callerVars, history>>

(* range jobs ends when the feeder has closed the channel.                 *)
WorkerEnds(w) ==
  /\ ~feeding
  /\ Goes(w, "receive", "done")
  /\ UNCHANGED <<feedVars, got, cancelled, results, closed, callerVars, history>>

Close ==
  /\ ~closed
  /\ \A w \in Workers : at[w] = "done"
  /\ closed' = TRUE
  /\ UNCHANGED <<feedVars, workerVars, cancelled, results, callerVars, history>>
-----------------------------------------------------------------------------
Collect ==
  /\ answer = "none" /\ results # <<>>
  /\ LET item == Head(results)
     IN  /\ out' = IF item.err = "ok" THEN out \cup {item.doc} ELSE out
         /\ firstErr' = IF firstErr = "ok" THEN item.err ELSE firstErr
  /\ results' = Tail(results)
  /\ UNCHANGED <<feedVars, workerVars, cancelled, closed, answer, history>>

(* Mutation: the caller returns at the first error.                        *)
DrainedOrFailed == (closed /\ results = <<>>) \/ firstErr # "ok"

Drained == closed /\ results = <<>>

(* Mutation: the number of results is not compared.                        *)
VerdictUncounted == firstErr

(* The first error wins; without one, documents are missing because the    *)
(* feeder stopped early.                                                   *)
Verdict ==
  CASE firstErr # "ok" -> firstErr
    [] firstErr = "ok" /\ out = Docs -> "ok"
    [] firstErr = "ok" /\ out # Docs -> IF cancelled THEN "cancelled" ELSE "mismatch"

Return ==
  /\ answer = "none" /\ Drained
  /\ answer' = Verdict
  /\ cancelled' = TRUE
  /\ UNCHANGED <<feedVars, workerVars, results, closed, out, firstErr, history>>

(* The deadline passes, or the client goes away.                           *)
ParentEnds ==
  /\ ~parentDone
  /\ parentDone' = TRUE /\ cancelled' = TRUE
  /\ UNCHANGED <<feedVars, workerVars, results, closed, callerVars, failed>>
-----------------------------------------------------------------------------
WorkerStep(w) ==
  \/ Feed(w) \/ Cancel(w) \/ Send(w) \/ WorkerEnds(w)
  \/ \E err \in Errors \cup {"ok"} : Index(w, err)

Next ==
  \/ \E w \in Workers : WorkerStep(w)
  \/ FeederEnds \/ Close \/ Collect \/ Return \/ ParentEnds

Spec == Init /\ [][Next]_vars

(* Every goroutine that can go on does; indexDocument returns because its  *)
(* requests have timeouts.  The caller's context need not end.             *)
FairSpec ==
  /\ Spec
  /\ \A w \in Workers : WF_vars(WorkerStep(w))
  /\ WF_vars(FeederEnds) /\ WF_vars(Close) /\ WF_vars(Collect \/ Return)
-----------------------------------------------------------------------------
TypeOK ==
  /\ next \in 1..N + 1 /\ feeding \in BOOLEAN
  /\ at \in [Workers -> Places]
  /\ got \in [Workers -> Result]
  /\ cancelled \in BOOLEAN
  /\ results \in Seq(Result) /\ closed \in BOOLEAN
  /\ out \subseteq Docs
  /\ firstErr \in Errors \cup {"ok"}
  /\ answer \in Errors \cup {"none", "ok", "mismatch"}
  /\ parentDone \in BOOLEAN /\ failed \subseteq Docs

(* Once indexDocuments has returned, with whatever answer, no worker       *)
(* touches the draft any more: the coordinator may release the lock.       *)
NoWorkAfterReturn ==
  answer # "none" => \A w \in Workers : at[w] = "done"

(* indexDocuments returns no error exactly when it has a result for every  *)
(* document, so an incomplete draft is never activated and a complete one  *)
(* never given up; the error about a wrong number of documents is dead     *)
(* code.                                                                   *)
SuccessIsComplete ==
  answer # "none" => (answer = "ok" <=> out = Docs) /\ answer # "mismatch"

(* An error is not made up: that of a document is returned only when a     *)
(* document failed, that of the context only when the caller's context     *)
(* ended or some document failed.                                          *)
FailureHasACause ==
  /\ answer = "failed" => failed # {}
  /\ answer = "cancelled" => parentDone \/ failed # {}

(* All goroutines come to their end, none is left waiting on a channel.    *)
AllEnd ==
  <>(answer # "none" /\ ~feeding /\ closed /\ \A w \in Workers : at[w] = "done")
=============================================================================
