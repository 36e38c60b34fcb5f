-------------------------- MODULE EmbedPoolProofs ---------------------------
(***************************************************************************)
(* Proofs about EmbedPool, for any workers and any number of documents.    *)
(*                                                                         *)
(* The verdict of indexDocuments is right because every document that was  *)
(* fed is in one place at a time: with a worker, in the channel, in the    *)
(* caller's list, or lost to an error the caller has seen.                 *)
(***************************************************************************)
EXTENDS EmbedPool, TLAPS

Holds(w, d) == at[w] \in {"index", "cancel", "send"} /\ got[w].doc = d

Queued(d) == \E i \in 1..Len(results) : results[i].doc = d

(* The results are closed after the last worker, the caller answers after  *)
(* the last result.                                                        *)
EndInv ==
  /\ closed => \A w \in Workers : at[w] = "done"
  /\ answer # "none" => Drained

(* The feeder stops early, and a worker is gone before the feeder, only    *)
(* when the work is cancelled.                                             *)
StopInv ==
  /\ feeding \/ next > N \/ cancelled
  /\ \A w \in Workers :
       /\ at[w] = "done" => ~feeding \/ cancelled
       /\ at[w] = "send" /\ got[w].err # "ok" => cancelled

(* A document that was fed does not get lost unseen ...                    *)
CoverInv ==
  firstErr = "ok" =>
    \A d \in 1..next - 1 : d \in out \/ Queued(d) \/ \E w \in Workers : Holds(w, d)

(* ... and is in one place only,                                           *)
OnceInv ==
  /\ \A d \in out : d < next
  /\ \A w \in Workers, d \in Docs :
       Holds(w, d) => /\ d < next /\ d \notin out /\ ~Queued(d)
                      /\ \A v \in Workers : Holds(v, d) => v = w
  /\ \A i, j \in 1..Len(results) : results[i].doc = results[j].doc => i = j
  /\ \A d \in Docs : Queued(d) => d < next /\ d \notin out

(* so that an error the caller has seen is a document it will not get.     *)
LostInv ==
  firstErr # "ok" =>
    \E d \in 1..next - 1 :
      d \notin out /\ ~Queued(d) /\ \A w \in Workers : ~Holds(w, d)

PlaceInv == CoverInv /\ OnceInv /\ LostInv

IInv == TypeOK /\ EndInv /\ StopInv /\ PlaceInv /\ SuccessIsComplete
-----------------------------------------------------------------------------
(* Append keeps the elements and adds one at the end.                      *)
LEMMA AppendFacts ==
  ASSUME NEW S, NEW q \in Seq(S), NEW x \in S
  PROVE  /\ Append(q, x) \in Seq(S) /\ Len(q) \in Nat
         /\ Len(Append(q, x)) = Len(q) + 1
         /\ \A i \in 1..Len(q) : Append(q, x)[i] = q[i]
         /\ Append(q, x)[Len(q) + 1] = x
  OBVIOUS

(* Head takes the first element, Tail moves the others down by one.        *)
LEMMA TailFacts ==
  ASSUME NEW S, NEW q \in Seq(S), q # <<>>
  PROVE  /\ Tail(q) \in Seq(S) /\ Len(q) \in Nat /\ Len(q) >= 1
         /\ Len(Tail(q)) = Len(q) - 1
         /\ \A i \in 1..Len(q) - 1 : Tail(q)[i] = q[i + 1]
         /\ Head(q) = q[1] /\ q[1] \in S
  OBVIOUS

LEMMA TypeInit == Init => TypeOK
<1>1. [doc |-> 1, err |-> "ok"] \in Result
  BY EmbedPoolAssumption DEF Result, Docs
<1>2. <<>> \in Seq(Result)
  OBVIOUS
<1>3. Init => got \in [Workers -> Result] /\ at \in [Workers -> Places]
  BY <1>1 DEF Init, Places
<1>4. Init => next \in 1..N + 1
  BY EmbedPoolAssumption DEF Init
<1> QED
  BY <1>2, <1>3, <1>4 DEF Init, TypeOK, Errors

LEMMA TypeStep == TypeOK /\ [Next]_vars => TypeOK'
<1> SUFFICES ASSUME TypeOK, [Next]_vars PROVE TypeOK'
  OBVIOUS
<1> USE EmbedPoolAssumption DEF TypeOK, Docs, Errors, Places
<1>1. ASSUME NEW w \in Workers, Feed(w) PROVE TypeOK'
  <2>1. next \in Docs /\ got[w] \in Result
    BY <1>1 DEF Feed
  <2>2. [got[w] EXCEPT !.doc = next] \in Result
    BY <2>1 DEF Result
  <2>3. got' \in [Workers -> Result]
    BY <1>1, <2>2 DEF Feed
  <2> QED
    BY <1>1, <2>3 DEF Feed, Goes, callerVars, history
<1>2. ASSUME NEW w \in Workers, Cancel(w) PROVE TypeOK'
  BY <1>2 DEF Cancel, Goes, feedVars, callerVars, history
<1>3. ASSUME NEW w \in Workers, Send(w) PROVE TypeOK'
  <2>1. Append(results, got[w]) \in Seq(Result)
    BY AppendFacts
  <2> QED
    BY <1>3, <2>1 DEF Send, Goes, feedVars, callerVars, history
<1>4. ASSUME NEW w \in Workers, WorkerEnds(w) PROVE TypeOK'
  BY <1>4 DEF WorkerEnds, Goes, feedVars, callerVars, history
<1>5. ASSUME NEW w \in Workers, NEW err \in Errors \cup {"ok"}, Index(w, err)
      PROVE TypeOK'
  <2>1. got' \in [Workers -> Result]
    BY <1>5 DEF Index, Result
  <2>2. got[w].doc \in Docs
    BY DEF Result
  <2> QED
    BY <1>5, <2>1, <2>2 DEF Index, Goes, feedVars, callerVars
<1>6. CASE FeederEnds
  BY <1>6 DEF FeederEnds, workerVars, callerVars, history
<1>7. CASE Close
  BY <1>7 DEF Close, feedVars, workerVars, callerVars, history
<1>8. CASE Collect
  <2>1. Head(results) \in Result /\ Tail(results) \in Seq(Result)
    BY <1>8, TailFacts DEF Collect
  <2>2. Head(results).doc \in Docs /\ Head(results).err \in Errors \cup {"ok"}
    BY <2>1 DEF Result
  <2> QED
    BY <1>8, <2>1, <2>2 DEF Collect, feedVars, workerVars, history
<1>9. CASE Return
  BY <1>9 DEF Return, Verdict, feedVars, workerVars, history
<1>10. CASE ParentEnds
  BY <1>10 DEF ParentEnds, feedVars, workerVars, callerVars
<1>11. CASE UNCHANGED vars
  BY <1>11 DEF vars, feedVars, workerVars, callerVars, history
<1> QED
  BY <1>1, <1>2, <1>3, <1>4, <1>5, <1>6, <1>7, <1>8, <1>9, <1>10, <1>11
  DEF Next, WorkerStep

(* The type is an invariant of its own.                                    *)
THEOREM TypeCorrect == Spec => []TypeOK
  BY TypeInit, TypeStep, PTL DEF Spec
-----------------------------------------------------------------------------
LEMMA InvInit == Init => IInv
<1> SUFFICES ASSUME Init PROVE IInv
  OBVIOUS
<1>1. TypeOK
  BY TypeInit
<1>2. EndInv /\ StopInv /\ SuccessIsComplete
  BY DEF Init, EndInv, StopInv, SuccessIsComplete
<1>3. Len(results) = 0 /\ next = 1 /\ out = {} /\ firstErr = "ok"
  BY DEF Init
<1>4. PlaceInv
  BY <1>3 DEF Init, PlaceInv, CoverInv, OnceInv, LostInv, Holds, Queued
<1> QED
  BY <1>1, <1>2, <1>4 DEF IInv

LEMMA EndStep == TypeOK /\ EndInv /\ [Next]_vars => EndInv'
<1> SUFFICES ASSUME TypeOK, EndInv, [Next]_vars PROVE EndInv'
  OBVIOUS
<1> USE DEF EndInv, Drained
<1>1. ASSUME NEW w \in Workers, at[w] # "done",
             UNCHANGED <<closed, callerVars>>, [Next]_vars
      PROVE  EndInv'
  BY <1>1 DEF callerVars
<1>2. ASSUME NEW w \in Workers, WorkerStep(w) PROVE EndInv'
  BY <1>1, <1>2 DEF WorkerStep, Feed, Cancel, Send, WorkerEnds, Index, Goes
<1>3. CASE FeederEnds
  BY <1>3 DEF FeederEnds, workerVars, callerVars
<1>4. CASE Close
  BY <1>4 DEF Close, workerVars, callerVars
<1>5. CASE Collect
  BY <1>5 DEF Collect, workerVars
<1>6. CASE Return
  BY <1>6 DEF Return, workerVars
<1>7. CASE ParentEnds
  BY <1>7 DEF ParentEnds, workerVars, callerVars
<1>8. CASE UNCHANGED vars
  BY <1>8 DEF vars, workerVars, callerVars
<1> QED
  BY <1>2, <1>3, <1>4, <1>5, <1>6, <1>7, <1>8 DEF Next

LEMMA StopStep == TypeOK /\ StopInv /\ [Next]_vars => StopInv'
<1> SUFFICES ASSUME TypeOK, StopInv, [Next]_vars PROVE StopInv'
  OBVIOUS
<1> USE DEF TypeOK, StopInv
<1>1. ASSUME NEW w \in Workers, Feed(w) PROVE StopInv'
  BY <1>1 DEF Feed, Goes
<1>2. ASSUME NEW w \in Workers, Cancel(w) PROVE StopInv'
  BY <1>2 DEF Cancel, Goes
<1>3. ASSUME NEW w \in Workers, Send(w) PROVE StopInv'
  BY <1>3 DEF Send, Goes, feedVars
<1>4. ASSUME NEW w \in Workers, WorkerEnds(w) PROVE StopInv'
  BY <1>4 DEF WorkerEnds, Goes, feedVars
<1>5. ASSUME NEW w \in Workers, NEW err \in Errors \cup {"ok"}, Index(w, err)
      PROVE  StopInv'
  <2>1. got'[w].err = err
    BY <1>5 DEF Index, Result
  <2>2. \A v \in Workers \ {w} : at'[v] = at[v] /\ got'[v] = got[v]
    BY <1>5 DEF Index, Goes
  <2>3. at'[w] = IF err = "ok" THEN "send" ELSE "cancel"
    BY <1>5 DEF Index, Goes
  <2> QED
    BY <1>5, <2>1, <2>2, <2>3 DEF Index, feedVars
<1>6. CASE FeederEnds
  BY <1>6 DEF FeederEnds, workerVars
<1>7. CASE Close
  BY <1>7 DEF Close, feedVars, workerVars
<1>8. CASE Collect
  BY <1>8 DEF Collect, feedVars, workerVars
<1>9. CASE Return
  BY <1>9 DEF Return, feedVars, workerVars
<1>10. CASE ParentEnds
  BY <1>10 DEF ParentEnds, feedVars, workerVars
<1>11. CASE UNCHANGED vars
  BY <1>11 DEF vars, feedVars, workerVars
<1> QED
  BY <1>1, <1>2, <1>3, <1>4, <1>5, <1>6, <1>7, <1>8, <1>9, <1>10, <1>11
  DEF Next, WorkerStep
-----------------------------------------------------------------------------
(* Documents stay in their places in steps that move none.                 *)
LEMMA PlaceSame ==
  ASSUME PlaceInv, UNCHANGED <<next, out, firstErr, results>>,
         \A w \in Workers, d \in Nat : Holds(w, d)' <=> Holds(w, d), TypeOK
  PROVE  PlaceInv'
<1>1. \A d \in Nat : Queued(d)' <=> Queued(d)
  BY DEF Queued
<1>2. Docs \subseteq Nat /\ 1..next - 1 \subseteq Nat
  BY EmbedPoolAssumption DEF Docs, TypeOK
<1>3. CoverInv'
  BY <1>1, <1>2 DEF PlaceInv, CoverInv
<1>4. OnceInv'
  BY <1>1, <1>2 DEF PlaceInv, OnceInv
<1>5. LostInv'
  BY <1>1, <1>2 DEF PlaceInv, LostInv
<1> QED
  BY <1>3, <1>4, <1>5 DEF PlaceInv

(* The document that is fed was nowhere and is now with the worker.        *)
LEMMA PlaceFeed ==
  ASSUME TypeOK, PlaceInv, NEW w \in Workers, Feed(w)
  PROVE  PlaceInv'
<1>1. /\ next \in Docs /\ next' = next + 1 /\ \A d \in Docs : d \in Nat
      /\ UNCHANGED <<out, firstErr, results>>
  BY EmbedPoolAssumption DEF Feed, TypeOK, Docs, callerVars
<1>2. \A d \in Docs : (Holds(w, d)' <=> d = next) /\ ~Holds(w, d)
  BY <1>1 DEF Feed, Goes, Holds, TypeOK, Result
<1>3. \A v \in Workers \ {w}, d \in Docs : Holds(v, d)' <=> Holds(v, d)
  BY DEF Feed, Goes, Holds, TypeOK
<1>4. \A d \in Docs : Queued(d)' <=> Queued(d)
  BY <1>1 DEF Queued
<1>5. 1..next - 1 \subseteq Docs /\ 1..next' - 1 = (1..next - 1) \cup {next}
  BY <1>1, EmbedPoolAssumption DEF Docs
<1>6. CoverInv'
  BY <1>1, <1>2, <1>3, <1>4, <1>5 DEF PlaceInv, CoverInv
<1>7. OnceInv'
  <2>1. \A d \in Docs : d < next => d < next'
    BY <1>1
  <2>2. \A d \in out' : d < next'
    BY <1>1, <2>1 DEF PlaceInv, OnceInv, TypeOK
  <2>3. ~Queued(next) /\ next \notin out /\ \A v \in Workers : ~Holds(v, next)
    BY <1>1 DEF PlaceInv, OnceInv
  <2>4. next < next'
    BY <1>1
  <2>5. \A v \in Workers, d \in Docs :
          Holds(v, d)' => /\ d < next' /\ d \notin out' /\ ~Queued(d)'
                          /\ \A u \in Workers : Holds(u, d)' => u = v
    BY <1>1, <1>2, <1>3, <1>4, <2>1, <2>3, <2>4 DEF PlaceInv, OnceInv
  <2>6. \A d \in Docs : Queued(d)' => d < next' /\ d \notin out'
    BY <1>1, <1>4, <2>1 DEF PlaceInv, OnceInv
  <2>7. (\A i, j \in 1..Len(results) : results[i].doc = results[j].doc => i = j)'
    BY <1>1 DEF PlaceInv, OnceInv
  <2> QED
    BY <2>2, <2>5, <2>6, <2>7 DEF OnceInv
<1>8. LostInv'
  <2> SUFFICES ASSUME firstErr # "ok" PROVE LostInv'
    BY <1>1 DEF LostInv
  <2>1. PICK d \in 1..next - 1 :
          d \notin out /\ ~Queued(d) /\ \A v \in Workers : ~Holds(v, d)
    BY DEF PlaceInv, LostInv
  <2>2. d \in Docs /\ d # next
    BY <1>1, <1>5
  <2>3. \A v \in Workers : ~Holds(v, d)'
    BY <1>2, <1>3, <2>1, <2>2
  <2> QED
    BY <1>1, <1>4, <1>5, <2>1, <2>2, <2>3 DEF LostInv
<1> QED
  BY <1>6, <1>7, <1>8 DEF PlaceInv
(* The worker's document goes to the end of the channel.                   *)
LEMMA PlaceSend ==
  ASSUME TypeOK, PlaceInv, NEW w \in Workers, Send(w)
  PROVE  PlaceInv'
<1> DEFINE doc == got[w].doc
           len == Len(results)
<1>1. /\ UNCHANGED <<next, out, firstErr>> /\ doc \in Docs /\ Holds(w, doc)
      /\ \A d \in Docs : d \in Nat
  BY EmbedPoolAssumption DEF Send, Goes, TypeOK, Result, Docs, feedVars, callerVars, Holds
<1>2. /\ len \in Nat /\ Len(results') = len + 1
      /\ \A i \in 1..len : results'[i] = results[i]
      /\ results'[len + 1] = got[w]
  <2>1. got[w] \in Result /\ results \in Seq(Result)
    BY DEF TypeOK
  <2> QED
    BY <2>1, AppendFacts DEF Send
<1>3. \A v \in Workers, d \in Docs : Holds(v, d)' <=> v # w /\ Holds(v, d)
  BY DEF Send, Goes, Holds, TypeOK
<1>4. \A d \in Docs : Queued(d)' <=> Queued(d) \/ d = doc
  BY <1>2 DEF Queued
<1>5. \A d \in Docs : Holds(w, d) => d = doc
  BY DEF Holds
<1>6. \A d \in 1..next - 1 : d \in Docs
  BY EmbedPoolAssumption DEF TypeOK, Docs
<1>7. CoverInv'
  BY <1>1, <1>3, <1>4, <1>5, <1>6 DEF PlaceInv, CoverInv
<1>8. OnceInv'
  <2>1. doc < next /\ doc \notin out /\ ~Queued(doc)
        /\ \A v \in Workers : Holds(v, doc) => v = w
    BY <1>1 DEF PlaceInv, OnceInv
  <2>2. (\A d \in out : d < next)'
    BY <1>1 DEF PlaceInv, OnceInv
  <2>3. (\A v \in Workers, d \in Docs :
          Holds(v, d) => /\ d < next /\ d \notin out /\ ~Queued(d)
                         /\ \A u \in Workers : Holds(u, d) => u = v)'
    BY <1>1, <1>3, <1>4, <2>1 DEF PlaceInv, OnceInv
  <2>4. (\A i, j \in 1..Len(results) : results[i].doc = results[j].doc => i = j)'
    <3>1. \A i \in 1..len : results[i].doc # doc
      BY <2>1 DEF Queued
    <3>2. \A i, j \in 1..len : results'[i].doc = results'[j].doc => i = j
      BY <1>2 DEF PlaceInv, OnceInv
    <3>3. \A i \in 1..len : results'[i].doc # results'[len + 1].doc
      BY <1>2, <3>1
    <3> QED
      BY <1>2, <3>2, <3>3
  <2>5. (\A d \in Docs : Queued(d) => d < next /\ d \notin out)'
    BY <1>1, <1>4, <2>1 DEF PlaceInv, OnceInv
  <2> QED
    BY <2>2, <2>3, <2>4, <2>5 DEF OnceInv
<1>9. LostInv'
  BY <1>1, <1>3, <1>4, <1>6 DEF PlaceInv, LostInv
<1> QED
  BY <1>7, <1>8, <1>9 DEF PlaceInv

(* The first document of the channel is kept, or lost with its error.      *)
LEMMA PlaceCollect ==
  ASSUME TypeOK, PlaceInv, Collect
  PROVE  PlaceInv'
<1> DEFINE item == results[1]
           len == Len(results)
<1>1. /\ len \in Nat /\ len >= 1 /\ Len(results') = len - 1
      /\ \A i \in 1..len - 1 : results'[i] = results[i + 1]
      /\ Head(results) = item /\ item \in Result
  BY TailFacts DEF Collect, TypeOK
<1>2. /\ UNCHANGED next /\ \A d \in Docs : d \in Nat
      /\ item.doc \in Docs /\ item.err \in Errors \cup {"ok"}
      /\ out' = IF item.err = "ok" THEN out \cup {item.doc} ELSE out
      /\ firstErr' = IF firstErr = "ok" THEN item.err ELSE firstErr
  BY <1>1, EmbedPoolAssumption DEF Collect, Result, Docs, feedVars
<1>3. \A v \in Workers, d \in Docs : Holds(v, d)' <=> Holds(v, d)
  BY DEF Collect, Holds, workerVars
<1>4. \A i \in 1..len - 1 : i + 1 \in 1..len /\ i + 1 # 1
  BY <1>1
<1>5. \A d \in Docs : d = item.doc => ~Queued(d)'
  <2>1. 1 \in 1..len
    BY <1>1
  <2>2. \A i \in 1..len - 1 : results[i + 1].doc # item.doc
    BY <1>4, <2>1 DEF PlaceInv, OnceInv
  <2> QED
    BY <1>1, <2>2 DEF Queued
<1>6. \A d \in Docs : Queued(d) <=> Queued(d)' \/ d = item.doc
  <2>1. ASSUME NEW d \in Docs, Queued(d)' PROVE Queued(d)
    BY <1>1, <1>4, <2>1 DEF Queued
  <2>2. Queued(item.doc)
    BY <1>1 DEF Queued
  <2>3. ASSUME NEW d \in Docs, Queued(d), d # item.doc PROVE Queued(d)'
    <3>1. PICK i \in 1..len : results[i].doc = d
      BY <2>3 DEF Queued
    <3>2. i - 1 \in 1..len - 1 /\ results'[i - 1] = results[i]
      BY <1>1, <2>3, <3>1
    <3> QED
      BY <1>1, <3>1, <3>2 DEF Queued
  <2> QED
    BY <2>1, <2>2, <2>3
<1>7. \A d \in 1..next - 1 : d \in Docs
  BY EmbedPoolAssumption DEF TypeOK, Docs
<1>8. CoverInv'
  BY <1>2, <1>3, <1>6, <1>7 DEF PlaceInv, CoverInv
<1>9. item.doc < next /\ item.doc \notin out /\ \A v \in Workers : ~Holds(v, item.doc)
  BY <1>2, <1>6 DEF PlaceInv, OnceInv
<1>10. OnceInv'
  <2>1. (\A d \in out : d < next)'
    BY <1>2, <1>9 DEF PlaceInv, OnceInv
  <2>2. (\A v \in Workers, d \in Docs :
          Holds(v, d) => /\ d < next /\ d \notin out /\ ~Queued(d)
                         /\ \A u \in Workers : Holds(u, d) => u = v)'
    BY <1>2, <1>3, <1>6, <1>9 DEF PlaceInv, OnceInv
  <2>3. (\A i, j \in 1..Len(results) : results[i].doc = results[j].doc => i = j)'
    BY <1>1, <1>4 DEF PlaceInv, OnceInv
  <2>4. (\A d \in Docs : Queued(d) => d < next /\ d \notin out)'
    BY <1>2, <1>5, <1>6 DEF PlaceInv, OnceInv
  <2> QED
    BY <2>1, <2>2, <2>3, <2>4 DEF OnceInv
<1>11. LostInv'
  <2>1. CASE firstErr = "ok" /\ item.err # "ok"
    <3>1. item.doc \in 1..next - 1
      BY <1>2, <1>9, EmbedPoolAssumption DEF TypeOK, Docs
    <3>2. PICK d \in 1..next - 1 : d = item.doc
      BY <3>1
    <3>3. d \notin out' /\ ~Queued(d)' /\ \A v \in Workers : ~Holds(v, d)'
      BY <1>2, <1>3, <1>5, <1>9, <2>1, <3>2
    <3> QED
      BY <1>2, <3>3 DEF LostInv
  <2>2. CASE firstErr # "ok"
    BY <1>2, <1>3, <1>6, <1>7, <2>2 DEF PlaceInv, LostInv
  <2> QED
    BY <1>2, <2>1, <2>2 DEF LostInv
<1> QED
  BY <1>8, <1>10, <1>11 DEF PlaceInv
LEMMA PlaceStep == TypeOK /\ PlaceInv /\ [Next]_vars => PlaceInv'
<1> SUFFICES ASSUME TypeOK, PlaceInv, [Next]_vars PROVE PlaceInv'
  OBVIOUS
<1>1. ASSUME NEW w \in Workers, Cancel(w) PROVE PlaceInv'
  BY <1>1, PlaceSame DEF Cancel, Goes, Holds, TypeOK, feedVars, callerVars
<1>2. ASSUME NEW w \in Workers, WorkerEnds(w) PROVE PlaceInv'
  BY <1>2, PlaceSame DEF WorkerEnds, Goes, Holds, TypeOK, feedVars, callerVars
<1>3. ASSUME NEW w \in Workers, NEW err \in Errors \cup {"ok"}, Index(w, err)
      PROVE  PlaceInv'
  <2>1. \A v \in Workers : got'[v].doc = got[v].doc
    BY <1>3 DEF Index, TypeOK, Result
  <2>2. \A v \in Workers, d \in Nat : Holds(v, d)' <=> Holds(v, d)
    BY <1>3, <2>1 DEF Index, Goes, Holds, TypeOK
  <2>3. UNCHANGED <<next, out, firstErr, results>>
    BY <1>3 DEF Index, feedVars, callerVars
  <2> QED
    BY <2>2, <2>3, PlaceSame
<1>4. ASSUME UNCHANGED <<next, out, firstErr, results, workerVars>> PROVE PlaceInv'
  BY <1>4, PlaceSame DEF Holds, workerVars
<1>5. CASE FeederEnds \/ Close \/ Return \/ ParentEnds \/ UNCHANGED vars
  BY <1>4, <1>5 DEF FeederEnds, Close, Return, ParentEnds, vars, feedVars, callerVars
<1> QED
  BY <1>1, <1>2, <1>3, <1>5, PlaceFeed, PlaceSend, PlaceCollect DEF Next, WorkerStep

(* When everybody is done and no error was seen, all documents are there   *)
(* or the work was cancelled; with an error one is missing.                *)
LEMMA VerdictIsRight ==
  ASSUME TypeOK, EndInv, StopInv, PlaceInv, Drained
  PROVE  (Verdict = "ok" <=> out = Docs) /\ Verdict # "mismatch"
<1>1. \A d \in Docs : ~Queued(d)
  BY DEF Drained, Queued
<1>2. \A w \in Workers, d \in Docs : ~Holds(w, d)
  BY DEF Drained, EndInv, Holds
<1>3. PICK w \in Workers : at[w] = "done"
  BY EmbedPoolAssumption DEF Drained, EndInv
<1>4. next > N \/ cancelled
  BY <1>3 DEF StopInv
<1>5. \A d \in 1..next - 1 : d \in Docs
  BY EmbedPoolAssumption DEF TypeOK, Docs
<1>6. CASE firstErr # "ok"
  <2>1. out # Docs
    BY <1>5, <1>6 DEF PlaceInv, LostInv
  <2> QED
    BY <1>6, <2>1 DEF Verdict, TypeOK, Errors
<1>7. CASE firstErr = "ok"
  <2>1. \A d \in 1..next - 1 : d \in out
    BY <1>1, <1>2, <1>5, <1>7 DEF PlaceInv, CoverInv
  <2>2. next > N => Docs \subseteq out
    BY <2>1, EmbedPoolAssumption DEF TypeOK, Docs
  <2>3. out = Docs \/ cancelled
    BY <1>4, <2>2 DEF TypeOK
  <2>4. Verdict = IF out = Docs THEN "ok" ELSE "cancelled"
    BY <1>7, <2>3 DEF Verdict
  <2> QED
    BY <2>4
<1> QED
  BY <1>6, <1>7

LEMMA AnswerStep == IInv /\ [Next]_vars => SuccessIsComplete'
<1> SUFFICES ASSUME IInv, [Next]_vars PROVE SuccessIsComplete'
  OBVIOUS
<1>1. CASE Return
  BY <1>1, VerdictIsRight DEF Return, IInv, SuccessIsComplete
<1>2. CASE Collect
  BY <1>2 DEF Collect, SuccessIsComplete
<1>3. CASE UNCHANGED <<answer, out>>
  BY <1>3 DEF IInv, SuccessIsComplete
<1>4. Return \/ Collect \/ UNCHANGED <<answer, out>>
  BY DEF Next, WorkerStep, Feed, Cancel, Send, WorkerEnds, Index, FeederEnds, Close,
         ParentEnds, vars, callerVars
<1> QED
  BY <1>1, <1>2, <1>3, <1>4

LEMMA InvStep == IInv /\ [Next]_vars => IInv'
  BY TypeStep, EndStep, StopStep, PlaceStep, AnswerStep DEF IInv

(* Once indexDocuments has returned, no worker touches the draft.          *)
THEOREM NobodyWorksOn == Spec => []NoWorkAfterReturn
<1>1. IInv => NoWorkAfterReturn
  BY DEF IInv, EndInv, Drained, NoWorkAfterReturn
<1> QED
  BY <1>1, InvInit, InvStep, PTL DEF Spec

(* indexDocuments returns no error exactly when it has a result for every  *)
(* document.                                                               *)
THEOREM SuccessMeansComplete == Spec => []SuccessIsComplete
<1>1. IInv => SuccessIsComplete
  BY DEF IInv
<1> QED
  BY <1>1, InvInit, InvStep, PTL DEF Spec-----------------------------------------------------------------------------
(* What an error says did happen.                                          *)
Justified(err) ==
  /\ err = "failed" => failed # {}
  /\ err = "cancelled" => parentDone \/ failed # {}

(* Every error on its way to the caller is justified, and until the caller *)
(* returns nothing but an error or its own context cancels the work.       *)
CauseInv ==
  /\ cancelled /\ answer = "none" => Justified("cancelled")
  /\ \A w \in Workers :
       /\ at[w] \in {"cancel", "send"} => Justified(got[w].err)
       /\ at[w] = "cancel" => got[w].err \in Errors
  /\ \A i \in 1..Len(results) : Justified(results[i].err)
  /\ Justified(firstErr) /\ Justified(answer)

LEMMA CauseInit == Init => CauseInv
<1> SUFFICES ASSUME Init PROVE CauseInv
  OBVIOUS
<1>1. Len(results) = 0
  BY DEF Init
<1> QED
  BY <1>1 DEF Init, CauseInv, Justified

LEMMA CauseStep == IInv /\ CauseInv /\ [Next]_vars => CauseInv'
<1> SUFFICES ASSUME IInv, CauseInv, [Next]_vars PROVE CauseInv'
  OBVIOUS
<1> USE DEF CauseInv, Justified
<1>0. TypeOK
  BY DEF IInv
<1>1. ASSUME NEW w \in Workers, Feed(w) PROVE CauseInv'
  BY <1>0, <1>1 DEF TypeOK, Feed, Goes, callerVars, history
<1>2. ASSUME NEW w \in Workers, Cancel(w) PROVE CauseInv'
  BY <1>0, <1>2 DEF TypeOK, Cancel, Goes, Errors, callerVars, history
<1>3. ASSUME NEW w \in Workers, Send(w) PROVE CauseInv'
  <2>1. /\ Len(results) \in Nat /\ Len(results') = Len(results) + 1
        /\ \A i \in 1..Len(results) : results'[i] = results[i]
        /\ results'[Len(results) + 1] = got[w]
    BY <1>0, <1>3, AppendFacts DEF Send, TypeOK
  <2>2. Justified(got[w].err)
    BY <1>3 DEF Send, Goes
  <2>3. (\A i \in 1..Len(results) : Justified(results[i].err))'
    BY <1>3, <2>1, <2>2 DEF Send, history
  <2> QED
    BY <1>0, <1>3, <2>3 DEF TypeOK, Send, Goes, callerVars, history
<1>4. ASSUME NEW w \in Workers, WorkerEnds(w) PROVE CauseInv'
  BY <1>0, <1>4 DEF TypeOK, WorkerEnds, Goes, callerVars, history
<1>5. ASSUME NEW w \in Workers, NEW err \in Errors \cup {"ok"}, Index(w, err)
      PROVE  CauseInv'
  <2>1. answer = "none"
    BY <1>5 DEF IInv, EndInv, Drained, Index, Goes
  <2>2. got'[w].err = err /\ failed \subseteq failed'
    BY <1>0, <1>5 DEF Index, TypeOK, Result
  <2>3. \A v \in Workers \ {w} : at'[v] = at[v] /\ got'[v] = got[v]
    BY <1>0, <1>5 DEF Index, Goes, TypeOK
  <2>4. at'[w] = IF err = "ok" THEN "send" ELSE "cancel"
    BY <1>0, <1>5 DEF Index, Goes, TypeOK
  <2>5. err = "failed" => failed' # {}
    BY <1>5 DEF Index
  <2> QED
    BY <1>5, <2>1, <2>2, <2>3, <2>4, <2>5 DEF Index, callerVars
<1>6. CASE Collect
  <2>1. /\ Len(results) \in Nat /\ Len(results) >= 1 /\ Len(results') = Len(results) - 1
        /\ \A i \in 1..Len(results) - 1 : results'[i] = results[i + 1]
        /\ Head(results) = results[1]
    BY <1>0, <1>6, TailFacts DEF Collect, TypeOK
  <2>2. \A i \in 1..Len(results') : i + 1 \in 1..Len(results)
    BY <2>1
  <2>3. Justified(Head(results).err)
    BY <2>1
  <2> QED
    BY <1>6, <2>1, <2>2, <2>3 DEF Collect, workerVars, history
<1>7. CASE Return
  <2>1. Verdict \in {"ok", "mismatch", firstErr} \/ (Verdict = "cancelled" /\ cancelled)
    BY DEF Verdict
  <2>2. Justified(Verdict)
    BY <1>7, <2>1 DEF Return
  <2>3. Verdict # "none"
    BY <1>0, <2>1 DEF TypeOK, Errors
  <2> QED
    BY <1>7, <2>2, <2>3 DEF Return, workerVars, history
<1>8. CASE ParentEnds
  BY <1>8 DEF ParentEnds, workerVars, callerVars
<1>9. CASE FeederEnds \/ Close \/ UNCHANGED vars
  BY <1>9 DEF FeederEnds, Close, vars, workerVars, callerVars, history
<1> QED
  BY <1>1, <1>2, <1>3, <1>4, <1>5, <1>6, <1>7, <1>8, <1>9 DEF Next, WorkerStep

(* An error that is returned is not made up.                               *)
THEOREM FailuresHaveCauses == Spec => []FailureHasACause
<1>1. CauseInv => FailureHasACause
  BY DEF CauseInv, Justified, FailureHasACause
<1> QED
  BY <1>1, InvInit, InvStep, CauseInit, CauseStep, PTL DEF Spec
=============================================================================
