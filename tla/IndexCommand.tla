---------------------------- MODULE IndexCommand ----------------------------
(***************************************************************************)
(* rag-index (cmd/rag-index/main.go): one index run of a process of its    *)
(* own.  It takes the reindex lock once, then tries to ingest until it     *)
(* succeeds or RAG_REINDEX_TIMEOUT is over, whatever the error is, and     *)
(* keeps the lock all that time.                                           *)
(***************************************************************************)
EXTENDS IndexStore, Integers

CONSTANTS
  Commands   \* the processes, each of which runs once

ASSUME IndexCommandAssumption == Commands \subseteq Runners

VARIABLES
  step,    \* where the command is
  target,  \* the collection id of the attempt
  late,    \* whether the deadline has passed
  made,    \* the generation the command activated, 0 for none
  exit     \* how it ended: "zero", or "nonzero" (1, 2 when refused, killed)

commandVars == <<step, target, late, made, exit>>

Working == {"build", "ingest", "wait"}
Steps == Working \cup {"ready", "start", "finish", "gaveup", "exited"}

CommandTypeOK ==
  /\ step \in [Commands -> Steps]
  /\ target \in [Commands -> 0..lastId]
  /\ late \in [Commands -> BOOLEAN]
  /\ made \in [Commands -> 0..newest]
  /\ exit \in [Commands -> {"none", "zero", "nonzero"}]

CommandInit ==
  /\ step = [k \in Commands |-> "ready"]
  /\ target = [k \in Commands |-> 0]
  /\ late = [k \in Commands |-> FALSE]
  /\ made = [k \in Commands |-> 0]
  /\ exit = [k \in Commands |-> "none"]

To(k, from, to) == step[k] = from /\ step' = [step EXCEPT ![k] = to]

(* What an unsuccessful command has made is of no interest any more.       *)
Exits(k, status) ==
  /\ step' = [step EXCEPT ![k] = "exited"]
  /\ exit' = [exit EXCEPT ![k] = status]
  /\ target' = [target EXCEPT ![k] = 0] /\ late' = [late EXCEPT ![k] = FALSE]
  /\ made' = IF status = "zero" THEN made ELSE [made EXCEPT ![k] = 0]
-----------------------------------------------------------------------------
(* The arguments and the configuration are right, or the command ends.     *)
Launch(k) ==
  /\ step[k] = "ready"
  /\ \/ To(k, "ready", "start") /\ UNCHANGED <<target, late, made, exit>>
     \/ Exits(k, "nonzero")
  /\ UNCHANGED storeVars

StartRun(k) ==
  /\ To(k, "start", "build")
  /\ TakeLease(k)
  /\ UNCHANGED <<target, late, made, exit>>

(* Refused because of a run or of a status check (exit code 2), or a file  *)
(* operation failed (1).                                                   *)
RunRefused(k) ==
  /\ step[k] = "start"
  /\ Exits(k, "nonzero")
  /\ UNCHANGED storeVars

(* One attempt of ingest.Reindex.                                          *)
Attempt(k) ==
  /\ ~late[k]
  /\ To(k, "build", "ingest")
  /\ target' = [target EXCEPT ![k] = EnsuredId]
  /\ Ensured
  /\ UNCHANGED <<late, made, exit>>

Succeed(k) ==
  /\ To(k, "ingest", "finish")
  /\ made' = [made EXCEPT ![k] = newest + 1]
  /\ Switched(target[k])
  /\ UNCHANGED <<target, late, exit>>

(* Mutation: the select is left out, a failed attempt follows another.     *)
AttemptFailsForever(k) ==
  /\ step[k] \in {"build", "ingest"}
  /\ step' = [step EXCEPT ![k] = "wait"]
  /\ UNCHANGED storeVars \/ (step[k] = "build" /\ Ensured)
  /\ UNCHANGED <<target, late, made, exit>>

(* Mutation: the lock is dropped until the next attempt.                   *)
AttemptFailsOpen(k) ==
  /\ step[k] \in {"build", "ingest"}
  /\ step' = [step EXCEPT ![k] = IF late[k] THEN "gaveup" ELSE "wait"]
  /\ FreeLease
  /\ UNCHANGED <<target, late, made, exit>>

(* The attempt fails.  At the select, a context that is done already wins  *)
(* over the timer, which needs its backoff.                                *)
AttemptFails(k) ==
  /\ step[k] \in {"build", "ingest"}
  /\ step' = [step EXCEPT ![k] = IF late[k] THEN "gaveup" ELSE "wait"]
  /\ UNCHANGED storeVars \/ (step[k] = "build" /\ Ensured)
  /\ UNCHANGED <<target, late, made, exit>>

TimerFires(k) ==
  /\ To(k, "wait", "build")
  /\ UNCHANGED <<storeVars, target, late, made, exit>>

GiveUp(k) ==
  /\ late[k]
  /\ To(k, "wait", "gaveup")
  /\ UNCHANGED <<storeVars, target, late, made, exit>>

Deadline(k) ==
  /\ step[k] \in Working /\ ~late[k]
  /\ late' = [late EXCEPT ![k] = TRUE]
  /\ UNCHANGED <<storeVars, step, target, made, exit>>

(* Mutation: the exit code looks at the error of Finish only.              *)
EndRunLenient(k) ==
  /\ step[k] \in {"finish", "gaveup"}
  /\ \E status \in {"zero", "nonzero"} : Exits(k, status)
  /\ FreeLease

(* run.Finish: the end is recorded or not, the lock is dropped; an error   *)
(* of the ingest or of Finish is exit code 1.                              *)
EndRun(k) ==
  /\ step[k] \in {"finish", "gaveup"}
  /\ \E status \in {"zero", "nonzero"} :
       (step[k] = "gaveup" => status = "nonzero") /\ Exits(k, status)
  /\ FreeLease

(* The process is killed and the lock goes with it.                        *)
Kill(k) ==
  /\ step[k] \in Steps \ {"ready", "exited"}
  /\ Exits(k, "nonzero")
  /\ lease' = IF lease = k THEN Nobody ELSE lease
  /\ UNCHANGED <<active, newest, current, lastId, held, mishaps, foreign>>

Works(k) ==
  \/ StartRun(k) \/ RunRefused(k) \/ Attempt(k) \/ Succeed(k) \/ AttemptFails(k)
  \/ TimerFires(k) \/ GiveUp(k) \/ EndRun(k)

CommandNext == \E k \in Commands : Launch(k) \/ Works(k) \/ Deadline(k) \/ Kill(k)
=============================================================================
