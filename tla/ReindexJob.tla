----------------------------- MODULE ReindexJob -----------------------------
(***************************************************************************)
(* The reindex coordinator (internal/reindexjob/job.go and lock.go).       *)
(*                                                                         *)
(* Every index run, whether the MCP server starts it for a tool call or    *)
(* the rag-index command starts it, calls StartWithOptions, ingests, and   *)
(* calls Finish; anybody may call Status at any time.  The calls meet in   *)
(*   - localLocks, a map in the memory of each process,                    *)
(*   - an advisory flock(2) on reindex.lock, shared by all processes,      *)
(*   - the contents of reindex.lock, the JSON of the job that holds it,    *)
(*   - reindex-status.json, replaced by rename, under a second flock.      *)
(* Status finds out whether a run is alive by taking the first flock and   *)
(* dropping it again, so for a moment the observer holds the lock it       *)
(* observes.                                                               *)
(*                                                                         *)
(* A thread is one goroutine or command in one process.  A step between    *)
(* two labels is one system call that another thread can observe.  What a  *)
(* thread does to the status file under the status lock is one step when   *)
(* nothing it reads in between can change.                                 *)
(***************************************************************************)
EXTENDS Naturals, FiniteSets

CONSTANTS
  Threads,     \* goroutines and commands that call the coordinator
  Procs,       \* processes
  ProcOf,      \* the process a thread runs in
  Jobs,        \* the job of each StartWithOptions call; ids are never reused
  NoJob,       \* a nil *Job
  NoRun,       \* a nil *RunRecord
  Free,        \* the holder of a lock nobody holds
  MayFail,     \* whether file operations may return an error
  MaxCrashes   \* bound: how many processes may be killed in a behaviour

ASSUME ReindexJobAssumption ==
  /\ ProcOf \in [Threads -> Procs]
  /\ NoJob \notin Jobs
  /\ Free \notin Threads
  /\ NoRun \notin [job : Jobs, status : {"succeeded", "failed"}, stale : BOOLEAN,
                   counts : Jobs]
  /\ MayFail \in BOOLEAN
  /\ MaxCrashes \in Nat

VARIABLES
  pc,          \* where each thread is
  job,         \* the Job of the thread's StartWithOptions call, until it leaves
  localHeld,   \* processes whose localLocks map holds the lock path
  flock,       \* who holds the flock on reindex.lock
  lockFile,    \* the job that reindex.lock names (NoJob: empty or unparsable)
  statusLock,  \* who holds the flock on reindex-status.lock
  statusFile,  \* the contents of reindex-status.json
  fate,        \* history: what really became of each job
  recorded,    \* history: jobs whose Finish saved a terminal record
  crashes      \* processes killed so far

locks == <<localHeld, flock, lockFile, statusLock>>
history == <<fate, recorded, crashes>>
vars == <<pc, job, localHeld, flock, lockFile, statusLock, statusFile, fate,
          recorded, crashes>>

(* Status, reduced to what the coordinator decides on.  counts stands for  *)
(* Progress: the job whose document counts it holds (NoJob when nil).      *)
(* LastBlockedStart is written and never read, so it is left out.          *)
RunRecord == [job : Jobs, status : {"succeeded", "failed"}, stale : BOOLEAN,
              counts : Jobs]
Status == [status : {"idle", "running", "succeeded", "failed"},
           activeJob : Jobs \cup {NoJob},
           counts : Jobs \cup {NoJob},
           lastRun : RunRecord \cup {NoRun}]

(* Where a thread is between the flock and its release in Close.           *)
WriterLabels == {"truncate", "write", "record", "running", "finish", "close",
                 "unlock"}
(* Where a thread is while its process' map holds the lock path.           *)
LocalLabels == WriterLabels \cup {"flock", "undo", "release"}
(* Where a thread is inside withStatusLock, in Status.                     *)
StatusLabels == {"probe", "probing", "settle", "answer"}
Labels == {"idle", "blocked"} \cup LocalLabels \cup StatusLabels

Init ==
  /\ pc = [t \in Threads |-> "idle"]
  /\ job = [t \in Threads |-> NoJob]
  /\ localHeld = {}
  /\ flock = Free
  /\ lockFile = NoJob
  /\ statusLock = Free
  /\ statusFile = [status |-> "idle", activeJob |-> NoJob, counts |-> NoJob,
                   lastRun |-> NoRun]
  /\ fate = [j \in Jobs |-> "new"]
  /\ recorded = {}
  /\ crashes = 0

Goto(t, from, to) == pc[t] = from /\ pc' = [pc EXCEPT ![t] = to]

(* The thread's job leaves the coordinator with the given fate.            *)
Leaves(t, how) ==
  /\ job' = [job EXCEPT ![t] = NoJob]
  /\ fate' = [fate EXCEPT ![job[t]] = how]
-----------------------------------------------------------------------------
(* StartWithOptions: tryAcquireReindexLock                                 *)

(* tryAcquireLocalLock: one start at a time within a process.              *)
BeginStart(t, j) ==
  /\ fate[j] = "new"
  /\ ProcOf[t] \notin localHeld
  /\ Goto(t, "idle", "flock")
  /\ job' = [job EXCEPT ![t] = j]
  /\ localHeld' = localHeld \cup {ProcOf[t]}
  /\ fate' = [fate EXCEPT ![j] = "starting"]
  /\ UNCHANGED <<flock, lockFile, statusLock, statusFile, recorded, crashes>>

BeginRefused(t, j) ==
  /\ fate[j] = "new"
  /\ ProcOf[t] \in localHeld
  /\ Goto(t, "idle", "blocked")
  /\ job' = [job EXCEPT ![t] = j]
  /\ fate' = [fate EXCEPT ![j] = "starting"]
  /\ UNCHANGED <<locks, statusFile, recorded, crashes>>

(* Mutation: the flock result is ignored.                                  *)
TakeFlockUnasked(t) ==
  /\ Goto(t, "flock", "truncate")
  /\ flock' = t
  /\ UNCHANGED <<job, localHeld, lockFile, statusLock, statusFile, history>>

(* flock(LOCK_EX | LOCK_NB) on reindex.lock                                *)
TakeFlock(t) ==
  /\ flock = Free
  /\ Goto(t, "flock", "truncate")
  /\ flock' = t
  /\ UNCHANGED <<job, localHeld, lockFile, statusLock, statusFile, history>>

FlockBusy(t) ==
  /\ flock # Free
  /\ Goto(t, "flock", "undo")
  /\ UNCHANGED <<job, locks, statusFile, history>>

(* After EWOULDBLOCK: releaseLocalLock, then errLockBusy.                  *)
UndoLocalLock(t) ==
  /\ Goto(t, "undo", "blocked")
  /\ localHeld' = localHeld \ {ProcOf[t]}
  /\ UNCHANGED <<job, flock, lockFile, statusLock, statusFile, history>>

(* OpenFile or flock fails with another error: StartWithOptions returns it. *)
AcquireFails(t) ==
  /\ MayFail
  /\ Goto(t, "flock", "idle")
  /\ localHeld' = localHeld \ {ProcOf[t]}
  /\ Leaves(t, "aborted")
  /\ UNCHANGED <<flock, lockFile, statusLock, statusFile, recorded, crashes>>
-----------------------------------------------------------------------------
(* StartWithOptions: the lock is held                                      *)

(* writeJob: empty the file, then write the job.                           *)
TruncateLock(t) ==
  /\ Goto(t, "truncate", "write")
  /\ lockFile' = NoJob
  /\ UNCHANGED <<job, localHeld, flock, statusLock, statusFile, history>>

WriteJob(t) ==
  /\ Goto(t, "write", "record")
  /\ lockFile' = job[t]
  /\ UNCHANGED <<job, localHeld, flock, statusLock, statusFile, history>>

(* Mutation: the error path returns without Close.                         *)
StartFailsUnclosed(t) ==
  /\ MayFail
  /\ pc[t] \in {"truncate", "write", "record"}
  /\ pc' = [pc EXCEPT ![t] = "idle"]
  /\ Leaves(t, "aborted")
  /\ UNCHANGED <<locks, statusFile, recorded, crashes>>

(* writeJob or recordRunning fails: Close and return the error.            *)
StartFails(t) ==
  /\ MayFail
  /\ pc[t] \in {"truncate", "write", "record"}
  /\ pc' = [pc EXCEPT ![t] = "close"]
  /\ fate' = [fate EXCEPT ![job[t]] = "aborted"]
  /\ UNCHANGED <<job, locks, statusFile, recorded, crashes>>

(* Mutation: recordRunning does not reset Progress.                        *)
RunningStatusKeepsCounts(file, j) ==
  [file EXCEPT !.status = "running", !.activeJob = j]

RunningStatus(file, j) ==
  [file EXCEPT !.status = "running", !.activeJob = j, !.counts = j]

(* Mutation: recordRunning saves without withStatusLock.                   *)
RecordRunningUnlocked(t) ==
  /\ Goto(t, "record", "running")
  /\ statusFile' = RunningStatus(statusFile, job[t])
  /\ fate' = [fate EXCEPT ![job[t]] = "live"]
  /\ UNCHANGED <<job, locks, recorded, crashes>>

RecordRunning(t) ==
  /\ statusLock = Free
  /\ Goto(t, "record", "running")
  /\ statusFile' = RunningStatus(statusFile, job[t])
  /\ fate' = [fate EXCEPT ![job[t]] = "live"]
  /\ UNCHANGED <<job, locks, recorded, crashes>>

(* recordBlockedStart, for a start that met a held lock.  When the status  *)
(* has no active job the lock file's job becomes it.                       *)
BlockedStatus(file, lockJob) ==
  LET active == IF file.activeJob = NoJob THEN lockJob ELSE file.activeJob
  IN  IF active = NoJob
        THEN file
        ELSE [file EXCEPT !.status = "running", !.activeJob = active,
                          !.counts = IF file.status = "running" THEN @ ELSE NoJob]

RecordBlocked(t) ==
  /\ statusLock = Free
  /\ Goto(t, "blocked", "idle")
  /\ statusFile' = BlockedStatus(statusFile, lockFile)
  /\ Leaves(t, "refused")
  /\ UNCHANGED <<locks, recorded, crashes>>

(* The blocked start cannot be recorded: BusyError carries the error.      *)
RecordBlockedFails(t) ==
  /\ MayFail
  /\ Goto(t, "blocked", "idle")
  /\ Leaves(t, "refused")
  /\ UNCHANGED <<locks, statusFile, recorded, crashes>>
-----------------------------------------------------------------------------
(* A run                                                                   *)

(* UpdateProgress, from the ingest's progress reporter; errors are logged  *)
(* or dropped by the callers.                                              *)
RecordProgress(t) ==
  /\ statusLock = Free
  /\ pc[t] = "running"
  /\ statusFile.activeJob = job[t]
  /\ statusFile' = [statusFile EXCEPT !.status = "running", !.counts = job[t]]
  /\ UNCHANGED <<pc, job, locks, history>>

(* Mutation: the lock is dropped as soon as the ingest returns.            *)
RunEndsUnlocking(t, how) ==
  /\ Goto(t, "running", "finish")
  /\ fate' = [fate EXCEPT ![job[t]] = how]
  /\ flock' = Free
  /\ UNCHANGED <<job, localHeld, lockFile, statusLock, statusFile, recorded, crashes>>

(* The ingest, retries included, returns to the caller.                    *)
RunEnds(t, how) ==
  /\ Goto(t, "running", "finish")
  /\ fate' = [fate EXCEPT ![job[t]] = how]
  /\ UNCHANGED <<job, locks, statusFile, recorded, crashes>>

(* Mutation: runErr is not looked at.                                      *)
FinishedStatusAlwaysSucceeds(file, j, how) ==
  [status |-> "succeeded", activeJob |-> NoJob, counts |-> NoJob,
   lastRun |-> [job |-> j, status |-> "succeeded", stale |-> FALSE, counts |-> j]]

(* recordFinished: a failed run keeps the counts of its last progress, a   *)
(* successful one has its own statistics.                                  *)
FinishedStatus(file, j, how) ==
  [status |-> how, activeJob |-> NoJob, counts |-> NoJob,
   lastRun |-> [job |-> j, status |-> how, stale |-> FALSE,
                counts |-> IF how = "failed" /\ file.counts # NoJob
                             THEN file.counts ELSE j]]

RecordFinished(t) ==
  /\ statusLock = Free
  /\ Goto(t, "finish", "close")
  /\ statusFile' = FinishedStatus(statusFile, job[t], fate[job[t]])
  /\ recorded' = recorded \cup {job[t]}
  /\ UNCHANGED <<job, locks, fate, crashes>>

(* recordFinished fails; the deferred Close still runs.                    *)
RecordFinishedFails(t) ==
  /\ MayFail
  /\ Goto(t, "finish", "close")
  /\ UNCHANGED <<job, locks, statusFile, history>>

(* Close: truncate, unlock and close the file, forget the local lock.  It  *)
(* goes on when it cannot truncate.                                        *)
CloseTruncate(t) ==
  /\ Goto(t, "close", "unlock")
  /\ \/ lockFile' = NoJob
     \/ MayFail /\ UNCHANGED lockFile
  /\ UNCHANGED <<job, localHeld, flock, statusLock, statusFile, history>>

CloseUnlock(t) ==
  /\ Goto(t, "unlock", "release")
  /\ flock' = Free
  /\ job' = [job EXCEPT ![t] = NoJob]
  /\ UNCHANGED <<localHeld, lockFile, statusLock, statusFile, history>>

CloseRelease(t) ==
  /\ Goto(t, "release", "idle")
  /\ localHeld' = localHeld \ {ProcOf[t]}
  /\ UNCHANGED <<job, flock, lockFile, statusLock, statusFile, history>>
-----------------------------------------------------------------------------
(* Status, from the MCP tool, the UI and the polls of `make index`         *)

(* Enter withStatusLock, load, and look at the process' own lock map.      *)
StatusEnter(t) ==
  /\ statusLock = Free
  /\ Goto(t, "idle", IF ProcOf[t] \in localHeld THEN "answer" ELSE "probe")
  /\ statusLock' = t
  /\ UNCHANGED <<job, localHeld, flock, lockFile, statusFile, history>>

(* reindexLockState takes the flock ...                                    *)
ProbeTakes(t) ==
  /\ flock = Free
  /\ Goto(t, "probe", "probing")
  /\ flock' = t
  /\ UNCHANGED <<job, localHeld, lockFile, statusLock, statusFile, history>>

(* Mutation: EWOULDBLOCK is not told apart from success.                   *)
ProbeBusyAsFree(t) ==
  /\ flock # Free
  /\ Goto(t, "probe", "settle")
  /\ UNCHANGED <<job, locks, statusFile, history>>

(* ... or meets a holder.                                                  *)
ProbeBusy(t) ==
  /\ flock # Free
  /\ Goto(t, "probe", "answer")
  /\ UNCHANGED <<job, locks, statusFile, history>>

ProbeReleases(t) ==
  /\ Goto(t, "probing", "settle")
  /\ flock' = Free
  /\ UNCHANGED <<job, localHeld, lockFile, statusLock, statusFile, history>>

(* Mutation: an active job without a holder is left alone.                 *)
SettledStatusKeepsDead(file) == file

(* Mutation: Progress is dereferenced although it may be nil.              *)
SettledStatusNilCounts(file) ==
  IF file.activeJob = NoJob
    THEN file
    ELSE [status |-> "failed", activeJob |-> NoJob, counts |-> NoJob,
          lastRun |-> [job |-> file.activeJob, status |-> "failed", stale |-> TRUE,
                       counts |-> file.counts]]

(* Not held: an active job without a holder died; markStaleRunFailed.      *)
SettledStatus(file) ==
  IF file.activeJob = NoJob
    THEN file
    ELSE [status |-> "failed", activeJob |-> NoJob, counts |-> NoJob,
          lastRun |-> [job |-> file.activeJob, status |-> "failed", stale |-> TRUE,
                       counts |-> IF file.counts # NoJob THEN file.counts
                                                         ELSE file.activeJob]]

StatusSettles(t) ==
  /\ Goto(t, "settle", "idle")
  /\ statusFile' = SettledStatus(statusFile)
  /\ statusLock' = Free
  /\ UNCHANGED <<job, localHeld, flock, lockFile, history>>

(* Mutation: withStatusLock is not left on the answer path.                *)
StatusAnswersLocked(t) ==
  /\ Goto(t, "answer", "idle")
  /\ UNCHANGED <<job, locks, statusFile, history>>

(* Held: the answer is "running", with the lock file's job when the status *)
(* has none; nothing is saved.                                             *)
StatusAnswers(t) ==
  /\ Goto(t, "answer", "idle")
  /\ statusLock' = Free
  /\ UNCHANGED <<job, localHeld, flock, lockFile, statusFile, history>>

(* Load, probe or save fails: Status returns the error.                    *)
StatusFails(t) ==
  /\ MayFail
  /\ pc[t] \in {"probe", "settle"}
  /\ pc' = [pc EXCEPT ![t] = "idle"]
  /\ statusLock' = Free
  /\ UNCHANGED <<job, localHeld, flock, lockFile, statusFile, history>>
-----------------------------------------------------------------------------
(* A process is killed: its memory and its flocks go, the files stay.  It  *)
(* may be started again at once, so its threads are idle.                  *)
Killed(p) == {t \in Threads : ProcOf[t] = p}

Crash(p) ==
  LET dead == Killed(p)
      cut == {j \in Jobs : fate[j] \in {"starting", "live"}
                           /\ \E t \in dead : job[t] = j}
  IN  /\ crashes < MaxCrashes
      /\ pc' = [t \in Threads |-> IF t \in dead THEN "idle" ELSE pc[t]]
      /\ job' = [t \in Threads |-> IF t \in dead THEN NoJob ELSE job[t]]
      /\ localHeld' = localHeld \ {p}
      /\ flock' = IF flock \in dead THEN Free ELSE flock
      /\ statusLock' = IF statusLock \in dead THEN Free ELSE statusLock
      /\ fate' = [j \in Jobs |-> IF j \in cut THEN "killed" ELSE fate[j]]
      /\ crashes' = crashes + 1
      /\ UNCHANGED <<lockFile, statusFile, recorded>>
-----------------------------------------------------------------------------
StartStep(t) ==
  \/ TakeFlock(t) \/ FlockBusy(t) \/ UndoLocalLock(t) \/ AcquireFails(t)
  \/ TruncateLock(t) \/ WriteJob(t) \/ StartFails(t) \/ RecordRunning(t)
  \/ RecordBlocked(t) \/ RecordBlockedFails(t)

RunStep(t) ==
  \/ RecordProgress(t)
  \/ \E how \in {"succeeded", "failed"} : RunEnds(t, how)

FinishStep(t) ==
  \/ RecordFinished(t) \/ RecordFinishedFails(t)
  \/ CloseTruncate(t) \/ CloseUnlock(t) \/ CloseRelease(t)

StatusStep(t) ==
  \/ ProbeTakes(t) \/ ProbeBusy(t) \/ ProbeReleases(t)
  \/ StatusSettles(t) \/ StatusAnswers(t) \/ StatusFails(t)

Step(t) ==
  \/ \E j \in Jobs : BeginStart(t, j) \/ BeginRefused(t, j)
  \/ StatusEnter(t)
  \/ StartStep(t) \/ RunStep(t) \/ FinishStep(t) \/ StatusStep(t)

Next == (\E t \in Threads : Step(t)) \/ (\E p \in Procs : Crash(p))

Spec == Init /\ [][Next]_vars

(* A call that began goes on until it returns, and does so by what it is   *)
(* there for: an error is possible, but nobody is rescued by one.  A call  *)
(* waits only for the status lock, whose holders wait for nothing;         *)
(* flock(2) wakes its waiters but a newcomer may be faster, so the         *)
(* fairness is strong: not every newcomer is.  An ingest ends: the CLI     *)
(* runs it under RAG_REINDEX_TIMEOUT and the server under the request's    *)
(* context.  Nothing obliges anybody to start a run or to report progress. *)
CallStep(t) ==
  \/ TakeFlock(t) \/ FlockBusy(t) \/ UndoLocalLock(t) \/ TruncateLock(t) \/ WriteJob(t)
  \/ RecordRunning(t) \/ RecordBlocked(t)
  \/ \E how \in {"succeeded", "failed"} : RunEnds(t, how)
  \/ RecordFinished(t) \/ CloseTruncate(t) \/ CloseUnlock(t) \/ CloseRelease(t)
  \/ ProbeTakes(t) \/ ProbeBusy(t) \/ ProbeReleases(t)
  \/ StatusSettles(t) \/ StatusAnswers(t)

(* Somebody keeps asking for the status, as `make index` and the UI do,    *)
(* and the file operations of Status do not fail every time.               *)
FairSpec ==
  /\ Spec
  /\ \A t \in Threads : SF_vars(CallStep(t) \/ StatusEnter(t))
  /\ SF_vars(\E t \in Threads : ProbeTakes(t) \/ ProbeBusy(t))
  /\ SF_vars(\E t \in Threads : StatusSettles(t))
-----------------------------------------------------------------------------
TypeOK ==
  /\ pc \in [Threads -> Labels]
  /\ job \in [Threads -> Jobs \cup {NoJob}]
  /\ localHeld \subseteq Procs
  /\ flock \in Threads \cup {Free}
  /\ lockFile \in Jobs \cup {NoJob}
  /\ statusLock \in Threads \cup {Free}
  /\ statusFile \in Status
  /\ fate \in [Jobs -> {"new", "starting", "live", "succeeded", "failed", "refused",
                        "aborted", "killed"}]
  /\ recorded \subseteq Jobs
  /\ crashes \in 0..MaxCrashes

RunLabels == {"running", "finish"}

(* Two calls, in one process or in two, are never both between acquiring   *)
(* the reindex lock and releasing it: the index has one writer, although   *)
(* Status takes the same lock to look at it.                               *)
SingleWriter ==
  \A t, u \in Threads :
    pc[t] \in WriterLabels /\ pc[u] \in WriterLabels => t = u

(* While a run ingests, and until Finish has saved its record, the status  *)
(* file shows that very job as the running one and the lock file names it, *)
(* whatever other starts, refusals, polls and crashes do meanwhile.        *)
LiveRunIsShown ==
  \A t \in Threads :
    pc[t] \in RunLabels =>
      /\ statusFile.activeJob = job[t]
      /\ statusFile.status = "running"
      /\ lockFile = job[t]

(* No path of Start, Finish or Status, failed or killed, leaves a lock     *)
(* behind: each lock that is held belongs to a call that is still going to *)
(* release it.                                                             *)
LocksHaveOwners ==
  /\ flock # Free => pc[flock] \in WriterLabels \cup {"probing"}
  /\ statusLock # Free => pc[statusLock] \in StatusLabels
  /\ \A p \in localHeld : \E t \in Threads : ProcOf[t] = p /\ pc[t] \in LocalLabels

(* last_run never speaks of a run that has not ended, and says "succeeded" *)
(* only of a run whose ingest succeeded.                                   *)
TerminalRecordsAreTrue ==
  statusFile.lastRun # NoRun =>
    /\ fate[statusFile.lastRun.job] \notin {"new", "starting", "live"}
    /\ statusFile.lastRun.status = "succeeded" =>
         fate[statusFile.lastRun.job] = "succeeded"

(* The document counts shown for the active job, and those kept in the     *)
(* last record, were reported by that run and not by a predecessor that    *)
(* died without a status check.                                            *)
CountsAreTheRunsOwn ==
  /\ statusFile.counts \in {NoJob, statusFile.activeJob}
  /\ statusFile.lastRun # NoRun => statusFile.lastRun.counts = statusFile.lastRun.job

(* When Status finds the lock free and answers with anything but "running" *)
(* no run is going on at the moment of the answer, although the lock was   *)
(* dropped a step earlier and a start may have taken it since.             *)
IdleAnswerIsHonest ==
  [][\A t \in Threads :
       pc[t] = "settle" /\ pc'[t] = "idle" =>
         \A u \in Threads : pc[u] \notin RunLabels]_vars

(* The coordinator implements a single-writer lease.                       *)
Exclusive == INSTANCE ExclusiveReindex WITH
  writers <- {job[t] : t \in {u \in Threads : pc[u] \in WriterLabels}},
  gone <- {j \in Jobs : fate[j] # "new" /\ \A t \in Threads : job[t] # j}

SingleWriterLease == Exclusive!Spec

(* Every call comes back, refused, finished or answered: nobody waits for  *)
(* ever on a lock of somebody who failed or was killed.                    *)
CallsReturn == \A t \in Threads : pc[t] # "idle" ~> pc[t] = "idle"

(* A job that died with its process does not stay the active one when      *)
(* somebody keeps asking for the status.                                   *)
DeadJobIsSettled ==
  \A j \in Jobs :
    fate[j] = "killed" /\ statusFile.activeJob = j ~> statusFile.activeJob # j
-----------------------------------------------------------------------------
(* What the documentation says and the protocol does not keep.             *)

(* README.md, reindex_blocked: "Reindex start was rejected because another *)
(* reindex is running".  A start is told EWOULDBLOCK only when a run, or a *)
(* start on its way to one, has the lock; but Status probes with the same  *)
(* flock.                                                                  *)
RefusedBecauseRunning ==
  [][\A t \in Threads :
       pc[t] = "flock" /\ pc'[t] = "undo" => pc[flock] \in WriterLabels]_vars

(* README.md, rag_reindex_status: "If a process exits without writing a    *)
(* terminal status, the next status check marks the stale active job as    *)
(* failed".  A run whose terminal record was saved is never marked; but a  *)
(* refused start may copy the job back from the lock file before Close     *)
(* empties it.                                                             *)
OnlyUnfinishedRunsGoStale ==
  statusFile.lastRun # NoRun /\ statusFile.lastRun.stale =>
    statusFile.lastRun.job \notin recorded
=============================================================================
