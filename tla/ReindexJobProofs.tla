-------------------------- MODULE ReindexJobProofs --------------------------
(***************************************************************************)
(* Proofs about ReindexJob, for any number of threads, processes, jobs and *)
(* crashes, with or without file errors.                                   *)
(*                                                                         *)
(* No property is inductive by itself: that the status file shows the live *)
(* run needs the two locks to exclude what their holders exclude, and that *)
(* the terminal record is well formed needs each job to belong to one      *)
(* thread.  The strengthening has three layers:                            *)
(*   JobInv     which threads have a job, and that nobody shares one;      *)
(*   LockInv    where the holder of each lock is, and that nobody else is  *)
(*              in the stretch the lock protects;                          *)
(*   StatusInv  what the two files say while a run is live.                *)
(*                                                                         *)
(* What is left behind, the locks and the record of the last run, needs    *)
(* three more:                                                             *)
(*   FateInv    says how far the job of a thread has come at each label;   *)
(*   AliveInv   says that a job either file names has ended, or has a      *)
(*              thread between writing the lock file and the end of its    *)
(*              ingest: so whoever has the flock may declare it dead;      *)
(*   SettleInv  carries this over the step at which a status check gives   *)
(*              the flock back and has not yet saved what it concluded.    *)
(***************************************************************************)
EXTENDS ReindexJob, TLAPS

JobLabels == {"flock", "undo", "blocked"} \cup WriterLabels

JobInv ==
  /\ \A t \in Threads : pc[t] \in JobLabels => job[t] \in Jobs
  /\ \A t \in Threads : pc[t] \notin JobLabels => job[t] = NoJob
  /\ \A t \in Threads : job[t] # NoJob => fate[job[t]] # "new"
  /\ \A t, u \in Threads : job[t] = job[u] /\ job[t] # NoJob => t = u
  /\ \A t \in Threads : pc[t] = "finish" => fate[job[t]] \in {"succeeded", "failed"}

LockInv ==
  /\ \A t \in Threads : pc[t] \in WriterLabels \cup {"probing"} => flock = t
  /\ \A t \in Threads : pc[t] \in StatusLabels => statusLock = t

(* A status call that found the flock free, or has it, excludes live runs. *)
ProbeInv ==
  \A t, u \in Threads : pc[t] \in {"probing", "settle"} => pc[u] \notin RunLabels

WrittenInv ==
  \A t \in Threads :
    pc[t] \in {"record"} \cup RunLabels => lockFile = job[t]

TInv == TypeOK /\ JobInv
IInv == TInv /\ LockInv /\ ProbeInv /\ WrittenInv /\ LiveRunIsShown
-----------------------------------------------------------------------------
(* The values the status file is given are well formed.                    *)
LEMMA RunningStatusType ==
  ASSUME NEW file \in Status, NEW j \in Jobs
  PROVE  RunningStatus(file, j) \in Status
  BY DEF RunningStatus, Status

LEMMA BlockedStatusType ==
  ASSUME NEW file \in Status, NEW j \in Jobs \cup {NoJob}
  PROVE  BlockedStatus(file, j) \in Status
  BY DEF BlockedStatus, Status

LEMMA FinishedStatusType ==
  ASSUME NEW file \in Status, NEW j \in Jobs, NEW how \in {"succeeded", "failed"}
  PROVE  FinishedStatus(file, j, how) \in Status
  BY DEF FinishedStatus, Status, RunRecord

LEMMA SettledStatusType ==
  ASSUME NEW file \in Status
  PROVE  SettledStatus(file) \in Status
  BY ReindexJobAssumption DEF SettledStatus, Status, RunRecord

LEMMA TInvInit == Init => TInv
  BY ReindexJobAssumption
  DEF Init, TInv, TypeOK, JobInv, JobLabels, WriterLabels, Labels, LocalLabels,
      StatusLabels, Status


(* Well-formedness and the ownership of jobs are kept by every step.       *)
LEMMA TInvStep == TInv /\ [Next]_vars => TInv'
  <1> SUFFICES ASSUME TInv, [Next]_vars PROVE TInv'
    OBVIOUS
  <1> USE ReindexJobAssumption
  <1> USE DEF TInv, TypeOK, JobInv, JobLabels, WriterLabels, Labels, LocalLabels,
              StatusLabels, Goto, Leaves, locks, history
  <1>1. ASSUME NEW t \in Threads, NEW j \in Jobs, BeginStart(t, j)
        PROVE  TInv'
    BY <1>1 DEF BeginStart
  <1>2. ASSUME NEW t \in Threads, NEW j \in Jobs, BeginRefused(t, j)
        PROVE  TInv'
    BY <1>2 DEF BeginRefused
  <1>3. ASSUME NEW t \in Threads, TakeFlock(t)
        PROVE  TInv'
    BY <1>3 DEF TakeFlock
  <1>4. ASSUME NEW t \in Threads, FlockBusy(t)
        PROVE  TInv'
    BY <1>4 DEF FlockBusy
  <1>5. ASSUME NEW t \in Threads, UndoLocalLock(t)
        PROVE  TInv'
    BY <1>5 DEF UndoLocalLock
  <1>6. ASSUME NEW t \in Threads, AcquireFails(t)
        PROVE  TInv'
    BY <1>6 DEF AcquireFails
  <1>7. ASSUME NEW t \in Threads, TruncateLock(t)
        PROVE  TInv'
    BY <1>7 DEF TruncateLock
  <1>8. ASSUME NEW t \in Threads, WriteJob(t)
        PROVE  TInv'
    BY <1>8 DEF WriteJob
  <1>9. ASSUME NEW t \in Threads, StartFails(t)
        PROVE  TInv'
    BY <1>9 DEF StartFails
  <1>10. ASSUME NEW t \in Threads, RecordRunning(t)
         PROVE  TInv'
    BY <1>10, RunningStatusType DEF RecordRunning
  <1>11. ASSUME NEW t \in Threads, RecordBlocked(t)
         PROVE  TInv'
    BY <1>11, BlockedStatusType DEF RecordBlocked
  <1>12. ASSUME NEW t \in Threads, RecordBlockedFails(t)
         PROVE  TInv'
    BY <1>12 DEF RecordBlockedFails
  <1>13. ASSUME NEW t \in Threads, RecordProgress(t)
         PROVE  TInv'
    <2>1. job[t] \in Jobs /\ statusFile \in Status
      BY <1>13 DEF TInv, TypeOK, JobInv, RecordProgress
    <2>2. statusFile' \in Status
      BY <1>13, <2>1 DEF RecordProgress, Status
    <2> QED
      BY <1>13, <2>2 DEF RecordProgress
  <1>14. ASSUME NEW t \in Threads, NEW how \in {"succeeded", "failed"}, RunEnds(t, how)
         PROVE  TInv'
    BY <1>14 DEF RunEnds
  <1>15. ASSUME NEW t \in Threads, RecordFinished(t)
         PROVE  TInv'
    BY <1>15, FinishedStatusType DEF RecordFinished
  <1>16. ASSUME NEW t \in Threads, RecordFinishedFails(t)
         PROVE  TInv'
    BY <1>16 DEF RecordFinishedFails
  <1>17. ASSUME NEW t \in Threads, CloseTruncate(t)
         PROVE  TInv'
    BY <1>17 DEF CloseTruncate
  <1>18. ASSUME NEW t \in Threads, CloseUnlock(t)
         PROVE  TInv'
    BY <1>18 DEF CloseUnlock
  <1>19. ASSUME NEW t \in Threads, CloseRelease(t)
         PROVE  TInv'
    BY <1>19 DEF CloseRelease
  <1>20. ASSUME NEW t \in Threads, StatusEnter(t)
         PROVE  TInv'
    BY <1>20 DEF StatusEnter
  <1>21. ASSUME NEW t \in Threads, ProbeTakes(t)
         PROVE  TInv'
    BY <1>21 DEF ProbeTakes
  <1>22. ASSUME NEW t \in Threads, ProbeBusy(t)
         PROVE  TInv'
    BY <1>22 DEF ProbeBusy
  <1>23. ASSUME NEW t \in Threads, ProbeReleases(t)
         PROVE  TInv'
    BY <1>23 DEF ProbeReleases
  <1>24. ASSUME NEW t \in Threads, StatusSettles(t)
         PROVE  TInv'
    BY <1>24, SettledStatusType DEF StatusSettles
  <1>25. ASSUME NEW t \in Threads, StatusAnswers(t)
         PROVE  TInv'
    BY <1>25 DEF StatusAnswers
  <1>26. ASSUME NEW t \in Threads, StatusFails(t)
         PROVE  TInv'
    BY <1>26 DEF StatusFails
  <1>27. ASSUME NEW p \in Procs, Crash(p)
         PROVE  TInv'
    BY <1>27 DEF Crash, Killed
  <1>28. ASSUME UNCHANGED vars PROVE TInv'
    BY <1>28 DEF vars
  <1> QED
    BY <1>1, <1>2, <1>3, <1>4, <1>5, <1>6, <1>7, <1>8, <1>9, <1>10, <1>11, <1>12, <1>13, <1>14, <1>15, <1>16, <1>17, <1>18, <1>19, <1>20, <1>21, <1>22, <1>23, <1>24, <1>25, <1>26, <1>27, <1>28
    DEF Next, Step, StartStep, RunStep, FinishStep, StatusStep

(* Each lock protects its stretch of the calls.                            *)
LEMMA LockInvStep == TInv /\ LockInv /\ [Next]_vars => LockInv'
  <1> SUFFICES ASSUME TInv, LockInv, [Next]_vars PROVE LockInv'
    OBVIOUS
  <1> USE ReindexJobAssumption
  <1> USE DEF TInv, TypeOK, LockInv, WriterLabels, StatusLabels, Labels, LocalLabels,
              Goto, locks, history
  <1>1. ASSUME NEW t \in Threads, NEW j \in Jobs, BeginStart(t, j)
        PROVE  LockInv'
    BY <1>1 DEF BeginStart
  <1>2. ASSUME NEW t \in Threads, NEW j \in Jobs, BeginRefused(t, j)
        PROVE  LockInv'
    BY <1>2 DEF BeginRefused
  <1>3. ASSUME NEW t \in Threads, TakeFlock(t)
        PROVE  LockInv'
    BY <1>3 DEF TakeFlock
  <1>4. ASSUME NEW t \in Threads, FlockBusy(t)
        PROVE  LockInv'
    BY <1>4 DEF FlockBusy
  <1>5. ASSUME NEW t \in Threads, UndoLocalLock(t)
        PROVE  LockInv'
    BY <1>5 DEF UndoLocalLock
  <1>6. ASSUME NEW t \in Threads, AcquireFails(t)
        PROVE  LockInv'
    BY <1>6 DEF AcquireFails
  <1>7. ASSUME NEW t \in Threads, TruncateLock(t)
        PROVE  LockInv'
    BY <1>7 DEF TruncateLock
  <1>8. ASSUME NEW t \in Threads, WriteJob(t)
        PROVE  LockInv'
    BY <1>8 DEF WriteJob
  <1>9. ASSUME NEW t \in Threads, StartFails(t)
        PROVE  LockInv'
    BY <1>9 DEF StartFails
  <1>10. ASSUME NEW t \in Threads, RecordRunning(t)
         PROVE  LockInv'
    BY <1>10 DEF RecordRunning
  <1>11. ASSUME NEW t \in Threads, RecordBlocked(t)
         PROVE  LockInv'
    BY <1>11 DEF RecordBlocked
  <1>12. ASSUME NEW t \in Threads, RecordBlockedFails(t)
         PROVE  LockInv'
    BY <1>12 DEF RecordBlockedFails
  <1>13. ASSUME NEW t \in Threads, RecordProgress(t)
         PROVE  LockInv'
    BY <1>13 DEF RecordProgress
  <1>14. ASSUME NEW t \in Threads, NEW how \in {"succeeded", "failed"}, RunEnds(t, how)
         PROVE  LockInv'
    BY <1>14 DEF RunEnds
  <1>15. ASSUME NEW t \in Threads, RecordFinished(t)
         PROVE  LockInv'
    BY <1>15 DEF RecordFinished
  <1>16. ASSUME NEW t \in Threads, RecordFinishedFails(t)
         PROVE  LockInv'
    BY <1>16 DEF RecordFinishedFails
  <1>17. ASSUME NEW t \in Threads, CloseTruncate(t)
         PROVE  LockInv'
    BY <1>17 DEF CloseTruncate
  <1>18. ASSUME NEW t \in Threads, CloseUnlock(t)
         PROVE  LockInv'
    BY <1>18 DEF CloseUnlock
  <1>19. ASSUME NEW t \in Threads, CloseRelease(t)
         PROVE  LockInv'
    BY <1>19 DEF CloseRelease
  <1>20. ASSUME NEW t \in Threads, StatusEnter(t)
         PROVE  LockInv'
    BY <1>20 DEF StatusEnter
  <1>21. ASSUME NEW t \in Threads, ProbeTakes(t)
         PROVE  LockInv'
    BY <1>21 DEF ProbeTakes
  <1>22. ASSUME NEW t \in Threads, ProbeBusy(t)
         PROVE  LockInv'
    BY <1>22 DEF ProbeBusy
  <1>23. ASSUME NEW t \in Threads, ProbeReleases(t)
         PROVE  LockInv'
    BY <1>23 DEF ProbeReleases
  <1>24. ASSUME NEW t \in Threads, StatusSettles(t)
         PROVE  LockInv'
    BY <1>24 DEF StatusSettles
  <1>25. ASSUME NEW t \in Threads, StatusAnswers(t)
         PROVE  LockInv'
    BY <1>25 DEF StatusAnswers
  <1>26. ASSUME NEW t \in Threads, StatusFails(t)
         PROVE  LockInv'
    BY <1>26 DEF StatusFails
  <1>27. ASSUME NEW p \in Procs, Crash(p)
         PROVE  LockInv'
    BY <1>27 DEF Crash, Killed
  <1>28. ASSUME UNCHANGED vars PROVE LockInv'
    BY <1>28 DEF vars
  <1> QED
    BY <1>1, <1>2, <1>3, <1>4, <1>5, <1>6, <1>7, <1>8, <1>9, <1>10, <1>11, <1>12, <1>13, <1>14, <1>15, <1>16, <1>17, <1>18, <1>19, <1>20, <1>21, <1>22, <1>23, <1>24, <1>25, <1>26, <1>27, <1>28
    DEF Next, Step, StartStep, RunStep, FinishStep, StatusStep

(* Under the locks, the files show the live run and only the live run.     *)
LEMMA StatusInvStep ==
  IInv /\ [Next]_vars => (ProbeInv /\ WrittenInv /\ LiveRunIsShown)'
  <1> DEFINE StatusInv == ProbeInv /\ WrittenInv /\ LiveRunIsShown
  <1> SUFFICES ASSUME IInv, [Next]_vars PROVE StatusInv'
    OBVIOUS
  <1> USE ReindexJobAssumption
  <1> USE DEF IInv, TInv, TypeOK, JobInv, JobLabels, LockInv, ProbeInv, WrittenInv,
              LiveRunIsShown, RunLabels, WriterLabels, StatusLabels, Labels,
              LocalLabels, Goto, Leaves, locks, history, Status
  <1>1. ASSUME NEW t \in Threads, NEW j \in Jobs, BeginStart(t, j)
        PROVE  StatusInv'
    BY <1>1 DEF BeginStart
  <1>2. ASSUME NEW t \in Threads, NEW j \in Jobs, BeginRefused(t, j)
        PROVE  StatusInv'
    BY <1>2 DEF BeginRefused
  <1>3. ASSUME NEW t \in Threads, TakeFlock(t)
        PROVE  StatusInv'
    BY <1>3 DEF TakeFlock
  <1>4. ASSUME NEW t \in Threads, FlockBusy(t)
        PROVE  StatusInv'
    BY <1>4 DEF FlockBusy
  <1>5. ASSUME NEW t \in Threads, UndoLocalLock(t)
        PROVE  StatusInv'
    BY <1>5 DEF UndoLocalLock
  <1>6. ASSUME NEW t \in Threads, AcquireFails(t)
        PROVE  StatusInv'
    BY <1>6 DEF AcquireFails
  <1>7. ASSUME NEW t \in Threads, TruncateLock(t)
        PROVE  StatusInv'
    BY <1>7 DEF TruncateLock
  <1>8. ASSUME NEW t \in Threads, WriteJob(t)
        PROVE  StatusInv'
    BY <1>8 DEF WriteJob
  <1>9. ASSUME NEW t \in Threads, StartFails(t)
        PROVE  StatusInv'
    BY <1>9 DEF StartFails
  <1>10. ASSUME NEW t \in Threads, RecordRunning(t)
         PROVE  StatusInv'
    BY <1>10 DEF RecordRunning, RunningStatus
  <1>11. ASSUME NEW t \in Threads, RecordBlocked(t)
         PROVE  StatusInv'
    BY <1>11 DEF RecordBlocked, BlockedStatus
  <1>12. ASSUME NEW t \in Threads, RecordBlockedFails(t)
         PROVE  StatusInv'
    BY <1>12 DEF RecordBlockedFails
  <1>13. ASSUME NEW t \in Threads, RecordProgress(t)
         PROVE  StatusInv'
    BY <1>13 DEF RecordProgress
  <1>14. ASSUME NEW t \in Threads, NEW how \in {"succeeded", "failed"}, RunEnds(t, how)
         PROVE  StatusInv'
    BY <1>14 DEF RunEnds
  <1>15. ASSUME NEW t \in Threads, RecordFinished(t)
         PROVE  StatusInv'
    BY <1>15 DEF RecordFinished
  <1>16. ASSUME NEW t \in Threads, RecordFinishedFails(t)
         PROVE  StatusInv'
    BY <1>16 DEF RecordFinishedFails
  <1>17. ASSUME NEW t \in Threads, CloseTruncate(t)
         PROVE  StatusInv'
    BY <1>17 DEF CloseTruncate
  <1>18. ASSUME NEW t \in Threads, CloseUnlock(t)
         PROVE  StatusInv'
    BY <1>18 DEF CloseUnlock
  <1>19. ASSUME NEW t \in Threads, CloseRelease(t)
         PROVE  StatusInv'
    BY <1>19 DEF CloseRelease
  <1>20. ASSUME NEW t \in Threads, StatusEnter(t)
         PROVE  StatusInv'
    BY <1>20 DEF StatusEnter
  <1>21. ASSUME NEW t \in Threads, ProbeTakes(t)
         PROVE  StatusInv'
    BY <1>21 DEF ProbeTakes
  <1>22. ASSUME NEW t \in Threads, ProbeBusy(t)
         PROVE  StatusInv'
    BY <1>22 DEF ProbeBusy
  <1>23. ASSUME NEW t \in Threads, ProbeReleases(t)
         PROVE  StatusInv'
    BY <1>23 DEF ProbeReleases
  <1>24. ASSUME NEW t \in Threads, StatusSettles(t)
         PROVE  StatusInv'
    BY <1>24 DEF StatusSettles
  <1>25. ASSUME NEW t \in Threads, StatusAnswers(t)
         PROVE  StatusInv'
    BY <1>25 DEF StatusAnswers
  <1>26. ASSUME NEW t \in Threads, StatusFails(t)
         PROVE  StatusInv'
    BY <1>26 DEF StatusFails
  <1>27. ASSUME NEW p \in Procs, Crash(p)
         PROVE  StatusInv'
    BY <1>27 DEF Crash, Killed
  <1>28. ASSUME UNCHANGED vars PROVE StatusInv'
    BY <1>28 DEF vars
  <1> QED
    BY <1>1, <1>2, <1>3, <1>4, <1>5, <1>6, <1>7, <1>8, <1>9, <1>10, <1>11, <1>12, <1>13, <1>14, <1>15, <1>16, <1>17, <1>18, <1>19, <1>20, <1>21, <1>22, <1>23, <1>24, <1>25, <1>26, <1>27, <1>28
    DEF Next, Step, StartStep, RunStep, FinishStep, StatusStep

LEMMA IInvInit == Init => IInv
  <1>1. Init => TInv
    BY TInvInit
  <1>2. Init => LockInv /\ ProbeInv /\ WrittenInv /\ LiveRunIsShown
    BY DEF Init, LockInv, ProbeInv, WrittenInv, LiveRunIsShown, WriterLabels,
           StatusLabels, RunLabels
  <1> QED
    BY <1>1, <1>2 DEF IInv

LEMMA IInvStep == IInv /\ [Next]_vars => IInv'
  BY TInvStep, LockInvStep, StatusInvStep DEF IInv

LEMMA IInvHolds == Spec => []IInv
  BY IInvInit, IInvStep, PTL DEF Spec
-----------------------------------------------------------------------------
(* Every variable keeps its type: in particular the terminal record is     *)
(* never written for a thread without a job or a run without an outcome.   *)
THEOREM TypeCorrect == Spec => []TypeOK
  <1>1. IInv => TypeOK
    BY DEF IInv, TInv
  <1> QED
    BY <1>1, IInvHolds, PTL

(* The index has one writer: two calls are never both between acquiring    *)
(* and releasing the reindex lock (tryAcquireReindexLock, Close), although *)
(* status checks borrow the same lock.                                     *)
THEOREM OneWriter == Spec => []SingleWriter
  <1>1. IInv => SingleWriter
    BY ReindexJobAssumption DEF IInv, LockInv, SingleWriter
  <1> QED
    BY <1>1, IInvHolds, PTL

(* The status file and the lock file name the run that is live, from       *)
(* recordRunning to recordFinished.                                        *)
THEOREM LiveRunShown == Spec => []LiveRunIsShown
  <1>1. IInv => LiveRunIsShown
    BY DEF IInv
  <1> QED
    BY <1>1, IInvHolds, PTL

(* A status check that settles on "not running" is right at the moment it  *)
(* answers.                                                                *)
THEOREM IdleAnswerHonest == Spec => IdleAnswerIsHonest
  <1>1. IInv /\ [Next]_vars =>
          [\A t \in Threads :
             pc[t] = "settle" /\ pc'[t] = "idle" =>
               \A u \in Threads : pc[u] \notin RunLabels]_vars
    BY DEF IInv, ProbeInv
  <1> QED
    BY <1>1, IInvHolds, PTL DEF Spec, IdleAnswerIsHonest

-----------------------------------------------------------------------------
(* The coordinator as a lease.                                             *)
Writers == {job[t] : t \in {u \in Threads : pc[u] \in WriterLabels}}
Gone == {j \in Jobs : fate[j] # "new" /\ \A t \in Threads : job[t] # j}
Stutters == Writers' = Writers /\ Gone' = Gone

(* Most steps move a call along without giving or taking the lease: the    *)
(* job stays with its thread and on its side of the lock.                  *)
LEMMA MovesStutter ==
  ASSUME TInv, NEW t \in Threads,
         job' = job,
         pc' \in [Threads -> Labels],
         \A u \in Threads \ {t} : pc'[u] = pc[u],
         pc'[t] \in WriterLabels <=> pc[t] \in WriterLabels,
         \A j \in Jobs : fate'[j] = "new" <=> fate[j] = "new"
  PROVE  Stutters
  <1>1. \A u \in Threads : pc'[u] \in WriterLabels <=> pc[u] \in WriterLabels
    OBVIOUS
  <1>2. Writers' = Writers
    BY <1>1 DEF Writers
  <1>3. Gone' = Gone
    BY DEF Gone
  <1> QED
    BY <1>2, <1>3 DEF Stutters

(* A thread that lets go of its job, and changes no other thread's, gives  *)
(* back what the job had.                                                  *)
LEMMA LettingGoLeaves ==
  ASSUME TInv, TInv', NEW S \in SUBSET Threads,
         \A t \in S : job'[t] = NoJob,
         \A t \in Threads \ S : job'[t] = job[t] /\ pc'[t] = pc[t],
         \A t \in S : pc'[t] \notin WriterLabels,
         \A j \in Jobs : fate'[j] = "new" <=> fate[j] = "new"
  PROVE  LET L == {job[t] : t \in {u \in S : job[u] # NoJob}}
         IN  /\ L \in SUBSET Jobs
             /\ L \cap Gone = {}
             /\ Writers' = Writers \ L
             /\ Gone' = Gone \cup L
  <1> DEFINE L == {job[t] : t \in {u \in S : job[u] # NoJob}}
  <1>1. L \in SUBSET Jobs
    BY DEF TInv, TypeOK
  <1>2. L \cap Gone = {}
    BY DEF Gone
  <1>3. Writers' = Writers \ L
    <2>1. ASSUME NEW j \in Writers' PROVE j \in Writers \ L
      <3>1. PICK t \in Threads : pc'[t] \in WriterLabels /\ job'[t] = j
        BY <2>1 DEF Writers
      <3>2. t \notin S /\ pc[t] \in WriterLabels /\ job[t] = j
        BY <3>1
      <3>3. job[t] \in Jobs
        BY <3>2 DEF TInv, JobInv, JobLabels
      <3>4. j \notin L
        BY <3>2, <3>3, ReindexJobAssumption DEF TInv, JobInv
      <3> QED
        BY <3>2, <3>4 DEF Writers
    <2>2. ASSUME NEW j \in Writers \ L PROVE j \in Writers'
      <3>1. PICK t \in Threads : pc[t] \in WriterLabels /\ job[t] = j
        BY <2>2 DEF Writers
      <3>2. job[t] # NoJob
        BY <3>1, ReindexJobAssumption DEF TInv, JobInv, JobLabels
      <3>3. t \notin S
        BY <3>1, <3>2, <2>2
      <3> QED
        BY <3>1, <3>3 DEF Writers
    <2> QED
      BY <2>1, <2>2
  <1>4. Gone' = Gone \cup L
    <2>1. ASSUME NEW j \in Jobs PROVE j \in Gone' <=> j \in Gone \/ j \in L
      <3>1. CASE \E t \in Threads \ S : job[t] = j
        BY <3>1, ReindexJobAssumption DEF Gone, TInv, JobInv
      <3>2. CASE \E t \in S : job[t] = j
        BY <3>2, ReindexJobAssumption DEF Gone, TInv, JobInv
      <3>3. CASE \A t \in Threads : job[t] # j
        BY <3>3, ReindexJobAssumption DEF Gone
      <3> QED
        BY <3>1, <3>2, <3>3
    <2> QED
      BY <2>1, <1>1 DEF Gone
  <1> QED
    BY <1>1, <1>2, <1>3, <1>4

(* Every step of the protocol is a step of the lease or none of its        *)
(* business.                                                               *)
LEMMA LeaseStep ==
  IInv /\ [Next]_vars => Stutters \/ Exclusive!Next
  <1> SUFFICES ASSUME IInv, [Next]_vars PROVE Stutters \/ Exclusive!Next
    OBVIOUS
  <1> USE ReindexJobAssumption
  <1>0. TInv /\ TInv'
    BY TInvStep DEF IInv
  <1>a. ASSUME NEW L \in SUBSET Jobs, L \cap Gone = {}, Writers' = Writers \ L,
               Gone' = Gone \cup L
        PROVE  Exclusive!Next
    BY <1>a DEF Exclusive!Next, Exclusive!Leave, Writers, Gone
  <1>1. ASSUME NEW t \in Threads, NEW j \in Jobs, BeginStart(t, j) \/ BeginRefused(t, j)
        PROVE  Stutters \/ Exclusive!Next
    <2>1. /\ job[t] = NoJob /\ pc[t] \notin WriterLabels
          /\ pc' = [pc EXCEPT ![t] = pc'[t]] /\ pc'[t] \notin WriterLabels
          /\ job' = [job EXCEPT ![t] = j] /\ fate[j] = "new"
          /\ fate' = [fate EXCEPT ![j] = "starting"]
      BY <1>1, <1>0 DEF BeginStart, BeginRefused, Goto, TInv, TypeOK, JobInv, JobLabels,
                        WriterLabels
    <2>2. Writers' = Writers
      BY <2>1, <1>0 DEF Writers, TInv, TypeOK
    <2>3. \A k \in Jobs : k \in Gone' <=> k \in Gone
      BY <2>1, <1>0 DEF Gone, TInv, TypeOK
    <2> QED
      BY <2>2, <2>3 DEF Stutters, Gone
  <1>2. ASSUME NEW t \in Threads, TakeFlock(t)
        PROVE  Stutters \/ Exclusive!Next
    <2>1. /\ pc[t] = "flock" /\ pc' = [pc EXCEPT ![t] = "truncate"] /\ flock = Free
          /\ job' = job /\ fate' = fate /\ job[t] \in Jobs
      BY <1>2, <1>0 DEF TakeFlock, Goto, history, TInv, JobInv, JobLabels
    <2>2. Writers = {}
      BY <2>1 DEF Writers, IInv, LockInv
    <2>3. Writers' = {job[t]}
      BY <2>1, <2>2, <1>0 DEF Writers, WriterLabels, TInv, TypeOK
    <2>4. Gone' = Gone /\ job[t] \notin Gone
      BY <2>1 DEF Gone
    <2> QED
      BY <2>1, <2>2, <2>3, <2>4 DEF Exclusive!Next, Exclusive!Enter, Writers, Gone
  <1>3. ASSUME NEW t \in Threads, AcquireFails(t) \/ CloseUnlock(t) \/ RecordBlocked(t)
                                    \/ RecordBlockedFails(t)
        PROVE  Stutters \/ Exclusive!Next
    <2>1. /\ job' = [job EXCEPT ![t] = NoJob] /\ pc' = [pc EXCEPT ![t] = pc'[t]]
          /\ pc'[t] \notin WriterLabels
          /\ \A j \in Jobs : fate'[j] = "new" <=> fate[j] = "new"
      BY <1>3, <1>0 DEF AcquireFails, CloseUnlock, RecordBlocked, RecordBlockedFails,
                        Goto, Leaves, history, TInv, TypeOK, JobInv, JobLabels,
                        WriterLabels
    <2> DEFINE S == {t}
    <2>2. S \in SUBSET Threads
      OBVIOUS
    <2>3. /\ \A u \in S : job'[u] = NoJob /\ pc'[u] \notin WriterLabels
          /\ \A u \in Threads \ S : job'[u] = job[u] /\ pc'[u] = pc[u]
      BY <2>1, <1>0 DEF TInv, TypeOK
    <2>4. \A j \in Jobs : fate'[j] = "new" <=> fate[j] = "new"
      BY <2>1
    <2> HIDE DEF S
    <2> QED
      BY <2>2, <2>3, <2>4, <1>0, <1>a, LettingGoLeaves
  <1>4. ASSUME NEW p \in Procs, Crash(p)
        PROVE  Stutters \/ Exclusive!Next
    <2>1. /\ \A t \in Killed(p) : job'[t] = NoJob /\ pc'[t] \notin WriterLabels
          /\ \A t \in Threads \ Killed(p) : job'[t] = job[t] /\ pc'[t] = pc[t]
          /\ Killed(p) \in SUBSET Threads
      BY <1>4, <1>0 DEF Crash, Killed, WriterLabels
    <2>2. \A j \in Jobs : fate'[j] = "new" <=> fate[j] = "new"
      BY <1>4, <1>0 DEF Crash, TInv, TypeOK
    <2> QED
      BY <2>1, <2>2, <1>0, <1>a, LettingGoLeaves
  <1>5. ASSUME NEW t \in Threads, NEW how \in {"succeeded", "failed"}, RunEnds(t, how)
        PROVE  Stutters \/ Exclusive!Next
    BY <1>5, <1>0, MovesStutter
    DEF RunEnds, Goto, TInv, TypeOK, JobInv, JobLabels, WriterLabels
  <1>6. ASSUME NEW t \in Threads, FlockBusy(t) \/ UndoLocalLock(t) \/ CloseRelease(t)
        PROVE  Stutters \/ Exclusive!Next
    <2>1. /\ job' = job /\ pc' = [pc EXCEPT ![t] = pc'[t]]
          /\ pc'[t] \in WriterLabels <=> pc[t] \in WriterLabels
          /\ \A j \in Jobs : fate'[j] = "new" <=> fate[j] = "new"
      BY <1>6, <1>0 DEF FlockBusy, UndoLocalLock, CloseRelease,
                        Goto, history, TInv, TypeOK, JobInv, JobLabels, WriterLabels
    <2> QED
      BY <2>1, <1>0, MovesStutter DEF TInv, TypeOK
  <1>7. ASSUME NEW t \in Threads, TruncateLock(t) \/ WriteJob(t) \/ StartFails(t) \/ RecordRunning(t)
        PROVE  Stutters \/ Exclusive!Next
    <2>1. /\ job' = job /\ pc' = [pc EXCEPT ![t] = pc'[t]]
          /\ pc'[t] \in WriterLabels <=> pc[t] \in WriterLabels
          /\ \A j \in Jobs : fate'[j] = "new" <=> fate[j] = "new"
      BY <1>7, <1>0 DEF TruncateLock, WriteJob, StartFails, RecordRunning,
                        Goto, history, TInv, TypeOK, JobInv, JobLabels, WriterLabels
    <2> QED
      BY <2>1, <1>0, MovesStutter DEF TInv, TypeOK
  <1>8. ASSUME NEW t \in Threads, RecordProgress(t) \/ RecordFinished(t) \/ RecordFinishedFails(t) \/ CloseTruncate(t)
        PROVE  Stutters \/ Exclusive!Next
    <2>1. /\ job' = job /\ pc' = [pc EXCEPT ![t] = pc'[t]]
          /\ pc'[t] \in WriterLabels <=> pc[t] \in WriterLabels
          /\ \A j \in Jobs : fate'[j] = "new" <=> fate[j] = "new"
      BY <1>8, <1>0 DEF RecordProgress, RecordFinished, RecordFinishedFails, CloseTruncate,
                        Goto, history, TInv, TypeOK, JobInv, JobLabels, WriterLabels
    <2> QED
      BY <2>1, <1>0, MovesStutter DEF TInv, TypeOK
  <1>9. ASSUME NEW t \in Threads, StatusEnter(t) \/ ProbeTakes(t) \/ ProbeBusy(t) \/ ProbeReleases(t)
        PROVE  Stutters \/ Exclusive!Next
    <2>1. /\ job' = job /\ pc' = [pc EXCEPT ![t] = pc'[t]]
          /\ pc'[t] \in WriterLabels <=> pc[t] \in WriterLabels
          /\ \A j \in Jobs : fate'[j] = "new" <=> fate[j] = "new"
      BY <1>9, <1>0 DEF StatusEnter, ProbeTakes, ProbeBusy, ProbeReleases,
                        Goto, history, TInv, TypeOK, JobInv, JobLabels, WriterLabels
    <2> QED
      BY <2>1, <1>0, MovesStutter DEF TInv, TypeOK
  <1>10. ASSUME NEW t \in Threads, StatusSettles(t) \/ StatusAnswers(t) \/ StatusFails(t)
         PROVE  Stutters \/ Exclusive!Next
    <2>1. /\ job' = job /\ pc' = [pc EXCEPT ![t] = pc'[t]]
          /\ pc'[t] \in WriterLabels <=> pc[t] \in WriterLabels
          /\ \A j \in Jobs : fate'[j] = "new" <=> fate[j] = "new"
      BY <1>10, <1>0 DEF StatusSettles, StatusAnswers, StatusFails,
                        Goto, history, TInv, TypeOK, JobInv, JobLabels, WriterLabels
    <2> QED
      BY <2>1, <1>0, MovesStutter DEF TInv, TypeOK
  <1>11. ASSUME UNCHANGED vars
         PROVE  Stutters \/ Exclusive!Next
    BY <1>11 DEF vars, Stutters, Writers, Gone
  <1> QED
    BY <1>1, <1>2, <1>3, <1>4, <1>5, <1>6, <1>7, <1>8, <1>9, <1>10, <1>11
    DEF Next, Step, StartStep, RunStep, FinishStep, StatusStep

(* The coordinator implements the single-writer lease: in StartWithOptions *)
(* a job becomes the writer only when there is none, and a refused,        *)
(* finished, aborted or killed job never writes again.                     *)
THEOREM ImplementsLease == Spec => SingleWriterLease
  <1>1. Init => Exclusive!Init
    BY DEF Init, Exclusive!Init, WriterLabels
  <1>2. IInv /\ [Next]_vars => [Exclusive!Next]_(Exclusive!vars)
    BY LeaseStep DEF Stutters, Writers, Gone, Exclusive!vars
  <1> QED
    BY <1>1, <1>2, IInvHolds, PTL DEF Spec, SingleWriterLease, Exclusive!Spec
-----------------------------------------------------------------------------
(* What the coordinator leaves behind: its locks, and the record of the    *)
(* last run.                                                               *)

Ended(j) == fate[j] \notin {"new", "starting", "live"}

FateInv ==
  \A t \in Threads :
    /\ pc[t] \in {"flock", "undo", "blocked", "truncate", "write", "record"} =>
         fate[job[t]] = "starting"
    /\ pc[t] = "running" => fate[job[t]] = "live"
    /\ pc[t] \in {"finish", "close", "unlock"} => Ended(job[t])

Alive(j) == \E t \in Threads : job[t] = j /\ pc[t] \in {"record", "running"}

AliveInv ==
  \A j \in {lockFile, statusFile.activeJob} \cap Jobs : Ended(j) \/ Alive(j)

SettleInv ==
  \A t \in Threads :
    pc[t] \in {"probing", "settle"} /\ statusFile.activeJob \in Jobs =>
      Ended(statusFile.activeJob)

RecordInv == FateInv /\ AliveInv /\ SettleInv /\ TerminalRecordsAreTrue

RInv == IInv /\ RecordInv /\ CountsAreTheRunsOwn /\ LocksHaveOwners

(* At most one call of a process is between tryAcquireLocalLock and its    *)
(* release, and the map knows it.                                          *)
LocalInv ==
  /\ \A t \in Threads : pc[t] \in LocalLabels => ProcOf[t] \in localHeld
  /\ \A t, u \in Threads :
       pc[t] \in LocalLabels /\ pc[u] \in LocalLabels /\ ProcOf[t] = ProcOf[u] => t = u
-----------------------------------------------------------------------------
(* The locks                                                               *)

(* Whoever takes a lock is where it will give it back, and leaves this     *)
(* place by giving it back.                                                *)
LEMMA OwnersStep == TInv /\ LocksHaveOwners /\ [Next]_vars => LocksHaveOwners'
  <1> SUFFICES ASSUME TInv, LocksHaveOwners, [Next]_vars PROVE LocksHaveOwners'
    OBVIOUS
  <1> USE ReindexJobAssumption
  <1> USE DEF TInv, TypeOK, LocksHaveOwners, WriterLabels, StatusLabels, Labels,
              LocalLabels, Goto, locks, history
  <1>1. ASSUME NEW t \in Threads, NEW j \in Jobs, BeginStart(t, j)
        PROVE  LocksHaveOwners'
    BY <1>1 DEF BeginStart
  <1>2. ASSUME NEW t \in Threads, NEW j \in Jobs, BeginRefused(t, j)
        PROVE  LocksHaveOwners'
    BY <1>2 DEF BeginRefused
  <1>3. ASSUME NEW t \in Threads, TakeFlock(t)
        PROVE  LocksHaveOwners'
    BY <1>3 DEF TakeFlock
  <1>4. ASSUME NEW t \in Threads, FlockBusy(t)
        PROVE  LocksHaveOwners'
    BY <1>4 DEF FlockBusy
  <1>5. ASSUME NEW t \in Threads, UndoLocalLock(t)
        PROVE  LocksHaveOwners'
    BY <1>5 DEF UndoLocalLock
  <1>6. ASSUME NEW t \in Threads, AcquireFails(t)
        PROVE  LocksHaveOwners'
    BY <1>6 DEF AcquireFails
  <1>7. ASSUME NEW t \in Threads, TruncateLock(t)
        PROVE  LocksHaveOwners'
    BY <1>7 DEF TruncateLock
  <1>8. ASSUME NEW t \in Threads, WriteJob(t)
        PROVE  LocksHaveOwners'
    BY <1>8 DEF WriteJob
  <1>9. ASSUME NEW t \in Threads, StartFails(t)
        PROVE  LocksHaveOwners'
    BY <1>9 DEF StartFails
  <1>10. ASSUME NEW t \in Threads, RecordRunning(t)
         PROVE  LocksHaveOwners'
    BY <1>10 DEF RecordRunning
  <1>11. ASSUME NEW t \in Threads, RecordBlocked(t)
         PROVE  LocksHaveOwners'
    BY <1>11 DEF RecordBlocked
  <1>12. ASSUME NEW t \in Threads, RecordBlockedFails(t)
         PROVE  LocksHaveOwners'
    BY <1>12 DEF RecordBlockedFails
  <1>13. ASSUME NEW t \in Threads, RecordProgress(t)
         PROVE  LocksHaveOwners'
    BY <1>13 DEF RecordProgress
  <1>14. ASSUME NEW t \in Threads, NEW how \in {"succeeded", "failed"}, RunEnds(t, how)
         PROVE  LocksHaveOwners'
    BY <1>14 DEF RunEnds
  <1>15. ASSUME NEW t \in Threads, RecordFinished(t)
         PROVE  LocksHaveOwners'
    BY <1>15 DEF RecordFinished
  <1>16. ASSUME NEW t \in Threads, RecordFinishedFails(t)
         PROVE  LocksHaveOwners'
    BY <1>16 DEF RecordFinishedFails
  <1>17. ASSUME NEW t \in Threads, CloseTruncate(t)
         PROVE  LocksHaveOwners'
    BY <1>17 DEF CloseTruncate
  <1>18. ASSUME NEW t \in Threads, CloseUnlock(t)
         PROVE  LocksHaveOwners'
    BY <1>18 DEF CloseUnlock
  <1>19. ASSUME NEW t \in Threads, CloseRelease(t)
         PROVE  LocksHaveOwners'
    BY <1>19 DEF CloseRelease
  <1>20. ASSUME NEW t \in Threads, StatusEnter(t)
         PROVE  LocksHaveOwners'
    BY <1>20 DEF StatusEnter
  <1>21. ASSUME NEW t \in Threads, ProbeTakes(t)
         PROVE  LocksHaveOwners'
    BY <1>21 DEF ProbeTakes
  <1>22. ASSUME NEW t \in Threads, ProbeBusy(t)
         PROVE  LocksHaveOwners'
    BY <1>22 DEF ProbeBusy
  <1>23. ASSUME NEW t \in Threads, ProbeReleases(t)
         PROVE  LocksHaveOwners'
    BY <1>23 DEF ProbeReleases
  <1>24. ASSUME NEW t \in Threads, StatusSettles(t)
         PROVE  LocksHaveOwners'
    BY <1>24 DEF StatusSettles
  <1>25. ASSUME NEW t \in Threads, StatusAnswers(t)
         PROVE  LocksHaveOwners'
    BY <1>25 DEF StatusAnswers
  <1>26. ASSUME NEW t \in Threads, StatusFails(t)
         PROVE  LocksHaveOwners'
    BY <1>26 DEF StatusFails
  <1>27. ASSUME NEW p \in Procs, Crash(p)
         PROVE  LocksHaveOwners'
    BY <1>27 DEF Crash, Killed
  <1>28. ASSUME UNCHANGED vars PROVE LocksHaveOwners'
    BY <1>28 DEF vars
  <1> QED
    BY <1>1, <1>2, <1>3, <1>4, <1>5, <1>6, <1>7, <1>8, <1>9, <1>10, <1>11,
       <1>12, <1>13, <1>14, <1>15, <1>16, <1>17, <1>18, <1>19, <1>20, <1>21,
       <1>22, <1>23, <1>24, <1>25, <1>26, <1>27, <1>28
    DEF Next, Step, StartStep, RunStep, FinishStep, StatusStep

LEMMA LocalStep == TInv /\ LocalInv /\ [Next]_vars => LocalInv'
  <1> SUFFICES ASSUME TInv, LocalInv, [Next]_vars PROVE LocalInv'
    OBVIOUS
  <1> USE ReindexJobAssumption
  <1> USE DEF TInv, TypeOK, LocalInv, WriterLabels, StatusLabels, Labels,
              LocalLabels, Goto, locks, history
  <1>1. ASSUME NEW t \in Threads, NEW j \in Jobs, BeginStart(t, j)
        PROVE  LocalInv'
    BY <1>1 DEF BeginStart
  <1>2. ASSUME NEW t \in Threads, NEW j \in Jobs, BeginRefused(t, j)
        PROVE  LocalInv'
    BY <1>2 DEF BeginRefused
  <1>3. ASSUME NEW t \in Threads, TakeFlock(t)
        PROVE  LocalInv'
    BY <1>3 DEF TakeFlock
  <1>4. ASSUME NEW t \in Threads, FlockBusy(t)
        PROVE  LocalInv'
    BY <1>4 DEF FlockBusy
  <1>5. ASSUME NEW t \in Threads, UndoLocalLock(t)
        PROVE  LocalInv'
    BY <1>5 DEF UndoLocalLock
  <1>6. ASSUME NEW t \in Threads, AcquireFails(t)
        PROVE  LocalInv'
    BY <1>6 DEF AcquireFails
  <1>7. ASSUME NEW t \in Threads, TruncateLock(t)
        PROVE  LocalInv'
    BY <1>7 DEF TruncateLock
  <1>8. ASSUME NEW t \in Threads, WriteJob(t)
        PROVE  LocalInv'
    BY <1>8 DEF WriteJob
  <1>9. ASSUME NEW t \in Threads, StartFails(t)
        PROVE  LocalInv'
    BY <1>9 DEF StartFails
  <1>10. ASSUME NEW t \in Threads, RecordRunning(t)
         PROVE  LocalInv'
    BY <1>10 DEF RecordRunning
  <1>11. ASSUME NEW t \in Threads, RecordBlocked(t)
         PROVE  LocalInv'
    BY <1>11 DEF RecordBlocked
  <1>12. ASSUME NEW t \in Threads, RecordBlockedFails(t)
         PROVE  LocalInv'
    BY <1>12 DEF RecordBlockedFails
  <1>13. ASSUME NEW t \in Threads, RecordProgress(t)
         PROVE  LocalInv'
    BY <1>13 DEF RecordProgress
  <1>14. ASSUME NEW t \in Threads, NEW how \in {"succeeded", "failed"}, RunEnds(t, how)
         PROVE  LocalInv'
    BY <1>14 DEF RunEnds
  <1>15. ASSUME NEW t \in Threads, RecordFinished(t)
         PROVE  LocalInv'
    BY <1>15 DEF RecordFinished
  <1>16. ASSUME NEW t \in Threads, RecordFinishedFails(t)
         PROVE  LocalInv'
    BY <1>16 DEF RecordFinishedFails
  <1>17. ASSUME NEW t \in Threads, CloseTruncate(t)
         PROVE  LocalInv'
    BY <1>17 DEF CloseTruncate
  <1>18. ASSUME NEW t \in Threads, CloseUnlock(t)
         PROVE  LocalInv'
    BY <1>18 DEF CloseUnlock
  <1>19. ASSUME NEW t \in Threads, CloseRelease(t)
         PROVE  LocalInv'
    BY <1>19 DEF CloseRelease
  <1>20. ASSUME NEW t \in Threads, StatusEnter(t)
         PROVE  LocalInv'
    BY <1>20 DEF StatusEnter
  <1>21. ASSUME NEW t \in Threads, ProbeTakes(t)
         PROVE  LocalInv'
    BY <1>21 DEF ProbeTakes
  <1>22. ASSUME NEW t \in Threads, ProbeBusy(t)
         PROVE  LocalInv'
    BY <1>22 DEF ProbeBusy
  <1>23. ASSUME NEW t \in Threads, ProbeReleases(t)
         PROVE  LocalInv'
    BY <1>23 DEF ProbeReleases
  <1>24. ASSUME NEW t \in Threads, StatusSettles(t)
         PROVE  LocalInv'
    BY <1>24 DEF StatusSettles
  <1>25. ASSUME NEW t \in Threads, StatusAnswers(t)
         PROVE  LocalInv'
    BY <1>25 DEF StatusAnswers
  <1>26. ASSUME NEW t \in Threads, StatusFails(t)
         PROVE  LocalInv'
    BY <1>26 DEF StatusFails
  <1>27. ASSUME NEW p \in Procs, Crash(p)
         PROVE  LocalInv'
    BY <1>27 DEF Crash, Killed
  <1>28. ASSUME UNCHANGED vars PROVE LocalInv'
    BY <1>28 DEF vars
  <1> QED
    BY <1>1, <1>2, <1>3, <1>4, <1>5, <1>6, <1>7, <1>8, <1>9, <1>10, <1>11,
       <1>12, <1>13, <1>14, <1>15, <1>16, <1>17, <1>18, <1>19, <1>20, <1>21,
       <1>22, <1>23, <1>24, <1>25, <1>26, <1>27, <1>28
    DEF Next, Step, StartStep, RunStep, FinishStep, StatusStep
-----------------------------------------------------------------------------
(* The record                                                              *)

(* A job goes from start to run to outcome with its thread.                *)
LEMMA FateStep == TInv /\ FateInv /\ [Next]_vars => FateInv'
  <1> SUFFICES ASSUME TInv, FateInv, [Next]_vars PROVE FateInv'
    OBVIOUS
  <1> USE ReindexJobAssumption
  <1> USE DEF TInv, TypeOK, JobInv, JobLabels, FateInv, Ended, WriterLabels,
              StatusLabels, Labels, LocalLabels, Goto, Leaves, locks, history
  <1>1. ASSUME NEW t \in Threads, NEW j \in Jobs, BeginStart(t, j)
        PROVE  FateInv'
    BY <1>1 DEF BeginStart
  <1>2. ASSUME NEW t \in Threads, NEW j \in Jobs, BeginRefused(t, j)
        PROVE  FateInv'
    BY <1>2 DEF BeginRefused
  <1>3. ASSUME NEW t \in Threads, TakeFlock(t)
        PROVE  FateInv'
    BY <1>3 DEF TakeFlock
  <1>4. ASSUME NEW t \in Threads, FlockBusy(t)
        PROVE  FateInv'
    BY <1>4 DEF FlockBusy
  <1>5. ASSUME NEW t \in Threads, UndoLocalLock(t)
        PROVE  FateInv'
    BY <1>5 DEF UndoLocalLock
  <1>6. ASSUME NEW t \in Threads, AcquireFails(t)
        PROVE  FateInv'
    BY <1>6 DEF AcquireFails
  <1>7. ASSUME NEW t \in Threads, TruncateLock(t)
        PROVE  FateInv'
    BY <1>7 DEF TruncateLock
  <1>8. ASSUME NEW t \in Threads, WriteJob(t)
        PROVE  FateInv'
    BY <1>8 DEF WriteJob
  <1>9. ASSUME NEW t \in Threads, StartFails(t)
        PROVE  FateInv'
    BY <1>9 DEF StartFails
  <1>10. ASSUME NEW t \in Threads, RecordRunning(t)
         PROVE  FateInv'
    BY <1>10 DEF RecordRunning
  <1>11. ASSUME NEW t \in Threads, RecordBlocked(t)
         PROVE  FateInv'
    BY <1>11 DEF RecordBlocked
  <1>12. ASSUME NEW t \in Threads, RecordBlockedFails(t)
         PROVE  FateInv'
    BY <1>12 DEF RecordBlockedFails
  <1>13. ASSUME NEW t \in Threads, RecordProgress(t)
         PROVE  FateInv'
    BY <1>13 DEF RecordProgress
  <1>14. ASSUME NEW t \in Threads, NEW how \in {"succeeded", "failed"}, RunEnds(t, how)
         PROVE  FateInv'
    BY <1>14 DEF RunEnds
  <1>15. ASSUME NEW t \in Threads, RecordFinished(t)
         PROVE  FateInv'
    BY <1>15 DEF RecordFinished
  <1>16. ASSUME NEW t \in Threads, RecordFinishedFails(t)
         PROVE  FateInv'
    BY <1>16 DEF RecordFinishedFails
  <1>17. ASSUME NEW t \in Threads, CloseTruncate(t)
         PROVE  FateInv'
    BY <1>17 DEF CloseTruncate
  <1>18. ASSUME NEW t \in Threads, CloseUnlock(t)
         PROVE  FateInv'
    BY <1>18 DEF CloseUnlock
  <1>19. ASSUME NEW t \in Threads, CloseRelease(t)
         PROVE  FateInv'
    BY <1>19 DEF CloseRelease
  <1>20. ASSUME NEW t \in Threads, StatusEnter(t)
         PROVE  FateInv'
    BY <1>20 DEF StatusEnter
  <1>21. ASSUME NEW t \in Threads, ProbeTakes(t)
         PROVE  FateInv'
    BY <1>21 DEF ProbeTakes
  <1>22. ASSUME NEW t \in Threads, ProbeBusy(t)
         PROVE  FateInv'
    BY <1>22 DEF ProbeBusy
  <1>23. ASSUME NEW t \in Threads, ProbeReleases(t)
         PROVE  FateInv'
    BY <1>23 DEF ProbeReleases
  <1>24. ASSUME NEW t \in Threads, StatusSettles(t)
         PROVE  FateInv'
    BY <1>24 DEF StatusSettles
  <1>25. ASSUME NEW t \in Threads, StatusAnswers(t)
         PROVE  FateInv'
    BY <1>25 DEF StatusAnswers
  <1>26. ASSUME NEW t \in Threads, StatusFails(t)
         PROVE  FateInv'
    BY <1>26 DEF StatusFails
  <1>27. ASSUME NEW p \in Procs, Crash(p)
         PROVE  FateInv'
    BY <1>27 DEF Crash, Killed
  <1>28. ASSUME UNCHANGED vars PROVE FateInv'
    BY <1>28 DEF vars
  <1> QED
    BY <1>1, <1>2, <1>3, <1>4, <1>5, <1>6, <1>7, <1>8, <1>9, <1>10, <1>11,
       <1>12, <1>13, <1>14, <1>15, <1>16, <1>17, <1>18, <1>19, <1>20, <1>21,
       <1>22, <1>23, <1>24, <1>25, <1>26, <1>27, <1>28
    DEF Next, Step, StartStep, RunStep, FinishStep, StatusStep

(* What has ended stays ended, and keeps its outcome.                      *)
LEMMA EndedStays ==
  ASSUME TInv, FateInv, [Next]_vars, NEW k \in Jobs, Ended(k)
  PROVE  fate'[k] = fate[k]
  <1> USE ReindexJobAssumption
  <1> USE DEF TInv, TypeOK, JobInv, JobLabels, FateInv, Ended, WriterLabels,
              StatusLabels, Labels, LocalLabels, Goto, Leaves, locks, history
  <1>1. ASSUME NEW t \in Threads, NEW j \in Jobs, BeginStart(t, j)
        PROVE  fate'[k] = fate[k]
    BY <1>1 DEF BeginStart
  <1>2. ASSUME NEW t \in Threads, NEW j \in Jobs, BeginRefused(t, j)
        PROVE  fate'[k] = fate[k]
    BY <1>2 DEF BeginRefused
  <1>3. ASSUME NEW t \in Threads, TakeFlock(t)
        PROVE  fate'[k] = fate[k]
    BY <1>3 DEF TakeFlock
  <1>4. ASSUME NEW t \in Threads, FlockBusy(t)
        PROVE  fate'[k] = fate[k]
    BY <1>4 DEF FlockBusy
  <1>5. ASSUME NEW t \in Threads, UndoLocalLock(t)
        PROVE  fate'[k] = fate[k]
    BY <1>5 DEF UndoLocalLock
  <1>6. ASSUME NEW t \in Threads, AcquireFails(t)
        PROVE  fate'[k] = fate[k]
    BY <1>6 DEF AcquireFails
  <1>7. ASSUME NEW t \in Threads, TruncateLock(t)
        PROVE  fate'[k] = fate[k]
    BY <1>7 DEF TruncateLock
  <1>8. ASSUME NEW t \in Threads, WriteJob(t)
        PROVE  fate'[k] = fate[k]
    BY <1>8 DEF WriteJob
  <1>9. ASSUME NEW t \in Threads, StartFails(t)
        PROVE  fate'[k] = fate[k]
    BY <1>9 DEF StartFails
  <1>10. ASSUME NEW t \in Threads, RecordRunning(t)
         PROVE  fate'[k] = fate[k]
    BY <1>10 DEF RecordRunning
  <1>11. ASSUME NEW t \in Threads, RecordBlocked(t)
         PROVE  fate'[k] = fate[k]
    BY <1>11 DEF RecordBlocked
  <1>12. ASSUME NEW t \in Threads, RecordBlockedFails(t)
         PROVE  fate'[k] = fate[k]
    BY <1>12 DEF RecordBlockedFails
  <1>13. ASSUME NEW t \in Threads, RecordProgress(t)
         PROVE  fate'[k] = fate[k]
    BY <1>13 DEF RecordProgress
  <1>14. ASSUME NEW t \in Threads, NEW how \in {"succeeded", "failed"}, RunEnds(t, how)
         PROVE  fate'[k] = fate[k]
    BY <1>14 DEF RunEnds
  <1>15. ASSUME NEW t \in Threads, RecordFinished(t)
         PROVE  fate'[k] = fate[k]
    BY <1>15 DEF RecordFinished
  <1>16. ASSUME NEW t \in Threads, RecordFinishedFails(t)
         PROVE  fate'[k] = fate[k]
    BY <1>16 DEF RecordFinishedFails
  <1>17. ASSUME NEW t \in Threads, CloseTruncate(t)
         PROVE  fate'[k] = fate[k]
    BY <1>17 DEF CloseTruncate
  <1>18. ASSUME NEW t \in Threads, CloseUnlock(t)
         PROVE  fate'[k] = fate[k]
    BY <1>18 DEF CloseUnlock
  <1>19. ASSUME NEW t \in Threads, CloseRelease(t)
         PROVE  fate'[k] = fate[k]
    BY <1>19 DEF CloseRelease
  <1>20. ASSUME NEW t \in Threads, StatusEnter(t)
         PROVE  fate'[k] = fate[k]
    BY <1>20 DEF StatusEnter
  <1>21. ASSUME NEW t \in Threads, ProbeTakes(t)
         PROVE  fate'[k] = fate[k]
    BY <1>21 DEF ProbeTakes
  <1>22. ASSUME NEW t \in Threads, ProbeBusy(t)
         PROVE  fate'[k] = fate[k]
    BY <1>22 DEF ProbeBusy
  <1>23. ASSUME NEW t \in Threads, ProbeReleases(t)
         PROVE  fate'[k] = fate[k]
    BY <1>23 DEF ProbeReleases
  <1>24. ASSUME NEW t \in Threads, StatusSettles(t)
         PROVE  fate'[k] = fate[k]
    BY <1>24 DEF StatusSettles
  <1>25. ASSUME NEW t \in Threads, StatusAnswers(t)
         PROVE  fate'[k] = fate[k]
    BY <1>25 DEF StatusAnswers
  <1>26. ASSUME NEW t \in Threads, StatusFails(t)
         PROVE  fate'[k] = fate[k]
    BY <1>26 DEF StatusFails
  <1>27. ASSUME NEW p \in Procs, Crash(p)
         PROVE  fate'[k] = fate[k]
    BY <1>27 DEF Crash, Killed
  <1>28. ASSUME UNCHANGED vars PROVE fate'[k] = fate[k]
    BY <1>28 DEF vars
  <1> QED
    BY <1>1, <1>2, <1>3, <1>4, <1>5, <1>6, <1>7, <1>8, <1>9, <1>10, <1>11,
       <1>12, <1>13, <1>14, <1>15, <1>16, <1>17, <1>18, <1>19, <1>20, <1>21,
       <1>22, <1>23, <1>24, <1>25, <1>26, <1>27, <1>28
    DEF Next, Step, StartStep, RunStep, FinishStep, StatusStep

(* Five operations write the status file, and one names a job in the lock  *)
(* file.                                                                   *)
LEMMA StatusFileWriters ==
  ASSUME [Next]_vars
  PROVE  \/ UNCHANGED statusFile
         \/ \E t \in Threads : \/ RecordRunning(t) \/ RecordBlocked(t) \/ RecordProgress(t)
                               \/ RecordFinished(t) \/ StatusSettles(t)
  BY DEF Next, Step, StartStep, RunStep, FinishStep, StatusStep, vars, BeginStart,
         BeginRefused, TakeFlock, FlockBusy, UndoLocalLock, AcquireFails, TruncateLock,
         WriteJob, StartFails, RecordBlockedFails, RunEnds, RecordFinishedFails,
         CloseTruncate, CloseUnlock, CloseRelease, StatusEnter, ProbeTakes, ProbeBusy,
         ProbeReleases, StatusAnswers, StatusFails, Crash

LEMMA LockFileWriters ==
  ASSUME [Next]_vars
  PROVE  lockFile' \in {lockFile, NoJob} \/ \E t \in Threads : WriteJob(t)
  BY DEF Next, Step, StartStep, RunStep, FinishStep, StatusStep, vars, BeginStart,
         BeginRefused, TakeFlock, FlockBusy, UndoLocalLock, AcquireFails, TruncateLock,
         StartFails, RecordBlockedFails, RunEnds, RecordFinishedFails, CloseTruncate,
         CloseUnlock, CloseRelease, StatusEnter, ProbeTakes, ProbeBusy, ProbeReleases,
         StatusAnswers, StatusFails, Crash, RecordRunning, RecordBlocked, RecordProgress,
         RecordFinished, StatusSettles, locks

(* A thread is moved by its own steps and by the end of its process.       *)
LEMMA ThreadMoves ==
  ASSUME TInv, [Next]_vars, NEW w \in Threads
  PROVE  (pc'[w] = pc[w] /\ job'[w] = job[w]) \/ Step(w) \/ Crash(ProcOf[w])
  <1> DEFINE Stays == pc'[w] = pc[w] /\ job'[w] = job[w]
  <1> USE DEF TInv, TypeOK, Goto, Leaves
  <1>1. ASSUME NEW t \in Threads, t # w, NEW j \in Jobs, BeginStart(t, j) \/ BeginRefused(t, j)
        PROVE  Stays
    BY <1>1 DEF BeginStart, BeginRefused
  <1>2. ASSUME NEW t \in Threads, t # w, StartStep(t) PROVE Stays
    BY <1>2 DEF StartStep, TakeFlock, FlockBusy, UndoLocalLock, AcquireFails, TruncateLock,
                WriteJob, StartFails, RecordRunning, RecordBlocked, RecordBlockedFails
  <1>3. ASSUME NEW t \in Threads, t # w, RunStep(t) \/ FinishStep(t) PROVE Stays
    BY <1>3 DEF RunStep, RecordProgress, RunEnds, FinishStep, RecordFinished,
                RecordFinishedFails, CloseTruncate, CloseUnlock, CloseRelease
  <1>4. ASSUME NEW t \in Threads, t # w, StatusEnter(t) \/ StatusStep(t) PROVE Stays
    BY <1>4 DEF StatusEnter, StatusStep, ProbeTakes, ProbeBusy, ProbeReleases,
                StatusSettles, StatusAnswers, StatusFails
  <1>5. ASSUME NEW p \in Procs, p # ProcOf[w], Crash(p) PROVE Stays
    BY <1>5 DEF Crash, Killed
  <1>6. ASSUME UNCHANGED vars PROVE Stays
    BY <1>6 DEF vars
  <1> HIDE DEF Stays
  <1>7. CASE \E t \in Threads : Step(t)
    <2>1. PICK t \in Threads : Step(t)
      BY <1>7
    <2>2. CASE t = w
      BY <2>1, <2>2
    <2>3. CASE t # w
      BY <2>1, <2>3, <1>1, <1>2, <1>3, <1>4 DEF Step, Stays
    <2> QED
      BY <2>2, <2>3
  <1> QED
    BY <1>5, <1>6, <1>7 DEF Next, Stays

(* A job that has a thread between "record" and "running" keeps it, or has *)
(* ended.                                                                  *)
LEMMA AliveStays ==
  ASSUME TInv, FateInv, [Next]_vars, NEW k \in Jobs, Ended(k) \/ Alive(k)
  PROVE  (Ended(k) \/ Alive(k))'
  <1>1. CASE Ended(k)
    BY <1>1, EndedStays DEF Ended
  <1>2. CASE Alive(k)
    <2>1. PICK w \in Threads : job[w] = k /\ pc[w] \in {"record", "running"}
      BY <1>2 DEF Alive
    <2> USE <2>1 DEF TInv, TypeOK, Goto
    <2>2. CASE pc'[w] = pc[w] /\ job'[w] = job[w]
      BY <2>2 DEF Alive
    <2>3. CASE Step(w)
      <3>1. RecordRunning(w) \/ RecordProgress(w) \/ StartFails(w)
            \/ \E how \in {"succeeded", "failed"} : RunEnds(w, how)
        BY <2>3
        DEF Step, StartStep, RunStep, FinishStep, StatusStep, BeginStart, BeginRefused,
            TakeFlock, FlockBusy, UndoLocalLock, AcquireFails, TruncateLock, WriteJob,
            RecordBlocked, RecordBlockedFails, RecordFinished, RecordFinishedFails,
            CloseTruncate, CloseUnlock, CloseRelease, StatusEnter, ProbeTakes, ProbeBusy,
            ProbeReleases, StatusSettles, StatusAnswers, StatusFails
      <3>2. CASE RecordRunning(w) \/ RecordProgress(w)
        BY <3>2 DEF RecordRunning, RecordProgress, Alive
      <3>3. CASE StartFails(w) \/ \E how \in {"succeeded", "failed"} : RunEnds(w, how)
        BY <3>3 DEF StartFails, RunEnds, Ended
      <3> QED
        BY <3>1, <3>2, <3>3
    <2>4. CASE Crash(ProcOf[w])
      <3>1. fate[k] \in {"starting", "live"} /\ w \in Killed(ProcOf[w])
        BY DEF FateInv, Killed
      <3> QED
        BY <2>4, <3>1 DEF Crash, Ended
    <2> QED
      BY <2>2, <2>3, <2>4, ThreadMoves
  <1> QED
    BY <1>1, <1>2

(* A job that a file names was named by one before, or has just been       *)
(* written by its thread.                                                  *)
LEMMA NamedBefore ==
  ASSUME TInv, [Next]_vars, NEW k \in Jobs, k \in {lockFile', statusFile'.activeJob}
  PROVE  k \in {lockFile, statusFile.activeJob} \/ Alive(k)'
  <1>1. statusFile \in Status
    BY DEF TInv, TypeOK
  <1>2. CASE k = lockFile'
    <2>1. ASSUME NEW t \in Threads, WriteJob(t), k = job[t] PROVE Alive(k)'
      BY <2>1 DEF WriteJob, Goto, Alive, TInv, TypeOK
    <2> QED
      BY <1>2, <2>1, LockFileWriters, ReindexJobAssumption DEF WriteJob
  <1>3. CASE k = statusFile'.activeJob
    <2>1. ASSUME NEW t \in Threads, RecordRunning(t), k = job[t] PROVE Alive(k)'
      BY <2>1 DEF RecordRunning, Goto, Alive, TInv, TypeOK
    <2>2. ASSUME NEW t \in Threads, RecordRunning(t) PROVE statusFile'.activeJob = job[t]
      BY <1>1, <2>2 DEF RecordRunning, RunningStatus, Status
    <2>3. ASSUME NEW t \in Threads, RecordBlocked(t)
          PROVE  statusFile'.activeJob \in {lockFile, statusFile.activeJob}
      BY <1>1, <2>3 DEF RecordBlocked, BlockedStatus, Status
    <2>4. ASSUME NEW t \in Threads, RecordProgress(t)
          PROVE  statusFile'.activeJob = statusFile.activeJob
      BY <1>1, <2>4 DEF RecordProgress, Status
    <2>5. ASSUME NEW t \in Threads, RecordFinished(t) \/ StatusSettles(t)
          PROVE  statusFile'.activeJob \in {NoJob, statusFile.activeJob}
      BY <1>1, <2>5 DEF RecordFinished, FinishedStatus, StatusSettles, SettledStatus
    <2> QED
      BY <1>3, <2>1, <2>2, <2>3, <2>4, <2>5, StatusFileWriters, ReindexJobAssumption
  <1> QED
    BY <1>2, <1>3

LEMMA AliveStep == TInv /\ FateInv /\ AliveInv /\ [Next]_vars => AliveInv'
  <1> SUFFICES ASSUME TInv, FateInv, AliveInv, [Next]_vars, NEW k \in Jobs,
                      k \in {lockFile', statusFile'.activeJob}
               PROVE  (Ended(k) \/ Alive(k))'
    BY DEF AliveInv, Ended, Alive
  <1>1. CASE k \in {lockFile, statusFile.activeJob}
    BY <1>1, AliveStays DEF AliveInv
  <1> QED
    BY <1>1, NamedBefore

(* A status check that got the flock sees a job without a thread; from the *)
(* flock to its answer the status lock keeps the active job as it is.      *)
LEMMA SettleStep == IInv /\ RecordInv /\ [Next]_vars => SettleInv'
  <1> SUFFICES ASSUME IInv, RecordInv, [Next]_vars, NEW t \in Threads,
                      pc'[t] \in {"probing", "settle"}, statusFile'.activeJob \in Jobs
               PROVE  fate'[statusFile'.activeJob] \notin {"new", "starting", "live"}
    BY DEF SettleInv, Ended
  <1> USE ReindexJobAssumption
  <1> DEFINE k == statusFile'.activeJob
  <1>1. TInv /\ FateInv
    BY DEF IInv, RecordInv
  <1>2. ASSUME ProbeTakes(t) PROVE k = statusFile.activeJob /\ Ended(k)
    <2>1. flock = Free /\ statusFile' = statusFile
      BY <1>2 DEF ProbeTakes
    <2>2. ~Alive(k)
      BY <2>1 DEF IInv, LockInv, Alive, WriterLabels
    <2> QED
      BY <2>1, <2>2 DEF RecordInv, AliveInv
  <1>3. pc[t] \in {"probing", "settle"} \/ ProbeTakes(t)
    <2> USE <1>1 DEF TInv, TypeOK, Goto
    <2>1. CASE Step(t)
      <3>1. ASSUME NEW j \in Jobs, BeginStart(t, j) \/ BeginRefused(t, j) PROVE FALSE
        BY <3>1 DEF BeginStart, BeginRefused
      <3>2. ASSUME StartStep(t) PROVE FALSE
        BY <3>2 DEF StartStep, TakeFlock, FlockBusy, UndoLocalLock, AcquireFails,
                    TruncateLock, WriteJob, StartFails, RecordRunning, RecordBlocked,
                    RecordBlockedFails
      <3>3. ASSUME RunStep(t) PROVE FALSE
        BY <3>3 DEF RunStep, RecordProgress, RunEnds, IInv, LockInv, JobInv
      <3>4. ASSUME FinishStep(t) PROVE FALSE
        BY <3>4 DEF FinishStep, RecordFinished, RecordFinishedFails, CloseTruncate,
                    CloseUnlock, CloseRelease
      <3>5. ASSUME StatusEnter(t) PROVE FALSE
        BY <3>5 DEF StatusEnter
      <3>6. ASSUME StatusStep(t) PROVE pc[t] \in {"probing", "settle"} \/ ProbeTakes(t)
        BY <3>6 DEF StatusStep, ProbeBusy, ProbeReleases, StatusSettles, StatusAnswers,
                    StatusFails
      <3> QED
        BY <2>1, <3>1, <3>2, <3>3, <3>4, <3>5, <3>6 DEF Step
    <2>2. CASE Crash(ProcOf[t])
      BY <2>2 DEF Crash, Killed
    <2> QED
      BY <2>1, <2>2, ThreadMoves
  <1>4. ASSUME pc[t] \in {"probing", "settle"}
        PROVE  k = statusFile.activeJob /\ Ended(k)
    <2>1. statusLock = t
      BY <1>4 DEF IInv, LockInv, StatusLabels
    <2>2. ASSUME NEW u \in Threads, StatusSettles(u) PROVE FALSE
      <3>1. u = t
        BY <2>1, <2>2 DEF StatusSettles, Goto, IInv, LockInv, StatusLabels
      <3>2. pc'[t] = "idle"
        BY <2>2, <3>1, <1>1 DEF StatusSettles, Goto, TInv, TypeOK
      <3> QED
        BY <3>2
    <2>3. ASSUME NEW u \in Threads, RecordRunning(u) \/ RecordBlocked(u) \/ RecordProgress(u)
                                    \/ RecordFinished(u)
          PROVE  FALSE
      BY <2>1, <2>3 DEF RecordRunning, RecordBlocked, RecordProgress, RecordFinished
    <2>4. statusFile' = statusFile
      BY <2>2, <2>3, StatusFileWriters
    <2> QED
      BY <1>4, <2>4 DEF RecordInv, SettleInv
  <1> QED
    BY <1>1, <1>2, <1>3, <1>4, EndedStays DEF Ended

(* A terminal record speaks of a job that had ended when it was written.   *)
LEMMA TerminalStep == IInv /\ RecordInv /\ [Next]_vars => TerminalRecordsAreTrue'
  <1> SUFFICES ASSUME IInv, RecordInv, [Next]_vars PROVE TerminalRecordsAreTrue'
    OBVIOUS
  <1>1. TInv /\ TInv' /\ FateInv /\ TerminalRecordsAreTrue /\ statusFile \in Status
    BY TInvStep DEF IInv, RecordInv, TInv, TypeOK
  <1>2. ASSUME statusFile'.lastRun = statusFile.lastRun PROVE TerminalRecordsAreTrue'
    <2>1. CASE statusFile.lastRun = NoRun
      BY <1>2, <2>1 DEF TerminalRecordsAreTrue
    <2>2. CASE statusFile.lastRun # NoRun
      <3>1. statusFile.lastRun.job \in Jobs /\ Ended(statusFile.lastRun.job)
        BY <1>1, <2>2 DEF TerminalRecordsAreTrue, Status, RunRecord, Ended
      <3> QED
        BY <1>1, <1>2, <3>1, EndedStays DEF TerminalRecordsAreTrue, Ended
    <2> QED
      BY <2>1, <2>2
  <1>3. ASSUME NEW t \in Threads, RecordRunning(t) \/ RecordBlocked(t) \/ RecordProgress(t)
        PROVE  statusFile'.lastRun = statusFile.lastRun
    BY <1>1, <1>3 DEF RecordRunning, RunningStatus, RecordBlocked, BlockedStatus,
                      RecordProgress, Status
  <1>4. ASSUME NEW t \in Threads, RecordFinished(t) PROVE TerminalRecordsAreTrue'
    <2>1. pc[t] = "finish" /\ job[t] \in Jobs /\ fate' = fate
          /\ statusFile' = FinishedStatus(statusFile, job[t], fate[job[t]])
      BY <1>1, <1>4 DEF RecordFinished, Goto, TInv, JobInv, JobLabels, WriterLabels
    <2>2. fate[job[t]] \in {"succeeded", "failed"}
      BY <1>1, <2>1 DEF TInv, JobInv
    <2>3. statusFile'.lastRun.job = job[t] /\ statusFile'.lastRun.status = fate[job[t]]
      BY <2>1 DEF FinishedStatus
    <2> QED
      BY <2>1, <2>2, <2>3 DEF TerminalRecordsAreTrue
  <1>5. ASSUME NEW t \in Threads, StatusSettles(t) PROVE TerminalRecordsAreTrue'
    <2>1. pc[t] = "settle" /\ fate' = fate /\ statusFile' = SettledStatus(statusFile)
      BY <1>5 DEF StatusSettles, Goto, history
    <2>2. CASE statusFile.activeJob = NoJob
      BY <1>2, <2>1, <2>2 DEF SettledStatus
    <2>3. CASE statusFile.activeJob # NoJob
      <3>1. Ended(statusFile.activeJob)
        BY <1>1, <2>1, <2>3 DEF RecordInv, SettleInv, Status
      <3>2. statusFile'.lastRun.job = statusFile.activeJob
            /\ statusFile'.lastRun.status = "failed"
        BY <2>1, <2>3 DEF SettledStatus
      <3> QED
        BY <2>1, <3>1, <3>2 DEF TerminalRecordsAreTrue, Ended
    <2> QED
      BY <2>2, <2>3
  <1> QED
    BY <1>2, <1>3, <1>4, <1>5, StatusFileWriters

(* Counts are replaced together with the job they belong to.               *)
LEMMA CountsStep == IInv /\ CountsAreTheRunsOwn /\ [Next]_vars => CountsAreTheRunsOwn'
  <1> SUFFICES ASSUME IInv, CountsAreTheRunsOwn, [Next]_vars PROVE CountsAreTheRunsOwn'
    OBVIOUS
  <1> USE DEF CountsAreTheRunsOwn
  <1>1. statusFile \in Status /\ TInv
    BY DEF IInv, TInv, TypeOK
  <1>2. ASSUME NEW t \in Threads, RecordRunning(t) PROVE CountsAreTheRunsOwn'
    BY <1>1, <1>2 DEF RecordRunning, RunningStatus, Status
  <1>3. ASSUME NEW t \in Threads, RecordBlocked(t) PROVE CountsAreTheRunsOwn'
    BY <1>1, <1>3 DEF RecordBlocked, BlockedStatus, Status
  <1>4. ASSUME NEW t \in Threads, RecordProgress(t) PROVE CountsAreTheRunsOwn'
    BY <1>1, <1>4 DEF RecordProgress, Status
  <1>5. ASSUME NEW t \in Threads, RecordFinished(t) PROVE CountsAreTheRunsOwn'
    <2>1. statusFile.activeJob = job[t]
      BY <1>5 DEF RecordFinished, Goto, IInv, LiveRunIsShown, RunLabels
    <2> QED
      BY <1>5, <2>1 DEF RecordFinished, FinishedStatus
  <1>6. ASSUME NEW t \in Threads, StatusSettles(t) PROVE CountsAreTheRunsOwn'
    BY <1>1, <1>6 DEF StatusSettles, SettledStatus, Status
  <1> QED
    BY <1>2, <1>3, <1>4, <1>5, <1>6, StatusFileWriters

LEMMA RInvHolds == Spec => [](RInv /\ LocalInv)
  <1>1. Init => RInv /\ LocalInv
    <2>1. Init => IInv
      BY IInvInit
    <2>2. Init => RecordInv /\ CountsAreTheRunsOwn /\ LocksHaveOwners /\ LocalInv
      BY ReindexJobAssumption
      DEF Init, RecordInv, FateInv, AliveInv, SettleInv, TerminalRecordsAreTrue,
          CountsAreTheRunsOwn, LocksHaveOwners, LocalInv, LocalLabels, WriterLabels
    <2> QED
      BY <2>1, <2>2 DEF RInv
  <1>2. RInv /\ LocalInv /\ [Next]_vars => (RInv /\ LocalInv)'
    <2> SUFFICES ASSUME RInv, LocalInv, [Next]_vars PROVE (RInv /\ LocalInv)'
      OBVIOUS
    <2>1. TInv /\ IInv /\ RecordInv /\ FateInv /\ AliveInv
      BY DEF RInv, RecordInv, IInv
    <2>2. IInv' /\ LocalInv' /\ LocksHaveOwners' /\ CountsAreTheRunsOwn'
      BY <2>1, IInvStep, LocalStep, OwnersStep, CountsStep DEF RInv
    <2>3. FateInv' /\ AliveInv' /\ SettleInv' /\ TerminalRecordsAreTrue'
      BY <2>1, FateStep, AliveStep, SettleStep, TerminalStep
    <2> QED
      BY <2>2, <2>3 DEF RInv, RecordInv
  <1> QED
    BY <1>1, <1>2, PTL DEF Spec
-----------------------------------------------------------------------------
(* No lock is left behind: the holder of the flock is a call between       *)
(* acquiring and Close or a status check that probes, the holder of the    *)
(* status lock is inside withStatusLock, and a process' localLocks map     *)
(* holds the path only while a call of that process will still remove it,  *)
(* on every error path and after every crash.                              *)
THEOREM OwnersOfLocks == Spec => []LocksHaveOwners
  <1>1. RInv => LocksHaveOwners
    BY DEF RInv
  <1> QED
    BY <1>1, RInvHolds, PTL

(* In a process one call at a time is between tryAcquireLocalLock and the  *)
(* release of the local lock, so that no call removes the entry of another.*)
THEOREM OneCallPerProcess == Spec => []LocalInv
  BY RInvHolds, PTL

(* last_run speaks of a run that has ended, and says "succeeded" only when *)
(* its ingest did: markStaleRunFailed never meets a job that is starting   *)
(* or running, although the flock that proves it dead has been given back. *)
THEOREM TerminalRecordsTrue == Spec => []TerminalRecordsAreTrue
  <1>1. RInv => TerminalRecordsAreTrue
    BY DEF RInv, RecordInv
  <1> QED
    BY <1>1, RInvHolds, PTL

(* The counts shown for the active job and kept in the last record are     *)
(* those of the same run.                                                  *)
THEOREM CountsOfTheRun == Spec => []CountsAreTheRunsOwn
  <1>1. RInv => CountsAreTheRunsOwn
    BY DEF RInv
  <1> QED
    BY <1>1, RInvHolds, PTL
=============================================================================
