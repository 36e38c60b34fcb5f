SPECIFICATION Spec
CONSTANTS
  s1 = s1
  s2 = s2
  c1 = c1
  server = server
  cli = cli
  j1 = j1
  j2 = j2
  j3 = j3
  Threads = {s1, s2, c1}
  Procs = {server, cli}
  ProcOf <- MCProcOf
  Jobs = {j1, j2}
  NoJob = NoJob
  NoRun = NoRun
  Free = Free
  MayFail = FALSE
  MaxCrashes = 0
INVARIANTS
  OnlyUnfinishedRunsGoStale
