# A TLA+ verification of rag-search-mcp

rag-search-mcp indexes two trees of files (documents and code) into a Chroma
collection and answers searches over them through an MCP server and a small web
interface. This directory models the parts of it whose correctness depends on
the order in which several processes, goroutines and requests act, checks them
with TLC on small instances, and proves the central properties with TLAPS for
any instance.

    tlc -workers 2 -config MCReindexJob_safety.cfg MCReindexJob
    tlapm ReindexJobProofs.tla

`PROJECT.json` lists the runs, the source lines each definition stands for, the
mutants each property detects, the hazards and the theorems.

## 1. Inventory

| Component | State | Operations | Hard behaviours |
|---|---|---|---|
| Reindex coordinator, `internal/reindexjob` | `localLocks` (memory of a process), flock on `reindex.lock` and its contents, flock on `reindex-status.lock`, `reindex-status.json` | StartWithOptions, UpdateProgress, Finish, Status | several processes and goroutines, killed processes, failing file operations, the observer takes the lock it observes |
| Index build, `internal/ingest` | the draft generation in Chroma, the resume fields of the index file | Reindex: load documents, resume or start a draft, examine / copy / embed / write per document, reconcile, activate | no transactions, interruption between any two requests, resumption with other sources and options, a pool of workers |
| Active-index file, `internal/indexstate` | one JSON file | Load, Save (rename) | crash around the rename |
| Chroma client, `internal/store` | none; the collection lives in the server | EnsureCollection, Add (upsert), DeleteWhere, GetRecordsBySource, ListSourcePaths, Query, ... | requests that outlive their client, 404 read as "nothing there" |
| Ollama client, `internal/ollama` | none | Embed, health | failure, timeout |
| Query service, `internal/rag` | cached collection id | Search, GetChunk, ListSources, RunReindex, ReindexStatus, CheckReadiness | reads the pointer, then the records, while a reindex may switch |
| `rag-index` command, `cmd/rag-index` | none | retries an ingest until its deadline, prints the result or the status | retry of permanent errors while holding the lock |
| MCP server and web API, `cmd/rag-mcp` | none of its own | JSON-RPC tools, HTTP handlers | goroutine per request, two surfaces that treat arguments differently |
| Chunking, `internal/chunk` | none | CleanText, Split | boundaries of sizes and overlaps |
| Configuration, `internal/config` | none | Load | a second copy of the doctor's checks |
| Bootstrap and installer, `internal/bootstrap`, `cmd/rag-install` | `.env`, the host directories | EnsureEnvFile, ResolvePort, EnsureHostDataDirs | precedence, repeated keys |
| Configuration doctor, `internal/configdoctor` | none | checks of values and paths | its report is trusted by what comes after it |
| Shell workflows, `shell/*.sh` | `.env`, the host directories, the containers | install, up, down, index, clean-install | a reader of `.env` of their own, steps that fail in the middle, FULL_RESET |
| Observability | counters | logging, metrics, health report | - |
| Docker images, CI, web page, demo data | - | - | - |

How they interact. Every index run, whether a tool call of the server or the
command starts it, first asks the coordinator for the lock, then lets the ingest
build a generation in Chroma, reporting progress through the coordinator, and
finally records its end. The ingest changes the active-index file twice: it
announces the draft, and at the end it makes the draft the active generation.
Queries read that file and filter every request to Chroma by the generation
found there. The status of a run is read by anybody at any time. Before any of
this, the installer prepares directories and `.env`, the doctor passes judgement
on them, compose turns them into the environment and the mounts of the container,
and `config.Load` reads that environment; `make index` reads `.env` again.

What makes the components correct:

- coordinator: one writer; the status tells the truth about the run that is on
  and about the last one; no lock is left behind; every call returns; a dead job
  does not stay active;
- build: what becomes active is complete and of one snapshot, however often the
  build was interrupted and resumed; what is or was active is not touched; the
  previous index stays visible until the switch; a run ends;
- query service: an answer is from one generation and all of it, whatever is
  switched meanwhile; a stale collection id does not stay; a reindex that is
  reported as a success is in force;
- command: it ends, and it holds the lock as long as its run is on and no longer;
- chunking: the chunks fit the chosen size and no text is lost between them;
- installation: what the doctor lets pass is accepted by what follows, the mounted
  directories are the prepared ones, a full reset spares the sources.

## 2. Modules

| Module | Models | Role |
|---|---|---|
| `ExclusiveReindex` | - | abstract: a lease with at most one writer |
| `ReindexJob` | `job.go`, `lock.go` | the lock and status protocol |
| `MCReindexJob` | - | instances for TLC |
| `ReindexJobProofs` | - | theorems about `ReindexJob`: one writer, what the status shows, the lease; the locks and records left behind |
| `AtomicIndex` | - | abstract: queries see one snapshot after another |
| `IndexBuild` | `ingest.go`, `state.go`, the used part of `chroma.go` | building, resuming and activating a generation |
| `MCIndexBuild` | - | instances for TLC |
| `IndexBuildProofs` | - | theorems about `IndexBuild`: what is active stays as it is |
| `IndexContentProofs` | - | theorems about `IndexBuild`: what a generation contains; the refinement of `AtomicIndex` |
| `EmbedPool` | `indexDocuments` of `ingest.go` | the goroutines and channels of one run |
| `MCEmbedPool` | - | an instance for TLC |
| `EmbedPoolProofs` | - | theorems about `EmbedPool` |
| `IndexStore` | the shared side of `chroma.go`, `state.go`, `lock.go` | what server and command share: pointer, collection, lock |
| `QueryService` | `internal/rag`, the handlers of `cmd/rag-mcp` | tool calls, web requests and probes over `IndexStore` |
| `IndexCommand` | `cmd/rag-index` | one run of the command over `IndexStore` |
| `RagSystem` | - | composes `QueryService` and `IndexCommand`; the properties |
| `MCRagSystem` | - | an instance for TLC |
| `RagSystemProofs`, `RagAnswerProofs` | - | theorems about `RagSystem`: types, lock and reports; answers |
| `EnvFile` | the readers of `.env` in `lib.sh`, `bootstrap.go`, `configdoctor.go` | what a key's value is, to whom |
| `ConfigDoctor` | `configdoctor.go` | which settings pass |
| `ServerConfig` | `config.go` | which environment is accepted |
| `Chunking` | `chunk.go` | the chunks of a text |
| `ChunkingProofs` | - | what `Split` does with any text |
| `Installation` | `shell/*.sh`, `cmd/rag-install`, `docker-compose.yml` | composes the four above; the properties |
| `MCInstallation` | - | an instance for TLC |
| `InstallationProofs` | - | theorems about `Installation` |

### ReindexJob

`pc[t]` is where a goroutine or command `t` is in a call: `"flock"` before the
non-blocking flock of `tryAcquireReindexLock`, `"truncate"` and `"write"` in
`writeJob`, `"record"` before `recordRunning`, `"running"` while the ingest
works, `"finish"` before `recordFinished`, `"close"`, `"unlock"`, `"release"` in
`Close`; `"probe"`, `"probing"`, `"settle"`, `"answer"` inside `Status`, which
holds the status lock all that time. `localHeld`, `flock`, `lockFile`,
`statusLock` and `statusFile` are the map, the two flocks and the two files.
The status file is reduced to what decides something: the status, the active
job, whose counts the progress holds, and the last run. `fate` and `recorded`
are history variables.

A step is one system call that others can observe. Work on the status file under
the status lock is a single step where nothing it reads can change in between;
`Status` is several, because it takes and drops the reindex flock while other
processes act on it. `Crash(p)` takes a whole process away: memory and flocks go,
files stay. With `MayFail` every file operation may return an error and the code's
error path is taken.

### IndexBuild

A source is in one of a few versions; its text, its fingerprint and its chunks
are that version. A record has a collection, a generation, a source, an index
(together its id), the version it was embedded from (`text`), the version in its
metadata (`hash`), and whether it was embedded or copied (history). `ResumeRun`
and `StartRun` are `Reindex` up to `indexDocuments`, with all options: subdirectory,
limit, fresh. Then each document passes through the stages of `indexDocument`
(`work`), at most `Workers` at a time: `Examine` (`reuseBuildSource` and what it
decides), `DropDraft`, `ReadActive`, `Embed`, `Write`. `ListDraft` and
`DropStale` are `deleteStaleBuildSources`, `Activate` is the final `Save`.
`Abort` ends a run at any point: an error, a deadline and a kill leave the same
behind. `ApplyLate` is a request of an ended run that the server still carries
out; it is on only where `MaxLate > 0`.

Simplifications: the walk over the files is one step, so a document that is edited
during the walk counts as edited before or after it; a batch of records is written
one record per step, which allows more interruptions than the code has; for the same
reason a batch that is under way when a run ends is its records, any of which may
arrive later, from as many workers as there are (`Outstanding`); generations are
numbers that grow, where the code takes the clock in nanoseconds; embeddings exist
and are not looked at; the error of a run with a mismatched subdirectory changes
nothing and has no step of its own.

### EmbedPool

`IndexBuild` takes the workers of a run as a number of documents that may be
worked on at once, and the end of a run as one event. `EmbedPool` is the code in
between: the feeder (`next`, `feeding`), the workers (`at`, `got`), the goroutine
that closes `results`, and the caller that collects (`out`, `firstErr`, `answer`).
`jobs` has no buffer, so `Feed` is the meeting of feeder and worker; `results` has
room for all documents and is a sequence. `cancelled` is `workCtx`: set by a worker
before it sends its error (`Cancel`, then `Send`), by the end of the caller's
context (`ParentEnds`) and by the deferred `cancel` (`Return`). `Index` is the whole
of `indexDocument`, which succeeds, fails, or gives up because of `workCtx`.
With both branches of its select ready the feeder may take either, as in Go.

What the module lets one see: `firstErr` need not be the error that began it all.
The worker that failed cancels first and sends afterwards, and another worker's
"context canceled" may overtake it. `FailureHasACause` is what does hold.

### IndexStore, QueryService, IndexCommand, RagSystem

Here an index run is four events: it takes the lock, asks for the collection's
id, and fails or activates a complete generation. What happens in between is
`IndexBuild`, how the lock works is `ReindexJob`, and the theorems about those two
are what allows the abstraction (one writer; an activated generation is complete
and is never changed again). `Chunks` are numbers in the order of their distance to
the query, so that Chroma's answer is the `Nearest` of a set, a threshold is a
number, and a source filter is the set of sources it lets through.

A goroutine `r` of the server is at a place (`at[r]`) of its call (`call[r]`):
`"load"` before `activeGeneration`, `"aim"` before `getCollectionID`, then at the
requests `"count"`, `"list"`, `"query"`, `"get"`; a reindex goes through `"start"`,
`"build"` (EnsureCollection of the ingest), `"ingest"`, `"ensure"` (EnsureCollection
of RunReindex), `"store"` (setCollectionID) and `"finish"`; a probe through `"ensure"`
and `"store"`. `gen`, `col`, `limit`, `found`, `todo` are the local variables of
those functions. The paged reads are one step per page (`ReadPage`), an empty page
and a 404 end them (`NextScope`, `EndList`, `EndCount`), and a 404 fails a `Query`,
as in `chroma.go`. `cached` is `Service.collectionID`.

A command `k` is at a `step[k]`: it fails its attempts for whatever reason, waits,
tries again, gives up when `late[k]`. `Kill` and `Crash` take a process away and the
lock with it; `LoseCollection` deletes the collection; `ForeignRun` is a run for
another collection name, after which `activeGeneration` answers "".

`seen[r]` and `sound[r]` are history: which generations were active during the
call, and whether collection and id were in order all the while.

Simplifications: reading the pointer and embedding the query are one step; Chroma's
search is exact; exit code 2 and other codes that are not zero are one; several
reindexes refused at once are `ReindexJob`'s business; a clean shutdown of the
server does not exist in the code, it is killed.

### EnvFile, ConfigDoctor, ServerConfig, Chunking, Installation

`env` is the environment the operator runs make in, `file` the lines of `.env`,
each a key and a value. `EnvFile` has one operator per reader: `ShellValue`,
`InstallValue`, `InstallPort`, `DoctorValue`, `ComposeValue`. All ask the environment
first and take a default last; of several lines for a key the shell takes the first that
is not blank, `loadEnvFile` the last that is not empty, `ResolvePort` the first, the
doctor and compose the last (`FirstOf`, `LastOf` of a set of line numbers). They differ
in blanks, too. Four of them trim, and a variable that is exported with no value is for
them as good as none (`Said`). docker compose does not trim: a variable that is set hides
`.env` whatever it is, `${KEY:-default}` gives the default for an empty value only, and
spaces stay spaces until `config.Load` trims them (`Setting`). `env` is therefore a
function on the variables that are set. A path is a sequence of names, an integer or a
duration what `Atoi` or `ParseDuration` makes of the value.

Every command of docker compose loads the project first. `Composes` is what that takes:
an `OLLAMA_HOST`, an address (`Addresses`) and a port to publish on, and volumes that are
directories. In the short syntax a source that begins with `.`, `/` or `~` is a path; any
other (`Bare`) is the name of a volume, and the file declares none. `~` is the home
directory for compose (`MountPath`) and a name like any other for everybody else
(`AbsolutePath`, as `filepath.Join`). `Up`, `CleanInstall`, `Reset` and `Down` need
`Composes`; `Index` ends with "refused" without it. `Index` also is the check of
`index.sh` itself: the limit, `INDEX_LIMIT` or else `RAG_INDEX_LIMIT` (`LimitText`), has
to consist of digits (`Digits`) before `config.Load` in the container looks at it.

`Bootstrap` (with a terminal) and `BootstrapBatch` are `install-bootstrap.sh` up to the
container of rag-install, `InstallStep` is that container, and `Doctor`, `Up` and
`IndexAll` go on from there (`at`); each can also be run by itself, and `Abort` ends
`make install` between two of them. `InstallAlone` is rag-install without the script,
which resolves the directories itself. `CleanInstall` and `Reset` (FULL_RESET=1) lead
into `make install`. `dirs` are the directories that were made, by the scripts, by
rag-install or by Docker for a mount. `Up` gives the container its environment and
`Loads` decides whether the server comes up. `checked` and `prepared` are forgotten
with every edit. `Chunk` cuts a document with the accepted settings.

A text is a sequence of members of `Byte`, and `White` are those of them that
`strings.TrimSpace` takes away; any other byte is a letter. `Split` looks at no letter
except to see that it is one, so the documents of `Installation` may have letters that
are all different (`InstallationAssumption`): a letter then stands for its place in the
text, and `ChunksHoldTheText` can say where a chunk comes from. The theorem about
`Split` itself has no such assumption. Each loop of `CleanText` and `Split` is a
fold, whose step is a function (`Squeezed`, `Parted`, `Added`, `Shown`) so that lemmas
can be about any step; the loop that cuts a long paragraph is a recursive function
(`Cut`).

Simplifications: quotes, case, carriage returns and space around a value that is not
blank are left out, and any number of spaces is the one value `" "`; spaces inside a
limit, which `index.sh` removes, are left out; a missing and an empty `.env` are one;
`.env.example` has two lines; the default chunk size and overlap are
5 and 2 bytes, so that short texts meet every branch of `Split`; a shell script is one
step, `make install` excepted; symbolic links, the parents that `mkdir -p` makes, and
the scan of `docker-compose.yml` for published ports are left out. So are `~user`, a
`FULL_RESET` without docker compose (`CLEAN_INSTALL_SKIP_DOWN`), and the errors of Docker
behind a project that loads (an address this machine does not have, a mount below a file):
an `up` that fails there is one that did not happen, and in `make install` an `Abort`.
Carriage returns and characters of several bytes are left out of texts.

## 3. What the runs check

The coordinator runs use two processes, a server with two goroutines and a
command with one thread, and two or three jobs.

| Run | Result | Question |
|---|---|---|
| `job_safety` | holds | `SingleWriter`, `LiveRunIsShown`, `LocksHaveOwners`, `TerminalRecordsAreTrue`, `CountsAreTheRunsOwn`, `IdleAnswerIsHonest`, `TypeOK`, with errors and a crash; the protocol implements `ExclusiveReindex` |
| `job_live` | holds | every call returns; a killed job does not stay the active one when somebody polls |
| `job_busy` | violated | a start is refused only because of a run |
| `job_stale` | violated | a run whose end was recorded is never marked as died |
| `build_resume` | holds | complete, frozen and fresh generations; the pointer moves only at the end; the build implements `AtomicIndex`, also when `INDEX_LIMIT` and the selection vary between runs |
| `build_stray` | holds | a fresh draft has no copies, also with late requests, two of them at once; a run that is not cut off ends |
| `build_late` | violated | completeness when Chroma carries out an abandoned request |
| `build_rename` | violated | the visible index outlives a run for another collection |
| `query` | holds | an answer is from one generation and complete; a reported success is in force; the lock has its owner; the command ends; the collection id heals |
| `settings` | holds | the doctor's word is enough; the mounts were made by the installer; a reset spares the sources; chunks fit and hold the text |
| `settings_mounts` | violated | docker compose mounts the directories the shell resolves |
| `pool` | holds | every goroutine ends and none works on after the return; no error is returned exactly when every document has a result; no error is made up |

The violated ones are places where a sentence of the documentation is stronger
than the code; `PROJECT.json` quotes the sentences.

- `job_busy`: `Status` takes the reindex flock for a moment, and a start at that
  moment is told "already running" although nothing runs. It hits polling
  clients; the start can be repeated.
- `job_stale`: after `recordFinished` and before `Close` empties the lock file, a
  refused start reads the finished job from the lock file and puts it back as the
  active job. The next status check reports the successful run as one whose
  process exited.
- `build_late`: nothing looks at the draft again between `reuseBuildSource` and
  the switch, so a delete or upsert that the previous run has given up on may still
  change it.
- `build_rename`: with another `RAG_COLLECTION_NAME` the announcement of the
  draft overwrites the manifest of the old collection.
- `settings_mounts`: `HOST_DOCS_DIR=` exported and a path in `.env`: the shell and the
  doctor read `.env`, docker compose mounts the default.

What the two larger runs let one see. `query`: `AnswersAreFromOneSnapshot` has no
condition, so it also covers a listing whose collection disappears between two pages
(the answer is a part of one generation); `SoundAnswersAreComplete` says when the
answer is all of it, and names the one exception, a source filter over more records
than the candidate limit (`MissesSome`). A readiness check that was slow can put an
old collection id back over a newer one; searches then fail and listings are empty
until the next check, which is what `IdHeals` says and no more. A reindex may be
reported as failed although its generation is active (EnsureCollection fails after the
switch); `ReportsMatchTheIndex` is the other direction. `settings`: the properties are
about settings without repeated keys, because the readers differ exactly there and the
doctor gives a warning only. What `settings_mounts` shows, and the first four
differences listed below, are left out by named premises: `PlainEnv` (nothing is exported blank, and no setting of the log) of
`DoctorIsEnough`, which also wants a limit of digits and a project that compose loads;
`PlainDirs` (no directory is exported blank and none begins with `~`) of `MountsWereMade`
and `ResetSparesSources`, which leaves out sources at `/` as well. Nothing is assumed of
the container an index run meets: it may be from any earlier settings, and `Loads` is
asked of the mixture. A reset before the doctor's first report, which `clean-install.sh`
allows, is not covered.

Divergences without a run of their own. The model has the first four, which is why the
properties need the premises they have.

- `RAG_INDEX_LIMIT=+5` is a number for `Atoi`, in the doctor and in the server, and not
  for `parse_non_negative_int` of `index.sh`: a clean report, a running server, and a
  `make index` that exits with 2.
- `config-doctor.sh` hands on the variables it lists, and `RAG_LOG_LEVEL` and
  `RAG_LOG_FORMAT` are not among them, though the doctor checks both and the server
  refuses a wrong one. A chunk size that is exported blank is the default for docker
  compose and the one of `.env` for the doctor, so that the overlap of `.env` may not fit.
- A directory given by its bare name (`HOST_DOCS_DIR=notes`) is a directory of the
  repository for the doctor and an undeclared volume for docker compose; a host name in
  `RAG_HTTP_HOST` passes the doctor as well.
- `isAncestor` of the doctor does not see that everything is in `/`: with documents at
  `/` the index is a part of what is indexed.
- ADR-2026-06-04 (atomic generation switch), line 30, says that `FRESH_INDEX` recreates
  the collection; the code builds a fresh generation in the existing one.

### Bounds

Coordinator: one process with two threads is the least that distinguishes
`localLocks` from the flock, a second process the least that needs the flock. A
third job makes a start possible after one was killed and another refused; ids
are never reused, so each job is one call. One crash suffices to leave either
file stale; a second would meet the same files again. `job_safety` uses
symmetry (threads of the server, jobs), and so does `build_resume` (sources, of which
either may be selected alone); neither checks liveness.

Build: two sources, so that one can change while the other stays; a version of
one chunk and one of two, so that drafts can be partial and so that numbers of
chunks can agree or differ while contents differ; three generations, so that a
draft can follow an activated generation that followed another; two edits and
two aborted runs, so that a draft is resumed twice over different sources; two late
requests, one of each worker or two records of one batch; a limit of one source, and none.
`build_stray` has one edit and one aborted run, every source selected and no limit, as late
requests and liveness multiply the states. The
bounds stop the model: when generations and edits are used up nothing is left to
do, which is why the `MCIndexBuild` configurations switch the deadlock check
off. The program itself never stops there. The coordinator's
configurations keep the deadlock check.

Query: one goroutine that gets searches, listings, fetches and a reindex, one for
readiness probes, and one command, so that a read meets a switch and a reindex meets
the command's lock and a probe meets both; two generations, so that a read can straddle a
switch, of four and three of five chunks, so that a page of two leaves a second one, the
two scopes are both paged, generations differ both ways, and the limit of candidates
(scaled from 20 to 2) is reached; a wanted number above and at `MaxTopK`, a filter that lets
one source through, no limit at all, a threshold inside the chunks, and calls that
are rejected, refused or pointless. One mishap: a lost collection, a run for another
collection or a killed server; the id heals from any of them, and two would need more
generations to be seen. The generations end, so the deadlock check would say nothing
more than that; it stays on, as the server can always be asked.

Settings: three environments (empty; an Ollama host and another index directory; an
Ollama host, a documents directory with no value and a chunk size of spaces), `.env`
files with good, bad, blank, repeated and foreign lines, a bare name and a `~` among them,
edits up to `MaxLines`, and index runs with and without `INDEX_LIMIT`; the violated run has the
last environment and one file; paths inside and outside the repository, above it, below a
file, and with `..`; texts of one and several paragraphs, shorter and longer than a
chunk, with a word longer than two chunks.

Pool: three workers and four documents, so that one worker fails, one is in the
middle of a document and one waits, while documents remain to be fed; a worker
also gets a second document. The deadlock check is off since the pool ends,
which `AllEnd` requires it to do in the state it should.

### Fairness

`FairSpec` of `ReindexJob` gives each thread strong fairness on the steps a call
in progress is there for; its failing steps are possible and never owed, so no
call is rescued from a lock by an error. A call waits for the status lock only, and its holders wait
for nothing; weak fairness would let an unlucky waiter be overtaken for ever by
new calls, which flock(2) does not exclude formally but wakes its waiters each
time. The end of an ingest is among those steps, since the command runs it under
`RAG_REINDEX_TIMEOUT` and the server under the context of the request. Nobody
is obliged to start a run or to report progress. That a thread that has nothing
else to do asks for the status (as `make index` and the web page keep doing) is
in the same fairness, and that not every probe and not every save of `Status` fails;
`DeadJobIsSettled` needs both, `CallsReturn` neither. `FairSpec` of `IndexBuild` is weak
fairness of the work on a run: requests are answered or time out, and a free
worker takes the next document. The next run is not assumed. `FairSpec` of
`EmbedPool` is weak fairness of each goroutine: the Go scheduler runs what can run,
and `indexDocument` returns because its requests have timeouts. `FairSpec` of
`RagSystem` is weak fairness of a command's own steps and of its deadline, which is a
timer of the process; calls of the server and probes are never owed. `IdHeals` needs no
fairness, since its premise is that probes keep succeeding. `Installation` has no
fairness: it is about what an operator may do, not about what he will.

## 4. What is proved

For any threads, processes, jobs, sources, versions, calls, chunks, limits, texts and bounds,
from the assumptions about constants named in the modules (`ReindexJobAssumption`,
`IndexBuildAssumption`, `EmbedPoolAssumption`, `IndexStoreAssumption`,
`QueryServiceAssumption`, `IndexCommandAssumption`, `RagSystemAssumption`,
`EnvFileAssumption`, `ConfigDoctorAssumption`, `SubdirsAssumption`,
`ChunkingAssumption`, `EnvironmentsAssumption`, `TildeAssumption`, `LimitsAssumption`,
`InstallationAssumption`) and from the hypotheses a theorem states itself:

- `ReindexJobProofs`: `TypeCorrect`, `OneWriter` (`SingleWriter`),
  `LiveRunShown` (`LiveRunIsShown`), `IdleAnswerHonest` (`IdleAnswerIsHonest`)
  and `ImplementsLease` (`SingleWriterLease`). The inductive invariant `IInv`
  joins the types with: a thread at a label of a call has a job and no two
  threads share one (`JobInv`); a thread at a writer's label or probing holds the
  flock, one inside `Status` the status lock (`LockInv`); while a probe
  decides, the thread holds the status lock and so nobody records a start
  (`ProbeInv`); a writer past `writeJob` is named by the lock file
  (`WrittenInv`). `SingleWriter` follows from `LockInv` because a flock has one
  holder. `LiveRunIsShown` is not inductive alone: without `ProbeInv` the settling
  observer could mark a run that started after the probe, which is the race the
  status lock closes.
- In the same module, on what is left behind: `OwnersOfLocks` (`LocksHaveOwners`), `OneCallPerProcess`
  (the in-process lock has one call, `LocalInv`), `TerminalRecordsTrue`
  (`TerminalRecordsAreTrue`) and `CountsOfTheRun` (`CountsAreTheRunsOwn`). The
  invariant `RInv` adds to `IInv` how far the job of a thread has come at each
  label (`FateInv`), and that a job either file names has ended or still has a
  thread between writing the lock file and the end of its ingest (`AliveInv`):
  whoever has the flock may therefore declare it dead. `SettleInv` carries that
  over the step where `Status` has given the flock back and has not saved yet,
  which is where `markStaleRunFailed` could be wrong.
- `IndexBuildProofs`: `TypeCorrect`; `ActivatedFrozen`, when no request outlives
  its run (`MaxLate = 0`): no record of a generation that is or was active is
  written or deleted; `PointerMoves`, with one collection name: the active
  generation is replaced by the end of a run and by the generation it built. The
  invariant is `FInv`: documents are worked on only while a run is on
  (`WorkInv`), every generation ever named is at most the clock, the file never
  offers an activated generation for resumption, a run builds the generation the
  file offers and prepares records of that one only (`DraftInv`), and no request is
  on its way (`LateInv`). `build_late` and `build_rename` show that the two
  hypotheses are needed.
- `IndexContentProofs`: `FreshHasNoCopies` (`FreshDraftHasNoCopies`), with any number
  of late requests; `ActiveComplete` (`ActiveIsComplete`), with `MaxLate = 0`;
  `ImplementsAtomicIndex` (`AtomicImage`), with `MaxLate = 0` and one collection
  name. The invariant `CInv` says of every record that is stored, pending in a worker,
  or on its way in a late request of a fresh draft, that it was embedded (`FreshInv`,
  `Honest`); what each stage of a document has established about its records in the
  draft (`DraftOf`); and what the listing of `deleteStaleBuildSources` still has to find
  (`ListInv`). `ActiveIsComplete` itself is a part of the invariant: a chunk that is
  copied instead of embedded is right because the generation it is copied from is
  complete. For the refinement, starting a run takes the snapshot, activating publishes
  it, failing gives it up, and no other step of a run shows (`AtomicStep`).

- `EmbedPoolProofs`: `TypeCorrect`, `NobodyWorksOn` (`NoWorkAfterReturn`),
  `SuccessMeansComplete` (`SuccessIsComplete`) and `FailuresHaveCauses`
  (`FailureHasACause`). A verdict looks only at the number of results, so the
  proof has to follow the documents: each that was fed is with one worker, in
  the channel once, in the caller's list, or was lost with an error the caller has
  seen (`CoverInv`, `OnceInv`, `LostInv`); the feeder and the workers stop early only when the
  work is cancelled (`StopInv`). `CauseInv` says that every error on its way to the
  caller, and the cancellation itself, has a cause.

- `RagSystemProofs`: `TypeCorrect`, `LeaseIsOwnedAlways` (`LeaseIsOwned`) and
  `ReportsMatchTheIndexAlways` (`ReportsMatchTheIndex`). Every step that is not a mishap
  changes the store in one of six ways (`StoreStep`), under which ids and generations
  only grow, so what is typed stays typed. `LeaseIsOwned` needs that a call is only at
  the places its kind goes to (`AllFit`): without it a probe at `"ensure"` would count
  as a run. The reports need that the file names the newest generation or that of a
  run for another collection (`PointerIsNewest`), and that a run that has not failed
  knows its generation (`Names`, `CommandNames`).
- `RagAnswerProofs`: `AnswersAreFromOneSnapshotAlways` and
  `SoundAnswersAreCompleteAlways`. The first follows a call's local variables (`Snap`):
  its generation was active during the call, what it has paged lies in the scope it is
  about, and its candidates hold everything nearer than one of them (`IsPrefix`),
  so that cutting them to the wanted number finds nothing a full search would not.
  The second adds (`Entire`) that while the server stays healthy the collection is the
  same one (`Steady`); that what was paged is always a prefix of the scope, so that an
  empty page means the end (`NextPage`, which takes the least chunk not yet read); and
  that there are at least as many candidates as wanted matches (`Enough`).

- `InstallationProofs`: `TypeCorrect`, `DoctorVouches` (`DoctorIsEnough`),
  `PreparedIsMounted` (`MountsWereMade`) and `SourcesAreSpared`
  (`ResetSparesSources`). The invariant `InsInv` says that a report of the doctor
  that still counts is about the settings as they are (`ReportInv`), that between the
  two steps of an undisturbed `make install` `.env` stays and the directories handed
  over are those the shell reads from it (`HandedInv`), that after it everything
  the shell resolves was made (`MadeInv`), and that a server that is up has accepted its
  environment (`LoadedInv`). The readers are compared in two lemmas. `ReadersAgree`: the
  shell, rag-install and the doctor give a key the same value when no key has two lines
  (`OneLine`: the first and the last of one line are that line), whatever is exported.
  `ComposeAgrees`: docker compose gives the doctor's value up to blanks when the variable
  is not exported without one; so what it mounts, if it is not refused and does not begin
  with `~`, is what the shell resolves (`MountIsResolved`). `PassedIsLoaded`: whatever
  passes the doctor's checks passes the ones of `config.Load`, which are written a second
  time in the code. `IndexLoads` is about the mixture an index run loads: each key is
  either one the doctor has passed or one the server had accepted (`IndexIsSeen`), and the
  sizes, the only pair that is compared, come both from the container.
- `ChunkingProofs`: `SplitKeepsTheText`, for every text (with the same letters over and
  over, too), every chunk size and every smaller overlap. The library's induction
  theorems take a predicate, which no prover here can instantiate, so the induction is
  done with sets: a set with 0 that is closed under + 1 contains `Nat` (`NatSet`), one
  with `<<>>` that is closed under `Append` contains the sequences (`SeqSet`); each
  loop's invariant is such a set. On this rest what a fold is (`FoldEmpty`,
  `FoldAppend`, for any step) and that the recursion of `Cut` is well-founded and so
  a function at all (`CutSteps`: a cut leaves less than there was, since the overlap is
  smaller than the size). `CleanText` and the split into paragraphs change white space
  only (`CleanLetters`, `ParagraphsLetters`). The invariant of the loop over the
  paragraphs is `Held`: the chunks so far are stretches of the letters so far, each
  begins where its predecessor ends or earlier and ends no earlier, and the last ends
  with the last letter. It is not enough inside a long paragraph, where `Due` adds that
  the letters already in a chunk are within the first `overlap` bytes of what is left:
  the chunk that is taken next therefore ends no earlier than its predecessor, and the
  part of the text that is dropped was in it.
- In `InstallationProofs`, `DocumentsAreHeld` (`ChunksHoldTheText`) brings this to the
  running system: by `LoadedInv` the server is up only with an environment that `Loads`
  accepts, whose overlap is smaller than its size (`AcceptedSizes`), and `CutInv` says that
  the chunks are those of the container that is there.

Only model-checked: `CallsReturn`, `DeadJobIsSettled`, `RunEnds`, `AllEnd`, `CommandEnds`
and `IdHeals`, since liveness is out of the prover's reach, as is ENABLED. Every safety
and action property of the passing runs is stated by a theorem.

## 5. Plan

Done: the coordinator and its refinement, the build and its refinement, the worker
pool; the server and the command over a shared store; the installation with its
settings, the doctor, the server's configuration and chunking; and a theorem for
every safety and action property the passing runs check.

Left:

1. Texts whose bytes make up characters: a cut inside a character changes what is
   embedded, and Unicode white space is not a matter of single bytes.
2. Shorter proofs where leaves cite more than they need.

## 6. Not modelled

JSON-RPC, HTTP (methods, sizes of bodies, the write timeout), static files, logging
and metrics pass on what other parts decide. The doctor's scan of the text of
`docker-compose.yml` and its warnings, symbolic links, quoting in `.env`, and the
statistics and file filters of the walk over the sources are left out: they are
functions of one input that tests reach. The remaining shell scripts, the Docker
images, the CI and the web page are input and output around the program. Chroma,
Ollama, Docker, the file system and the operating system appear as the code relies
on them: upsert by id, delete and get by metadata, an atomic rename, flocks that end
with their process, mounts that Docker makes when they are missing.
