---------------------------- MODULE Installation ----------------------------
(***************************************************************************)
(* An installation on a host: the operator edits .env and runs make        *)
(* install, make up, make index, make clean-install and rag-config-doctor  *)
(* (shell/*.sh, cmd/rag-install, cmd/rag-config-doctor) in any order; the  *)
(* server and rag-index load their configuration in the container and cut  *)
(* documents into chunks with it.                                          *)
(***************************************************************************)
EXTENDS ServerConfig, Chunking

CONSTANTS
  Environments,  \* the process environments, on the variables that are set
  Files0,        \* what .env may contain at first, <<>> for none
  Example,       \* .env.example
  Edits,         \* the lines the operator may add
  Chosen,        \* the documents directories the operator may choose
  Limits,        \* what INDEX_LIMIT may be, "" when it is not given
  Digits,        \* values that are digits only
  Addresses,     \* values that are addresses compose can publish a port on
  Bare,          \* paths that begin neither with "." nor with "/" nor with "~"
  Tilde,         \* the paths "~" and "~/..."
  Texts,         \* the documents; a letter is told by its place in the text
  MaxLines       \* bound: lines of .env

ASSUME EnvironmentsAssumption ==
  \A e \in Environments : DOMAIN e \subseteq Keys /\ \A k \in DOMAIN e : e[k] \in Values

ASSUME TildeAssumption ==
  /\ Bare \cup Tilde \subseteq DOMAIN Path /\ Bare \cap Tilde = {}
  /\ \A v \in Tilde : ~Path[v].absolute /\ Path[v].names # <<>> /\ Head(Path[v].names) = "~"

ASSUME LimitsAssumption ==
  "" \in Limits /\ Limits \subseteq Values /\ Digits \cup Addresses \subseteq Values

ASSUME InstallationAssumption ==
  /\ Files0 \cup {Example} \subseteq Seq(Line) /\ Edits \subseteq Line
  /\ MaxLines \in Nat /\ \A f \in Files0 \cup {Example} : Len(f) <= MaxLines
  /\ Chosen \subseteq DOMAIN Path
  /\ {"0.0.0.0", "8765"} \subseteq Values /\ NumberIn("8765", {8765})
  /\ Texts \subseteq Text
  /\ \A t \in Texts : IsInjective(Letters(t))

VARIABLES
  env,       \* the environment the commands run in
  file,      \* the lines of .env
  dirs,      \* the directories that were made, those they are in left out
  at,        \* what make install does next, "idle" when it is not running
  handed,    \* the directories install-bootstrap.sh hands to rag-install
  checked,   \* what the doctor last said of these settings
  prepared,  \* history: whether rag-install has prepared these settings
  container, \* the environment of the container, when it was made
  server,    \* "down", "up", or "refused" when Load failed
  indexed,   \* how the last rag-index of make index ended
  pieces     \* the chunks of the last document, with the text

vars == <<env, file, dirs, at, handed, checked, prepared, container, server, indexed, pieces>>
stack == <<container, server, indexed, pieces>>

Blank == [k \in Keys |-> ""]
NoDirs == [k \in HostKeys |-> <<>>]
NoPieces == [text |-> <<>>, chunks |-> <<>>]
StateDir(index) == Append(index, "rag-state")

(* A source of a volume in docker-compose.yml: a bare name would be that   *)
(* of a volume, and the file declares none; compose expands "~".           *)
MountPath ==
  [v \in DOMAIN Path \ Bare |->
     IF v \in Tilde THEN Cleaned(Home \o Tail(Path[v].names)) ELSE AbsolutePath[v]]

(* The directories that settings can name.                                 *)
NamedDirs == {AbsolutePath[v] : v \in DOMAIN Path} \cup {MountPath[v] : v \in DOMAIN MountPath}

TypeOK ==
  /\ env \in Environments
  /\ file \in Seq(Line) /\ Len(file) <= MaxLines
  /\ dirs \subseteq NamedDirs \cup {StateDir(p) : p \in NamedDirs}
  /\ at \in {"idle", "bootstrap", "rag-install", "doctor", "up", "index"}
  /\ handed \in IF at = "rag-install" THEN [HostKeys -> NamedDirs] ELSE {NoDirs}
  /\ checked \in {"none", "passed", "failed"} /\ prepared \in {"no", "begun", "yes"}
  /\ container \in [Keys -> Values]
  /\ server \in {"down", "up", "refused"}
  /\ indexed \in {"none", "done", "refused"}
  /\ server # "up" => indexed = "none"
  /\ indexed = "none" => pieces = NoPieces

Init ==
  /\ env \in Environments /\ file \in Files0
  /\ dirs = {} /\ at = "idle" /\ handed = NoDirs
  /\ checked = "none" /\ prepared = "no"
  /\ container = Blank
  /\ server = "down" /\ indexed = "none" /\ pieces = NoPieces
-----------------------------------------------------------------------------
Edit(line) ==
  /\ Len(file) < MaxLines
  /\ file' = Append(file, line)
  /\ checked' = "none" /\ prepared' = "no"
  /\ UNCHANGED <<env, dirs, at, handed, stack>>

(* EnsureEnvFile, and the same in install-bootstrap.sh.                    *)
Ensured(f) == IF f = <<>> THEN Example ELSE f

ShellDir(f, k) == AbsolutePath[ShellValue(env, f, k)]

Within(p, q) == IsPrefix(q, p)

(* mkdir -p for the host directories, in turn, up to one that cannot be.   *)
HostOrder == <<"HOST_DOCS_DIR", "HOST_CODE_DIR", "HOST_INDEX_DIR">>

Makeable(p) == \A f \in Files : ~Within(p, f)

AllMakeable(where) == \A k \in HostKeys : Makeable(where[k])

MadeDirs(where) ==
  {where[HostOrder[i]] : i \in {j \in 1..3 : \A h \in 1..j : Makeable(where[HostOrder[h]])}}

(* What the answers of the operator make of .env.                          *)
Answered(old, docs, ollama) ==
  Upsert(UpsertSources(old, docs, ShellValue(env, old, "HOST_CODE_DIR")), "OLLAMA_HOST", ollama)

(* make install begins: install-bootstrap.sh asks, when there is a         *)
(* terminal, for the documents directory and the Ollama host, saves the    *)
(* answers, makes the host directories and hands them to rag-install.      *)
Prepares(new) ==
  LET where == [k \in HostKeys |-> ShellDir(new, k)]
  IN  /\ Len(new) <= MaxLines
      /\ file' = new
      /\ dirs' = dirs \cup MadeDirs(where)
      /\ \/ AllMakeable(where) /\ handed' = where /\ at' = "rag-install"
         \/ ~AllMakeable(where) /\ at' = "idle" /\ UNCHANGED handed
      /\ checked' = "none" /\ prepared' = "begun"
      /\ UNCHANGED <<env, stack>>

Bootstrap(docs) ==
  /\ at \in {"idle", "bootstrap"}
  /\ LET old == Ensured(file)
         kept(k) == ShellValue(env, old, k)
     IN  \E ollama \in IF kept("OLLAMA_HOST") = "" THEN Urls ELSE {kept("OLLAMA_HOST")} :
           Prepares(Answered(old, IF docs = "keep" THEN kept("HOST_DOCS_DIR") ELSE docs, ollama))

BootstrapBatch ==
  /\ at \in {"idle", "bootstrap"}
  /\ Prepares(IF Said(env, "OLLAMA_HOST")
              THEN Upsert(Ensured(file), "OLLAMA_HOST", env["OLLAMA_HOST"])
              ELSE Ensured(file))

(* rag-install: EnsureEnvFile, ResolvePort, EnsureHostDataDirs.            *)
PortIsGood == NumberIn(InstallPort(env, Ensured(file)), Ports)

RagInstall(where, next) ==
  /\ file' = Ensured(file)
  /\ checked' = IF file' = file THEN checked ELSE "none"
  /\ dirs' = dirs \cup (IF PortIsGood THEN MadeDirs(where) ELSE {})
                  \cup (IF PortIsGood /\ AllMakeable(where)
                        THEN {StateDir(where["HOST_INDEX_DIR"])} ELSE {})
  /\ at' = IF PortIsGood /\ AllMakeable(where) THEN next ELSE "idle"
  /\ handed' = NoDirs
  /\ UNCHANGED <<env, stack>>

InstallStep ==
  /\ at = "rag-install"
  /\ RagInstall(handed, "doctor")
  /\ prepared' = IF prepared = "begun" /\ at' = "doctor" THEN "yes" ELSE "no"

(* rag-install run by itself resolves the directories from .env.           *)
InstallAlone ==
  /\ at = "idle"
  /\ LET where == [k \in HostKeys |-> AbsolutePath[InstallValue(env, Ensured(file), k)]]
     IN  /\ RagInstall(where, "idle")
         /\ prepared' = IF PortIsGood /\ AllMakeable(where) THEN "yes" ELSE "no"

(* A step fails, as Up does when compose does not load the project, or is  *)
(* interrupted, and make install ends.                                     *)
Abort ==
  /\ at # "idle" /\ at' = "idle"
  /\ handed' = NoDirs
  /\ UNCHANGED <<env, file, dirs, checked, prepared, stack>>

Doctor ==
  /\ at \in {"idle", "doctor"}
  /\ checked' = IF DoctorPasses(env, file) THEN "passed" ELSE "failed"
  /\ at' = IF at = "doctor" /\ checked' = "passed" THEN "up" ELSE "idle"
  /\ UNCHANGED <<env, file, dirs, handed, prepared, stack>>
-----------------------------------------------------------------------------
(* The environment docker-compose.yml gives the container.                 *)
ContainerEnv ==
  [k \in Keys |->
     CASE k \in HostKeys -> ""
       [] k = "RAG_HTTP_HOST" -> "0.0.0.0"
       [] k = PortKey -> "8765"
       [] OTHER -> ComposeValue(env, file, k)]

MountedDir(k) == MountPath[ComposeValue(env, file, k)]

PublishedPorts == 0..65535

(* docker compose loads the project: OLLAMA_HOST has a value, the port can *)
(* be published, and the volumes are directories.  Every command of docker *)
(* compose begins with it, and fails before it has done anything.          *)
Composes ==
  /\ ComposeValue(env, file, "OLLAMA_HOST") # ""
  /\ ComposeValue(env, file, "RAG_HTTP_HOST") \in Addresses
  /\ ComposeValue(env, file, PortKey) \in Digits
  /\ NumberIn(ComposeValue(env, file, PortKey), PublishedPorts)
  /\ \A k \in HostKeys : ComposeValue(env, file, k) \in DOMAIN MountPath

(* docker compose up.  Docker makes the mounted directories that are       *)
(* missing.                                                                *)
Up ==
  /\ at \in {"idle", "up"} /\ Composes
  /\ at' = IF at = "up" THEN "index" ELSE "idle"
  /\ container' = ContainerEnv
  /\ server' = IF Loads(ContainerEnv) THEN "up" ELSE "refused"
  /\ indexed' = "none" /\ pieces' = NoPieces
  /\ dirs' = dirs \cup {MountedDir(k) : k \in HostKeys} \cup {StateDir(MountedDir("HOST_INDEX_DIR"))}
  /\ UNCHANGED <<env, file, handed, checked, prepared>>

(* What index.sh passes on: its own reading of .env goes before the        *)
(* environment of the container.                                           *)
IndexKeys == NaturalKeys \cup {"RAG_EMBED_CONCURRENCY", "RAG_EMBED_BATCH_SIZE", "RAG_REINDEX_TIMEOUT"}

IsPassed(k) == Said(env, k) \/ Filled(file, k) # {}

(* INDEX_LIMIT goes before everything else.                                *)
LimitText(limit) ==
  IF limit \in Blanks THEN ShellValue(env, file, "RAG_INDEX_LIMIT") ELSE limit

IndexEnv(limit) ==
  [k \in Keys |->
     IF k = "RAG_INDEX_LIMIT" THEN LimitText(limit)
     ELSE IF k \in IndexKeys /\ IsPassed(k) THEN ShellValue(env, file, k) ELSE container[k]]

(* make index, with INDEX_LIMIT and INDEX_SUBDIR or without: index.sh      *)
(* wants a limit of digits and a project that compose loads before it asks *)
(* rag-index, which loads its configuration.                               *)
Index(limit, Accepted) ==
  /\ at \in {"idle", "index"} /\ server = "up"
  /\ at' = "idle"
  /\ indexed' = IF LimitText(limit) \in Digits /\ Composes /\ Accepted THEN "done" ELSE "refused"
  /\ UNCHANGED <<env, file, dirs, handed, checked, prepared, container, server, pieces>>

IndexAll(limit) == Index(limit, Loads(IndexEnv(limit)))
IndexSubdir(limit, d) == Index(limit, LoadsSubdir(IndexEnv(limit), d))

(* A document is cut into chunks.                                          *)
Chunk(t) ==
  /\ server = "up" /\ indexed = "done"
  /\ pieces' = [text |-> t, chunks |-> Split(t, ChunkSize(container), ChunkOverlap(container))]
  /\ UNCHANGED <<env, file, dirs, at, handed, checked, prepared, container, server, indexed>>
-----------------------------------------------------------------------------
ResetDir == ShellDir(file, "HOST_INDEX_DIR")

(* assert_safe_reset_dir of clean-install.sh.                              *)
ResetIsSafe(p) ==
  /\ p \notin {<<>>, Repo, Front(Repo), Home}
  /\ ~IsAncestor(p, Repo)
  /\ Len(p) < 3 => Len(p) > 1 /\ Head(p) \in {"tmp", "mnt"}

(* Mutation: the containers are removed, and what they did stays.          *)
TakenDownHalf ==
  /\ server' = "down" /\ container' = Blank
  /\ UNCHANGED <<indexed, pieces>>

(* docker compose down.                                                    *)
TakenDown ==
  /\ server' = "down" /\ container' = Blank
  /\ indexed' = "none" /\ pieces' = NoPieces

(* make clean-install: the stack is taken down and make install follows.   *)
CleanInstall ==
  /\ at = "idle" /\ at' = "bootstrap" /\ Composes
  /\ TakenDown
  /\ UNCHANGED <<env, file, dirs, handed, checked, prepared>>

(* With FULL_RESET=1 the index directory is removed in between.            *)
Reset ==
  /\ at = "idle" /\ at' = "bootstrap" /\ Composes
  /\ Resolvable(ShellValue(env, file, "HOST_INDEX_DIR"))
  /\ ResetIsSafe(ResetDir) /\ Makeable(Front(ResetDir))
  /\ dirs' = {p \in dirs : ~Within(p, ResetDir)}
  /\ TakenDown
  /\ prepared' = "no"
  /\ UNCHANGED <<env, file, handed, checked>>

(* make down: the containers are stopped.                                  *)
Down ==
  /\ at = "idle" /\ server # "down" /\ Composes
  /\ server' = "down" /\ indexed' = "none" /\ pieces' = NoPieces
  /\ UNCHANGED <<env, file, dirs, at, handed, checked, prepared, container>>

Next ==
  \/ \E line \in Edits : Edit(line)
  \/ \E docs \in Chosen \cup {"keep"} : Bootstrap(docs)
  \/ BootstrapBatch \/ InstallStep \/ InstallAlone \/ Doctor \/ Abort
  \/ Up
  \/ \E limit \in Limits : IndexAll(limit) \/ \E d \in Subdirs : IndexSubdir(limit, d)
  \/ \E t \in Texts : Chunk(t)
  \/ CleanInstall \/ Reset \/ Down

Spec == Init /\ [][Next]_vars
-----------------------------------------------------------------------------
(* The doctor's report on these settings has no error and no warning of a  *)
(* duplicated key.                                                         *)
Vouched == checked = "passed" /\ ~Duplicated(file)

(* Every variable of the environment has a value, and none is of the log:  *)
(* config-doctor.sh does not hand those on.                                *)
PlainEnv == \A k \in DOMAIN env : Said(env, k) /\ k \notin LogKeys

(* The same of the directories, and none of them begins with "~".          *)
PlainDirs ==
  \A k \in HostKeys : /\ k \in DOMAIN env => Said(env, k)
                      /\ ComposeValue(env, file, k) \notin Tilde

Sources == HostKeys \ {"HOST_INDEX_DIR"}

(* Settings the doctor lets pass are settings the server accepts, and      *)
(* rag-index after it, whatever older settings its container was made      *)
(* from: the two copies of the checks, and the three ways on which values  *)
(* come to the container, agree.  A limit has to be one for index.sh too.  *)
DoctorIsEnough ==
  [][Vouched /\ PlainEnv =>
       /\ Up => server' = "up"
       /\ \A limit \in Limits :
            IndexAll(limit) /\ Composes /\ Natural(LimitText(limit)) /\ LimitText(limit) \in Digits
              => indexed' = "done"]_vars

(* After rag-install has prepared these settings, docker compose mounts    *)
(* the directories it made, and Docker has to make none.                   *)
MountsWereMade ==
  [][prepared = "yes" /\ ~Duplicated(file) /\ PlainDirs => (Up => dirs' = dirs)]_vars

(* A full reset removes neither the repository nor, after a clean report   *)
(* of the doctor, anything that belongs to the sources or contains them.   *)
(* Sources at "/" are the exception: the doctor does not see that they     *)
(* contain everything.                                                     *)
ResetSparesSources ==
  [][Reset =>
       /\ ~Within(Repo, ResetDir)
       /\ Vouched /\ PlainDirs => \A k \in Sources :
            MountedDir(k) # <<>> =>
              ~Within(MountedDir(k), ResetDir) /\ ~Within(ResetDir, MountedDir(k))]_vars

(* What the repository says of the program and the code does otherwise:    *)
(* the directories docker compose mounts are those the shell resolves.  A  *)
(* variable that is exported with no value and a path in the home          *)
(* directory are read in two ways.                                         *)
MountsAreResolved ==
  [][Up /\ ~Duplicated(file) => \A k \in HostKeys : MountedDir(k) = ShellDir(file, k)]_vars

(* Every document of an accepted configuration is cut into chunks that are *)
(* no longer than the chunk size; each is a stretch of the text, begins    *)
(* where the one before ends or earlier, and together they are all of it.  *)
ChunksHoldTheText ==
  LET chunks == [i \in DOMAIN pieces.chunks |-> Letters(pieces.chunks[i])]
      all == Letters(pieces.text)
      place == [b \in ToSet(all) |-> CHOOSE n \in DOMAIN all : all[n] = b]
      from(i) == place[Head(chunks[i])]
      to(i) == place[Last(chunks[i])]
  IN  pieces # NoPieces =>
        /\ \A i \in DOMAIN chunks :
             /\ Len(pieces.chunks[i]) \in 1..ChunkSize(container)
             /\ chunks[i] # <<>> /\ chunks[i] = SubSeq(all, from(i), to(i))
             /\ from(i) <= (IF i = 1 THEN 1 ELSE to(i - 1) + 1)
             /\ i > 1 => to(i - 1) <= to(i)
        /\ IF chunks = <<>> THEN all = <<>> ELSE to(Len(chunks)) = Len(all)
=============================================================================
