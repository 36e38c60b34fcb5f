------------------------------ MODULE EnvFile -------------------------------
(***************************************************************************)
(* The settings of an installation: the process environment, the lines of  *)
(* .env, and the five readers of that file.  For all of them the           *)
(* environment goes first and a default last; they differ in which of      *)
(* several lines for one key they take, and in what a blank value is:      *)
(* docker compose does not trim, and a variable that is set to nothing     *)
(* still hides .env from it.                                               *)
(*                                                                         *)
(* The environment is a function on the variables that are set.  The value *)
(* " " stands for any number of spaces, which .env has in quotes; quotes,  *)
(* case and space around other values are left out.                        *)
(***************************************************************************)
EXTENDS Naturals, Sequences, SequencesExt, FiniteSetsExt

CONSTANTS
  Values,   \* values a line or a variable may have, "" among them
  Default   \* the built-in value of each key, "" for none

HostKeys == {"HOST_DOCS_DIR", "HOST_CODE_DIR", "HOST_INDEX_DIR"}
PortKey == "RAG_HTTP_PORT"
PositiveKeys == {"RAG_MAX_TOP_K", "RAG_EMBED_CONCURRENCY", "RAG_EMBED_BATCH_SIZE"}
NaturalKeys == {"RAG_INDEX_LIMIT", "RAG_EMBED_NUM_THREADS"}
TextKeys == {"EMBED_MODEL", "RAG_CHROMA_TENANT", "RAG_CHROMA_DATABASE", "RAG_COLLECTION_NAME"}
LogKeys == {"RAG_LOG_LEVEL", "RAG_LOG_FORMAT"}

Options ==
  [RAG_SCOPE_DEFAULT |-> {"all", "docs", "code"},
   RAG_LOG_LEVEL |-> {"debug", "info", "warn", "error"},
   RAG_LOG_FORMAT |-> {"json", "text"}]

Keys ==
  HostKeys \cup PositiveKeys \cup NaturalKeys \cup TextKeys \cup DOMAIN Options \cup
  {PortKey, "RAG_HTTP_HOST", "RAG_CHUNK_SIZE", "RAG_CHUNK_OVERLAP", "RAG_MAX_SEARCH_DISTANCE",
   "RAG_ENABLE_CODE_INGEST", "RAG_REINDEX_TIMEOUT", "OLLAMA_HOST"}

Yes == {"1", "true", "yes", "on"}
No == {"0", "false", "no", "off"}

(* A line is an assignment, a comment "#", or "?": neither of the two.     *)
Line == [key : Keys \cup {"#", "?"}, value : Values]

Blanks == {"", " "}

ASSUME EnvFileAssumption ==
  /\ Blanks \subseteq Values
  /\ Default \in [Keys -> Values]

(* The lines of a key, those that are not empty, and those not blank.      *)
Given(file, k) == {i \in DOMAIN file : file[i].key = k}
Written(file, k) == {i \in Given(file, k) : file[i].value # ""}
Filled(file, k) == {i \in Given(file, k) : file[i].value \notin Blanks}

FirstOf(file, lines) == IF lines = {} THEN "" ELSE file[Min(lines)].value
LastOf(file, lines) == IF lines = {} THEN "" ELSE file[Max(lines)].value

(* A key that has more than one line: a warning of the doctor.             *)
Duplicated(file) == \E k \in Keys : \E i, j \in Given(file, k) : i # j

(* The environment has something to say of a key.                          *)
Said(env, k) == k \in DOMAIN env /\ env[k] \notin Blanks

(* All readers but docker compose trim a value and take a blank for none.  *)
OrDefault(k, v) == IF v \in Blanks THEN Default[k] ELSE v
Resolved(env, k, v) == IF Said(env, k) THEN env[k] ELSE OrDefault(k, v)

(* resolve_host_override of the shell scripts.                             *)
ShellValue(env, file, k) == Resolved(env, k, FirstOf(file, Filled(file, k)))

(* Mutation: a line of .env goes before the environment.                   *)
InstallValueFile(env, file, k) ==
  IF Filled(file, k) = {} THEN Resolved(env, k, "") ELSE LastOf(file, Filled(file, k))

(* loadEnvFile and resolveHostDir of rag-install.                          *)
InstallValue(env, file, k) == Resolved(env, k, LastOf(file, Written(file, k)))

(* ResolvePort of rag-install: the first line counts, also when it is      *)
(* empty, and spaces in quotes are no default.                             *)
InstallPort(env, file) ==
  LET v == FirstOf(file, Given(file, PortKey))
  IN  IF ~Said(env, PortKey) /\ v = " " THEN v ELSE Resolved(env, PortKey, v)

(* parseDotEnv and effective of rag-config-doctor.                         *)
DoctorValue(env, file, k) == Resolved(env, k, LastOf(file, Given(file, k)))

(* docker compose, ${KEY:-default}: a later line replaces an earlier one,  *)
(* a set variable replaces both whatever it is, and only "" is no value.   *)
ComposeValue(env, file, k) ==
  LET v == IF k \in DOMAIN env THEN env[k] ELSE LastOf(file, Given(file, k))
  IN  IF v = "" THEN Default[k] ELSE v

(* upsert_env_value of the shell scripts and upsertEnvValues: every line   *)
(* of the key is rewritten, or one is added.                               *)
Upsert(file, k, v) ==
  LET line == [key |-> k, value |-> v]
  IN  IF Given(file, k) = {} THEN Append(file, line)
      ELSE [i \in DOMAIN file |-> IF file[i].key = k THEN line ELSE file[i]]

(* UpsertHostSourceDirs, and the same in install-bootstrap.sh.             *)
UpsertSources(file, docs, code) ==
  Upsert(Upsert(file, "HOST_DOCS_DIR", docs), "HOST_CODE_DIR", code)
=============================================================================
