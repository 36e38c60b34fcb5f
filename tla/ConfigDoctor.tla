---------------------------- MODULE ConfigDoctor ----------------------------
(***************************************************************************)
(* rag-config-doctor: whether the settings pass, that is, whether its      *)
(* report has no error.  Of its warnings only the duplicated key matters   *)
(* here; the text of docker-compose.yml is taken to be the released one.   *)
(*                                                                         *)
(* A path is the sequence of its names.  Path gives a value's names after  *)
(* filepath.Clean, so that ".." comes first if at all, and whether it is   *)
(* absolute.                                                               *)
(***************************************************************************)
EXTENDS EnvFile, Integers

CONSTANTS
  Number,       \* strconv.Atoi: the integers some values stand for
  Hundredths,   \* strconv.ParseFloat, times 100
  Minutes,      \* time.ParseDuration
  Path,         \* the paths that values stand for, blanks excepted
  Urls,         \* values that are http(s) URLs
  PublicHosts,  \* values that are addresses outside loopback and LAN
  Repo, Home,   \* the paths of the repository and of the home directory
  Files         \* paths that are no directories

ASSUME ConfigDoctorAssumption ==
  /\ DOMAIN Number \subseteq Values /\ \A v \in DOMAIN Number : Number[v] \in Int
  /\ DOMAIN Hundredths \subseteq Values /\ \A v \in DOMAIN Hundredths : Hundredths[v] \in Int
  /\ DOMAIN Minutes \subseteq Values /\ \A v \in DOMAIN Minutes : Minutes[v] \in Int
  /\ DOMAIN Path = Values \ Blanks /\ \A k \in HostKeys : Default[k] \notin Blanks
  /\ \A v \in DOMAIN Path : Path[v] \in [absolute : BOOLEAN, names : Seq(STRING)]
  /\ Urls \cup PublicHosts \subseteq Values /\ Urls \cap (Blanks \cup {"/"}) = {}
  /\ Repo \in Seq(STRING) /\ Home \in Seq(STRING)

Ports == 1..65535

NumberIn(v, S) == v \in DOMAIN Number /\ Number[v] \in S
Positive(v) == v \in DOMAIN Number /\ Number[v] > 0
Natural(v) == v \in DOMAIN Number /\ Number[v] >= 0
Between(v, a, b) == v \in DOMAIN Hundredths /\ Hundredths[v] \in a..b
Lasting(v) == v \in DOMAIN Minutes /\ Minutes[v] > 0
IsBoolean(v) == v \in Yes \cup No
IsUrl(v) == v \in Urls

(* checkHTTPHost: other addresses of the LAN are a warning only.           *)
IsPrivateHost(v) == v \notin PublicHosts \cup Blanks
-----------------------------------------------------------------------------
(* Paths.                                                                  *)
Cleaned(p) ==
  FoldLeft(LAMBDA q, name : IF name # ".." THEN Append(q, name)
                            ELSE IF q = <<>> THEN q ELSE Front(q), <<>>, p)

AbsolutePath ==
  [v \in DOMAIN Path |->
     Cleaned(IF Path[v].absolute THEN Path[v].names ELSE Repo \o Path[v].names)]

(* resolvePath refuses a path that ends in "." or "..".                    *)
Resolvable(v) ==
  /\ v \in DOMAIN Path
  /\ Path[v].absolute \/ (Path[v].names # <<>> /\ Last(Path[v].names) # "..")

(* isAncestor: "/" is nobody's ancestor, as it looks for the prefix "//".  *)
IsAncestor(p, q) == p # <<>> /\ IsStrictPrefix(p, q)

IsBroad(p) ==
  /\ Len(p) < 3
  /\ p # <<>> => ~(Head(p) \in {"tmp", "mnt"} /\ Len(p) > 1)

(* checkPersistentPathSafety.                                              *)
SafePath(p) ==
  /\ p \notin {<<>>, Repo, Front(Repo), Home}
  /\ ~IsAncestor(p, Repo)
  /\ ~IsBroad(p)

(* Mutation: only an index inside the sources is looked for.               *)
ApartOneWay(index, source) == index # source /\ ~IsAncestor(source, index)

(* checkHostPathRelations.                                                 *)
Apart(index, source) ==
  index # source /\ ~IsAncestor(source, index) /\ ~IsAncestor(index, source)
-----------------------------------------------------------------------------
(* Mutation: the overlap is not compared with the size of a chunk.         *)
RuntimePassesLoose(v) ==
  /\ NumberIn(v[PortKey], Ports)
  /\ Positive(v["RAG_CHUNK_SIZE"]) /\ Natural(v["RAG_CHUNK_OVERLAP"])
  /\ \A k \in PositiveKeys : Positive(v[k])
  /\ \A k \in NaturalKeys : Natural(v[k])
  /\ Lasting(v["RAG_REINDEX_TIMEOUT"])
  /\ IsUrl(v["OLLAMA_HOST"])

(* checkRuntimeValues.                                                     *)
RuntimePasses(v) ==
  /\ NumberIn(v[PortKey], Ports)
  /\ Positive(v["RAG_CHUNK_SIZE"]) /\ Natural(v["RAG_CHUNK_OVERLAP"])
  /\ Number[v["RAG_CHUNK_OVERLAP"]] < Number[v["RAG_CHUNK_SIZE"]]
  /\ \A k \in PositiveKeys : Positive(v[k])
  /\ \A k \in NaturalKeys : Natural(v[k])
  /\ Lasting(v["RAG_REINDEX_TIMEOUT"])
  /\ Between(v["RAG_MAX_SEARCH_DISTANCE"], 1, 200)
  /\ IsPrivateHost(v["RAG_HTTP_HOST"])
  /\ IsBoolean(v["RAG_ENABLE_CODE_INGEST"])
  /\ \A k \in DOMAIN Options : v[k] \in Options[k]
  /\ \A k \in TextKeys : v[k] \notin Blanks
  /\ IsUrl(v["OLLAMA_HOST"])

(* checkHostPaths.  A directory that is not there is a warning only.       *)
PathsPass(v) ==
  /\ \A k \in HostKeys : Resolvable(v[k]) /\ AbsolutePath[v[k]] \notin Files
  /\ SafePath(AbsolutePath[v["HOST_INDEX_DIR"]])
  /\ \A k \in HostKeys \ {"HOST_INDEX_DIR"} :
       Apart(AbsolutePath[v["HOST_INDEX_DIR"]], AbsolutePath[v[k]])

(* config-doctor.sh hands on the variables that are set, those of the log  *)
(* excepted.                                                               *)
DoctorEnv(env) == [k \in DOMAIN env \ LogKeys |-> env[k]]

(* CheckWithOptions; the exit code is 0.                                   *)
DoctorPasses(env, file) ==
  LET v == [k \in Keys |-> DoctorValue(DoctorEnv(env), file, k)]
  IN  /\ \A i \in DOMAIN file : file[i].key # "?"
      /\ RuntimePasses(v)
      /\ PathsPass(v)
=============================================================================
