------------------------- MODULE InstallationProofs -------------------------
(***************************************************************************)
(* What holds of an installation for any settings, files and directories:  *)
(* the readers of .env agree on a key with one line, docker compose with   *)
(* them where the variable is not exported without a value.  So what the   *)
(* doctor accepts is what the server accepts, what rag-install makes is    *)
(* what Docker mounts, and what a full reset removes is what the doctor    *)
(* looked at.  The sizes of an accepted configuration are sizes for which  *)
(* ChunkingProofs shows that a text is all in its chunks.                  *)
(***************************************************************************)
EXTENDS Installation, ChunkingProofs

(* The directories the shell resolves, and the one rag-mcp and rag-index   *)
(* keep their state in.                                                    *)
Wanted(e, f) ==
  LET dir(k) == AbsolutePath[ShellValue(e, f, k)]
  IN  {dir(k) : k \in HostKeys} \cup {StateDir(dir("HOST_INDEX_DIR"))}

(* A report of the doctor that still counts is about the present settings. *)
ReportInv == checked = "passed" => DoctorPasses(env, file)

(* Between its two steps an undisturbed make install keeps .env, and hands *)
(* over the directories that the shell reads from it.                      *)
HandedInv ==
  prepared = "begun" /\ at = "rag-install" =>
    /\ Ensured(file) = file
    /\ handed = [k \in HostKeys |-> ShellDir(file, k)]

(* Once rag-install has prepared the settings, the directories are there.  *)
MadeInv == prepared = "yes" /\ ~Duplicated(file) => Wanted(env, file) \subseteq dirs

(* The server is up with settings that it has accepted.                    *)
LoadedInv == server = "up" => Loads(container)

(* A run of make index, with a subdirectory or without.                    *)
Indexes ==
  \E limit \in Limits : IndexAll(limit) \/ \E d \in Subdirs : IndexSubdir(limit, d)

InsInv == TypeOK /\ ReportInv /\ HandedInv /\ MadeInv /\ LoadedInv
-----------------------------------------------------------------------------
(* What the assumptions say of the constants.                              *)
LEMMA ConstantValues ==
  /\ {"", " ", "0.0.0.0", "8765"} \subseteq Values
  /\ Urls \subseteq Values /\ Chosen \subseteq Values /\ DOMAIN Path = Values \ Blanks
  /\ Limits \subseteq Values
  <1>1. "" \in Values /\ " " \in Values
    BY EnvFileAssumption DEF Blanks
  <1>2. {"0.0.0.0", "8765"} \subseteq Values
    BY InstallationAssumption
  <1>3. Urls \subseteq Values
    BY ConfigDoctorAssumption
  <1>4. DOMAIN Path = Values \ Blanks
    BY ConfigDoctorAssumption
  <1>5. Chosen \subseteq DOMAIN Path
    BY InstallationAssumption
  <1>6. Limits \subseteq Values
    BY LimitsAssumption
  <1> QED
    BY <1>1, <1>2, <1>3, <1>4, <1>5, <1>6

LEMMA OneLine ==
  ASSUME NEW i \in Int
  PROVE  Min({i}) = i /\ Max({i}) = i
  BY DEF Min, Max

(* What a reader takes from the lines of .env is a value.                  *)
LEMMA LineValue ==
  ASSUME NEW f \in Seq(Line), NEW S \in SUBSET DOMAIN f
  PROVE  FirstOf(f, S) \in Values /\ LastOf(f, S) \in Values
  <1>1. CASE S = {}
    BY <1>1, ConstantValues DEF FirstOf, LastOf
  <1>2. CASE S # {}
    <2>1. Len(f) \in Nat /\ S \in SUBSET (1..Len(f))
      OBVIOUS
    <2>2. Min(S) \in S /\ Max(S) \in S
      BY <1>2, <2>1, Extremes
    <2>3. \A i \in DOMAIN f : f[i] \in Line
      OBVIOUS
    <2> QED
      BY <1>2, <2>2, <2>3 DEF FirstOf, LastOf, Line
  <1> QED
    BY <1>1, <1>2

(* An environment gives values to keys.                                    *)
Exports(e) == DOMAIN e \subseteq Keys /\ \A k \in DOMAIN e : e[k] \in Values

LEMMA EnvExports == ASSUME TypeOK PROVE Exports(env)
  BY EnvironmentsAssumption DEF TypeOK, Exports

LEMMA ResolvedValue ==
  ASSUME NEW e, Exports(e), NEW k \in Keys, NEW v \in Values
  PROVE  /\ Resolved(e, k, v) \in Values
         /\ Default[k] \notin Blanks => Resolved(e, k, v) \notin Blanks
  BY EnvFileAssumption DEF Resolved, OrDefault, Said, Exports

(* Every reader finds a value, and all but docker compose find for a       *)
(* directory one that is a path.                                           *)
LEMMA ReaderValues ==
  ASSUME NEW e, Exports(e), NEW f \in Seq(Line), NEW k \in Keys
  PROVE  /\ {ShellValue(e, f, k), InstallValue(e, f, k), DoctorValue(e, f, k),
             ComposeValue(e, f, k)} \subseteq Values
         /\ k \in HostKeys =>
              {ShellValue(e, f, k), InstallValue(e, f, k), DoctorValue(e, f, k)} \subseteq DOMAIN Path
  <1>1. /\ Given(f, k) \in SUBSET DOMAIN f /\ Filled(f, k) \in SUBSET DOMAIN f
        /\ Written(f, k) \in SUBSET DOMAIN f
    BY DEF Given, Filled, Written
  <1>2. {FirstOf(f, Filled(f, k)), LastOf(f, Written(f, k)), LastOf(f, Given(f, k))} \subseteq Values
    BY <1>1, LineValue
  <1>3. ComposeValue(e, f, k) \in Values
    BY <1>2, EnvFileAssumption DEF ComposeValue, Exports
  <1>4. {ShellValue(e, f, k), InstallValue(e, f, k), DoctorValue(e, f, k)} \subseteq Values
    BY <1>2, ResolvedValue DEF ShellValue, InstallValue, DoctorValue
  <1>5. ASSUME k \in HostKeys
        PROVE  {ShellValue(e, f, k), InstallValue(e, f, k), DoctorValue(e, f, k)} \subseteq DOMAIN Path
    <2>1. Default[k] \notin Blanks /\ DOMAIN Path = Values \ Blanks
      BY <1>5, ConfigDoctorAssumption
    <2>2. {ShellValue(e, f, k), InstallValue(e, f, k), DoctorValue(e, f, k)} \cap Blanks = {}
      BY <1>2, <2>1, ResolvedValue DEF ShellValue, InstallValue, DoctorValue
    <2> QED
      BY <1>4, <2>1, <2>2
  <1> QED
    BY <1>3, <1>4, <1>5

(* The shell, rag-install and the doctor agree on a key that has no second *)
(* line, whatever is exported.                                             *)
LEMMA ReadersAgree ==
  ASSUME NEW f \in Seq(Line), ~Duplicated(f), NEW e, NEW k \in Keys
  PROVE  /\ ShellValue(e, f, k) = DoctorValue(e, f, k)
         /\ InstallValue(e, f, k) = DoctorValue(e, f, k)
  <1>1. CASE Given(f, k) = {}
    <2>1. Filled(f, k) = {} /\ Written(f, k) = {}
      BY <1>1 DEF Filled, Written
    <2> QED
      BY <1>1, <2>1 DEF ShellValue, InstallValue, DoctorValue, FirstOf, LastOf
  <1>2. CASE Given(f, k) # {}
    <2>1. PICK i \in DOMAIN f : Given(f, k) = {i}
      BY <1>2 DEF Given, Duplicated
    <2>2. i \in Int
      OBVIOUS
    <2>3. /\ Filled(f, k) = IF f[i].value \in Blanks THEN {} ELSE {i}
          /\ Written(f, k) = IF f[i].value = "" THEN {} ELSE {i}
      BY <2>1 DEF Filled, Written
    <2>4. LastOf(f, Given(f, k)) = f[i].value
      BY <2>1, <2>2, OneLine DEF LastOf
    <2>5. FirstOf(f, Filled(f, k)) = IF f[i].value \in Blanks THEN "" ELSE f[i].value
      BY <2>2, <2>3, OneLine DEF FirstOf
    <2>6. LastOf(f, Written(f, k)) = f[i].value
      BY <2>2, <2>3, OneLine DEF LastOf
    <2> QED
      BY <2>4, <2>5, <2>6 DEF ShellValue, InstallValue, DoctorValue, Resolved, OrDefault, Blanks
  <1> QED
    BY <1>1, <1>2

(* docker compose reads what the doctor reads, but for blanks: the trimmed *)
(* value is the same where a variable is not exported without a value.     *)
LEMMA ComposeAgrees ==
  ASSUME NEW f \in Seq(Line), NEW e, NEW k \in Keys, k \in DOMAIN e => Said(e, k)
  PROVE  /\ OrDefault(k, ComposeValue(e, f, k)) = OrDefault(k, DoctorValue(e, f, k))
         /\ ComposeValue(e, f, k) \notin Blanks => ComposeValue(e, f, k) = DoctorValue(e, f, k)
  BY DEF ComposeValue, DoctorValue, Resolved, OrDefault, Said, Blanks
-----------------------------------------------------------------------------
(* Types.                                                                  *)
LEMMA UpsertType ==
  ASSUME NEW f \in Seq(Line), NEW k \in Keys, NEW v \in Values
  PROVE  Upsert(f, k, v) \in Seq(Line) \ {<<>>}
  <1>1. [key |-> k, value |-> v] \in Line
    BY DEF Line
  <1>2. CASE Given(f, k) = {}
    <2> DEFINE l == [key |-> k, value |-> v]
    <2>1. Upsert(f, k, v) = Append(f, l)
      BY <1>2 DEF Upsert
    <2> HIDE DEF l
    <2>2. Append(f, l) \in Seq(Line) /\ Len(Append(f, l)) = Len(f) + 1 /\ Len(f) \in Nat
      BY <1>1 DEF l
    <2>3. Append(f, l) # <<>>
      BY <2>2
    <2> QED
      BY <2>1, <2>2, <2>3
  <1>3. CASE Given(f, k) # {}
    <2> DEFINE g == [i \in DOMAIN f |-> IF f[i].key = k THEN [key |-> k, value |-> v] ELSE f[i]]
    <2>1. Upsert(f, k, v) = g
      BY <1>3 DEF Upsert
    <2>2. DOMAIN g = 1..Len(f) /\ Len(f) \in Nat
      OBVIOUS
    <2>3. \A i \in 1..Len(f) : g[i] \in Line
      BY <1>1
    <2>4. Len(f) > 0
      BY <1>3 DEF Given
    <2>5. g \in [1..Len(f) -> Line]
      BY <2>2, <2>3
    <2> HIDE DEF g
    <2>6. g \in Seq(Line) /\ Len(g) = Len(f)
      BY <2>2, <2>5
    <2>7. g # <<>>
      BY <2>4, <2>6
    <2>8. g \in Seq(Line) \ {<<>>}
      BY <2>6, <2>7
    <2> QED
      BY <2>1, <2>8
  <1> QED
    BY <1>2, <1>3

LEMMA EnsuredType ==
  ASSUME NEW f \in Seq(Line), Len(f) <= MaxLines
  PROVE  Ensured(f) \in Seq(Line) /\ Len(Ensured(f)) <= MaxLines /\ Ensured(Ensured(f)) = Ensured(f)
  BY InstallationAssumption DEF Ensured

LEMMA NamedByReaders ==
  ASSUME TypeOK, NEW f \in Seq(Line), NEW k \in HostKeys
  PROVE  ShellDir(f, k) \in NamedDirs /\ AbsolutePath[InstallValue(env, f, k)] \in NamedDirs
  <1>1. Exports(env) /\ k \in Keys
    BY EnvExports DEF Keys
  <1> QED
    BY <1>1, ReaderValues DEF NamedDirs, ShellDir

(* A project that docker compose loads mounts directories.                 *)
LEMMA MountsAreNamed ==
  ASSUME Composes, NEW k \in HostKeys
  PROVE  MountedDir(k) \in NamedDirs
  <1>1. ComposeValue(env, file, k) \in DOMAIN MountPath
    BY DEF Composes
  <1> QED
    BY <1>1 DEF MountedDir, NamedDirs

(* mkdir -p makes the directories up to the first that cannot be made.     *)
LEMMA MadeDirsNamed ==
  ASSUME NEW where \in [HostKeys -> NamedDirs]
  PROVE  /\ MadeDirs(where) \subseteq NamedDirs
         /\ AllMakeable(where) => MadeDirs(where) = {where[k] : k \in HostKeys}
  <1>1. {HostOrder[i] : i \in 1..3} = HostKeys
    <2>1. {HostOrder[i] : i \in 1..3} = {HostOrder[1], HostOrder[2], HostOrder[3]}
      OBVIOUS
    <2> QED
      BY <2>1 DEF HostOrder, HostKeys
  <1>2. \A i \in 1..3 : HostOrder[i] \in HostKeys
    BY <1>1
  <1>3. ASSUME AllMakeable(where), NEW k \in HostKeys PROVE where[k] \in MadeDirs(where)
    <2>1. PICK i \in 1..3 : HostOrder[i] = k
      BY <1>1
    <2>2. \A h \in 1..i : h \in 1..3
      OBVIOUS
    <2> QED
      BY <1>2, <1>3, <2>1, <2>2 DEF MadeDirs, AllMakeable
  <1>4. ASSUME NEW p \in MadeDirs(where) PROVE \E k \in HostKeys : p = where[k]
    BY <1>2, <1>4 DEF MadeDirs
  <1> QED
    BY <1>3, <1>4

LEMMA BlankValues == Blank \in [Keys -> Values]
  BY ConstantValues DEF Blank

LEMMA ContainerValues ==
  ASSUME TypeOK
  PROVE  ContainerEnv \in [Keys -> Values]
  <1>1. ASSUME NEW k \in Keys PROVE ComposeValue(env, file, k) \in Values
    BY EnvExports, ReaderValues DEF TypeOK
  <1>2. {"", "0.0.0.0", "8765"} \subseteq Values
    BY ConstantValues
  <1>3. ASSUME NEW k \in Keys
        PROVE  (CASE k \in HostKeys -> ""
                  [] k = "RAG_HTTP_HOST" -> "0.0.0.0"
                  [] k = PortKey -> "8765"
                  [] OTHER -> ComposeValue(env, file, k)) \in Values
    <2>1. HostKeys \cap {"RAG_HTTP_HOST", PortKey} = {} /\ PortKey # "RAG_HTTP_HOST"
      BY DEF HostKeys, PortKey
    <2>2. ComposeValue(env, file, k) \in Values
      BY <1>1
    <2> QED
      BY <1>2, <2>1, <2>2
  <1> QED
    BY <1>3 DEF ContainerEnv

LEMMA PreparesType ==
  ASSUME TypeOK, at \in {"idle", "bootstrap"}, NEW new \in Seq(Line), Prepares(new)
  PROVE  TypeOK'
  <1> DEFINE where == [k \in HostKeys |-> ShellDir(new, k)]
  <1>1. where \in [HostKeys -> NamedDirs]
    BY NamedByReaders
  <1>2. MadeDirs(where) \subseteq NamedDirs
    BY <1>1, MadeDirsNamed
  <1>3. /\ Len(new) <= MaxLines /\ file' = new /\ dirs' = dirs \cup MadeDirs(where)
        /\ \/ handed' = where /\ at' = "rag-install"
           \/ at' = "idle" /\ UNCHANGED handed
        /\ checked' = "none" /\ prepared' = "begun"
        /\ UNCHANGED <<env, container, server, indexed, pieces>>
    BY DEF Prepares, stack
  <1> HIDE DEF where
  <1> QED
    BY <1>1, <1>2, <1>3 DEF TypeOK

LEMMA AnsweredType ==
  ASSUME TypeOK, NEW old \in Seq(Line), NEW docs \in Values, NEW ollama \in Values
  PROVE  Answered(old, docs, ollama) \in Seq(Line) \ {<<>>}
  <1>1. HostKeys \cup {"OLLAMA_HOST"} \subseteq Keys /\ "HOST_DOCS_DIR" \in HostKeys
        /\ "HOST_CODE_DIR" \in HostKeys
    BY DEF Keys, HostKeys
  <1>2. ShellValue(env, old, "HOST_CODE_DIR") \in Values
    BY <1>1, EnvExports, ReaderValues
  <1> QED
    BY <1>1, <1>2, UpsertType DEF Answered, UpsertSources

(* What make install prepares is a .env of lines, and begins with the      *)
(* example when there was none.                                            *)
LEMMA BootstrapForms ==
  ASSUME TypeOK, (\E docs \in Chosen \cup {"keep"} : Bootstrap(docs)) \/ BootstrapBatch
  PROVE  \E new \in Seq(Line) :
           at \in {"idle", "bootstrap"} /\ Prepares(new) /\ Ensured(new) = new
  <1>0. /\ Exports(env) /\ "OLLAMA_HOST" \in Keys /\ "HOST_DOCS_DIR" \in Keys
        /\ Ensured(file) \in Seq(Line) /\ Ensured(Ensured(file)) = Ensured(file)
        /\ \A new \in Seq(Line) \ {<<>>} : Ensured(new) = new
    BY EnvExports, EnsuredType DEF TypeOK, Keys, HostKeys, Ensured
  <1>1. ASSUME NEW docs \in Chosen \cup {"keep"}, Bootstrap(docs)
        PROVE  \E new \in Seq(Line) :
                 at \in {"idle", "bootstrap"} /\ Prepares(new) /\ Ensured(new) = new
    <2> DEFINE old == Ensured(file)
               host == ShellValue(env, old, "OLLAMA_HOST")
               dir == IF docs = "keep" THEN ShellValue(env, old, "HOST_DOCS_DIR") ELSE docs
    <2>1. PICK ollama \in IF host = "" THEN Urls ELSE {host} : Prepares(Answered(old, dir, ollama))
      BY <1>1 DEF Bootstrap
    <2>2. host \in Values /\ ShellValue(env, old, "HOST_DOCS_DIR") \in Values
      BY <1>0, ReaderValues
    <2>3. ollama \in Values /\ dir \in Values
      <3>1. Urls \subseteq Values /\ Chosen \subseteq Values
        BY ConstantValues
      <3> HIDE DEF host
      <3> QED
        BY <2>2, <3>1
    <2>4. Answered(old, dir, ollama) \in Seq(Line) \ {<<>>}
      BY <1>0, <2>3, AnsweredType
    <2> QED
      BY <1>0, <1>1, <2>1, <2>4 DEF Bootstrap
  <1>2. ASSUME BootstrapBatch
        PROVE  \E new \in Seq(Line) :
                 at \in {"idle", "bootstrap"} /\ Prepares(new) /\ Ensured(new) = new
    <2>1. Said(env, "OLLAMA_HOST")
            => Upsert(Ensured(file), "OLLAMA_HOST", env["OLLAMA_HOST"]) \in Seq(Line) \ {<<>>}
      BY <1>0, UpsertType DEF Said, Exports
    <2> QED
      BY <1>0, <1>2, <2>1 DEF BootstrapBatch
  <1> QED
    BY <1>1, <1>2

(* rag-install, handed directories that settings name.                     *)
LEMMA RagInstallType ==
  ASSUME TypeOK, NEW where \in [HostKeys -> NamedDirs], NEW next \in {"idle", "doctor"},
         RagInstall(where, next), prepared' \in {"no", "begun", "yes"}
  PROVE  TypeOK'
  <1>1. Ensured(file) \in Seq(Line) /\ Len(Ensured(file)) <= MaxLines
    BY EnsuredType DEF TypeOK
  <1>2. MadeDirs(where) \subseteq NamedDirs
    BY MadeDirsNamed
  <1>3. where["HOST_INDEX_DIR"] \in NamedDirs
    BY DEF HostKeys
  <1>4. dirs' \subseteq NamedDirs \cup {StateDir(p) : p \in NamedDirs}
    BY <1>2, <1>3 DEF RagInstall, TypeOK
  <1>5. at' \in {"idle", "doctor"} /\ handed' = NoDirs /\ checked' \in {"none", "passed", "failed"}
    BY DEF RagInstall, TypeOK
  <1> QED
    BY <1>1, <1>4, <1>5 DEF RagInstall, TypeOK, stack

(* make index changes what make install does next, and how it ended.       *)
LEMMA IndexChanges ==
  ASSUME Indexes
  PROVE  /\ at \in {"idle", "index"} /\ at' = "idle"
         /\ server = "up" /\ indexed' \in {"done", "refused"}
         /\ UNCHANGED <<env, file, dirs, handed, checked, prepared, container, server, pieces>>
  BY DEF Indexes, IndexAll, IndexSubdir, Index

LEMMA TypeStep ==
  ASSUME TypeOK, [Next]_vars
  PROVE  TypeOK'
  <1>1. ASSUME NEW line \in Edits, Edit(line) PROVE TypeOK'
    <2>1. line \in Line
      BY InstallationAssumption
    <2>2. /\ Append(file, line) \in Seq(Line) /\ Len(Append(file, line)) = Len(file) + 1
          /\ Len(file) < MaxLines /\ Len(file) \in Nat /\ MaxLines \in Nat
      BY <1>1, <2>1, InstallationAssumption DEF TypeOK, Edit
    <2>3. file' \in Seq(Line) /\ Len(file') <= MaxLines
      BY <1>1, <2>2 DEF Edit
    <2> QED
      BY <1>1, <2>3 DEF TypeOK, Edit, stack
  <1>2. ASSUME (\E docs \in Chosen \cup {"keep"} : Bootstrap(docs)) \/ BootstrapBatch
        PROVE  TypeOK'
    BY <1>2, BootstrapForms, PreparesType
  <1>3. ASSUME InstallStep PROVE TypeOK'
    <2>1. handed \in [HostKeys -> NamedDirs] /\ RagInstall(handed, "doctor")
      BY <1>3 DEF InstallStep, TypeOK
    <2> QED
      BY <1>3, <2>1, RagInstallType DEF InstallStep
  <1>4. ASSUME InstallAlone PROVE TypeOK'
    <2> DEFINE where == [k \in HostKeys |-> AbsolutePath[InstallValue(env, Ensured(file), k)]]
    <2>1. where \in [HostKeys -> NamedDirs]
      BY NamedByReaders, EnsuredType DEF TypeOK
    <2>2. RagInstall(where, "idle") /\ prepared' \in {"no", "yes"}
      BY <1>4 DEF InstallAlone
    <2> HIDE DEF where
    <2> QED
      BY <2>1, <2>2, RagInstallType
  <1>5. ASSUME Doctor \/ Abort PROVE TypeOK'
    BY <1>5 DEF Doctor, Abort, TypeOK, stack
  <1>6. ASSUME Up PROVE TypeOK'
    <2>1. \A k \in HostKeys : MountedDir(k) \in NamedDirs
      BY <1>6, MountsAreNamed DEF Up
    <2>2. dirs' \subseteq NamedDirs \cup {StateDir(p) : p \in NamedDirs}
      <3>1. MountedDir("HOST_INDEX_DIR") \in NamedDirs
        BY <2>1 DEF HostKeys
      <3> HIDE DEF MountedDir
      <3> QED
        BY <1>6, <2>1, <3>1 DEF Up, TypeOK
    <2>3. container' \in [Keys -> Values]
      BY <1>6, ContainerValues DEF Up
    <2> QED
      BY <1>6, <2>2, <2>3 DEF Up, TypeOK
  <1>7. ASSUME Indexes PROVE TypeOK'
    BY <1>7, IndexChanges DEF TypeOK
  <1>8. ASSUME NEW t \in Texts, Chunk(t) PROVE TypeOK'
    BY <1>8 DEF Chunk, TypeOK
  <1>9. ASSUME CleanInstall \/ Reset \/ Down PROVE TypeOK'
    BY <1>9, BlankValues DEF CleanInstall, Reset, Down, TakenDown, TypeOK
  <1>10. ASSUME UNCHANGED vars PROVE TypeOK'
    BY <1>10 DEF vars, TypeOK
  <1> QED
    BY <1>1, <1>2, <1>3, <1>4, <1>5, <1>6, <1>7, <1>8, <1>9, <1>10 DEF Next, Indexes
-----------------------------------------------------------------------------
(* The invariant.                                                          *)
LEMMA ReportStep ==
  ASSUME InsInv, [Next]_vars
  PROVE  ReportInv'
  <1>1. CASE checked' = "none"
    BY <1>1 DEF ReportInv
  <1>2. CASE UNCHANGED <<env, file, checked>>
    BY <1>2 DEF ReportInv, InsInv
  <1>3. CASE Doctor
    BY <1>3 DEF ReportInv, Doctor
  <1>4. ASSUME (\E docs \in Chosen \cup {"keep"} : Bootstrap(docs)) \/ BootstrapBatch
        PROVE  checked' = "none"
    BY <1>4 DEF Bootstrap, BootstrapBatch, Prepares
  <1>5. ASSUME InstallStep \/ InstallAlone
        PROVE  checked' = "none" \/ UNCHANGED <<env, file, checked>>
    BY <1>5 DEF InstallStep, InstallAlone, RagInstall
  <1>6. ASSUME NEW line \in Edits, Edit(line) PROVE checked' = "none"
    BY <1>6 DEF Edit
  <1>7. ASSUME Abort \/ Up \/ Indexes
               \/ (\E t \in Texts : Chunk(t)) \/ CleanInstall \/ Reset \/ Down \/ UNCHANGED vars
        PROVE  UNCHANGED <<env, file, checked>>
    BY <1>7, IndexChanges DEF Abort, Up, Chunk, CleanInstall, Reset, Down, vars
  <1> QED
    BY <1>1, <1>2, <1>3, <1>4, <1>5, <1>6, <1>7 DEF Next, Indexes

LEMMA HandedStep ==
  ASSUME InsInv, [Next]_vars
  PROVE  HandedInv'
  <1>1. CASE prepared' # "begun" \/ at' # "rag-install"
    BY <1>1 DEF HandedInv
  <1>2. CASE UNCHANGED <<env, file, handed, prepared, at>>
    BY <1>2 DEF HandedInv, InsInv, ShellDir, Ensured
  <1>3. ASSUME NEW new \in Seq(Line), at \in {"idle", "bootstrap"}, Prepares(new),
               Ensured(new) = new
        PROVE  HandedInv'
    <2>1. CASE at' = "idle"
      BY <1>1, <2>1
    <2>2. CASE handed' = [k \in HostKeys |-> ShellDir(new, k)]
      BY <1>3, <2>2 DEF Prepares, HandedInv, ShellDir, Ensured
    <2> QED
      BY <1>3, <2>1, <2>2 DEF Prepares
  <1>4. ASSUME (\E docs \in Chosen \cup {"keep"} : Bootstrap(docs)) \/ BootstrapBatch
        PROVE  HandedInv'
    BY <1>3, <1>4, BootstrapForms DEF InsInv
  <1>5. ASSUME (\E line \in Edits : Edit(line)) \/ InstallStep \/ InstallAlone \/ Doctor \/ Abort \/ Up
               \/ Indexes \/ CleanInstall \/ Reset \/ Down
        PROVE  prepared' # "begun" \/ at' # "rag-install"
    BY <1>5, IndexChanges
       DEF Edit, InstallStep, InstallAlone, RagInstall, Doctor, Abort, Up, CleanInstall, Reset, Down
  <1>6. ASSUME (\E t \in Texts : Chunk(t)) \/ UNCHANGED vars
        PROVE  UNCHANGED <<env, file, handed, prepared, at>>
    BY <1>6 DEF Chunk, vars
  <1> QED
    BY <1>1, <1>2, <1>4, <1>5, <1>6 DEF Next, Indexes

(* A run of rag-install that ends well makes every directory it was given, *)
(* and the state directory.                                                *)
LEMMA RagInstallMakes ==
  ASSUME NEW where \in [HostKeys -> NamedDirs], NEW next, RagInstall(where, next),
         PortIsGood, AllMakeable(where)
  PROVE  {where[k] : k \in HostKeys} \cup {StateDir(where["HOST_INDEX_DIR"])} \subseteq dirs'
  BY MadeDirsNamed DEF RagInstall

LEMMA MadeStep ==
  ASSUME InsInv, [Next]_vars
  PROVE  MadeInv'
  <1>0. TypeOK /\ HostKeys \subseteq Keys /\ "HOST_INDEX_DIR" \in HostKeys
    BY DEF InsInv, Keys, HostKeys
  <1>1. CASE prepared' # "yes"
    BY <1>1 DEF MadeInv
  <1>2. CASE UNCHANGED <<env, file, prepared>> /\ dirs \subseteq dirs'
    BY <1>2 DEF MadeInv, InsInv
  <1>3. ASSUME NEW where, NEW next, RagInstall(where, next), PortIsGood, AllMakeable(where),
               where \in [HostKeys -> NamedDirs], ~Duplicated(file'),
               \A k \in HostKeys : where[k] = AbsolutePath[ShellValue(env, file', k)]
        PROVE  MadeInv'
    <2>1. {where[k] : k \in HostKeys} \cup {StateDir(where["HOST_INDEX_DIR"])} \subseteq dirs'
      BY <1>3, RagInstallMakes
    <2>2. Wanted(env, file') = {where[k] : k \in HostKeys} \cup {StateDir(where["HOST_INDEX_DIR"])}
      BY <1>0, <1>3 DEF Wanted
    <2>3. env' = env
      BY <1>3 DEF RagInstall
    <2> QED
      BY <2>1, <2>2, <2>3 DEF MadeInv
  <1>4. ASSUME InstallStep, prepared' = "yes", ~Duplicated(file') PROVE MadeInv'
    <2>1. /\ prepared = "begun" /\ at = "rag-install" /\ at' = "doctor"
          /\ RagInstall(handed, "doctor") /\ PortIsGood /\ AllMakeable(handed)
      BY <1>4 DEF InstallStep, RagInstall
    <2>2. file' = file /\ file \in Seq(Line) /\ handed = [k \in HostKeys |-> ShellDir(file, k)]
      BY <1>0, <2>1 DEF RagInstall, InsInv, HandedInv, TypeOK
    <2>3. \A k \in HostKeys : handed[k] = AbsolutePath[ShellValue(env, file', k)]
      BY <2>2 DEF ShellDir
    <2>4. handed \in [HostKeys -> NamedDirs]
      BY <1>0, <2>1 DEF TypeOK
    <2> QED
      BY <1>3, <1>4, <2>1, <2>3, <2>4
  <1>5. ASSUME InstallAlone, prepared' = "yes", ~Duplicated(file') PROVE MadeInv'
    <2> DEFINE where == [k \in HostKeys |-> AbsolutePath[InstallValue(env, Ensured(file), k)]]
    <2>1. RagInstall(where, "idle") /\ PortIsGood /\ AllMakeable(where)
      BY <1>5 DEF InstallAlone
    <2>2. file' = Ensured(file) /\ file' \in Seq(Line)
      BY <1>0, <2>1, EnsuredType DEF RagInstall, TypeOK
    <2>3. \A k \in HostKeys : where[k] = AbsolutePath[ShellValue(env, file', k)]
      <3>1. \A k \in HostKeys : InstallValue(env, file', k) = ShellValue(env, file', k)
        BY <1>0, <1>5, <2>2, ReadersAgree
      <3> QED
        BY <2>2, <3>1
    <2>4. where \in [HostKeys -> NamedDirs]
      BY <1>0, <2>2, NamedByReaders
    <2> HIDE DEF where
    <2> QED
      BY <1>3, <1>5, <2>1, <2>3, <2>4
  <1>6. CASE Duplicated(file')
    BY <1>6 DEF MadeInv
  <1>7. ASSUME (\E line \in Edits : Edit(line)) \/ (\E docs \in Chosen \cup {"keep"} : Bootstrap(docs))
               \/ BootstrapBatch \/ Reset
        PROVE  prepared' # "yes"
    BY <1>7 DEF Edit, Bootstrap, BootstrapBatch, Prepares, Reset
  <1>8. ASSUME Doctor \/ Abort \/ Up \/ Indexes
               \/ (\E t \in Texts : Chunk(t)) \/ CleanInstall \/ Down \/ UNCHANGED vars
        PROVE  UNCHANGED <<env, file, prepared>> /\ dirs \subseteq dirs'
    BY <1>8, IndexChanges DEF Doctor, Abort, Up, Chunk, CleanInstall, Down, stack, vars
  <1> QED
    BY <1>1, <1>2, <1>4, <1>5, <1>6, <1>7, <1>8 DEF Next, Indexes

LEMMA LoadedStep ==
  ASSUME InsInv, [Next]_vars
  PROVE  LoadedInv'
  <1>1. CASE UNCHANGED <<container, server>>
    BY <1>1 DEF LoadedInv, InsInv
  <1>2. ASSUME Up PROVE LoadedInv'
    BY <1>2 DEF Up, LoadedInv
  <1>3. ASSUME CleanInstall \/ Reset \/ Down PROVE LoadedInv'
    <2>1. server' = "down"
      BY <1>3 DEF CleanInstall, Reset, Down, TakenDown
    <2> QED
      BY <2>1 DEF LoadedInv
  <1>4. ASSUME \/ (\E line \in Edits : Edit(line)) \/ InstallStep \/ InstallAlone \/ Doctor \/ Abort
               \/ (\E docs \in Chosen \cup {"keep"} : Bootstrap(docs)) \/ BootstrapBatch
               \/ Indexes \/ (\E t \in Texts : Chunk(t)) \/ UNCHANGED vars
        PROVE  UNCHANGED <<container, server>>
    BY <1>4, IndexChanges
       DEF Edit, Bootstrap, BootstrapBatch, Prepares, InstallStep, InstallAlone, RagInstall, Doctor, Abort,
           Chunk, stack, vars
  <1> QED
    BY <1>1, <1>2, <1>3, <1>4 DEF Next, Indexes

LEMMA InsInvInit == Init => InsInv
  <1> SUFFICES ASSUME Init PROVE InsInv
    OBVIOUS
  <1>1. file \in Seq(Line) /\ Len(file) <= MaxLines
    BY InstallationAssumption DEF Init
  <1>2. TypeOK
    BY <1>1, BlankValues DEF Init, TypeOK
  <1> QED
    BY <1>2 DEF Init, InsInv, ReportInv, HandedInv, MadeInv, LoadedInv

LEMMA InsInvHolds == Spec => []InsInv
  <1>1. InsInv /\ [Next]_vars => InsInv'
    BY TypeStep, ReportStep, HandedStep, MadeStep, LoadedStep DEF InsInv
  <1> QED
    BY <1>1, InsInvInit, PTL DEF Spec

(* Whatever the operator edits, answers, aborts and restarts, .env stays a *)
(* list of settings and every directory that is made is one that settings  *)
(* name; what a container did is forgotten with it.                        *)
THEOREM TypeCorrect == Spec => []TypeOK
  <1>1. InsInv => TypeOK
    BY DEF InsInv
  <1> QED
    BY <1>1, InsInvHolds, PTL
-----------------------------------------------------------------------------
(* What the doctor sees is what the container gets.                        *)

(* The keys whose values docker-compose.yml hands through.                 *)
Shared == Keys \ (HostKeys \cup {PortKey, "RAG_HTTP_HOST"})

(* The values the doctor looks at.                                         *)
Seen == [k \in Keys |-> DoctorValue(DoctorEnv(env), file, k)]

LEMMA SharedKeys ==
  /\ PositiveKeys \cup NaturalKeys \cup DOMAIN Options \subseteq Shared
  /\ {"RAG_CHUNK_SIZE", "RAG_CHUNK_OVERLAP", "RAG_MAX_SEARCH_DISTANCE", "RAG_ENABLE_CODE_INGEST",
      "RAG_REINDEX_TIMEOUT", "OLLAMA_HOST"} \subseteq Shared
  /\ Shared \subseteq Keys /\ PortKey \in Keys \ Shared
  BY DEF Shared, Keys, HostKeys, PortKey, PositiveKeys, NaturalKeys, Options

(* Where the environment is plain the doctor is handed all of it.          *)
LEMMA AllIsHanded ==
  ASSUME PlainEnv, NEW f, NEW k
  PROVE  DoctorValue(DoctorEnv(env), f, k) = DoctorValue(env, f, k)
  <1>1. DOMAIN DoctorEnv(env) = DOMAIN env /\ \A j \in DOMAIN env : DoctorEnv(env)[j] = env[j]
    BY DEF PlainEnv, DoctorEnv
  <1> QED
    BY <1>1 DEF DoctorValue, Resolved, Said

(* The log settings are never a directory.                                 *)
LEMMA DirsAreHanded ==
  ASSUME NEW f, NEW k \in HostKeys
  PROVE  DoctorValue(DoctorEnv(env), f, k) = DoctorValue(env, f, k)
  <1>1. k \notin LogKeys
    BY DEF HostKeys, LogKeys
  <1>2. k \in DOMAIN DoctorEnv(env) <=> k \in DOMAIN env
    BY <1>1 DEF DoctorEnv
  <1>3. k \in DOMAIN env => DoctorEnv(env)[k] = env[k]
    BY <1>1 DEF DoctorEnv
  <1> QED
    BY <1>2, <1>3 DEF DoctorValue, Resolved, Said

LEMMA SeenPasses ==
  ASSUME InsInv, Vouched
  PROVE  RuntimePasses(Seen) /\ PathsPass(Seen)
  BY DEF InsInv, ReportInv, Vouched, DoctorPasses, Seen

(* The two copies of the checks.  What rag-mcp or rag-index finds of a key *)
(* is what the doctor has passed, or was loaded before; the sizes and the  *)
(* rest come from one of the two.                                          *)
Settings(c) == [k \in Keys |-> Setting(c, k)]

LEMMA PassedIsLoaded ==
  ASSUME NEW v, RuntimePasses(v), NEW c,
         \A k \in Shared : Setting(c, k) = v[k], Setting(c, PortKey) = "8765"
  PROVE  Loads(c)
  <1> DEFINE w == Settings(c)
  <1>1. (\A k \in Shared : w[k] = v[k]) /\ w[PortKey] = "8765"
    BY SharedKeys DEF Settings
  <1> HIDE DEF w
  <1>2. NumberIn(w[PortKey], Ports)
    <2>1. NumberIn("8765", {8765})
      BY InstallationAssumption
    <2>2. "8765" \in DOMAIN Number /\ Number["8765"] = 8765
      BY <2>1 DEF NumberIn
    <2>3. 8765 \in Ports
      BY DEF Ports
    <2> QED
      BY <1>1, <2>2, <2>3 DEF NumberIn
  <1>3. /\ w["RAG_CHUNK_SIZE"] = v["RAG_CHUNK_SIZE"]
        /\ w["RAG_CHUNK_OVERLAP"] = v["RAG_CHUNK_OVERLAP"]
        /\ w["RAG_MAX_SEARCH_DISTANCE"] = v["RAG_MAX_SEARCH_DISTANCE"]
        /\ w["RAG_ENABLE_CODE_INGEST"] = v["RAG_ENABLE_CODE_INGEST"]
        /\ w["RAG_REINDEX_TIMEOUT"] = v["RAG_REINDEX_TIMEOUT"]
        /\ w["OLLAMA_HOST"] = v["OLLAMA_HOST"]
        /\ \A k \in PositiveKeys \cup NaturalKeys \cup DOMAIN Options : w[k] = v[k]
    BY <1>1, SharedKeys
  <1>4. w["OLLAMA_HOST"] \notin {"", "/"}
    BY <1>3, ConfigDoctorAssumption DEF RuntimePasses, IsUrl, Blanks
  <1> QED
    BY <1>2, <1>3, <1>4 DEF RuntimePasses, Loads, w, Settings

(* A value that passed is not a blank, so trimming it again is harmless.   *)
LEMMA SettingIsSeen ==
  ASSUME PlainEnv, NEW k \in Keys, NEW c, c[k] = ComposeValue(env, file, k), file \in Seq(Line)
  PROVE  Setting(c, k) = OrDefault(k, Seen[k])
  <1>1. Seen[k] = DoctorValue(env, file, k)
    BY AllIsHanded DEF Seen
  <1>2. k \in DOMAIN env => Said(env, k)
    BY DEF PlainEnv
  <1>3. OrDefault(k, ComposeValue(env, file, k)) = OrDefault(k, DoctorValue(env, file, k))
    BY <1>2, ComposeAgrees
  <1> QED
    BY <1>1, <1>3 DEF Setting

LEMMA SeenIsResolved ==
  ASSUME NEW k \in Keys
  PROVE  OrDefault(k, Seen[k]) = Seen[k]
  BY DEF Seen, DoctorValue, Resolved, OrDefault, Said

LEMMA ContainerLoads ==
  ASSUME InsInv, Vouched, PlainEnv
  PROVE  Loads(ContainerEnv)
  <1>1. ASSUME NEW k \in Shared PROVE Setting(ContainerEnv, k) = Seen[k]
    <2>1. k \in Keys /\ k \notin HostKeys /\ k # PortKey /\ k # "RAG_HTTP_HOST"
      BY DEF Shared
    <2>2. ContainerEnv[k] = ComposeValue(env, file, k)
      BY <2>1 DEF ContainerEnv
    <2> QED
      BY <2>1, <2>2, SettingIsSeen, SeenIsResolved DEF InsInv, TypeOK
  <1>2. Setting(ContainerEnv, PortKey) = "8765"
    <2>1. PortKey \in Keys /\ PortKey \notin HostKeys /\ PortKey # "RAG_HTTP_HOST"
      BY DEF Keys, PortKey, HostKeys
    <2>2. ContainerEnv[PortKey] = "8765"
      BY <2>1 DEF ContainerEnv
    <2>3. "8765" \notin Blanks
      BY DEF Blanks
    <2> QED
      BY <2>2, <2>3 DEF Setting, OrDefault
  <1> QED
    BY <1>1, <1>2, SeenPasses, PassedIsLoaded

(* Every key make index sets is one the doctor has looked at; whatever the *)
(* container has for the others it has loaded.                             *)
LEMMA IndexIsSeen ==
  ASSUME InsInv, Vouched, PlainEnv, NEW limit, NEW k \in Keys, k # "RAG_INDEX_LIMIT"
  PROVE  (IndexEnv(limit)[k] = Seen[k] /\ k \in IndexKeys) \/ IndexEnv(limit)[k] = container[k]
  <1>1. ShellValue(env, file, k) = Seen[k]
    BY ReadersAgree, AllIsHanded DEF Vouched, InsInv, TypeOK, Seen
  <1> QED
    BY <1>1 DEF IndexEnv

LEMMA IndexLoads ==
  ASSUME InsInv, Vouched, PlainEnv, server = "up", NEW limit, Natural(LimitText(limit))
  PROVE  Loads(IndexEnv(limit))
  <1> DEFINE w == Settings(IndexEnv(limit))
             v == Settings(container)
  <1>0. Loads(container)
    BY DEF InsInv, LoadedInv
  <1>1. w["RAG_INDEX_LIMIT"] = LimitText(limit)
    <2>1. "RAG_INDEX_LIMIT" \in Keys
      BY DEF Keys, NaturalKeys
    <2>2. w["RAG_INDEX_LIMIT"] = OrDefault("RAG_INDEX_LIMIT", LimitText(limit))
      BY <2>1 DEF IndexEnv, Settings, Setting
    <2>3. LimitText(limit) \in Blanks => LimitText(limit) = Default["RAG_INDEX_LIMIT"]
      BY DEF LimitText, ShellValue, Resolved, OrDefault, Said
    <2> QED
      BY <2>2, <2>3 DEF OrDefault
  <1>2. ASSUME NEW k \in Keys, k # "RAG_INDEX_LIMIT"
        PROVE  (k \in IndexKeys /\ w[k] = Seen[k]) \/ w[k] = v[k]
    BY <1>2, IndexIsSeen, SeenIsResolved DEF Settings, Setting
  <1>3. ASSUME NEW k \in Keys, k \notin IndexKeys PROVE w[k] = v[k]
    <2>1. k # "RAG_INDEX_LIMIT"
      BY <1>3 DEF IndexKeys, NaturalKeys
    <2> QED
      BY <1>2, <1>3, <2>1
  <1>4. RuntimePasses(Seen)
    BY SeenPasses
  <1> HIDE DEF w, v
  <1>5. \A k \in PositiveKeys : Positive(w[k])
    <2>1. ASSUME NEW k \in PositiveKeys PROVE Positive(w[k])
      <3>1. k \in Keys /\ k # "RAG_INDEX_LIMIT"
        BY DEF Keys, PositiveKeys
      <3>2. Positive(Seen[k]) /\ Positive(v[k])
        BY <1>0, <1>4, <3>1 DEF RuntimePasses, Loads, v, Settings
      <3> QED
        BY <1>2, <3>1, <3>2
    <2> QED
      BY <2>1
  <1>6. \A k \in NaturalKeys : Natural(w[k])
    <2>1. ASSUME NEW k \in NaturalKeys, k # "RAG_INDEX_LIMIT" PROVE Natural(w[k])
      <3>1. k \in Keys
        BY DEF Keys
      <3>2. Natural(Seen[k]) /\ Natural(v[k])
        BY <1>0, <1>4, <3>1 DEF RuntimePasses, Loads, v, Settings
      <3> QED
        BY <1>2, <2>1, <3>1, <3>2
    <2> QED
      BY <1>1, <2>1
  <1>7. Lasting(w["RAG_REINDEX_TIMEOUT"])
    <2>1. "RAG_REINDEX_TIMEOUT" \in Keys
      BY DEF Keys
    <2>2. Lasting(Seen["RAG_REINDEX_TIMEOUT"]) /\ Lasting(v["RAG_REINDEX_TIMEOUT"])
      BY <1>0, <1>4, <2>1 DEF RuntimePasses, Loads, v, Settings
    <2> QED
      BY <1>2, <2>1, <2>2
  <1>8. /\ w["RAG_CHUNK_SIZE"] = v["RAG_CHUNK_SIZE"]
        /\ w["RAG_CHUNK_OVERLAP"] = v["RAG_CHUNK_OVERLAP"]
        /\ w[PortKey] = v[PortKey]
        /\ w["RAG_MAX_SEARCH_DISTANCE"] = v["RAG_MAX_SEARCH_DISTANCE"]
        /\ w["RAG_ENABLE_CODE_INGEST"] = v["RAG_ENABLE_CODE_INGEST"]
        /\ w["OLLAMA_HOST"] = v["OLLAMA_HOST"]
        /\ \A k \in DOMAIN Options : w[k] = v[k]
    <2>1. /\ {"RAG_CHUNK_SIZE", "RAG_CHUNK_OVERLAP", PortKey, "RAG_MAX_SEARCH_DISTANCE",
              "RAG_ENABLE_CODE_INGEST", "OLLAMA_HOST"} \cup DOMAIN Options \subseteq Keys
          /\ IndexKeys \cap ({"RAG_CHUNK_SIZE", "RAG_CHUNK_OVERLAP", PortKey, "RAG_MAX_SEARCH_DISTANCE",
              "RAG_ENABLE_CODE_INGEST", "OLLAMA_HOST"} \cup DOMAIN Options) = {}
      BY DEF Keys, IndexKeys, NaturalKeys, PortKey, Options
    <2> QED
      BY <1>3, <2>1
  <1> QED
    BY <1>0, <1>5, <1>6, <1>7, <1>8 DEF Loads, w, v, Settings

(* Whatever the settings are: those the doctor passes without a word about *)
(* a second line start the server, and rag-index takes them, also in a     *)
(* container that was made from others.                                    *)
THEOREM DoctorVouches == Spec => DoctorIsEnough
  <1>1. InsInv /\ Vouched /\ PlainEnv /\ Up => server' = "up"
    BY ContainerLoads DEF Up
  <1>2. ASSUME InsInv, Vouched, PlainEnv, NEW limit \in Limits,
               IndexAll(limit), Composes, Natural(LimitText(limit)), LimitText(limit) \in Digits
        PROVE  indexed' = "done"
    <2>1. server = "up"
      BY <1>2 DEF IndexAll, Index
    <2>2. Loads(IndexEnv(limit))
      BY <1>2, <2>1, IndexLoads
    <2> QED
      BY <1>2, <2>2 DEF IndexAll, Index
  <1>3. InsInv =>
          (Vouched /\ PlainEnv =>
             /\ Up => server' = "up"
             /\ \A limit \in Limits :
                  IndexAll(limit) /\ Composes /\ Natural(LimitText(limit)) /\ LimitText(limit) \in Digits
                    => indexed' = "done")
    BY <1>1, <1>2
  <1> QED
    BY <1>3, InsInvHolds, PTL DEF DoctorIsEnough
-----------------------------------------------------------------------------
(* What docker compose mounts, where no variable is exported without a     *)
(* value and no directory begins with "~", is what the shell resolves and  *)
(* what the doctor looked at.                                              *)
LEMMA MountIsResolved ==
  ASSUME InsInv, Composes, PlainDirs, ~Duplicated(file), NEW k \in HostKeys
  PROVE  /\ MountedDir(k) = AbsolutePath[ShellValue(env, file, k)]
         /\ MountedDir(k) = AbsolutePath[Seen[k]]
  <1>1. k \in Keys /\ file \in Seq(Line)
    BY DEF Keys, InsInv, TypeOK
  <1>2. /\ ComposeValue(env, file, k) \in DOMAIN MountPath
        /\ ComposeValue(env, file, k) \notin Tilde
        /\ k \in DOMAIN env => Said(env, k)
    BY DEF Composes, PlainDirs
  <1>3. ComposeValue(env, file, k) \in DOMAIN Path
    BY <1>2 DEF MountPath
  <1>4. ComposeValue(env, file, k) \notin Blanks
    BY <1>3, ConstantValues
  <1>5. ComposeValue(env, file, k) = DoctorValue(env, file, k)
    BY <1>1, <1>2, <1>4, ComposeAgrees
  <1>6. MountedDir(k) = AbsolutePath[ComposeValue(env, file, k)]
    BY <1>2 DEF MountedDir, MountPath
  <1>7. ShellValue(env, file, k) = DoctorValue(env, file, k)
    BY <1>1, ReadersAgree
  <1>8. Seen[k] = DoctorValue(env, file, k)
    BY <1>1, DirsAreHanded DEF Seen
  <1> QED
    BY <1>5, <1>6, <1>7, <1>8

(* Whatever the directories are and whoever prepared them, make install or *)
(* rag-install alone: what docker compose mounts is there already.         *)
THEOREM PreparedIsMounted == Spec => MountsWereMade
  <1>1. ASSUME InsInv, prepared = "yes", ~Duplicated(file), PlainDirs, Up PROVE dirs' = dirs
    <2>1. \A k \in HostKeys : MountedDir(k) = AbsolutePath[ShellValue(env, file, k)]
      BY <1>1, MountIsResolved DEF Up
    <2>2. Wanted(env, file) \subseteq dirs
      BY <1>1 DEF InsInv, MadeInv
    <2>3. "HOST_INDEX_DIR" \in HostKeys
      BY DEF HostKeys
    <2>4. {MountedDir(k) : k \in HostKeys} \cup {StateDir(MountedDir("HOST_INDEX_DIR"))} \subseteq dirs
      BY <2>1, <2>2, <2>3 DEF Wanted
    <2> QED
      BY <1>1, <2>4 DEF Up
  <1>2. InsInv => (prepared = "yes" /\ ~Duplicated(file) /\ PlainDirs => (Up => dirs' = dirs))
    BY <1>1
  <1> QED
    BY <1>2, InsInvHolds, PTL DEF MountsWereMade

(* For any paths: a full reset keeps the repository, and after a clean     *)
(* report of the doctor the sources, whether they would lie in the index   *)
(* directory or around it.                                                 *)
THEOREM SourcesAreSpared == Spec => ResetSparesSources
  <1>1. Reset => ~Within(Repo, ResetDir)
    BY DEF Reset, ResetIsSafe, IsAncestor, IsStrictPrefix, Within
  <1>2. ASSUME InsInv, Vouched, PlainDirs, Composes, NEW k \in Sources, MountedDir(k) # <<>>,
               ResetDir # <<>>
        PROVE  ~Within(MountedDir(k), ResetDir) /\ ~Within(ResetDir, MountedDir(k))
    <2>1. k \in HostKeys /\ "HOST_INDEX_DIR" \in HostKeys
      BY DEF HostKeys, Sources
    <2>2. MountedDir(k) = AbsolutePath[Seen[k]]
      BY <1>2, <2>1, MountIsResolved DEF Vouched
    <2>3. ResetDir = AbsolutePath[Seen["HOST_INDEX_DIR"]]
      <3>1. "HOST_INDEX_DIR" \in Keys /\ file \in Seq(Line)
        BY <1>2 DEF Keys, HostKeys, InsInv, TypeOK
      <3>2. ShellValue(env, file, "HOST_INDEX_DIR") = Seen["HOST_INDEX_DIR"]
        BY <1>2, <2>1, <3>1, ReadersAgree, DirsAreHanded DEF Seen, Vouched
      <3> QED
        BY <3>2 DEF ResetDir, ShellDir
    <2>4. Apart(ResetDir, MountedDir(k))
      BY <1>2, <2>2, <2>3, SeenPasses DEF PathsPass, Sources
    <2> QED
      BY <1>2, <2>4 DEF Apart, IsAncestor, IsStrictPrefix, Within
  <1>3. Reset => ResetDir # <<>> /\ Composes
    BY DEF Reset, ResetIsSafe
  <1>4. InsInv =>
          (Reset =>
             /\ ~Within(Repo, ResetDir)
             /\ Vouched /\ PlainDirs => \A k \in Sources :
                  MountedDir(k) # <<>> =>
                    ~Within(MountedDir(k), ResetDir) /\ ~Within(ResetDir, MountedDir(k)))
    BY <1>1, <1>2, <1>3
  <1> QED
    BY <1>4, InsInvHolds, PTL DEF ResetSparesSources
-----------------------------------------------------------------------------
(* The chunks of a document.                                               *)

(* A document was cut with the sizes of the container that is still there. *)
CutInv ==
  pieces # NoPieces =>
    /\ server = "up" /\ pieces.text \in Texts
    /\ pieces.chunks = Split(pieces.text, ChunkSize(container), ChunkOverlap(container))

LEMMA CutInvInit == Init => CutInv
  BY DEF Init, CutInv

LEMMA CutStep == TypeOK /\ CutInv /\ [Next]_vars => CutInv'
  <1> SUFFICES ASSUME TypeOK, CutInv, [Next]_vars PROVE CutInv'
    OBVIOUS
  <1>1. CASE UNCHANGED stack
    BY <1>1 DEF stack, CutInv
  <1>2. CASE Up
    <2>1. pieces' = NoPieces
      BY <1>2 DEF Up
    <2> QED
      BY <2>1 DEF CutInv
  <1>3. ASSUME NEW t \in Texts, Chunk(t) PROVE CutInv'
    <2>1. /\ server' = "up" /\ container' = container /\ server = "up"
          /\ pieces' = [text |-> t, chunks |-> Split(t, ChunkSize(container), ChunkOverlap(container))]
      BY <1>3 DEF Chunk
    <2>2. pieces'.text = t
          /\ pieces'.chunks = Split(t, ChunkSize(container), ChunkOverlap(container))
      BY <2>1
    <2> QED
      BY <2>1, <2>2 DEF CutInv
  <1>4. CASE CleanInstall \/ Reset \/ Down
    <2>1. server' = "down" /\ pieces' = NoPieces
      BY <1>4 DEF CleanInstall, Reset, Down, TakenDown
    <2> QED
      BY <2>1 DEF CutInv
  <1>5. CASE Indexes
    <2>1. UNCHANGED <<container, server, pieces>>
      BY <1>5, IndexChanges
    <2> QED
      BY <2>1 DEF CutInv
  <1>6. CASE \/ \E line \in Edits : Edit(line)
             \/ \E docs \in Chosen \cup {"keep"} : Bootstrap(docs)
             \/ BootstrapBatch \/ InstallStep \/ InstallAlone \/ Doctor \/ Abort
             \/ UNCHANGED vars
    <2>1. UNCHANGED stack
      BY <1>6 DEF Edit, Bootstrap, BootstrapBatch, Prepares, InstallStep, InstallAlone, RagInstall,
         Doctor, Abort, vars, stack
    <2> QED
      BY <1>1, <2>1
  <1> QED
    BY <1>2, <1>3, <1>4, <1>5, <1>6 DEF Next, Indexes

(* Where a letter of a document is.                                        *)
Places(all) == [b \in ToSet(all) |-> CHOOSE n \in DOMAIN all : all[n] = b]

LEMMA PlaceOf ==
  ASSUME NEW t \in Texts, NEW n \in 1..Len(Letters(t))
  PROVE  Places(Letters(t))[Letters(t)[n]] = n
  <1> DEFINE all == Letters(t)
  <1>1. all \in Text
    BY InstallationAssumption, LettersType
  <1>2. DOMAIN all = 1..Len(all)
    BY <1>1 DEF Text
  <1>3. \A i, j \in DOMAIN all : all[i] = all[j] => i = j
    BY InstallationAssumption DEF IsInjective
  <1> HIDE DEF all
  <1>4. n \in DOMAIN all /\ all[n] \in ToSet(all)
    BY <1>2 DEF all, ToSet
  <1>5. Places(all)[all[n]] = CHOOSE m \in DOMAIN all : all[m] = all[n]
    BY <1>4 DEF Places
  <1> QED
    BY <1>3, <1>4, <1>5 DEF all

(* A stretch of the letters, and the ends it has.                          *)
Stretch(l, all, p, q) == l = SubSeq(all, p, q)

Spans(l, all, p, q) == l # <<>> /\ Head(l) = all[p] /\ Last(l) = all[q]

LEMMA HeadAndLast ==
  ASSUME NEW all \in Text, NEW p \in 1..Len(all), NEW q \in p..Len(all), NEW l,
         Stretch(l, all, p, q)
  PROVE  Spans(l, all, p, q)
  <1>0. Len(all) \in Nat
    BY TextLen
  <1>1. p \in 1..Len(all) + 1 /\ q \in (p - 1)..Len(all)
    BY <1>0
  <1>2. /\ l \in Text /\ Len(l) = q - p + 1
        /\ \A i \in 1..Len(l) : l[i] = all[p + i - 1]
    BY <1>1, TextSub DEF Stretch
  <1>3. Len(l) \in Nat \ {0} /\ 1 \in 1..Len(l) /\ Len(l) \in 1..Len(l)
        /\ p + 1 - 1 = p /\ p + Len(l) - 1 = q
    BY <1>0, <1>2
  <1>4. l[1] = all[p] /\ l[Len(l)] = all[q]
    BY <1>2, <1>3
  <1>5. l \in Seq(Byte) /\ l # <<>>
    BY <1>2, <1>3, EmptySeq DEF Text
  <1>6. Head(l) = l[1]
    BY <1>5, HeadTailProperties
  <1> QED
    BY <1>4, <1>5, <1>6 DEF Last, Spans

(* Sizes the server accepts.                                               *)
LEMMA AcceptedSizes ==
  ASSUME Loads(container)
  PROVE  /\ ChunkSize(container) \in Nat /\ ChunkOverlap(container) \in Nat
         /\ ChunkOverlap(container) < ChunkSize(container)
  <1>1. {"RAG_CHUNK_SIZE", "RAG_CHUNK_OVERLAP"} \subseteq Keys
    BY DEF Keys
  <1>2. /\ Positive(Setting(container, "RAG_CHUNK_SIZE"))
        /\ Natural(Setting(container, "RAG_CHUNK_OVERLAP"))
        /\ ChunkOverlap(container) < ChunkSize(container)
    BY <1>1 DEF Loads, ChunkSize, ChunkOverlap
  <1>3. ASSUME NEW v PROVE (Positive(v) => Number[v] \in Nat) /\ (Natural(v) => Number[v] \in Nat)
    <2>1. \A u \in DOMAIN Number : Number[u] \in Int
      BY ConfigDoctorAssumption
    <2> QED
      BY <2>1 DEF Positive, Natural
  <1>4. ChunkSize(container) \in Nat /\ ChunkOverlap(container) \in Nat
    BY <1>2, <1>3 DEF ChunkSize, ChunkOverlap
  <1> QED
    BY <1>2, <1>4

LEMMA CutHolds == LoadedInv /\ CutInv => ChunksHoldTheText
  <1> SUFFICES ASSUME LoadedInv, CutInv, pieces # NoPieces PROVE ChunksHoldTheText
    BY DEF ChunksHoldTheText
  <1> DEFINE t == pieces.text
             cs == pieces.chunks
             all == Letters(t)
             size == ChunkSize(container)
             overlap == ChunkOverlap(container)
             place == Places(all)
  <1>1. t \in Texts /\ cs = Split(t, size, overlap)
    BY DEF CutInv
  <1>2. size \in Nat /\ overlap \in Nat /\ overlap < size
    BY AcceptedSizes DEF CutInv, LoadedInv
  <1>3. t \in Text
    BY <1>1, InstallationAssumption
  <1> HIDE DEF t, cs, size, overlap
  <1>4. cs \in Seq(Text) /\ \E from, to : HoldTheText(cs, size, all, from, to)
    BY <1>1, <1>2, <1>3, SplitKeepsTheText
  <1>5. PICK from, to : HoldTheText(cs, size, all, from, to)
    BY <1>4
  <1>6. all \in Text /\ Len(all) \in Nat
    BY <1>3, LettersType, TextLen
  <1>7. \A n \in 1..Len(all) : place[all[n]] = n
    BY <1>1, PlaceOf
  <1> HIDE DEF all, place
  <1> DEFINE chunks == [i \in DOMAIN cs |-> Letters(cs[i])]
  <1>8. DOMAIN cs = 1..Len(cs) /\ Len(cs) \in Nat
    BY <1>4
  <1>9. DOMAIN chunks = 1..Len(cs) /\ \A i \in 1..Len(cs) : chunks[i] = Letters(cs[i])
    BY <1>8
  <1>10. chunks \in Seq(Text) /\ Len(chunks) = Len(cs)
    <2>1. \A i \in 1..Len(cs) : chunks[i] \in Text
      BY <1>4, <1>9, LettersType
    <2>2. chunks = [i \in 1..Len(cs) |-> chunks[i]]
      BY <1>8
    <2> HIDE DEF chunks
    <2> QED
      BY <1>8, <2>1, <2>2
  <1> HIDE DEF chunks
  <1>11. ASSUME NEW i \in 1..Len(cs)
         PROVE  /\ Len(cs[i]) \in 1..size
                /\ chunks[i] # <<>>
                /\ place[Head(chunks[i])] = from[i] /\ place[Last(chunks[i])] = to[i]
                /\ chunks[i] = SubSeq(all, from[i], to[i])
                /\ from[i] <= (IF i = 1 THEN 1 ELSE to[i - 1] + 1)
                /\ i # 1 => to[i - 1] <= to[i]
    <2>1. /\ Len(cs[i]) \in 1..size
          /\ from[i] \in Nat /\ to[i] \in Nat
          /\ 1 <= from[i] /\ from[i] <= to[i] /\ to[i] <= Len(all)
          /\ Letters(cs[i]) = SubSeq(all, from[i], to[i])
          /\ from[i] <= (IF i = 1 THEN 1 ELSE to[i - 1] + 1)
          /\ i # 1 => to[i - 1] <= to[i]
      BY <1>5 DEF HoldTheText
    <2>2. chunks[i] = SubSeq(all, from[i], to[i])
      BY <1>9, <2>1
    <2>3. from[i] \in 1..Len(all) /\ to[i] \in from[i]..Len(all) /\ to[i] \in 1..Len(all)
      BY <1>6, <2>1
    <2>4. /\ chunks[i] # <<>>
          /\ Head(chunks[i]) = all[from[i]] /\ Last(chunks[i]) = all[to[i]]
      <3>1. Stretch(chunks[i], all, from[i], to[i])
        BY <2>2 DEF Stretch
      <3>2. Spans(chunks[i], all, from[i], to[i])
        BY <1>6, <2>3, <3>1, HeadAndLast
      <3> QED
        BY <3>2 DEF Spans
    <2>5. place[all[from[i]]] = from[i] /\ place[all[to[i]]] = to[i]
      BY <1>7, <2>3
    <2> QED
      BY <2>1, <2>2, <2>4, <2>5
  <1> DEFINE first(i) == place[Head(chunks[i])]
             last(i) == place[Last(chunks[i])]
  <1>12. \A i \in DOMAIN chunks : i > 1 => i - 1 \in 1..Len(cs)
    BY <1>8, <1>9
  <1>13. \A i \in DOMAIN chunks :
           /\ Len(cs[i]) \in 1..size
           /\ chunks[i] # <<>> /\ chunks[i] = SubSeq(all, first(i), last(i))
           /\ first(i) <= (IF i = 1 THEN 1 ELSE last(i - 1) + 1)
           /\ i > 1 => last(i - 1) <= last(i)
    <2> SUFFICES ASSUME NEW i \in DOMAIN chunks
                 PROVE  /\ Len(cs[i]) \in 1..size
                        /\ chunks[i] # <<>> /\ chunks[i] = SubSeq(all, first(i), last(i))
                        /\ first(i) <= (IF i = 1 THEN 1 ELSE last(i - 1) + 1)
                        /\ i > 1 => last(i - 1) <= last(i)
      OBVIOUS
    <2>1. i \in 1..Len(cs) /\ (i > 1 => i - 1 \in 1..Len(cs)) /\ (i = 1 \/ i > 1)
      BY <1>8, <1>9, <1>12
    <2>2. first(i) = from[i] /\ last(i) = to[i] /\ (i > 1 => last(i - 1) = to[i - 1])
      BY <1>11, <2>1
    <2>3. i = 1 \/ (i # 1 /\ last(i - 1) = to[i - 1])
      BY <2>1, <2>2
    <2> HIDE DEF first, last
    <2>4. /\ Len(cs[i]) \in 1..size
          /\ chunks[i] # <<>> /\ chunks[i] = SubSeq(all, from[i], to[i])
          /\ from[i] <= (IF i = 1 THEN 1 ELSE to[i - 1] + 1)
          /\ i # 1 => to[i - 1] <= to[i]
      BY <1>11, <2>1
    <2>5. chunks[i] = SubSeq(all, first(i), last(i))
      BY <2>2, <2>4
    <2>6. first(i) <= (IF i = 1 THEN 1 ELSE last(i - 1) + 1)
      BY <2>2, <2>3, <2>4
    <2>7. i > 1 => last(i - 1) <= last(i)
      BY <2>1, <2>2, <2>4
    <2> QED
      BY <2>4, <2>5, <2>6, <2>7
  <1>14. IF chunks = <<>> THEN all = <<>> ELSE last(Len(chunks)) = Len(all)
    <2>1. Len(all) = IF Len(cs) = 0 THEN 0 ELSE to[Len(cs)]
      BY <1>5 DEF HoldTheText
    <2>2. chunks = <<>> <=> Len(cs) = 0
      BY <1>10, EmptySeq
    <2>3. Len(all) = 0 => all = <<>>
      BY <1>6, EmptySeq DEF Text
    <2>4. Len(cs) # 0 => Len(cs) \in 1..Len(cs)
      BY <1>8
    <2>5. Len(cs) # 0 => last(Len(chunks)) = to[Len(cs)]
      BY <1>10, <1>11, <2>4
    <2> QED
      BY <2>1, <2>2, <2>3, <2>5
  <1> QED
    BY <1>13, <1>14 DEF ChunksHoldTheText, chunks, place, Places, all, cs, t, size

(* Whatever the settings, sources and commands, a document that the server *)
(* or rag-index cuts is all in its chunks, in order and within the size.   *)
THEOREM DocumentsAreHeld == Spec => []ChunksHoldTheText
  <1>1. TypeOK /\ CutInv /\ [Next]_vars => CutInv'
    BY CutStep
  <1>2. InsInv => TypeOK /\ LoadedInv
    BY DEF InsInv
  <1> QED
    BY <1>1, <1>2, CutInvInit, CutHolds, InsInvHolds, PTL DEF Spec
=============================================================================
