--------------------------- MODULE MCInstallation ---------------------------
(* A small instance of Installation.  .env.example has the two lines that  *)
(* differ from the built-in defaults or are asked for; the default sizes   *)
(* of a chunk and of the overlap are scaled down to 5 and 2 bytes.         *)
EXTENDS Installation, TLC

Absolute(names) == [absolute |-> TRUE, names |-> names]
Relative(names) == [absolute |-> FALSE, names |-> names]

Paths ==
  "./data/docs" :> Relative(<<"data", "docs">>) @@ "./data/code" :> Relative(<<"data", "code">>)
  @@ "./data/index" :> Relative(<<"data", "index">>) @@ ".." :> Relative(<<"..">>)
  @@ "./notes" :> Relative(<<"notes">>) @@ "./notes/ix" :> Relative(<<"notes", "ix">>)
  @@ "/srv/a/ix" :> Absolute(<<"srv", "a", "ix">>)
  @@ "/srv/a/ix/d" :> Absolute(<<"srv", "a", "ix", "d">>) @@ "/srv/a" :> Absolute(<<"srv", "a">>)
  @@ "/" :> Absolute(<<>>) @@ "/srv/f" :> Absolute(<<"srv", "f">>)
  @@ "~/a" :> Relative(<<"~", "a">>)

MCTilde == {"~/a"}

MCRepo == <<"home", "op", "repo">>
MCHome == <<"home", "op">>
MCFiles == {<<"srv", "f">>}

MCDigits == {"0", "2", "3", "5", "16", "50", "8765"}
MCNumber == "-1" :> -1 @@ "+5" :> 5 @@ "0" :> 0 @@ "2" :> 2 @@ "3" :> 3 @@ "5" :> 5 @@ "16" :> 16
  @@ "50" :> 50 @@ "8765" :> 8765
MCHundredths == "0.50" :> 50 @@ "3" :> 300
MCMinutes == "60m" :> 60 @@ "0" :> 0
MCUrls == {"http://ollama:11434"}
MCAddresses == {"127.0.0.1", "0.0.0.0", "8.8.8.8"}

MCDefault ==
  [k \in Keys |->
     CASE k = "HOST_DOCS_DIR" -> "./data/docs" [] k = "HOST_CODE_DIR" -> "./data/code"
       [] k = "HOST_INDEX_DIR" -> "./data/index" [] k = PortKey -> "8765"
       [] k = "RAG_MAX_TOP_K" -> "50" [] k = "RAG_EMBED_CONCURRENCY" -> "2"
       [] k = "RAG_EMBED_BATCH_SIZE" -> "16" [] k \in NaturalKeys -> "0"
       [] k \in TextKeys -> "rag" [] k = "RAG_SCOPE_DEFAULT" -> "all"
       [] k = "RAG_LOG_LEVEL" -> "info" [] k = "RAG_LOG_FORMAT" -> "json"
       [] k = "RAG_HTTP_HOST" -> "127.0.0.1" [] k = "RAG_CHUNK_SIZE" -> "5"
       [] k = "RAG_CHUNK_OVERLAP" -> "2" [] k = "RAG_MAX_SEARCH_DISTANCE" -> "0.50"
       [] k = "RAG_ENABLE_CODE_INGEST" -> "true" [] k = "RAG_REINDEX_TIMEOUT" -> "60m"
       [] k = "OLLAMA_HOST" -> ""]

MCValues ==
  DOMAIN Paths \cup DOMAIN MCNumber \cup DOMAIN MCHundredths \cup DOMAIN MCMinutes \cup MCUrls
  \cup {MCDefault[k] : k \in Keys} \cup Blanks \cup MCAddresses
  \cup {"ollama", "localhost", "false"}

(* Any other value is the bare name of a directory in the repository.      *)
MCBare == MCValues \ (Blanks \cup DOMAIN Paths)
MCPath == Paths @@ [v \in MCBare |-> Relative(<<v>>)]

Entry(k, v) == [key |-> k, value |-> v]

MCExample == <<Entry("HOST_DOCS_DIR", "./data/docs"), Entry("OLLAMA_HOST", "")>>

MCEdits ==
  {Entry("HOST_DOCS_DIR", "./notes"), Entry("HOST_INDEX_DIR", "./notes/ix"),
   Entry("RAG_CHUNK_SIZE", "3"), Entry("RAG_INDEX_LIMIT", "-1")}

(* Nothing exported, an index of its own, and variables that are exported  *)
(* with no value.                                                          *)
Ollama == "OLLAMA_HOST" :> "http://ollama:11434"
WithIndex == Ollama @@ "HOST_INDEX_DIR" :> "/srv/a/ix"
WithBlanks == Ollama @@ "HOST_DOCS_DIR" :> "" @@ "RAG_CHUNK_SIZE" :> " "

MCEnvironments == {<<>>, WithIndex, WithBlanks}

OllamaLine == Entry("OLLAMA_HOST", "http://ollama:11434")

MCFiles0 ==
  {<<>>, <<Entry("#", ""), OllamaLine>>}
  \cup {<<OllamaLine, l>> : l \in
    {Entry("?", ""), Entry("HOST_DOCS_DIR", "/srv/a/ix/d"), Entry("HOST_DOCS_DIR", "/"),
     Entry("HOST_DOCS_DIR", " "), Entry("HOST_CODE_DIR", "ollama"), Entry("HOST_CODE_DIR", "~/a"),
     Entry("HOST_INDEX_DIR", ".."), Entry("HOST_INDEX_DIR", "/srv/f"),
     Entry("RAG_CHUNK_OVERLAP", "0"), Entry("RAG_CHUNK_OVERLAP", "5"), Entry(PortKey, "ollama"),
     Entry(PortKey, " "), Entry("RAG_HTTP_HOST", "8.8.8.8"), Entry("RAG_HTTP_HOST", "localhost"),
     Entry("RAG_ENABLE_CODE_INGEST", "false"), Entry("RAG_INDEX_LIMIT", "+5"),
     Entry("RAG_REINDEX_TIMEOUT", "0"), Entry("RAG_MAX_SEARCH_DISTANCE", "3"),
     Entry("OLLAMA_HOST", "ollama"), Entry("RAG_SCOPE_DEFAULT", "rag")}}

(* The environment and the file that MountsAreResolved fails for.          *)
BlanksOnly == {WithBlanks}
FilesNotes == {<<OllamaLine, Entry("HOST_DOCS_DIR", "./notes")>>}

MCSubdirs ==
  {Relative(<<"docs", "demo">>), Relative(<<"code", ".", "x">>), Relative(<<"docs", "", ".">>),
   Relative(<<"docs", "..", "x">>), Absolute(<<"docs", "x">>)}

(* Paragraphs of n letters, with a space after every third one.            *)
Word(from, n) ==
  [i \in 1..n |-> IF i % 4 = 0 THEN " " ELSE ToString(from + i)]

MCWhite == {" ", NL}
MCByte == MCWhite \cup {ToString(i) : i \in 1..50}

MCTexts ==
  {Word(0, 7) \o <<NL, " ", NL, NL, NL>> \o Word(20, 6),
   Word(0, 2) \o <<NL, NL>> \o Word(20, 1) \o <<NL, NL>> \o Word(40, 9), <<NL, " ">>}
=============================================================================
