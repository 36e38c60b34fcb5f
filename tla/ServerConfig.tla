---------------------------- MODULE ServerConfig ----------------------------
(***************************************************************************)
(* config.Load: what rag-mcp and rag-index make of their environment in    *)
(* the container.  It checks the values again, by code of its own.         *)
(***************************************************************************)
EXTENDS ConfigDoctor

(* A RAG_INDEX_SUBDIR as the names between its slashes.                    *)
CONSTANTS Subdirs
ASSUME SubdirsAssumption == Subdirs \subseteq [absolute : BOOLEAN, names : Seq(STRING)]

(* env, envInt, envBool and the others: a blank value is the default.      *)
Setting(c, k) == OrDefault(k, c[k])

(* normalizeIndexSubdir: ".." is refused wherever it stands.               *)
SubdirIsScoped(d) ==
  /\ ~d.absolute
  /\ ".." \notin ToSet(d.names)
  /\ LET names == SelectSeq(d.names, LAMBDA n : n \notin {"", "."})
     IN  Len(names) > 1 /\ Head(names) \in {"docs", "code"}

(* A subdirectory of the code needs the code to be indexed.                *)
SubdirIsIndexed(d, c) ==
  "code" = Head(SelectSeq(d.names, LAMBDA n : n \notin {"", "."}))
    => Setting(c, "RAG_ENABLE_CODE_INGEST") \in Yes

(* Load, without and with a RAG_INDEX_SUBDIR.                              *)
Loads(c) ==
  LET v == [k \in Keys |-> Setting(c, k)]
  IN  /\ Positive(v["RAG_CHUNK_SIZE"]) /\ Natural(v["RAG_CHUNK_OVERLAP"])
      /\ Number[v["RAG_CHUNK_OVERLAP"]] < Number[v["RAG_CHUNK_SIZE"]]
      /\ NumberIn(v[PortKey], Ports)
      /\ \A k \in PositiveKeys : Positive(v[k])
      /\ \A k \in NaturalKeys : Natural(v[k])
      /\ Between(v["RAG_MAX_SEARCH_DISTANCE"], 1, 200)
      /\ IsBoolean(v["RAG_ENABLE_CODE_INGEST"])
      /\ Lasting(v["RAG_REINDEX_TIMEOUT"])
      /\ \A k \in DOMAIN Options : v[k] \in Options[k]
      /\ v["OLLAMA_HOST"] \notin {"", "/"}

LoadsSubdir(c, d) == SubdirIsScoped(d) /\ Loads(c) /\ SubdirIsIndexed(d, c)

ChunkSize(c) == Number[Setting(c, "RAG_CHUNK_SIZE")]
ChunkOverlap(c) == Number[Setting(c, "RAG_CHUNK_OVERLAP")]
=============================================================================
