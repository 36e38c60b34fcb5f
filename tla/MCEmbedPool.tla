---------------------------- MODULE MCEmbedPool -----------------------------
(* Small instances of EmbedPool: three workers, four documents.            *)
EXTENDS EmbedPool
=============================================================================
