---------------------------- MODULE MCRagSystem -----------------------------
(* A small instance of RagSystem: one goroutine that reads and reindexes,  *)
(* one that checks readiness, and one command; two generations that share  *)
(* some of five chunks.                                                    *)
EXTENDS RagSystem, TLC

CONSTANTS r1, r2, k1

MCScopeOf == <<"docs", "code", "docs", "docs", "code">>
MCSourceOf == <<"guide", "main", "guide", "notes", "main">>
MCHolds == <<{1, 2, 3, 4}, {2, 3, 5}>>
Everywhere == {"guide", "main", "notes"}

Plain == [via |-> "mcp", op |-> "search", text |-> "words", topK |-> 0, dist |-> 0,
          scope |-> "", through |-> Everywhere, chunk |-> 0]

Probing == [Plain EXCEPT !.op = "readyz", !.via = "ui"]
Rebuild == [Plain EXCEPT !.op = "reindex"]
Two == [Plain EXCEPT !.topK = 7, !.dist = 5]
Notes == [Plain EXCEPT !.topK = 1, !.scope = "docs", !.through = {"notes"}]
Browse == [Plain EXCEPT !.via = "ui"]
List == [Plain EXCEPT !.op = "list_sources"]
Fetch == [Plain EXCEPT !.op = "get_chunk", !.chunk = 4]
Strange == {[Plain EXCEPT !.scope = "other", !.via = "ui"],
            [Plain EXCEPT !.text = "nonsense"],
            [Plain EXCEPT !.dist = 9]}

MCCalls == (r1 :> {Two, Notes, Browse, List, Fetch, Rebuild} \cup Strange) @@ (r2 :> {Probing})
=============================================================================
