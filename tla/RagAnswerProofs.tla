--------------------------- MODULE RagAnswerProofs --------------------------
(***************************************************************************)
(* Proofs about the answers of RagSystem: what one of them holds is from   *)
(* one snapshot of the index, and all of it when the collection was not    *)
(* lost meanwhile.                                                         *)
(***************************************************************************)
EXTENDS RagSystemProofs, WellFoundedInduction

(* The chunks nearer than x, whose number is the offset of x in a page.    *)
Nearer(S, x) == {y \in S : y < x}

(* T is S up to some chunk: what paging has found so far.                  *)
IsPrefix(T, S) == T \subseteq S /\ \A x \in T, y \in S : y < x => y \in T
-----------------------------------------------------------------------------
(* Counting.                                                               *)
LEMMA SmallerSet ==
  ASSUME NEW S \in SUBSET Chunks, NEW T \in SUBSET S
  PROVE  /\ IsFiniteSet(S) /\ IsFiniteSet(T)
         /\ Cardinality(T) \in Nat /\ Cardinality(S) \in Nat
         /\ Cardinality(T) <= Cardinality(S)
         /\ Cardinality(T) = Cardinality(S) => T = S
  <1>1. IsFiniteSet(S)
    BY FS_Subset, QueryServiceAssumption
  <1>2. /\ IsFiniteSet(T) /\ Cardinality(T) <= Cardinality(S)
        /\ Cardinality(S) = Cardinality(T) => S = T
    BY <1>1, FS_Subset
  <1> QED
    BY <1>1, <1>2, FS_CardinalityType

LEMMA LeastChunk ==
  ASSUME NEW S \in SUBSET Chunks, S # {}
  PROVE  \E x \in S : \A y \in S : ~(y < x)
  <1>1. S \subseteq Nat
    BY QueryServiceAssumption
  <1>2. PICK x \in S : \A y \in S : ~(<<y, x>> \in OpToRel(<, Nat))
    BY <1>1, WFMin, NatLessThanWellFounded
  <1>3. ASSUME NEW y \in S, y < x PROVE FALSE
    <2>1. <<y, x>> \in {ss \in Nat \X Nat : ss[1] < ss[2]}
      BY <1>1, <1>3
    <2> QED
      BY <1>2, <2>1 DEF OpToRel
  <1> QED
    BY <1>3

(* A chunk is not nearer than itself.                                      *)
LEMMA NearerIsFewer ==
  ASSUME NEW S \in SUBSET Chunks, NEW x \in S
  PROVE  Cardinality(Nearer(S, x)) < Cardinality(S)
  <1>1. Nearer(S, x) \in SUBSET S /\ x \notin Nearer(S, x)
    BY QueryServiceAssumption DEF Nearer
  <1> QED
    BY <1>1, SmallerSet

LEMMA NearestOfAll ==
  ASSUME NEW S \in SUBSET Chunks, NEW n \in Nat, Cardinality(S) <= n
  PROVE  Nearest(S, n) = S
  <1>1. ASSUME NEW x \in S PROVE Cardinality({y \in S : y < x}) < n
    <2>1. Cardinality(Nearer(S, x)) < Cardinality(S)
      BY NearerIsFewer
    <2>2. Cardinality(Nearer(S, x)) \in Nat /\ Cardinality(S) \in Nat
      BY SmallerSet DEF Nearer
    <2> QED
      BY <2>1, <2>2 DEF Nearer
  <1> QED
    BY <1>1 DEF Nearest
-----------------------------------------------------------------------------
(* What a search keeps of candidates, and of all there is.                 *)
Good(c, S) == {x \in S : SourceOf[x] \in c.through /\ InScope(x, ScopeUsed(c)) /\ x <= Threshold(c)}

LEMMA KeptIs ==
  ASSUME NEW c, NEW S
  PROVE  Kept(c, S) = IF Wanted(c) = 0 THEN Good(c, S) ELSE Nearest(Good(c, S), Wanted(c))
  BY DEF Kept, Good

(* The nearest ones hold everything nearer than one of them.               *)
LEMMA NearestIsPrefix ==
  ASSUME NEW S \in SUBSET Chunks, NEW n \in Nat
  PROVE  IsPrefix(Nearest(S, n), S)
  <1>1. ASSUME NEW x \in Nearest(S, n), NEW y \in S, y < x PROVE y \in Nearest(S, n)
    <2>1. x \in S /\ Cardinality(Nearer(S, x)) < n
      BY DEF Nearest, Nearer
    <2>2. x \in Nat /\ y \in Nat /\ S \subseteq Nat
      BY <2>1, QueryServiceAssumption
    <2>3. Nearer(S, x) \in SUBSET Chunks /\ Nearer(S, y) \in SUBSET Nearer(S, x)
      <3>1. ASSUME NEW z \in S, z < y PROVE z < x
        BY <1>1, <2>2, <3>1
      <3> QED
        BY <3>1 DEF Nearer
    <2>4. /\ Cardinality(Nearer(S, y)) <= Cardinality(Nearer(S, x))
          /\ Cardinality(Nearer(S, y)) \in Nat /\ Cardinality(Nearer(S, x)) \in Nat
      BY <2>3, SmallerSet
    <2>5. Cardinality(Nearer(S, y)) < n
      BY <2>1, <2>4
    <2> QED
      BY <2>5 DEF Nearest, Nearer
  <1> QED
    BY <1>1 DEF IsPrefix, Nearest

(* A search finds nothing among the candidates it would not find among all.*)
LEMMA KeptIsTrue ==
  ASSUME NEW c, NEW S \in SUBSET Chunks, NEW T, IsPrefix(T, S)
  PROVE  Kept(c, T) \subseteq Kept(c, S)
  <1>1. T \subseteq S /\ Good(c, T) \subseteq Good(c, S)
    BY DEF IsPrefix, Good
  <1>2. ASSUME NEW x \in Good(c, T) PROVE Nearer(Good(c, S), x) = Nearer(Good(c, T), x)
    BY <1>1 DEF IsPrefix, Good, Nearer
  <1>3. Nearest(Good(c, T), Wanted(c)) \subseteq Nearest(Good(c, S), Wanted(c))
    BY <1>1, <1>2 DEF Nearest, Nearer
  <1> QED
    BY <1>1, <1>3, KeptIs

(* And it finds all of that when the filter lets every source through and  *)
(* there are no fewer candidates than wanted matches.                      *)
LEMMA KeptIsAll ==
  ASSUME NEW c \in Call, NEW S \in SUBSET Chunks, NEW n \in Nat,
         Wanted(c) > 0, Wanted(c) <= n,
         \A x \in S : SourceOf[x] \in c.through, \A x \in S : InScope(x, ScopeUsed(c))
  PROVE  Kept(c, Nearest(S, n)) = Kept(c, S)
  <1> DEFINE N == Nearest(S, n)
  <1>0. N \subseteq S /\ IsPrefix(N, S) /\ S \subseteq Nat /\ Wanted(c) \in Int /\ Threshold(c) \in Nat
    <2>0. c.dist \in Nat
      BY DEF Call
    <2>1. Threshold(c) \in Nat
      BY <2>0, LimitsType DEF Threshold
    <2> QED
      BY <2>1, NearestIsPrefix, NearestType, QueryServiceAssumption, WantedType
  <1> HIDE DEF N
  <1>1. Good(c, S) \subseteq S /\ Good(c, S) \in SUBSET Chunks /\ Good(c, N) \subseteq Good(c, S)
    BY <1>0 DEF Good
  <1>2. ASSUME NEW x \in Nearest(Good(c, S), Wanted(c)) PROVE x \in Nearest(Good(c, N), Wanted(c))
    <2>1. x \in Good(c, S) /\ Cardinality(Nearer(Good(c, S), x)) < Wanted(c)
      BY DEF Nearest, Nearer
    <2>2. x \in S /\ x <= Threshold(c) /\ x \in Nat
      BY <1>0, <1>1, <2>1 DEF Good
    <2>3. Nearer(S, x) = Nearer(Good(c, S), x)
      <3>1. ASSUME NEW y \in S, y < x PROVE y \in Good(c, S)
        <4>1. y <= Threshold(c)
          BY <1>0, <2>2, <3>1
        <4> QED
          BY <4>1 DEF Good
      <3> QED
        BY <1>1, <3>1 DEF Nearer
    <2>4. Cardinality(Nearer(S, x)) \in Nat
      BY SmallerSet DEF Nearer
    <2>5. Cardinality(Nearer(S, x)) < n
      BY <1>0, <2>1, <2>3, <2>4
    <2>6. x \in N
      BY <2>2, <2>5 DEF N, Nearest, Nearer
    <2>7. x \in Good(c, N)
      BY <2>1, <2>6 DEF Good
    <2>8. Nearer(Good(c, N), x) = Nearer(Good(c, S), x)
      BY <1>0, <1>1, <2>6, <2>7 DEF IsPrefix, Good, Nearer
    <2> QED
      BY <2>1, <2>7, <2>8 DEF Nearest, Nearer
  <1>3. Wanted(c) # 0
    BY <1>0
  <1>4. Kept(c, N) \subseteq Kept(c, S)
    BY <1>0, KeptIsTrue
  <1>5. Kept(c, S) \subseteq Kept(c, N)
    BY <1>2, <1>3, KeptIs
  <1> QED
    BY <1>4, <1>5 DEF N
-----------------------------------------------------------------------------
(* Paging.                                                                 *)
PageAfter(F, S) ==
  {x \in S : Cardinality(Nearer(S, x)) \in Cardinality(F)..(Cardinality(F) + PageSize - 1)}

(* With its next page a prefix is a prefix, and without one it is all.     *)
LEMMA NextPage ==
  ASSUME NEW S \in SUBSET Chunks, NEW F, IsPrefix(F, S)
  PROVE  /\ IsPrefix(F \cup PageAfter(F, S), S)
         /\ PageAfter(F, S) = {} => F = S
  <1> DEFINE P == PageAfter(F, S)
  <1>0. /\ S \subseteq Nat /\ F \in SUBSET S /\ PageSize \in Nat /\ PageSize >= 1
        /\ Cardinality(F) \in Nat
    <2>1. PageSize \in Nat /\ PageSize >= 1
      BY QueryServiceAssumption
    <2> QED
      BY <2>1, SmallerSet, QueryServiceAssumption DEF IsPrefix
  <1>1. ASSUME NEW y \in S \ F PROVE F \in SUBSET Nearer(S, y)
    <2>1. ASSUME NEW x \in F PROVE x < y
      <3>1. x \in Nat /\ y \in Nat /\ x # y /\ ~(y < x)
        BY <1>0 DEF IsPrefix
      <3> QED
        BY <3>1
    <2> QED
      BY <1>0, <2>1 DEF Nearer
  <1>2. ASSUME NEW y \in S \ F
        PROVE  /\ Cardinality(Nearer(S, y)) \in Nat
               /\ Cardinality(F) <= Cardinality(Nearer(S, y))
    <2>1. Nearer(S, y) \in SUBSET Chunks
      BY DEF Nearer
    <2> QED
      BY <1>1, <2>1, SmallerSet
  <1>3. ASSUME NEW x \in P, NEW y \in S, y < x, y \notin F PROVE y \in P
    <2>1. Nearer(S, y) \in SUBSET Nearer(S, x) /\ Nearer(S, x) \in SUBSET Chunks
      <3>1. x \in S /\ x \in Nat /\ y \in Nat
        BY <1>0 DEF PageAfter
      <3>2. ASSUME NEW z \in S, z < y PROVE z < x
        BY <1>0, <1>3, <3>1, <3>2
      <3> QED
        BY <3>2 DEF Nearer
    <2>2. /\ Cardinality(Nearer(S, y)) <= Cardinality(Nearer(S, x))
          /\ Cardinality(Nearer(S, y)) \in Nat /\ Cardinality(Nearer(S, x)) \in Nat
      BY <2>1, SmallerSet
    <2>3. Cardinality(Nearer(S, x)) <= Cardinality(F) + PageSize - 1
      BY <1>0, <2>2 DEF PageAfter
    <2>4. Cardinality(F) <= Cardinality(Nearer(S, y))
      BY <1>2, <1>3
    <2> QED
      BY <1>0, <2>2, <2>3, <2>4 DEF PageAfter
  <1>4. IsPrefix(F \cup P, S)
    <2>1. F \cup P \subseteq S
      BY <1>0 DEF PageAfter
    <2>2. ASSUME NEW x \in F \cup P, NEW y \in S, y < x PROVE y \in F \cup P
      BY <1>3, <2>2 DEF IsPrefix
    <2> QED
      BY <2>1, <2>2 DEF IsPrefix
  <1>5. ASSUME F # S PROVE P # {}
    <2>1. S \ F # {} /\ S \ F \in SUBSET Chunks
      BY <1>0, <1>5
    <2>2. PICK y \in S \ F : \A z \in S \ F : ~(z < y)
      BY <2>1, LeastChunk
    <2>3. Nearer(S, y) \in SUBSET F
      BY <2>2 DEF Nearer
    <2>4. Nearer(S, y) = F
      BY <1>1, <2>3
    <2> QED
      BY <1>0, <2>4 DEF PageAfter
  <1> QED
    BY <1>4, <1>5

(* A step of a listing or of a count reads that page.                      *)
LEMMA PageIs ==
  ASSUME NEW r, col[r] = current, gen[r] \in held
  PROVE  LET M == Matching(gen[r], Head(todo[r]))
         IN  Page(r) = PageAfter({x \in found[r] : InScope(x, Head(todo[r]))}, M)
  BY DEF Page, Stored, PageAfter, Nearer
-----------------------------------------------------------------------------
(* One snapshot.                                                           *)
Reading(r) == at[r] \in {"aim", "count", "query", "get", "list"}

(* What is still to be paged through.                                      *)
Pages(r) ==
  \/ todo[r] = ScopesToPage(call[r])
  \/ call[r].op = "list_sources" /\ ScopeUsed(call[r]) = "all" /\ todo[r] = <<"code">>

FromOne(r) == Told(r) => \E g \in seen[r] : found[r] \subseteq Truth(call[r], g)

Snap(r) ==
  /\ Asking(r) => active \in seen[r]
  /\ Reading(r) => gen[r] \in seen[r] /\ gen[r] > 0 /\ Pages(r)
  /\ at[r] \in {"idle", "load", "aim", "query", "get"} => found[r] = {}
  /\ at[r] \in {"count", "list"} => found[r] \subseteq Matching(gen[r], ScopeUsed(call[r]))
  /\ FromOne(r)

SnapInv == TypeOK /\ AllFit /\ \A r \in Slots : Snap(r)

LEMMA Remembered ==
  ASSUME Remember, NEW r \in Slots, Asking(r)'
  PROVE  active' \in seen'[r] /\ seen[r] \subseteq seen'[r]
  BY DEF Remember

(* The head of the scopes to page through is one the call is about.        *)
LEMMA PagesHead ==
  ASSUME NEW r \in Slots, call[r] \in Call, Pages(r), call[r].op \in {"search", "list_sources"}, NEW g
  PROVE  Matching(g, Head(todo[r])) \subseteq Matching(g, ScopeUsed(call[r]))
  <1>1. Head(todo[r]) = ScopeUsed(call[r]) \/ ScopeUsed(call[r]) = "all"
    BY DEF Pages, ScopesToPage
  <1> QED
    BY <1>1 DEF Matching, InScope

LEMMA MatchingType ==
  ASSUME NEW g \in 1..MaxGen, NEW s
  PROVE  Matching(g, s) \in SUBSET Chunks
  BY QueryServiceAssumption DEF Matching

(* A search is answered from the candidates.                               *)
LEMMA QueryIsTrue ==
  ASSUME ServerTypeOK, StoreTypeOK, NEW r \in Slots, gen[r] > 0, call[r].op = "search"
  PROVE  Kept(call[r], Nearest(Stored(gen[r], ScopeUsed(call[r])), limit[r]))
           \subseteq Truth(call[r], gen[r])
  <1> DEFINE M == Matching(gen[r], ScopeUsed(call[r]))
             S == Stored(gen[r], ScopeUsed(call[r]))
  <1>1. gen[r] \in 1..MaxGen /\ limit[r] \in Nat /\ gen[r] # 0
    BY IndexStoreAssumption DEF ServerTypeOK, StoreTypeOK
  <1>2. M \in SUBSET Chunks
    BY <1>1, MatchingType
  <1>3. Truth(call[r], gen[r]) = Kept(call[r], M)
    BY <1>1 DEF Truth
  <1> HIDE DEF M
  <1>4. CASE S = M
    <2>1. IsPrefix(Nearest(M, limit[r]), M)
      BY <1>1, <1>2, NearestIsPrefix
    <2> QED
      BY <1>2, <1>3, <1>4, <2>1, KeptIsTrue
  <1>5. CASE S = {}
    <2>1. Kept(call[r], Nearest({}, limit[r])) = {}
      BY DEF Kept, Nearest
    <2> QED
      BY <1>5, <2>1
  <1> QED
    BY <1>4, <1>5 DEF Stored, M

(* Who does not act keeps what it has.                                     *)
LEMMA SnapStays ==
  ASSUME NEW x \in Slots, Fit(x), Snap(x), Same(x), Remember
  PROVE  Snap(x)'
  <1>1. Asking(x)' <=> Asking(x)
    BY DEF Same, Asking
  <1>2. Asking(x) => active' \in seen'[x] /\ seen[x] \subseteq seen'[x]
    BY <1>1, Remembered
  <1>3. Reading(x) => Asking(x)
    BY DEF Reading, Asking, Asks, Fit
  <1>4. FromOne(x)'
    <2>1. SUFFICES ASSUME Told(x)' PROVE \E g \in seen'[x] : found'[x] \subseteq Truth(call'[x], g)
      BY DEF FromOne
    <2>2. Told(x) /\ Asking(x)
      BY <2>1 DEF Told, Asking, Same
    <2>3. PICK g \in seen[x] : found[x] \subseteq Truth(call[x], g)
      BY <2>2 DEF Snap, FromOne
    <2> QED
      BY <1>2, <2>2, <2>3 DEF Same
  <1> QED
    BY <1>1, <1>2, <1>3, <1>4 DEF Same, Snap, Reading, Pages

(* A call ends with an answer from a generation it may take it from.       *)
LEMMA SnapAnswers ==
  ASSUME ServerTypeOK, NEW r \in Slots, NEW v, NEW S, Answers(r, v, S), Remember,
         Asking(r)' => v # "ok" \/ Pointless(call'[r])
                         \/ \E g \in seen'[r] : S \subseteq Truth(call'[r], g)
  PROVE  Snap(r)'
  <1>1. at'[r] = "answered" /\ verdict'[r] = v /\ found'[r] = S
    BY DEF ServerTypeOK, Answers
  <1>2. Asking(r)' => active' \in seen'[r]
    BY Remembered
  <1>3. FromOne(r)'
    BY <1>1 DEF FromOne, Told
  <1> QED
    BY <1>1, <1>2, <1>3 DEF Snap, Reading

LEMMA SnapMoves ==
  ASSUME StoreTypeOK, ServerTypeOK, NEW r \in Slots, Fit(r), Fit(r)', Snap(r), Remember,
         Advance(r) \/ \E c \in Calls[r] : Begin(r, c)
  PROVE  Snap(r)'
  <1>0. call[r] \in Call /\ gen[r] \in 0..newest /\ newest \in Nat /\ newest <= MaxGen
    BY IndexStoreAssumption DEF ServerTypeOK, StoreTypeOK
  <1>1. Asking(r)' => active' \in seen'[r] /\ seen[r] \subseteq seen'[r]
    BY Remembered
  <1>2. Reading(r) => Asking(r)
    BY DEF Reading, Asking, Asks, Fit
  <1>3. ASSUME NEW c \in Calls[r], Begin(r, c) PROVE Snap(r)'
    <2>1. call'[r] = c /\ at[r] = "idle"
      BY <1>3 DEF Begin, ServerTypeOK
    <2>2. CASE Rejected(c) /\ Answers(r, "rejected", {})
      BY <2>2, SnapAnswers
    <2>3. CASE ~Rejected(c) /\ Refused(c) /\ Answers(r, "failed", {})
      BY <2>3, SnapAnswers
    <2>4. CASE ~Rejected(c) /\ ~Refused(c) /\ Pointless(c) /\ Answers(r, "ok", {})
      BY <2>1, <2>4, SnapAnswers
    <2>5. CASE at' = [at EXCEPT ![r] = FirstPlace(c)] /\ UNCHANGED <<verdict, found>>
      <3>1. at'[r] = FirstPlace(c) /\ found'[r] = {}
        BY <2>1, <2>5 DEF ServerTypeOK, Snap
      <3>2. FirstPlace(c) \in {"start", "ensure", "load"}
        BY DEF FirstPlace
      <3> QED
        BY <1>1, <3>1, <3>2 DEF Snap, Reading, FromOne, Told
    <2> QED
      BY <1>3, <2>2, <2>3, <2>4, <2>5 DEF Begin
  <1>4. CASE LoadNothing(r)
    <2>1. active' = 0 /\ call' = call
      BY <1>4 DEF LoadNothing, storeVars
    <2>2. Asking(r)' => \E g \in seen'[r] : {} \subseteq Truth(call'[r], g)
      BY <1>1
    <2> QED
      BY <1>4, <2>2, SnapAnswers DEF LoadNothing
  <1>5. CASE LoadPointer(r)
    <2>1. /\ at[r] = "load" /\ at'[r] = "aim" /\ gen'[r] = active /\ active' = active /\ active # 0
          /\ call' = call /\ found' = found /\ todo'[r] = ScopesToPage(call[r])
      BY <1>5 DEF LoadPointer, Goes, ServerTypeOK, storeVars
    <2>2. Asking(r)'
      BY <2>1 DEF Fit, Asking
    <2>3. active > 0
      BY <2>1, IndexStoreAssumption DEF StoreTypeOK
    <2> QED
      BY <1>1, <2>1, <2>2, <2>3 DEF Snap, Reading, Pages, FromOne, Told
  <1>6. CASE Aim(r)
    <2>1. /\ at[r] = "aim" /\ at'[r] \in {"get", "list", "count", "query"}
          /\ gen' = gen /\ call' = call /\ found' = found /\ todo' = todo /\ active' = active
      BY <1>6 DEF Aim, Goes, Target, ServerTypeOK, storeVars
    <2>2. Asking(r)' /\ Asking(r)
      BY <2>1 DEF Fit, Asking, Asks
    <2> QED
      BY <1>1, <2>1, <2>2 DEF Snap, Reading, Pages, FromOne, Told
  <1>7. CASE ReadPage(r)
    <2>1. /\ at[r] \in {"count", "list"} /\ at' = at /\ gen' = gen /\ call' = call /\ todo' = todo
          /\ active' = active /\ found'[r] = found[r] \cup Page(r)
      BY <1>7 DEF ReadPage, ServerTypeOK, storeVars
    <2>2. Asking(r)' /\ Asking(r) /\ call[r].op \in {"search", "list_sources"}
      BY <2>1 DEF Fit, Asking, Asks
    <2>3. Page(r) \subseteq Matching(gen[r], ScopeUsed(call[r]))
      <3>1. Page(r) \subseteq Stored(gen[r], Head(todo[r]))
        BY PageType
      <3>2. Stored(gen[r], Head(todo[r])) \subseteq Matching(gen[r], Head(todo[r]))
        BY DEF Stored
      <3>3. Pages(r)
        BY <2>1 DEF Snap, Reading
      <3> QED
        BY <1>0, <2>2, <3>1, <3>2, <3>3, PagesHead
    <2> QED
      BY <1>1, <2>1, <2>2, <2>3 DEF Snap, Reading, Pages, FromOne, Told
  <1>8. CASE NextScope(r)
    <2>1. /\ at[r] = "list" /\ at' = at /\ gen' = gen /\ call' = call /\ found' = found
          /\ active' = active /\ todo'[r] = Tail(todo[r]) /\ Len(todo[r]) > 1
      BY <1>8 DEF NextScope, ServerTypeOK, storeVars
    <2>2. Asking(r)' /\ Asking(r) /\ call[r].op = "list_sources"
      BY <2>1 DEF Fit, Asking, Asks
    <2>3. ScopeUsed(call[r]) = "all" /\ todo[r] = <<"docs", "code">>
      <3>1. Pages(r)
        BY <2>1 DEF Snap, Reading
      <3>2. \/ todo[r] = <<"docs", "code">> /\ ScopeUsed(call[r]) = "all"
            \/ todo[r] = <<ScopeUsed(call[r])>> \/ todo[r] = <<"code">>
        BY <2>2, <3>1 DEF Pages, ScopesToPage
      <3>3. ASSUME NEW s, todo[r] = <<s>> PROVE FALSE
        <4>1. Len(todo[r]) = 1
          BY <3>3
        <4> QED
          BY <2>1, <4>1
      <3> QED
        BY <2>1, <3>2, <3>3
    <2>4. Pages(r)'
      BY <2>1, <2>2, <2>3 DEF Pages
    <2> QED
      BY <1>1, <2>1, <2>2, <2>4 DEF Snap, Reading, FromOne, Told
  <1> DEFINE Still == UNCHANGED <<active, call, gen>>
  <1>9. ASSUME Still, Reading(r), NEW S, S \subseteq Truth(call[r], gen[r]), Answers(r, "ok", S)
        PROVE  Snap(r)'
    <2>1. Asking(r)' /\ gen[r] \in seen[r]
      BY <1>2, <1>9 DEF Asking, Answers, ServerTypeOK, Snap
    <2>2. \E g \in seen'[r] : S \subseteq Truth(call'[r], g)
      BY <1>1, <1>9, <2>1
    <2> QED
      BY <1>9, <2>2, SnapAnswers
  <1>10. CASE EndList(r)
    <2>1. at[r] = "list" /\ Still /\ Answers(r, "ok", found[r])
      BY <1>10 DEF EndList, storeVars
    <2>2. gen[r] > 0 /\ call[r].op = "list_sources" /\ found[r] \subseteq Matching(gen[r], ScopeUsed(call[r]))
      BY <2>1 DEF Snap, Reading, Fit
    <2>3. Truth(call[r], gen[r]) = Matching(gen[r], ScopeUsed(call[r]))
      BY <1>0, <2>2 DEF Truth
    <2> QED
      BY <1>9, <2>1, <2>2, <2>3 DEF Reading
  <1>11. CASE EndCount(r)
    <2>1. at[r] = "count" /\ Still /\ call[r].op = "search" /\ todo' = todo
      BY <1>11 DEF EndCount, storeVars, Fit
    <2>2. CASE Answers(r, "ok", {})
      BY <1>9, <2>1, <2>2 DEF Reading
    <2>3. CASE /\ at' = [at EXCEPT ![r] = "aim"]
               /\ found' = [found EXCEPT ![r] = {}]
      <3>1. at'[r] = "aim" /\ found'[r] = {} /\ Asking(r)'
        BY <2>1, <2>3 DEF ServerTypeOK, Asking, Asks
      <3> QED
        BY <1>1, <1>2, <2>1, <3>1 DEF Snap, Reading, Pages, FromOne, Told
    <2> QED
      BY <1>11, <2>2, <2>3 DEF EndCount
  <1>12. CASE Query(r)
    <2>1. /\ at[r] = "query" /\ Still
          /\ Answers(r, "ok", Kept(call[r], Nearest(Stored(gen[r], ScopeUsed(call[r])), limit[r])))
      BY <1>12 DEF Query, storeVars
    <2>2. gen[r] > 0 /\ call[r].op = "search"
      BY <2>1 DEF Snap, Reading, Fit
    <2> QED
      BY <1>9, <2>1, <2>2, QueryIsTrue DEF Reading
  <1>13. CASE Get(r)
    <2>1. /\ at[r] = "get" /\ Still
          /\ Answers(r, "ok", IF col[r] = current THEN Stored(gen[r], "all") \cap {call[r].chunk} ELSE {})
      BY <1>13 DEF Get, storeVars
    <2>2. gen[r] > 0 /\ call[r].op = "get_chunk"
      BY <2>1 DEF Snap, Reading, Fit
    <2>3. Stored(gen[r], "all") \subseteq Holds[gen[r]]
      BY DEF Stored, Matching
    <2>4. Truth(call[r], gen[r]) = Holds[gen[r]] \cap {call[r].chunk}
      BY <1>0, <2>2 DEF Truth
    <2> QED
      BY <1>9, <2>1, <2>3, <2>4 DEF Reading
  <1>14. CASE Fail(r)
    BY <1>14, SnapAnswers DEF Fail
  <1>15. CASE Reindexes(r) \/ AskId(r) \/ Probe(r) \/ ProbeFails(r) \/ Reply(r)
    <2>1. CASE Reply(r)
      BY <2>1 DEF Reply, Goes, ServerTypeOK, Snap, Asking, Reading, FromOne, Told
    <2>2. CASE Reindexes(r) \/ AskId(r) \/ Probe(r) \/ ProbeFails(r)
      <3>1. /\ call[r].op \notin Asks /\ call' = call
            /\ at'[r] \in {"build", "ingest", "ensure", "store", "finish", "answered"}
        BY <2>2 DEF Reindexes, Start, StartRefused, Ingest, ReindexFails, Renew, Finish, AskId, Probe,
                    ProbeFails, Goes, Answers, Fit, Asks, ServerTypeOK
      <3> QED
        BY <3>1 DEF Snap, Asking, Reading, FromOne, Told
    <2> QED
      BY <1>15, <2>1, <2>2
  <1> QED
    BY <1>3, <1>4, <1>5, <1>6, <1>7, <1>8, <1>10, <1>11, <1>12, <1>13, <1>14, <1>15 DEF Advance, Reads

LEMMA SnapStep ==
  ASSUME SnapInv, [Next]_vars
  PROVE  SnapInv'
  <1> USE DEF SnapInv, TypeOK
  <1>1. TypeOK' /\ AllFit'
    BY TypeStep, FitStep
  <1> SUFFICES ASSUME NEW x \in Slots PROVE Snap(x)'
    BY <1>1
  <1>2. Snap(x) /\ Fit(x) /\ Fit(x)'
    BY <1>1 DEF AllFit
  <1>3. CASE UNCHANGED serverVars /\ Remember
    <2>1. Same(x)
      BY <1>3 DEF serverVars, locals, Same
    <2> QED
      BY <1>2, <1>3, <2>1, SnapStays
  <1>4. ASSUME NEW r \in Slots, Advance(r) \/ \E c \in Calls[r] : Begin(r, c), Remember
        PROVE  Snap(x)'
    <2>1. CASE x = r
      BY <1>2, <1>4, <2>1, SnapMoves
    <2>2. CASE x # r
      BY <1>2, <1>4, <2>2, OthersStay, SnapStays
    <2> QED
      BY <2>1, <2>2
  <1>5. CASE Serve /\ Remember
    <2>1. Same(x)
      BY <1>5 DEF Serve, locals, Same
    <2> QED
      BY <1>2, <1>5, <2>1, SnapStays
  <1>6. CASE Crash
    BY <1>6 DEF Crash, Rested, Blank, Snap, Asking, Reading, FromOne, Told
  <1>7. CASE UNCHANGED vars
    BY <1>2, <1>7 DEF vars, storeVars, serverVars, locals, history, Snap, Asking, Reading, Pages,
                      FromOne, Told
  <1> QED
    BY <1>3, <1>4, <1>5, <1>6, <1>7 DEF Next, ByServer, ByCommand, Outside, ServerNext

LEMMA SnapFirst == Init => SnapInv
  <1> SUFFICES ASSUME Init PROVE SnapInv
    OBVIOUS
  <1>1. \A r \in Slots : at[r] = "idle" /\ found[r] = {}
    BY DEF Init, ServerInit, Blank
  <1>2. AllFit
    BY <1>1 DEF AllFit, Fit
  <1>3. \A r \in Slots : Snap(r)
    BY <1>1 DEF Snap, Asking, Reading, FromOne, Told
  <1> QED
    BY <1>2, <1>3, TypeInit DEF SnapInv

(* Whatever is switched, lost or restarted during a call, an answer that   *)
(* reports no error is from one generation that was active meanwhile.      *)
THEOREM AnswersAreFromOneSnapshotAlways == Spec => []AnswersAreFromOneSnapshot
  <1>1. SnapInv => AnswersAreFromOneSnapshot
    BY DEF SnapInv, Snap, FromOne, AnswersAreFromOneSnapshot
  <1> QED
    BY <1>1, SnapFirst, SnapStep, PTL DEF Spec
-----------------------------------------------------------------------------
(* All of the answer.                                                      *)

(* A server that serves has an id, and only such a server has calls.       *)
IdInv ==
  /\ serving => cached # 0
  /\ \A r \in Slots : (at[r] = "store" => col[r] # 0) /\ (at[r] # "idle" => serving)

(* How many candidates a search asks for: enough, or all there are.        *)
Enough(r) ==
  \/ Wanted(call[r]) > 0 /\ limit[r] = Candidates(Wanted(call[r])) /\ at[r] # "count"
  \/ Wanted(call[r]) = 0 /\ limit[r] = 0 /\ at[r] # "query"
  \/ /\ Wanted(call[r]) = 0 /\ at[r] # "count"
     /\ sound[r] => limit[r] = Cardinality(Matching(gen[r], ScopeUsed(call[r])))

(* What has been paged through in the scope that is read now.              *)
PagedNow(r) == {x \in found[r] : InScope(x, Head(todo[r]))}

(* And in the scope before it.                                             *)
PagedBefore(r) ==
  \/ todo[r] = <<"docs", "code">> /\ found[r] \subseteq Matching(gen[r], "docs")
  \/ todo[r] = <<"code">> /\ Matching(gen[r], "docs") \subseteq found[r]

AllOfOne(r) ==
  Told(r) /\ sound[r] =>
    \E g \in seen[r] : found[r] = Truth(call[r], g) \/ (g # 0 /\ MissesSome(call[r], g))

Entire(r) ==
  /\ Asking(r) /\ sound[r] => Healthy
  /\ at[r] = "load" \/ Reading(r) => (call[r].op = "search" => Wanted(call[r]) >= 0)
  /\ Reading(r) /\ call[r].op = "search" => Enough(r)
  /\ at[r] = "aim" => todo[r] = ScopesToPage(call[r])
  /\ sound[r] /\ Reading(r) => gen[r] \in held
  /\ sound[r] /\ Reading(r) /\ at[r] # "aim" => col[r] = current
  /\ sound[r] /\ at[r] \in {"count", "list"} =>
       IsPrefix(PagedNow(r), Matching(gen[r], Head(todo[r])))
  /\ sound[r] /\ at[r] = "list" /\ ScopeUsed(call[r]) = "all" => PagedBefore(r)
  /\ AllOfOne(r)

EntireInv == SnapInv /\ IdInv /\ \A r \in Slots : Entire(r)
-----------------------------------------------------------------------------
LEMMA IdMoves ==
  ASSUME StoreTypeOK, ServerTypeOK, IdInv, NEW r \in Slots,
         Advance(r) \/ \E c \in Calls[r] : Begin(r, c)
  PROVE  IdInv'
  <1> USE DEF ServerTypeOK, Answers, Goes, serviceVars, locals
  <1>1. EnsuredId # 0
    BY IndexStoreAssumption DEF EnsuredId, StoreTypeOK
  <1>2. serving' = serving /\ serving
    <2>1. serving' = serving
      BY DEF Advance, Reads, Reindexes, Begin, LoadNothing, LoadPointer, Aim, ReadPage, NextScope,
             EndList, EndCount, Query, Get, Fail, Start, StartRefused, Ingest, ReindexFails, Renew,
             Finish, AskId, Probe, ProbeFails, Reply
    <2>2. at[r] # "idle" \/ serving
      BY DEF Advance, Reads, Reindexes, Begin, LoadNothing, LoadPointer, Aim, ReadPage, NextScope,
             EndList, EndCount, Query, Get, Fail, Start, StartRefused, Ingest, ReindexFails, Renew,
             Finish, AskId, Probe, ProbeFails, Reply, Requesting
    <2> QED
      BY <2>1, <2>2 DEF IdInv
  <1>3. cached' # 0
    <2>1. at[r] = "store" => col[r] # 0
      BY DEF IdInv
    <2>2. cached' = cached \/ (at[r] = "store" /\ cached' = col[r])
      BY DEF Advance, Reads, Reindexes, Begin, LoadNothing, LoadPointer, Aim, ReadPage, NextScope,
             EndList, EndCount, Query, Get, Fail, Start, StartRefused, Ingest, ReindexFails, Renew,
             Finish, AskId, Probe, ProbeFails, Reply
    <2> QED
      BY <1>2, <2>1, <2>2 DEF IdInv
  <1>4. at'[r] = "store" => col'[r] # 0
    <2>1. CASE AskId(r)
      BY <1>1, <2>1 DEF AskId
    <2>2. CASE at'[r] # "store"
      BY <2>2
    <2>3. CASE ReadPage(r) \/ NextScope(r)
      BY <2>3 DEF ReadPage, NextScope
    <2> QED
      BY <2>1, <2>2, <2>3
      DEF Advance, Reads, Reindexes, Begin, FirstPlace, LoadNothing, LoadPointer, Aim, Target, EndList,
          EndCount, Query, Get, Fail, Start, StartRefused, Ingest, ReindexFails, Renew,
          Finish, Probe, ProbeFails, Reply
  <1>5. ASSUME NEW x \in Slots, x # r PROVE at'[x] = "store" => col'[x] # 0
    BY <1>5, OthersStay DEF Same, IdInv
  <1> QED
    BY <1>2, <1>3, <1>4, <1>5 DEF IdInv

LEMMA IdStep ==
  ASSUME TypeOK, IdInv, [Next]_vars
  PROVE  IdInv'
  <1> USE DEF TypeOK
  <1>1. CASE UNCHANGED serverVars
    BY <1>1 DEF serverVars, serviceVars, locals, IdInv
  <1>2. ASSUME NEW r \in Slots, Advance(r) \/ \E c \in Calls[r] : Begin(r, c) PROVE IdInv'
    BY <1>2, IdMoves
  <1>3. CASE Serve
    <2>1. EnsuredId # 0
      BY IndexStoreAssumption DEF EnsuredId, StoreTypeOK
    <2> QED
      BY <1>3, <2>1 DEF Serve, locals, IdInv
  <1>4. CASE Crash
    BY <1>4 DEF Crash, Rested, Blank, IdInv
  <1> QED
    BY <1>1, <1>2, <1>3, <1>4
    DEF Next, ByServer, ByCommand, Outside, ServerNext, vars

(* The collection is the same one after a step that leaves the server      *)
(* healthy, and it has lost nothing.                                       *)
LEMMA Steady ==
  ASSUME StoreTypeOK, Healthy, cached # 0, Healthy', cached' # 0,
         StoreStep \/ LoseCollection \/ ForeignRun
  PROVE  current' = current /\ held \subseteq held'
  <1>1. current # 0 /\ current' # 0
    BY DEF Healthy
  <1>2. CASE StoreStep
    BY <1>1, <1>2 DEF StoreStep, storeVars, Ensured, EnsuredId, TakeLease, FreeLease, Switched
  <1>3. CASE LoseCollection \/ ForeignRun
    BY <1>1, <1>3 DEF LoseCollection, ForeignRun
  <1> QED
    BY <1>2, <1>3

LEMMA RememberedSound ==
  ASSUME Remember, NEW r \in Slots, Asking(r)', sound'[r]
  PROVE  sound[r] /\ Healthy'
  BY DEF Remember

LEMMA ReadingAsks ==
  ASSUME NEW r, Fit(r), at[r] = "load" \/ Reading(r)
  PROVE  Asking(r)
  BY DEF Reading, Asking, Asks, Fit

(* Who does not act keeps what it has.                                     *)
LEMMA EntireStays ==
  ASSUME StoreTypeOK, IdInv, IdInv', NEW x \in Slots, Fit(x), Snap(x), Entire(x), Same(x), Remember,
         StoreStep \/ LoseCollection \/ ForeignRun
  PROVE  Entire(x)'
  <1>1. (Asking(x)' <=> Asking(x)) /\ (Reading(x)' <=> Reading(x)) /\ (Told(x)' <=> Told(x))
    BY DEF Same, Asking, Reading, Told
  <1>2. ASSUME Asking(x), sound'[x]
        PROVE  sound[x] /\ Healthy' /\ current' = current /\ held \subseteq held'
    <2>1. sound[x] /\ Healthy'
      BY <1>1, <1>2, RememberedSound
    <2>2. Healthy /\ cached # 0 /\ cached' # 0
      BY <1>1, <1>2, <2>1 DEF Entire, IdInv, Asking
    <2> QED
      BY <2>1, <2>2, Steady
  <1>3. Reading(x) => Asking(x)
    BY ReadingAsks
  <1>4. Enough(x)' \/ ~Enough(x) \/ ~Reading(x)
    BY <1>2, <1>3 DEF Enough, Same
  <1>5. AllOfOne(x)'
    <2>1. SUFFICES ASSUME Told(x)', sound'[x]
                   PROVE  \E g \in seen'[x] : \/ found'[x] = Truth(call'[x], g)
                                              \/ g # 0 /\ MissesSome(call'[x], g)
      BY DEF AllOfOne
    <2>2. Told(x) /\ Asking(x) /\ sound[x]
      BY <1>1, <1>2, <2>1 DEF Told
    <2>3. PICK g \in seen[x] : found[x] = Truth(call[x], g) \/ (g # 0 /\ MissesSome(call[x], g))
      BY <2>2 DEF Entire, AllOfOne
    <2>4. seen[x] \subseteq seen'[x]
      BY <1>1, <2>2, Remembered
    <2> QED
      BY <2>3, <2>4 DEF Same
  <1>6. at[x] \in {"count", "list"} => Reading(x)
    BY DEF Reading
  <1> QED
    BY <1>1, <1>2, <1>3, <1>4, <1>5, <1>6 DEF Entire, Same, PagedNow, PagedBefore
-----------------------------------------------------------------------------
LEMMA WantedIs ==
  ASSUME NEW c \in Call
  PROVE  /\ Wanted(c) \in Int /\ Wanted(c) <= MaxTopK
         /\ c.op = "search" /\ ~Rejected(c) => Wanted(c) >= 0
  <1>1. c.topK \in Int /\ c.via \in {"mcp", "ui"}
    BY DEF Call
  <1>2. MaxTopK \in Nat /\ DefaultTopK \in Nat /\ DefaultTopK > 0 /\ MaxTopK > 0
    BY QueryServiceAssumption
  <1> QED
    BY <1>1, <1>2 DEF Wanted, Rejected

(* There are candidates for every match that is wanted.                    *)
LEMMA CandidatesEnough ==
  ASSUME NEW k \in Int, k > 0, k <= MaxTopK
  PROVE  Candidates(k) \in Nat /\ k <= Candidates(k)
  <1>1. Widening \in Nat /\ Widening >= 1 /\ MaxTopK \in Nat /\ FewCandidates \in Nat
    BY QueryServiceAssumption
  <1>2. k * Widening \in Int /\ k <= k * Widening
    BY <1>1
  <1> QED
    BY <1>1, <1>2 DEF Candidates

(* A search over a generation that is there finds all it would find        *)
(* without the limit, or the source filter has cost it some.               *)
LEMMA QueryIsAll ==
  ASSUME StoreTypeOK, ServerTypeOK, NEW r \in Slots, gen[r] > 0, gen[r] \in held,
         call[r].op = "search", at[r] = "query", sound[r], Enough(r)
  PROVE  \/ Kept(call[r], Nearest(Stored(gen[r], ScopeUsed(call[r])), limit[r]))
              = Truth(call[r], gen[r])
         \/ MissesSome(call[r], gen[r])
  <1> DEFINE M == Matching(gen[r], ScopeUsed(call[r]))
  <1>1. call[r] \in Call /\ gen[r] \in 1..MaxGen /\ limit[r] \in Nat /\ gen[r] # 0
    BY IndexStoreAssumption DEF ServerTypeOK, StoreTypeOK
  <1>2. M \in SUBSET Chunks /\ Cardinality(M) \in Nat
    BY <1>1, MatchingType, SmallerSet
  <1>3. Truth(call[r], gen[r]) = Kept(call[r], M) /\ Stored(gen[r], ScopeUsed(call[r])) = M
    BY <1>1 DEF Truth, Stored
  <1>4. Wanted(call[r]) \in Int /\ Wanted(call[r]) <= MaxTopK
    BY <1>1, WantedIs
  <1>5. CASE Cardinality(M) <= limit[r]
    BY <1>1, <1>2, <1>3, <1>5, NearestOfAll
  <1>6. CASE Cardinality(M) > limit[r]
    <2>1. Wanted(call[r]) > 0 /\ limit[r] = Candidates(Wanted(call[r]))
      BY <1>1, <1>2, <1>6 DEF Enough
    <2>2. Wanted(call[r]) <= limit[r]
      BY <1>4, <2>1, CandidatesEnough
    <2>3. CASE \E x \in Holds[gen[r]] : SourceOf[x] \notin call[r].through
      BY <1>6, <2>1, <2>3 DEF MissesSome
    <2>4. CASE \A x \in Holds[gen[r]] : SourceOf[x] \in call[r].through
      <3>1. \A x \in M : SourceOf[x] \in call[r].through /\ InScope(x, ScopeUsed(call[r]))
        BY <2>4 DEF Matching
      <3> QED
        BY <1>1, <1>2, <1>3, <2>1, <2>2, <3>1, KeptIsAll
    <2> QED
      BY <2>3, <2>4
  <1> QED
    BY <1>1, <1>2, <1>5, <1>6

(* When the next page is empty, the scope has been read.                   *)
LEMMA LastPage ==
  ASSUME StoreTypeOK, ServerTypeOK, NEW r \in Slots, gen[r] > 0, gen[r] \in held, col[r] = current,
         IsPrefix(PagedNow(r), Matching(gen[r], Head(todo[r])))
  PROVE  /\ Page(r) = {} => PagedNow(r) = Matching(gen[r], Head(todo[r]))
         /\ IsPrefix({x \in found[r] \cup Page(r) : InScope(x, Head(todo[r]))},
                     Matching(gen[r], Head(todo[r])))
  <1> DEFINE M == Matching(gen[r], Head(todo[r]))
  <1>1. gen[r] \in 1..MaxGen
    BY IndexStoreAssumption DEF ServerTypeOK, StoreTypeOK
  <1>2. M \in SUBSET Chunks
    BY <1>1, MatchingType
  <1>3. Page(r) = PageAfter(PagedNow(r), M)
    BY PageIs DEF PagedNow
  <1> HIDE DEF M
  <1>4. /\ IsPrefix(PagedNow(r) \cup Page(r), M)
        /\ Page(r) = {} => PagedNow(r) = M
    BY <1>2, <1>3, NextPage DEF M
  <1>5. Page(r) \subseteq M
    BY <1>3 DEF PageAfter
  <1>6. {x \in found[r] \cup Page(r) : InScope(x, Head(todo[r]))} = PagedNow(r) \cup Page(r)
    BY <1>5 DEF PagedNow, M, Matching
  <1> QED
    BY <1>4, <1>6 DEF M

LEMMA EntireAnswers ==
  ASSUME ServerTypeOK, NEW r \in Slots, NEW v, NEW S, Answers(r, v, S), Remember,
         Asking(r)' /\ sound'[r] =>
           \/ v # "ok" \/ Pointless(call'[r])
           \/ \E g \in seen'[r] : S = Truth(call'[r], g) \/ (g # 0 /\ MissesSome(call'[r], g))
  PROVE  Entire(r)'
  <1>1. at'[r] = "answered" /\ verdict'[r] = v /\ found'[r] = S
    BY DEF ServerTypeOK, Answers
  <1>2. Asking(r)' /\ sound'[r] => Healthy'
    BY RememberedSound
  <1>3. AllOfOne(r)'
    BY <1>1 DEF AllOfOne, Told
  <1> QED
    BY <1>1, <1>2, <1>3 DEF Entire, Reading

LEMMA EntireBegins ==
  ASSUME ServerTypeOK, NEW r \in Slots, NEW c \in Calls[r], Begin(r, c), Remember
  PROVE  Entire(r)'
  <1>1. call'[r] = c /\ c \in Call
    BY QueryServiceAssumption DEF Begin, ServerTypeOK
  <1>2. CASE Rejected(c) /\ Answers(r, "rejected", {})
    BY <1>2, EntireAnswers
  <1>3. CASE ~Rejected(c) /\ Refused(c) /\ Answers(r, "failed", {})
    BY <1>3, EntireAnswers
  <1>4. CASE ~Rejected(c) /\ ~Refused(c) /\ Pointless(c) /\ Answers(r, "ok", {})
    BY <1>1, <1>4, EntireAnswers
  <1>5. CASE ~Rejected(c) /\ at' = [at EXCEPT ![r] = FirstPlace(c)] /\ UNCHANGED <<verdict, found>>
    <2>1. at'[r] \in {"start", "ensure", "load"}
      BY <1>5 DEF FirstPlace, ServerTypeOK
    <2>2. Asking(r)' /\ sound'[r] => Healthy'
      BY RememberedSound
    <2>3. c.op = "search" => Wanted(c) >= 0
      BY <1>1, <1>5, WantedIs
    <2> QED
      BY <1>1, <2>1, <2>2, <2>3 DEF Entire, Reading, AllOfOne, Told
  <1> QED
    BY <1>2, <1>3, <1>4, <1>5 DEF Begin

LEMMA EntireReads ==
  ASSUME StoreTypeOK, ServerTypeOK, NEW r \in Slots, Fit(r), Fit(r)', Snap(r), Snap(r)', Entire(r),
         Remember, Reads(r)
  PROVE  Entire(r)'
  <1>0. UNCHANGED storeVars /\ UNCHANGED serviceVars /\ UNCHANGED call
    BY DEF Reads, LoadNothing, LoadPointer, Aim, ReadPage, NextScope, EndList, EndCount, Query,
           Get, Fail
  <1>1. /\ UNCHANGED <<active, current, held, cached, call>>
        /\ call[r] \in Call /\ gen[r] \in 0..MaxGen
    BY <1>0, IndexStoreAssumption DEF storeVars, serviceVars, ServerTypeOK, StoreTypeOK
  <1>2. Asking(r)
    <2>1. at[r] = "load" \/ Reading(r)
      BY DEF Reads, LoadNothing, LoadPointer, Aim, ReadPage, NextScope, EndList, EndCount, Query,
             Get, Fail, Goes, Requesting, Reading
    <2> QED
      BY <2>1, ReadingAsks
  <1>3. Asking(r)' /\ sound'[r] => sound[r] /\ Healthy' /\ Healthy
    <2>1. Asking(r)' /\ sound'[r] => sound[r] /\ Healthy'
      BY RememberedSound
    <2> QED
      BY <1>2, <2>1 DEF Entire
  <1>4. Asking(r)' => active' \in seen'[r] /\ seen[r] \subseteq seen'[r]
    BY Remembered
  <1>5. gen[r] > 0 => gen[r] # 0 /\ gen[r] \in 1..MaxGen
    BY <1>1
  <1>6. ASSUME NEW S, Answers(r, "ok", S), Reading(r),
               sound[r] => S = Truth(call[r], gen[r]) \/ MissesSome(call[r], gen[r])
        PROVE  Entire(r)'
    <2>1. gen[r] \in seen[r] /\ gen[r] # 0
      BY <1>5, <1>6 DEF Snap
    <2> QED
      BY <1>1, <1>3, <1>4, <1>6, <2>1, EntireAnswers
  <1>7. CASE LoadNothing(r)
    <2>1. active = 0 /\ Answers(r, "ok", {})
      BY <1>7 DEF LoadNothing
    <2>2. Asking(r)' => 0 \in seen'[r]
      BY <1>1, <1>4, <2>1
    <2>3. Truth(call'[r], 0) = {}
      BY DEF Truth
    <2> QED
      BY <2>1, <2>2, <2>3, EntireAnswers
  <1>8. CASE LoadPointer(r)
    <2>1. /\ at[r] = "load" /\ at'[r] = "aim" /\ gen'[r] = active /\ active # 0
          /\ todo'[r] = ScopesToPage(call[r])
          /\ limit'[r] = IF call[r].op = "search" /\ Wanted(call[r]) > 0
                         THEN Candidates(Wanted(call[r])) ELSE 0
      BY <1>8 DEF LoadPointer, Goes, ServerTypeOK
    <2>2. Asking(r)'
      BY <2>1 DEF Fit, Asking
    <2>3. sound'[r] => gen'[r] \in held'
      BY <1>1, <1>3, <2>1, <2>2 DEF Healthy
    <2>4. Enough(r)' \/ call'[r].op # "search"
      <3>1. call[r].op = "search" => Wanted(call[r]) >= 0 /\ Wanted(call[r]) \in Int
        BY <1>1, <2>1, WantedIs DEF Entire
      <3> QED
        BY <1>1, <2>1, <3>1 DEF Enough
    <2>5. call'[r].op = "search" => Wanted(call'[r]) >= 0
      BY <1>1, <2>1 DEF Entire
    <2> QED
      BY <1>1, <1>3, <2>1, <2>2, <2>3, <2>4, <2>5 DEF Entire, AllOfOne, Told
  <1>9. CASE Aim(r)
    <2>1. /\ at[r] = "aim" /\ at'[r] = Target(r) /\ col'[r] = cached
          /\ UNCHANGED <<gen, limit, found, todo>>
      BY <1>9 DEF Aim, Goes, ServerTypeOK
    <2>2. Reading(r) /\ found[r] = {} /\ todo[r] = ScopesToPage(call[r]) /\ Asking(r)'
      BY <1>1, <1>2, <2>1 DEF Reading, Snap, Entire, Asking, Target
    <2>3. sound'[r] => sound[r] /\ col'[r] = current' /\ gen'[r] \in held'
      BY <1>1, <1>3, <2>1, <2>2 DEF Healthy, Entire
    <2>4. PagedNow(r)' = {}
      BY <2>1, <2>2 DEF PagedNow
    <2>5. ASSUME NEW S PROVE IsPrefix({}, S)
      BY DEF IsPrefix
    <2>6. at'[r] = "list" /\ ScopeUsed(call[r]) = "all" => PagedBefore(r)'
      <3>1. at'[r] = "list" => call[r].op = "list_sources"
        BY <1>1 DEF Fit
      <3>2. at'[r] = "list" /\ ScopeUsed(call[r]) = "all" => todo[r] = <<"docs", "code">>
        BY <2>2, <3>1 DEF ScopesToPage
      <3> QED
        BY <2>1, <2>2, <3>2 DEF PagedBefore
    <2>7. Enough(r)' \/ call'[r].op # "search"
      <3>1. CASE call[r].op = "search"
        <4>1. Enough(r) /\ at'[r] = IF limit[r] = 0 THEN "count" ELSE "query"
          BY <2>1, <2>2, <3>1 DEF Entire, Target
        <4>2. Wanted(call[r]) \in Int /\ Wanted(call[r]) <= MaxTopK
          BY <1>1, WantedIs
        <4>3. Wanted(call[r]) > 0 /\ limit[r] = Candidates(Wanted(call[r])) => limit[r] # 0
          BY <4>2, CandidatesEnough
        <4> QED
          BY <1>1, <1>3, <2>1, <2>2, <4>1, <4>3 DEF Enough
      <3> QED
        BY <1>1, <3>1
    <2>8. Reading(r)' /\ at'[r] # "aim" /\ at'[r] # "answered"
      BY <2>1 DEF Target, Reading
    <2> QED
      BY <1>1, <1>3, <2>1, <2>2, <2>3, <2>4, <2>5, <2>6, <2>7, <2>8 DEF Entire, AllOfOne, Told
  <1>10. CASE ReadPage(r)
    <2>1. /\ at[r] \in {"count", "list"} /\ at' = at /\ found'[r] = found[r] \cup Page(r)
          /\ UNCHANGED <<gen, col, limit, todo>>
      BY <1>10 DEF ReadPage, ServerTypeOK
    <2>2. Reading(r) /\ Asking(r)' /\ gen[r] > 0
      BY <1>1, <1>2, <2>1 DEF Reading, Asking, Snap
    <2>3. sound'[r] => sound[r] /\ gen[r] \in held /\ col[r] = current
      BY <1>3, <2>1, <2>2 DEF Entire
    <2>4. sound'[r] => IsPrefix(PagedNow(r)', Matching(gen[r], Head(todo[r])))
      <3>1. sound'[r] => IsPrefix(PagedNow(r), Matching(gen[r], Head(todo[r])))
        BY <2>1, <2>3 DEF Entire
      <3> QED
        BY <2>1, <2>2, <2>3, <3>1, LastPage DEF PagedNow
    <2>5. sound'[r] /\ at[r] = "list" /\ ScopeUsed(call[r]) = "all" => PagedBefore(r)'
      <3>1. Page(r) \subseteq Matching(gen[r], Head(todo[r]))
        BY PageType DEF Stored
      <3>2. Head(<<"docs", "code">>) = "docs"
        OBVIOUS
      <3>3. sound'[r] /\ at[r] = "list" /\ ScopeUsed(call[r]) = "all" => PagedBefore(r)
        BY <2>3 DEF Entire
      <3> QED
        BY <2>1, <3>1, <3>2, <3>3 DEF PagedBefore
    <2>6. Enough(r)' \/ call'[r].op # "search"
      BY <1>1, <2>1, <2>2, <2>3 DEF Entire, Enough
    <2> QED
      BY <1>1, <1>3, <2>1, <2>2, <2>3, <2>4, <2>5, <2>6 DEF Entire, Reading, AllOfOne, Told
  <1>11. CASE NextScope(r)
    <2>1. /\ at[r] = "list" /\ at' = at /\ todo'[r] = Tail(todo[r]) /\ Page(r) = {}
          /\ Len(todo[r]) > 1 /\ UNCHANGED <<gen, col, limit, found>>
      BY <1>11 DEF NextScope, ServerTypeOK
    <2>2. Reading(r) /\ Asking(r)' /\ gen[r] > 0 /\ Pages(r) /\ call[r].op = "list_sources"
      BY <1>1, <1>2, <2>1 DEF Reading, Asking, Snap, Fit
    <2>3. sound'[r] => sound[r] /\ gen[r] \in held /\ col[r] = current
      BY <1>3, <2>1, <2>2 DEF Entire
    <2>4. todo[r] = <<"docs", "code">> /\ ScopeUsed(call[r]) = "all" /\ todo'[r] = <<"code">>
      <3>1. ASSUME NEW s, todo[r] = <<s>> PROVE FALSE
        <4>1. Len(todo[r]) = 1
          BY <3>1
        <4> QED
          BY <2>1, <4>1
      <3>2. \/ todo[r] = <<"docs", "code">> /\ ScopeUsed(call[r]) = "all"
            \/ todo[r] = <<ScopeUsed(call[r])>> \/ todo[r] = <<"code">>
        BY <2>2 DEF Pages, ScopesToPage
      <3>3. Tail(<<"docs", "code">>) = <<"code">>
        OBVIOUS
      <3> QED
        BY <2>1, <3>1, <3>2, <3>3
    <2>5. Head(todo[r]) = "docs" /\ Head(todo'[r]) = "code"
      BY <2>4
    <2>6. ASSUME sound'[r] PROVE Matching(gen[r], "docs") \subseteq found[r]
      <3>1. IsPrefix(PagedNow(r), Matching(gen[r], Head(todo[r])))
        BY <2>1, <2>3, <2>6 DEF Entire
      <3>2. PagedNow(r) = Matching(gen[r], "docs")
        BY <2>1, <2>2, <2>3, <2>5, <2>6, <3>1, LastPage
      <3> QED
        BY <3>2 DEF PagedNow
    <2>7. ASSUME sound'[r] PROVE IsPrefix(PagedNow(r)', Matching(gen[r], Head(todo'[r])))
      <3>1. PagedBefore(r)
        BY <2>1, <2>3, <2>4, <2>7 DEF Entire
      <3>2. <<"docs", "code">> # <<"code">>
        <4>1. Len(<<"docs", "code">>) # Len(<<"code">>)
          OBVIOUS
        <4> QED
          BY <4>1
      <3>3. found[r] \subseteq Matching(gen[r], "docs")
        BY <2>4, <3>1, <3>2 DEF PagedBefore
      <3>4. PagedNow(r)' = {}
        BY <2>1, <2>5, <3>3 DEF PagedNow, Matching, InScope
      <3> QED
        BY <3>4 DEF IsPrefix
    <2> QED
      BY <1>1, <1>3, <2>1, <2>2, <2>3, <2>4, <2>6, <2>7
      DEF Entire, Reading, PagedBefore, AllOfOne, Told
  <1>12. CASE EndList(r)
    <2>1. at[r] = "list" /\ Page(r) = {} /\ Len(todo[r]) = 1 /\ Answers(r, "ok", found[r])
      BY <1>12 DEF EndList
    <2>2. /\ Reading(r) /\ gen[r] > 0 /\ Pages(r) /\ call[r].op = "list_sources"
          /\ found[r] \subseteq Matching(gen[r], ScopeUsed(call[r]))
      BY <2>1 DEF Reading, Snap, Fit
    <2>3. Truth(call[r], gen[r]) = Matching(gen[r], ScopeUsed(call[r]))
      BY <1>5, <2>2 DEF Truth
    <2>4. ASSUME sound[r] PROVE found[r] = Matching(gen[r], ScopeUsed(call[r]))
      <3>1. gen[r] \in held /\ col[r] = current /\ IsPrefix(PagedNow(r), Matching(gen[r], Head(todo[r])))
        BY <2>1, <2>2, <2>4 DEF Entire
      <3>2. PagedNow(r) = Matching(gen[r], Head(todo[r]))
        BY <2>1, <2>2, <3>1, LastPage
      <3>3. Matching(gen[r], Head(todo[r])) \subseteq found[r]
        BY <3>2 DEF PagedNow
      <3>4. todo[r] # <<"docs", "code">>
        <4>1. Len(<<"docs", "code">>) = 2
          OBVIOUS
        <4> QED
          BY <2>1, <4>1
      <3>5. CASE ScopeUsed(call[r]) # "all"
        <4>1. todo[r] = <<ScopeUsed(call[r])>>
          BY <2>2, <3>5 DEF Pages, ScopesToPage
        <4>2. Head(todo[r]) = ScopeUsed(call[r])
          BY <4>1
        <4> QED
          BY <2>2, <3>3, <4>2
      <3>6. CASE ScopeUsed(call[r]) = "all"
        <4>1. todo[r] = <<"code">> /\ Matching(gen[r], "docs") \subseteq found[r]
          BY <2>1, <2>4, <3>4, <3>6 DEF Entire, PagedBefore
        <4>2. Matching(gen[r], "code") \subseteq found[r]
          BY <3>3, <4>1
        <4>3. Matching(gen[r], "all") \subseteq Matching(gen[r], "docs") \cup Matching(gen[r], "code")
          <5>1. Holds[gen[r]] \subseteq Chunks
            BY <1>5, <2>2, QueryServiceAssumption
          <5>2. \A x \in Chunks : ScopeOf[x] \in {"docs", "code"}
            BY QueryServiceAssumption
          <5> QED
            BY <5>1, <5>2 DEF Matching, InScope
        <4> QED
          BY <2>2, <3>6, <4>1, <4>2, <4>3
      <3> QED
        BY <3>5, <3>6
    <2> QED
      BY <1>6, <2>1, <2>2, <2>3, <2>4
  <1>13. CASE EndCount(r)
    <2>1. at[r] = "count" /\ Page(r) = {} /\ UNCHANGED <<gen, col, todo>>
      BY <1>13 DEF EndCount
    <2>2. /\ Reading(r) /\ gen[r] > 0 /\ Pages(r) /\ call[r].op = "search"
          /\ found[r] \subseteq Matching(gen[r], ScopeUsed(call[r]))
      BY <2>1 DEF Reading, Snap, Fit
    <2>3. todo[r] = ScopesToPage(call[r]) /\ Head(todo[r]) = ScopeUsed(call[r])
      <3>1. todo[r] = ScopesToPage(call[r]) /\ ScopesToPage(call[r]) = <<ScopeUsed(call[r])>>
        BY <2>2 DEF Pages, ScopesToPage
      <3> QED
        BY <3>1
    <2>4. ASSUME sound[r] PROVE found[r] = Matching(gen[r], ScopeUsed(call[r])) /\ gen[r] \in held
      <3>1. gen[r] \in held /\ col[r] = current /\ IsPrefix(PagedNow(r), Matching(gen[r], Head(todo[r])))
        BY <2>1, <2>2, <2>4 DEF Entire
      <3>2. PagedNow(r) = Matching(gen[r], Head(todo[r]))
        BY <2>1, <2>2, <3>1, LastPage
      <3> QED
        BY <2>2, <2>3, <3>1, <3>2 DEF PagedNow
    <2>5. CASE found[r] = {} /\ Answers(r, "ok", {})
      <3>1. Truth(call[r], gen[r]) = Kept(call[r], Matching(gen[r], ScopeUsed(call[r])))
        BY <1>5, <2>2 DEF Truth
      <3>2. Kept(call[r], {}) = {}
        BY DEF Kept, Nearest
      <3>3. sound[r] => Truth(call[r], gen[r]) = {}
        BY <2>4, <2>5, <3>1, <3>2
      <3> QED
        BY <1>6, <2>2, <2>5, <3>3
    <2>6. CASE /\ at' = [at EXCEPT ![r] = "aim"]
               /\ limit' = [limit EXCEPT ![r] = Cardinality(found[r])]
      <3>1. at'[r] = "aim" /\ limit'[r] = Cardinality(found[r]) /\ Asking(r)'
        BY <1>1, <1>2, <2>6 DEF ServerTypeOK, Asking
      <3>2. Wanted(call[r]) = 0 /\ Wanted(call[r]) >= 0
        <4>1. Wanted(call[r]) \in Int
          BY <1>1, WantedIs
        <4> QED
          BY <2>1, <2>2, <4>1 DEF Entire, Enough
      <3>3. Enough(r)'
        BY <1>1, <1>3, <2>1, <2>4, <3>1, <3>2 DEF Enough
      <3>4. sound'[r] => gen'[r] \in held'
        BY <1>1, <1>3, <2>1, <2>4, <3>1
      <3> QED
        BY <1>1, <1>3, <2>1, <2>2, <2>3, <3>1, <3>2, <3>3, <3>4 DEF Entire, AllOfOne, Told
    <2> QED
      BY <1>13, <2>5, <2>6 DEF EndCount
  <1>14. CASE Query(r)
    <2>1. /\ at[r] = "query"
          /\ Answers(r, "ok", Kept(call[r], Nearest(Stored(gen[r], ScopeUsed(call[r])), limit[r])))
      BY <1>14 DEF Query
    <2>2. Reading(r) /\ gen[r] > 0 /\ call[r].op = "search" /\ Enough(r)
      BY <2>1 DEF Reading, Snap, Fit, Entire
    <2>3. sound[r] => gen[r] \in held
      BY <2>2 DEF Entire
    <2> QED
      BY <1>6, <2>1, <2>2, <2>3, QueryIsAll
  <1>15. CASE Get(r)
    <2>1. /\ at[r] = "get"
          /\ Answers(r, "ok", IF col[r] = current THEN Stored(gen[r], "all") \cap {call[r].chunk} ELSE {})
      BY <1>15 DEF Get
    <2>2. Reading(r) /\ gen[r] > 0 /\ call[r].op = "get_chunk"
      BY <2>1 DEF Reading, Snap, Fit
    <2>3. Truth(call[r], gen[r]) = Holds[gen[r]] \cap {call[r].chunk}
      BY <1>5, <2>2 DEF Truth
    <2>4. sound[r] => col[r] = current /\ Stored(gen[r], "all") = Holds[gen[r]]
      BY <2>1, <2>2 DEF Entire, Stored, Matching, InScope
    <2> QED
      BY <1>6, <2>1, <2>2, <2>3, <2>4
  <1>16. CASE Fail(r)
    BY <1>16, EntireAnswers DEF Fail
  <1> QED
    BY <1>7, <1>8, <1>9, <1>10, <1>11, <1>12, <1>13, <1>14, <1>15, <1>16 DEF Reads

LEMMA EntireMoves ==
  ASSUME StoreTypeOK, ServerTypeOK, NEW r \in Slots, Fit(r), Fit(r)', Snap(r), Snap(r)', Entire(r),
         Remember, Advance(r) \/ \E c \in Calls[r] : Begin(r, c)
  PROVE  Entire(r)'
  <1>1. CASE Reply(r)
    <2>1. at'[r] = "idle"
      BY <1>1 DEF Reply, Goes, ServerTypeOK
    <2> QED
      BY <2>1 DEF Entire, Asking, Reading, AllOfOne, Told
  <1>2. CASE Reindexes(r) \/ AskId(r) \/ Probe(r) \/ ProbeFails(r)
    <2>1. /\ call[r].op \notin Asks /\ call' = call
          /\ at'[r] \in {"build", "ingest", "ensure", "store", "finish", "answered"}
      BY <1>2 DEF Reindexes, Start, StartRefused, Ingest, ReindexFails, Renew, Finish, AskId, Probe,
                  ProbeFails, Goes, Answers, Fit, Asks, ServerTypeOK
    <2> QED
      BY <2>1 DEF Entire, Asking, Reading, AllOfOne, Told
  <1> QED
    BY <1>1, <1>2, EntireBegins, EntireReads DEF Advance

LEMMA EntireStep ==
  ASSUME EntireInv, [Next]_vars
  PROVE  EntireInv'
  <1> USE DEF EntireInv, SnapInv, TypeOK
  <1>1. SnapInv' /\ IdInv'
    BY SnapStep, IdStep
  <1> SUFFICES ASSUME NEW x \in Slots PROVE Entire(x)'
    BY <1>1
  <1>2. Entire(x) /\ Snap(x) /\ Snap(x)' /\ Fit(x) /\ Fit(x)'
    BY <1>1 DEF AllFit
  <1>3. Next => StoreStep \/ LoseCollection \/ ForeignRun
    BY ServerType, CommandType DEF Next, ByServer, ByCommand, Outside
  <1>4. CASE Next /\ UNCHANGED serverVars /\ Remember
    <2>1. Same(x)
      BY <1>4 DEF serverVars, locals, Same
    <2> QED
      BY <1>1, <1>2, <1>3, <1>4, <2>1, EntireStays
  <1>5. ASSUME NEW r \in Slots, Advance(r) \/ \E c \in Calls[r] : Begin(r, c), Next, Remember
        PROVE  Entire(x)'
    <2>1. CASE x = r
      BY <1>2, <1>5, <2>1, EntireMoves
    <2>2. CASE x # r
      <3>1. Same(x)
        BY <1>5, <2>2, OthersStay
      <3> QED
        BY <1>1, <1>2, <1>3, <1>5, <3>1, EntireStays
    <2> QED
      BY <2>1, <2>2
  <1>6. CASE Next /\ Serve /\ Remember
    <2>1. Same(x)
      BY <1>6 DEF Serve, locals, Same
    <2> QED
      BY <1>1, <1>2, <1>3, <1>6, <2>1, EntireStays
  <1>7. CASE Crash
    BY <1>7 DEF Crash, Rested, Blank, Entire, Asking, Reading, AllOfOne, Told
  <1>8. CASE UNCHANGED vars
    <2>1. /\ UNCHANGED <<active, current, held, cached, at, call, gen, col, limit, found, todo, verdict>>
          /\ UNCHANGED <<seen, sound>>
      BY <1>8 DEF vars, storeVars, serverVars, serviceVars, locals, history
    <2>2. Enough(x)' <=> Enough(x)
      BY <2>1 DEF Enough
    <2>3. AllOfOne(x)' <=> AllOfOne(x)
      BY <2>1 DEF AllOfOne, Told, Asking
    <2>4. (Asking(x)' <=> Asking(x)) /\ (Reading(x)' <=> Reading(x)) /\ (Healthy' <=> Healthy)
      BY <2>1 DEF Asking, Reading, Healthy
    <2> QED
      BY <1>2, <2>1, <2>2, <2>3, <2>4 DEF Entire, PagedNow, PagedBefore
  <1> QED
    BY <1>4, <1>5, <1>6, <1>7, <1>8 DEF Next, ByServer, ByCommand, Outside, ServerNext

LEMMA EntireFirst == Init => EntireInv
  <1> SUFFICES ASSUME Init PROVE EntireInv
    OBVIOUS
  <1>1. serving = FALSE /\ \A r \in Slots : at[r] = "idle"
    BY DEF Init, ServerInit, Blank
  <1>2. IdInv
    BY <1>1 DEF IdInv
  <1>3. \A r \in Slots : Entire(r)
    BY <1>1 DEF Entire, Asking, Reading, AllOfOne, Told
  <1> QED
    BY <1>2, <1>3, SnapFirst DEF EntireInv

(* An answer is all there is in the generation it is from, unless the      *)
(* source filter has cost a search some matches: pages, the limit of       *)
(* candidates and the number of wanted matches leave nothing out while the *)
(* collection stays and the server has its id.                             *)
THEOREM SoundAnswersAreCompleteAlways == Spec => []SoundAnswersAreComplete
  <1>1. EntireInv => SoundAnswersAreComplete
    BY DEF EntireInv, Entire, AllOfOne, SoundAnswersAreComplete
  <1> QED
    BY <1>1, EntireFirst, EntireStep, PTL DEF Spec
=============================================================================
