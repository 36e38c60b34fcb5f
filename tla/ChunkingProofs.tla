--------------------------- MODULE ChunkingProofs ---------------------------
(***************************************************************************)
(* chunk.Split keeps the text, for every text, size and overlap.           *)
(*                                                                         *)
(* The loops are followed by induction over the sequences they run over.   *)
(* The invariant of the loop over the paragraphs is Held: the chunks made  *)
(* so far, the one being made included, are stretches of the letters read  *)
(* so far, they overlap or touch, and the last one ends with the last of   *)
(* these letters (Built).  That of the loop that cuts a long paragraph is  *)
(* Due: what is still to be cut is the rest of the letters, from no later  *)
(* than where the last piece has ended.                                    *)
(***************************************************************************)
EXTENDS Chunking, SequenceTheorems, WellFoundedInduction, TLAPS

(* Induction, with a set in the place of a predicate.                      *)
LEMMA NatSet ==
  ASSUME NEW S, 0 \in S, \A n \in Nat : n \in S => n + 1 \in S
  PROVE  Nat \subseteq S
  <1> SUFFICES ASSUME Nat \ S # {} PROVE FALSE
    OBVIOUS
  <1>1. \E x \in Nat \ S : \A y \in Nat \ S : ~(y < x)
    <2>1. PICK x \in Nat \ S : \A y \in Nat \ S : ~(<<y, x>> \in OpToRel(<, Nat))
      BY WFMin, NatLessThanWellFounded
    <2>2. ASSUME NEW y \in Nat \ S, y < x PROVE FALSE
      <3>1. <<y, x>> \in {ss \in Nat \X Nat : ss[1] < ss[2]}
        BY <2>2
      <3> QED
        BY <2>1, <3>1 DEF OpToRel
    <2> QED
      BY <2>2
  <1>2. PICK x \in Nat \ S : \A y \in Nat \ S : ~(y < x)
    BY <1>1
  <1>3. x # 0 /\ x - 1 \in Nat /\ x - 1 < x
    BY <1>2
  <1>4. x - 1 \in S
    BY <1>2, <1>3
  <1> QED
    BY <1>2, <1>3, <1>4

LEMMA SeqSet ==
  ASSUME NEW B, NEW S, <<>> \in S, \A s \in Seq(B), b \in B : s \in S => Append(s, b) \in S
  PROVE  Seq(B) \subseteq S
  <1> DEFINE N == {n \in Nat : \A s \in Seq(B) : Len(s) = n => s \in S}
  <1>1. 0 \in N
    BY EmptySeq
  <1>2. ASSUME NEW n \in Nat, n \in N PROVE n + 1 \in N
    <2> SUFFICES ASSUME NEW s \in Seq(B), Len(s) = n + 1 PROVE s \in S
      BY <1>2
    <2>1. s # <<>>
      BY <1>2
    <2>2. PICK r \in Seq(B), b \in B : s = Append(r, b)
      BY <2>1, SequenceEmptyOrAppend
    <2>3. Len(r) = n
      BY <2>2, <1>2
    <2> QED
      BY <1>2, <2>2, <2>3
  <1> HIDE DEF N
  <1>3. Nat \subseteq N
    BY <1>1, <1>2, NatSet
  <1> QED
    BY <1>3 DEF N
-----------------------------------------------------------------------------
(* The recursive function behind a fold, over the subsets of 1..n.         *)
Unfolds(g, step, base, s, n) ==
  g = [T \in SUBSET (1..n) |-> IF T = {} THEN base ELSE step[g[T \ {Max(T)}]][s[Max(T)]]]

LEMMA MaxIs ==
  ASSUME NEW T \in SUBSET Int, NEW n \in T, \A y \in T : n >= y
  PROVE  Max(T) = n
  <1>1. Max(T) \in T /\ \A y \in T : Max(T) >= y
    BY DEF Max
  <1>2. Max(T) \in Int /\ n \in Int /\ Max(T) >= n /\ n >= Max(T)
    BY <1>1
  <1> QED
    BY <1>2

LEMMA FoldsExist ==
  ASSUME NEW step, NEW base, NEW s, NEW n \in Nat
  PROVE  \E g : Unfolds(g, step, base, s, n)
  <1> DEFINE N == {k \in Nat : \E g : Unfolds(g, step, base, s, k)}
  <1>1. 0 \in N
    <2>1. 1..0 = {}
      OBVIOUS
    <2>2. Unfolds([T \in SUBSET (1..0) |-> base], step, base, s, 0)
      BY <2>1 DEF Unfolds
    <2> QED
      BY <2>2
  <1>2. ASSUME NEW k \in Nat, k \in N PROVE k + 1 \in N
    <2>1. PICK g : Unfolds(g, step, base, s, k)
      BY <1>2
    <2> DEFINE h == [T \in SUBSET (1..k + 1) |->
                       IF k + 1 \in T THEN step[g[T \ {k + 1}]][s[k + 1]] ELSE g[T]]
    <2>2. ASSUME NEW T \in SUBSET (1..k + 1), k + 1 \in T
          PROVE  h[T] = step[h[T \ {Max(T)}]][s[Max(T)]]
      <3>1. Max(T) = k + 1
        BY <2>2, MaxIs
      <3>2. h[T \ {k + 1}] = g[T \ {k + 1}]
        OBVIOUS
      <3> QED
        BY <2>2, <3>1, <3>2
    <2>3. ASSUME NEW T \in SUBSET (1..k + 1), k + 1 \notin T
          PROVE  h[T] = IF T = {} THEN base ELSE step[h[T \ {Max(T)}]][s[Max(T)]]
      <3>1. T \in SUBSET (1..k)
        BY <2>3
      <3>2. h[T] = g[T] /\ h[T \ {Max(T)}] = g[T \ {Max(T)}]
        BY <2>3
      <3> HIDE DEF h
      <3> QED
        BY <2>1, <3>1, <3>2 DEF Unfolds
    <2>4. h = [T \in SUBSET (1..k + 1) |-> h[T]]
      OBVIOUS
    <2> HIDE DEF h
    <2>5. Unfolds(h, step, base, s, k + 1)
      BY <2>2, <2>3, <2>4 DEF Unfolds
    <2> QED
      BY <2>5
  <1> HIDE DEF N
  <1>3. Nat \subseteq N
    BY <1>1, <1>2, NatSet
  <1> QED
    BY <1>3 DEF N

(* A fold takes one step for each element in turn.                         *)
LEMMA FoldSteps ==
  ASSUME NEW step, NEW base, NEW B, NEW s \in Seq(B)
  PROVE  \E f : /\ f[0] = base
                /\ \A n \in 1..Len(s) : f[n] = step[f[n - 1]][s[n]]
                /\ Folded(step, base, s) = f[Len(s)]
  <1> DEFINE g == CHOOSE g : Unfolds(g, step, base, s, Len(s))
             f == [n \in 0..Len(s) |-> g[1..n]]
  <1>1. Unfolds(g, step, base, s, Len(s))
    BY FoldsExist
  <1>2. DOMAIN s = 1..Len(s)
    OBVIOUS
  <1>3. Folded(step, base, s) = g[1..Len(s)]
    BY <1>2 DEF Folded, FoldLeft, MapThenFoldSet, Unfolds
  <1> HIDE DEF g
  <1>4. f[0] = base
    BY <1>1 DEF Unfolds
  <1>5. ASSUME NEW n \in 1..Len(s) PROVE f[n] = step[f[n - 1]][s[n]]
    <2>1. Max(1..n) = n
      <3>1. n \in 1..n /\ 1..n \in SUBSET Int /\ \A y \in 1..n : n >= y
        OBVIOUS
      <3> QED
        BY <3>1, MaxIs
    <2>2. (1..n) \ {n} = 1..(n - 1)
      OBVIOUS
    <2>3. 1..n \in SUBSET (1..Len(s)) /\ n \in 1..n
      BY LenProperties
    <2>4. \A T \in SUBSET (1..Len(s)) :
            T # {} => g[T] = step[g[T \ {Max(T)}]][s[Max(T)]]
      BY <1>1 DEF Unfolds
    <2>5. g[1..n] = step[g[(1..n) \ {Max(1..n)}]][s[Max(1..n)]]
      BY <2>3, <2>4
    <2>6. f[n] = g[1..n] /\ f[n - 1] = g[1..(n - 1)]
      OBVIOUS
    <2> QED
      BY <2>1, <2>2, <2>5, <2>6
  <1> QED
    BY <1>3, <1>4, <1>5

LEMMA FoldEmpty ==
  ASSUME NEW step, NEW base
  PROVE  Folded(step, base, <<>>) = base
  <1>1. \A B : \A s \in Seq(B) : Len(s) = 0 => Folded(step, base, s) = base
    <2> SUFFICES ASSUME NEW B, NEW s \in Seq(B)
                 PROVE  Len(s) = 0 => Folded(step, base, s) = base
      OBVIOUS
    <2>1. PICK f : /\ f[0] = base
                   /\ \A n \in 1..Len(s) : f[n] = step[f[n - 1]][s[n]]
                   /\ Folded(step, base, s) = f[Len(s)]
      BY FoldSteps
    <2> QED
      BY <2>1
  <1>2. <<>> \in Seq(STRING) /\ Len(<<>>) = 0
    OBVIOUS
  <1> QED
    BY <1>1, <1>2

LEMMA FoldAppend ==
  ASSUME NEW step, NEW base, NEW B, NEW s \in Seq(B), NEW b \in B
  PROVE  Folded(step, base, Append(s, b)) = step[Folded(step, base, s)][b]
  <1> DEFINE r == Append(s, b)
  <1>1. /\ r \in Seq(B) /\ Len(r) = Len(s) + 1 /\ r[Len(r)] = b
        /\ \A n \in 1..Len(s) : r[n] = s[n]
    OBVIOUS
  <1> HIDE DEF r
  <1>2. PICK f : /\ f[0] = base
                 /\ \A n \in 1..Len(s) : f[n] = step[f[n - 1]][s[n]]
                 /\ Folded(step, base, s) = f[Len(s)]
    BY FoldSteps
  <1>3. PICK h : /\ h[0] = base
                 /\ \A n \in 1..Len(r) : h[n] = step[h[n - 1]][r[n]]
                 /\ Folded(step, base, r) = h[Len(r)]
    BY <1>1, FoldSteps
  <1> DEFINE N == {n \in Nat : n <= Len(s) => h[n] = f[n]}
  <1>4. 0 \in N
    BY <1>2, <1>3
  <1>5. ASSUME NEW n \in Nat, n \in N PROVE n + 1 \in N
    <2> SUFFICES ASSUME n + 1 <= Len(s) PROVE h[n + 1] = f[n + 1]
      OBVIOUS
    <2>1. h[n + 1] = step[h[n]][r[n + 1]] /\ f[n + 1] = step[f[n]][s[n + 1]]
      BY <1>1, <1>2, <1>3
    <2> QED
      BY <1>1, <1>5, <2>1
  <1> HIDE DEF N
  <1>6. Nat \subseteq N
    BY <1>4, <1>5, NatSet
  <1>7. h[Len(s)] = f[Len(s)]
    BY <1>6 DEF N
  <1>8. h[Len(r)] = step[h[Len(s)]][b]
    BY <1>1, <1>3
  <1> QED
    BY <1>2, <1>3, <1>7, <1>8 DEF r
-----------------------------------------------------------------------------
(* The ends of a set of positions.                                         *)
LEMMA Extremes ==
  ASSUME NEW n \in Nat, NEW S \in SUBSET (1..n), S # {}
  PROVE  Min(S) \in S /\ Max(S) \in S /\ \A i \in S : Min(S) <= i /\ i <= Max(S)
  <1>0. S \subseteq Nat
    OBVIOUS
  <1>1. \E x \in S : \A y \in S : x <= y
    <2>1. PICK x \in S : \A y \in S : ~(<<y, x>> \in OpToRel(<, Nat))
      BY <1>0, WFMin, NatLessThanWellFounded
    <2>2. ASSUME NEW y \in S, y < x PROVE FALSE
      <3>1. <<y, x>> \in {ss \in Nat \X Nat : ss[1] < ss[2]}
        BY <1>0, <2>2
      <3> QED
        BY <2>1, <3>1 DEF OpToRel
    <2> QED
      BY <2>2
  <1>2. \E x \in S : \A y \in S : x >= y
    <2> DEFINE T == {z \in 0..n : n - z \in S}
    <2>1. T \subseteq Nat /\ T # {}
      <3>1. PICK y \in S : TRUE
        OBVIOUS
      <3>2. n - y \in 0..n /\ n - (n - y) = y
        BY <1>0
      <3>3. n - y \in T
        BY <3>2
      <3>4. T \subseteq Nat
        OBVIOUS
      <3> QED
        BY <3>3, <3>4
    <2>2. PICK t \in T : \A y \in T : ~(<<y, t>> \in OpToRel(<, Nat))
      BY <2>1, WFMin, NatLessThanWellFounded
    <2>3. n - t \in S
      OBVIOUS
    <2>4. ASSUME NEW y \in S, y > n - t PROVE FALSE
      <3>1. n - y \in T /\ n - y < t
        BY <2>4
      <3>2. <<n - y, t>> \in {ss \in Nat \X Nat : ss[1] < ss[2]}
        BY <2>1, <3>1
      <3> HIDE DEF T
      <3> QED
        BY <2>2, <3>1, <3>2 DEF OpToRel
    <2> QED
      BY <2>3, <2>4
  <1> QED
    BY <1>1, <1>2 DEF Min, Max
-----------------------------------------------------------------------------
(* Texts as sequences.                                                     *)
LEMMA TextLen ==
  ASSUME NEW s \in Text
  PROVE  /\ Len(s) \in Nat /\ DOMAIN s = 1..Len(s)
         /\ \A i \in 1..Len(s) : s[i] \in Byte
         /\ s = <<>> <=> Len(s) = 0
  <1>1. s \in Seq(Byte)
    BY DEF Text
  <1>2. Len(s) \in Nat /\ DOMAIN s = 1..Len(s) /\ s \in [1..Len(s) -> Byte]
    BY <1>1, LenProperties
  <1>3. s # <<>> => Len(s) \in Nat \ {0}
    BY <1>1, EmptySeq
  <1>4. Len(<<>>) = 0
    OBVIOUS
  <1> QED
    BY <1>2, <1>3, <1>4

LEMMA TextEmpty == <<>> \in Text /\ Len(<<>>) = 0
  BY EmptySeq DEF Text

LEMMA TextAppend ==
  ASSUME NEW s \in Text, NEW b \in Byte
  PROVE  /\ Append(s, b) \in Text /\ Append(s, b) # <<>>
         /\ Len(Append(s, b)) = Len(s) + 1 /\ Append(s, b)[Len(s) + 1] = b
         /\ \A i \in 1..Len(s) : Append(s, b)[i] = s[i]
  <1>1. s \in Seq(Byte) /\ b \in Byte /\ Text = Seq(Byte)
    BY DEF Text
  <1> QED
    BY <1>1, AppendProperties

LEMMA TextConcat ==
  ASSUME NEW r \in Text, NEW s \in Text
  PROVE  /\ r \o s \in Text /\ Len(r \o s) = Len(r) + Len(s)
         /\ \A i \in 1..Len(r) : (r \o s)[i] = r[i]
         /\ \A i \in 1..Len(s) : (r \o s)[Len(r) + i] = s[i]
         /\ r \o <<>> = r /\ <<>> \o r = r
  <1>1. r \in Seq(Byte) /\ s \in Seq(Byte)
    BY DEF Text
  <1>2. /\ r \o s \in Seq(Byte) /\ Len(r \o s) = Len(r) + Len(s)
        /\ \A i \in 1 .. Len(r) + Len(s) : (r \o s)[i] = IF i <= Len(r) THEN r[i] ELSE s[i - Len(r)]
    BY <1>1, ConcatProperties
  <1>3. r \o <<>> = r /\ <<>> \o r = r
    BY <1>1, ConcatEmptySeq
  <1>4. Len(r) \in Nat /\ Len(s) \in Nat
    BY <1>1, LenProperties
  <1>5. ASSUME NEW i \in 1..Len(s) PROVE (r \o s)[Len(r) + i] = s[i]
    <2>1. Len(r) + i \in 1..Len(r) + Len(s) /\ ~(Len(r) + i <= Len(r)) /\ (Len(r) + i) - Len(r) = i
      BY <1>4
    <2> QED
      BY <1>2, <2>1
  <1>6. \A i \in 1..Len(r) : i \in 1..Len(r) + Len(s) /\ i <= Len(r)
    BY <1>4
  <1> QED
    BY <1>2, <1>3, <1>5, <1>6 DEF Text

LEMMA TextAppendConcat ==
  ASSUME NEW r \in Text, NEW s \in Text, NEW b \in Byte
  PROVE  r \o Append(s, b) = Append(r \o s, b)
  <1>0. r \in Seq(Byte) /\ s \in Seq(Byte) /\ b \in Byte
    BY DEF Text
  <1>1. <<b>> \in Seq(Byte)
    BY <1>0
  <1>2. r \o s \in Seq(Byte)
    BY <1>0, ConcatProperties
  <1>3. Append(s, b) = s \o <<b>> /\ Append(r \o s, b) = (r \o s) \o <<b>>
    BY <1>0, <1>2, AppendIsConcat
  <1> QED
    BY <1>0, <1>1, <1>3, ConcatAssociative

LEMMA TextAssociative ==
  ASSUME NEW r \in Text, NEW s \in Text, NEW t \in Text
  PROVE  (r \o s) \o t = r \o (s \o t)
  <1>1. r \in Seq(Byte) /\ s \in Seq(Byte) /\ t \in Seq(Byte)
    BY DEF Text
  <1> QED
    BY <1>1, ConcatAssociative

Regroups(x, a, b, c) ==
  /\ x \o a \in Text
  /\ x \o (a \o b) = (x \o a) \o b
  /\ (x \o (a \o b)) \o c = (x \o a) \o (b \o c)

LEMMA TextRegrouped ==
  ASSUME NEW x \in Text, NEW a \in Text, NEW b \in Text, NEW c \in Text
  PROVE  Regroups(x, a, b, c)
  <1> DEFINE u == x \o a
  <1>1. u \in Text
    BY TextConcat
  <1>2. x \o (a \o b) = u \o b
    BY TextAssociative
  <1>3. u = x \o a
    OBVIOUS
  <1> HIDE DEF u
  <1>4. (u \o b) \o c = u \o (b \o c)
    BY <1>1, TextAssociative
  <1>5. (x \o (a \o b)) \o c = (u \o b) \o c
    BY <1>2
  <1> QED
    BY <1>1, <1>2, <1>3, <1>4, <1>5 DEF Regroups

LEMMA TextSub ==
  ASSUME NEW t \in Text, NEW p \in 1..Len(t) + 1, NEW q \in (p - 1)..Len(t)
  PROVE  /\ SubSeq(t, p, q) \in Text /\ Len(SubSeq(t, p, q)) = q - p + 1
         /\ \A i \in 1..(q - p + 1) : SubSeq(t, p, q)[i] = t[p + i - 1]
  <1>1. t \in Seq(Byte)
    BY DEF Text
  <1>2. p \in Int /\ q \in Int /\ \A i \in p..q : t[i] \in Byte
    BY <1>1, LenProperties, ElementOfSeq
  <1>3. /\ SubSeq(t, p, q) \in Seq(Byte)
        /\ Len(SubSeq(t, p, q)) = IF p <= q THEN q - p + 1 ELSE 0
        /\ \A i \in 1..(q - p + 1) : SubSeq(t, p, q)[i] = t[p + i - 1]
    BY <1>2, SubSeqProperties
  <1> QED
    BY <1>1, <1>2, <1>3, LenProperties DEF Text

LEMMA TextParts ==
  ASSUME NEW t \in Text, NEW p \in 1..Len(t) + 1, NEW k \in (p - 1)..Len(t), NEW q \in k..Len(t)
  PROVE  SubSeq(t, p, k) \o SubSeq(t, k + 1, q) = SubSeq(t, p, q)
  <1>1. t \in Seq(Byte)
    BY DEF Text
  <1> QED
    BY <1>1, ConcatAdjacentSubSeq

LEMMA TextWhole ==
  ASSUME NEW t \in Text
  PROVE  SubSeq(t, 1, Len(t)) = t
  <1>1. t \in Seq(Byte)
    BY DEF Text
  <1> QED
    BY <1>1, SubSeqFull

LEMMA TextSubSub ==
  ASSUME NEW t \in Text, NEW p \in 1..Len(t), NEW q \in p..Len(t),
         NEW m \in 1..(q - p + 1), NEW n \in m..(q - p + 1)
  PROVE  SubSeq(SubSeq(t, p, q), m, n) = SubSeq(t, p + m - 1, p + n - 1)
  <1>1. t \in Seq(Byte) /\ Len(t) \in Nat
    BY TextLen DEF Text
  <1>2. q \in 1..Len(t) /\ n \in 1..(q - p + 1)
    BY <1>1
  <1> QED
    BY <1>1, <1>2, SubSeqOfSubSeq
LEMMA TextSplit ==
  ASSUME NEW t \in Text, NEW i \in 0..Len(t)
  PROVE  /\ SubSeq(t, 1, i) \in Text /\ Len(SubSeq(t, 1, i)) = i
         /\ \A k \in 1..i : SubSeq(t, 1, i)[k] = t[k]
         /\ SubSeq(t, i + 1, Len(t)) \in Text /\ Len(SubSeq(t, i + 1, Len(t))) = Len(t) - i
         /\ \A k \in 1..(Len(t) - i) : SubSeq(t, i + 1, Len(t))[k] = t[i + k]
         /\ SubSeq(t, 1, i) \o SubSeq(t, i + 1, Len(t)) = t
  <1>0. Len(t) \in Nat
    BY TextLen
  <1>1. /\ 1 \in 1..Len(t) + 1 /\ i \in (1 - 1)..Len(t) /\ i + 1 \in 1..Len(t) + 1
        /\ Len(t) \in i..Len(t) /\ Len(t) \in (i + 1 - 1)..Len(t)
    BY <1>0
  <1>2. /\ SubSeq(t, 1, i) \in Text /\ Len(SubSeq(t, 1, i)) = i - 1 + 1
        /\ \A k \in 1..(i - 1 + 1) : SubSeq(t, 1, i)[k] = t[1 + k - 1]
    BY <1>1, TextSub
  <1>3. /\ SubSeq(t, i + 1, Len(t)) \in Text
        /\ Len(SubSeq(t, i + 1, Len(t))) = Len(t) - (i + 1) + 1
        /\ \A k \in 1..(Len(t) - (i + 1) + 1) : SubSeq(t, i + 1, Len(t))[k] = t[i + 1 + k - 1]
    BY <1>1, TextSub
  <1>4. SubSeq(t, 1, i) \o SubSeq(t, i + 1, Len(t)) = SubSeq(t, 1, Len(t))
    BY <1>1, TextParts
  <1>5. i - 1 + 1 = i /\ Len(t) - (i + 1) + 1 = Len(t) - i
    BY <1>0
  <1>6. \A k \in 1..i : 1 + k - 1 = k
    OBVIOUS
  <1>7. \A k \in 1..(Len(t) - i) : i + 1 + k - 1 = i + k
    OBVIOUS
  <1>8. \A k \in 1..(Len(t) - i) : SubSeq(t, i + 1, Len(t))[k] = t[i + k]
    BY <1>3, <1>5, <1>7
  <1>9. \A k \in 1..i : SubSeq(t, 1, i)[k] = t[k]
    BY <1>2, <1>5, <1>6
  <1> QED
    BY <1>2, <1>3, <1>4, <1>5, <1>8, <1>9, TextWhole
-----------------------------------------------------------------------------
(* The letters of a text.                                                  *)
LEMMA LettersType == \A s \in Text : Letters(s) \in Text
  <1> DEFINE S == {s \in Text : Letters(s) \in Text}
  <1>1. <<>> \in S
    BY FoldEmpty, TextEmpty DEF Letters
  <1>2. ASSUME NEW s \in Text, NEW b \in Byte, s \in S PROVE Append(s, b) \in S
    <2>1. Letters(Append(s, b)) = Spelled[Letters(s)][b]
      BY FoldAppend DEF Letters, Text
    <2>2. Spelled[Letters(s)][b] \in Text
      BY <1>2, TextAppend DEF Spelled
    <2> QED
      BY <1>2, <2>1, <2>2, TextAppend
  <1> HIDE DEF S
  <1>3. Text \subseteq S
    BY <1>1, <1>2, SeqSet DEF Text
  <1> QED
    BY <1>3 DEF S

LEMMA LettersEmpty == Letters(<<>>) = <<>>
  BY FoldEmpty DEF Letters

LEMMA LettersAppend ==
  ASSUME NEW s \in Text, NEW b \in Byte
  PROVE  Letters(Append(s, b)) = IF b \in White THEN Letters(s) ELSE Append(Letters(s), b)
  <1>1. Letters(Append(s, b)) = Spelled[Letters(s)][b]
    BY FoldAppend DEF Letters, Text
  <1> QED
    BY <1>1, LettersType DEF Spelled

LEMMA LettersConcat ==
  ASSUME NEW r \in Text, NEW t \in Text
  PROVE  Letters(r \o t) = Letters(r) \o Letters(t)
  <1> DEFINE S == {s \in Text : Letters(r \o s) = Letters(r) \o Letters(s)}
  <1>1. <<>> \in S
    BY LettersEmpty, LettersType, TextConcat, TextEmpty
  <1>2. ASSUME NEW s \in Text, NEW b \in Byte, s \in S PROVE Append(s, b) \in S
    <2>1. r \o s \in Text /\ r \o Append(s, b) = Append(r \o s, b)
      BY TextConcat, TextAppendConcat
    <2>2. Letters(r) \in Text /\ Letters(s) \in Text
      BY LettersType
    <2>3. Letters(r) \o Append(Letters(s), b) = Append(Letters(r) \o Letters(s), b)
      BY <2>2, TextAppendConcat
    <2>4. Letters(r \o Append(s, b)) = Letters(r) \o Letters(Append(s, b))
      <3>1. Letters(r \o Append(s, b)) = IF b \in White THEN Letters(r \o s) ELSE Append(Letters(r \o s), b)
        BY <2>1, LettersAppend
      <3>2. Letters(Append(s, b)) = IF b \in White THEN Letters(s) ELSE Append(Letters(s), b)
        BY LettersAppend
      <3>3. Letters(r \o s) = Letters(r) \o Letters(s)
        BY <1>2
      <3> QED
        BY <2>3, <3>1, <3>2, <3>3
    <2> QED
      BY <2>4, TextAppend
  <1> HIDE DEF S
  <1>3. Text \subseteq S
    BY <1>1, <1>2, SeqSet DEF Text
  <1> QED
    BY <1>3 DEF S

(* A text has letters or is blank.                                         *)
LEMMA LettersOrBlank ==
  ASSUME NEW t \in Text
  PROVE  Letters(t) = <<>> <=> \A i \in 1..Len(t) : t[i] \in White
  <1> DEFINE S == {s \in Text : Letters(s) = <<>> <=> \A i \in 1..Len(s) : s[i] \in White}
  <1>1. <<>> \in S
    BY LettersEmpty, TextEmpty
  <1>2. ASSUME NEW s \in Text, NEW b \in Byte, s \in S PROVE Append(s, b) \in S
    <2> DEFINE r == Append(s, b)
    <2>1. /\ r \in Text /\ Len(r) = Len(s) + 1 /\ Len(s) \in Nat /\ r[Len(r)] = b
          /\ \A i \in 1..Len(s) : r[i] = s[i]
      BY TextAppend, TextLen
    <2>2. Letters(r) = IF b \in White THEN Letters(s) ELSE Append(Letters(s), b)
      BY LettersAppend
    <2>3. Append(Letters(s), b) # <<>>
      BY LettersType, TextAppend
    <2> HIDE DEF r
    <2>4. Letters(r) = <<>> <=> b \in White /\ \A i \in 1..Len(s) : s[i] \in White
      BY <1>2, <2>2, <2>3
    <2>5. (\A i \in 1..Len(r) : r[i] \in White)
             <=> b \in White /\ \A i \in 1..Len(s) : s[i] \in White
      BY <2>1
    <2> QED
      BY <2>1, <2>4, <2>5 DEF r
  <1> HIDE DEF S
  <1>3. Text \subseteq S
    BY <1>1, <1>2, SeqSet DEF Text
  <1> QED
    BY <1>3 DEF S

LEMMA LettersSplit ==
  ASSUME NEW t \in Text, NEW i \in 0..Len(t)
  PROVE  /\ SubSeq(t, 1, i) \in Text /\ SubSeq(t, i + 1, Len(t)) \in Text
         /\ Letters(t) = Letters(SubSeq(t, 1, i)) \o Letters(SubSeq(t, i + 1, Len(t)))
  <1>1. /\ SubSeq(t, 1, i) \in Text /\ SubSeq(t, i + 1, Len(t)) \in Text
        /\ SubSeq(t, 1, i) \o SubSeq(t, i + 1, Len(t)) = t
    BY TextSplit
  <1> QED
    BY <1>1, LettersConcat

(* What is blank at the ends of a text has no letters.                     *)
LEMMA LettersInside ==
  ASSUME NEW t \in Text, NEW p \in 1..Len(t), NEW q \in p..Len(t),
         \A i \in 1..(p - 1) : t[i] \in White,
         \A i \in (q + 1)..Len(t) : t[i] \in White
  PROVE  Letters(t) = Letters(SubSeq(t, p, q))
  <1>0. Len(t) \in Nat /\ p - 1 \in Nat /\ q \in 0..Len(t) /\ p - 1 \in 0..q
    BY TextLen
  <1> DEFINE x == SubSeq(t, 1, q)
             d == SubSeq(t, q + 1, Len(t))
             a == SubSeq(x, 1, p - 1)
             c == SubSeq(x, p - 1 + 1, q)
  <1>1. /\ x \in Text /\ Len(x) = q /\ \A i \in 1..q : x[i] = t[i]
        /\ d \in Text /\ Len(d) = Len(t) - q /\ \A i \in 1..(Len(t) - q) : d[i] = t[q + i]
        /\ x \o d = t
    BY <1>0, TextSplit
  <1>2. /\ a \in Text /\ Len(a) = p - 1 /\ \A i \in 1..(p - 1) : a[i] = x[i]
        /\ c \in Text /\ a \o c = x
    <2> HIDE DEF x
    <2> QED
      BY <1>0, <1>1, TextSplit
  <1>3. c = SubSeq(t, p, q)
    <2>1. /\ 1 \in 1..Len(t) /\ q \in 1..Len(t) /\ p \in 1..(q - 1 + 1) /\ q \in p..(q - 1 + 1)
      BY <1>0
    <2>2. SubSeq(SubSeq(t, 1, q), p, q) = SubSeq(t, 1 + p - 1, 1 + q - 1)
      BY <2>1, TextSubSub
    <2>3. 1 + p - 1 = p /\ 1 + q - 1 = q /\ p - 1 + 1 = p
      BY <1>0
    <2> QED
      BY <2>2, <2>3
  <1> HIDE DEF x, d, a, c
  <1>4. Letters(a) = <<>>
    <2>1. \A i \in 1..Len(a) : a[i] \in White
      BY <1>0, <1>1, <1>2
    <2> QED
      BY <1>2, <2>1, LettersOrBlank
  <1>5. Letters(d) = <<>>
    <2>1. \A i \in 1..Len(d) : q + i \in (q + 1)..Len(t)
      BY <1>0, <1>1
    <2>2. \A i \in 1..Len(d) : d[i] \in White
      BY <1>1, <2>1
    <2> QED
      BY <1>1, <2>2, LettersOrBlank
  <1>6. Letters(x) = Letters(c)
    <2>1. Letters(x) = <<>> \o Letters(c)
      BY <1>2, <1>4, LettersConcat
    <2> QED
      BY <1>2, <2>1, LettersType, TextConcat
  <1>7. Letters(t) = Letters(x) \o <<>>
    BY <1>1, <1>5, LettersConcat
  <1> QED
    BY <1>1, <1>3, <1>6, <1>7, LettersType, TextConcat
-----------------------------------------------------------------------------
(* Trimming.                                                               *)
Tight(c) == c \in Text /\ c # <<>> /\ c[1] \notin White /\ c[Len(c)] \notin White

(* The stretch of a text from its first to its last letter.                *)
Core(t, p, q) ==
  /\ p \in 1..Len(t) /\ q \in p..Len(t)
  /\ t[p] \notin White /\ t[q] \notin White
  /\ \A i \in 1..(p - 1) : t[i] \in White
  /\ \A i \in (q + 1)..Len(t) : t[i] \in White

LEMMA TrimmedCore ==
  ASSUME NEW t \in Text
  PROVE  \/ Trimmed(t) = <<>> /\ \A i \in 1..Len(t) : t[i] \in White
         \/ \E p, q \in 1..Len(t) : Core(t, p, q) /\ Trimmed(t) = SubSeq(t, p, q)
  <1> DEFINE L == {i \in DOMAIN t : t[i] \notin White}
  <1>0. DOMAIN t = 1..Len(t) /\ Len(t) \in Nat
    BY TextLen
  <1>1. CASE L = {}
    BY <1>0, <1>1 DEF Trimmed
  <1>2. CASE L # {}
    <2>1. L \in SUBSET (1..Len(t))
      BY <1>0
    <2>2. Trimmed(t) = SubSeq(t, Min(L), Max(L))
      BY <1>2 DEF Trimmed
    <2>3. \A i \in 1..Len(t) : t[i] \notin White <=> i \in L
      BY <1>0
    <2> HIDE DEF L
    <2>4. Min(L) \in L /\ Max(L) \in L /\ \A i \in L : Min(L) <= i /\ i <= Max(L)
      BY <1>0, <1>2, <2>1, Extremes
    <2>5. Core(t, Min(L), Max(L))
      <3> DEFINE p == Min(L)
                 q == Max(L)
      <3>1. p \in 1..Len(t) /\ q \in 1..Len(t) /\ p <= q /\ t[p] \notin White /\ t[q] \notin White
        BY <2>1, <2>3, <2>4
      <3>0. \A i \in L : p <= i /\ i <= q
        BY <2>4
      <3> HIDE DEF p, q
      <3>2. ASSUME NEW i \in 1..Len(t), i < p \/ i > q PROVE t[i] \in White
        <4>1. i \notin L
          BY <1>0, <3>0, <3>1, <3>2
        <4> QED
          BY <2>3, <4>1
      <3>3. Core(t, p, q)
        <4>1. /\ \A i \in 1..(p - 1) : i \in 1..Len(t) /\ i < p
              /\ \A i \in (q + 1)..Len(t) : i \in 1..Len(t) /\ i > q
          BY <1>0, <3>1
        <4> QED
          BY <1>0, <3>1, <3>2, <4>1 DEF Core
      <3> QED
        BY <3>3 DEF p, q
    <2> QED
      BY <2>1, <2>2, <2>4, <2>5
  <1> QED
    BY <1>1, <1>2

LEMMA TrimmedText ==
  ASSUME NEW t \in Text
  PROVE  /\ Trimmed(t) \in Text /\ Len(Trimmed(t)) <= Len(t)
         /\ Letters(Trimmed(t)) = Letters(t)
         /\ Trimmed(t) = <<>> \/ Tight(Trimmed(t))
         /\ Trimmed(t) = <<>> <=> Letters(t) = <<>>
  <1>0. Len(t) \in Nat
    BY TextLen
  <1>1. CASE Trimmed(t) = <<>> /\ \A i \in 1..Len(t) : t[i] \in White
    BY <1>0, <1>1, LettersOrBlank, LettersEmpty, TextEmpty
  <1>2. ASSUME NEW p \in 1..Len(t), NEW q \in 1..Len(t), Core(t, p, q),
               Trimmed(t) = SubSeq(t, p, q)
        PROVE  /\ Trimmed(t) \in Text /\ Len(Trimmed(t)) <= Len(t)
               /\ Letters(Trimmed(t)) = Letters(t)
               /\ Tight(Trimmed(t))
               /\ Letters(t) # <<>>
    <2>1. q \in p..Len(t)
      BY <1>2 DEF Core
    <2> DEFINE c == SubSeq(t, p, q)
    <2>2. /\ c \in Text /\ Len(c) = q - p + 1 /\ c[1] = t[p] /\ c[Len(c)] = t[q]
      <3>1. p \in 1..Len(t) + 1 /\ q \in (p - 1)..Len(t) /\ 1 \in 1..(q - p + 1)
        BY <1>0, <2>1
      <3>2. /\ c \in Text /\ Len(c) = q - p + 1
            /\ \A i \in 1..(q - p + 1) : c[i] = t[p + i - 1]
        BY <3>1, TextSub
      <3>3. p + 1 - 1 = p /\ p + (q - p + 1) - 1 = q /\ q - p + 1 \in 1..(q - p + 1)
        BY <3>1
      <3> QED
        BY <3>1, <3>2, <3>3
    <2> HIDE DEF c
    <2>5. Letters(t) = Letters(c)
      BY <1>2, <2>1, LettersInside DEF Core, c
    <2>6. Tight(c)
      BY <1>2, <2>1, <2>2 DEF Core, Tight
    <2>7. Letters(t) # <<>>
      BY <1>2, LettersOrBlank DEF Core
    <2> QED
      BY <1>0, <1>2, <2>1, <2>2, <2>5, <2>6, <2>7 DEF c
  <1> QED
    BY <1>1, <1>2, TrimmedCore DEF Tight

LEMMA TightStays ==
  ASSUME NEW c, Tight(c)
  PROVE  Trimmed(c) = c /\ Letters(c) # <<>> /\ Len(c) \in Nat \ {0}
  <1>1. c \in Text /\ Len(c) \in Nat \ {0}
    BY TextLen DEF Tight
  <1>2. ~\A i \in 1..Len(c) : c[i] \in White
    BY <1>1 DEF Tight
  <1>3. PICK p, q \in 1..Len(c) : Core(c, p, q) /\ Trimmed(c) = SubSeq(c, p, q)
    BY <1>1, <1>2, TrimmedCore
  <1>4. p = 1 /\ q = Len(c)
    BY <1>1, <1>3 DEF Core, Tight
  <1>5. SubSeq(c, 1, Len(c)) = c
    BY <1>1, TextWhole
  <1> QED
    BY <1>1, <1>2, <1>3, <1>4, <1>5, LettersOrBlank

(* Trimming a text leaves of its first o bytes the letters.                *)
LEMMA TrimmedPrefix ==
  ASSUME NEW t \in Text, NEW o \in 0..Len(t)
  PROVE  \E j \in 0..o : /\ j <= Len(Trimmed(t))
                         /\ Letters(SubSeq(Trimmed(t), 1, j)) = Letters(SubSeq(t, 1, o))
  <1>0. Len(t) \in Nat
    BY TextLen
  <1> DEFINE u == SubSeq(t, 1, o)
  <1>1. u \in Text /\ Len(u) = o /\ \A i \in 1..o : u[i] = t[i]
    <2>1. 1 \in 1..Len(t) + 1 /\ o \in (1 - 1)..Len(t) /\ o - 1 + 1 = o
      BY <1>0
    <2>2. u \in Text /\ Len(u) = o - 1 + 1 /\ \A i \in 1..Len(u) : u[i] = t[1 + i - 1]
      BY <2>1, TextSub
    <2>3. \A i \in 1..o : 1 + i - 1 = i
      OBVIOUS
    <2> HIDE DEF u
    <2> QED
      BY <2>1, <2>2, <2>3
  <1>2. ASSUME \A i \in 1..o : t[i] \in White
        PROVE  \E j \in 0..o : /\ j <= Len(Trimmed(t))
                               /\ Letters(SubSeq(Trimmed(t), 1, j)) = Letters(u)
    <2>1. Letters(u) = <<>>
      BY <1>1, <1>2, LettersOrBlank
    <2>2. SubSeq(Trimmed(t), 1, 0) = <<>> /\ Len(Trimmed(t)) \in Nat
      BY SubSeqEmpty, TrimmedText, TextLen
    <2>3. 0 \in 0..o /\ 0 <= Len(Trimmed(t))
      BY <1>0, <2>2
    <2> HIDE DEF u
    <2> QED
      BY <2>1, <2>2, <2>3, LettersEmpty
  <1>3. ASSUME NEW p \in 1..Len(t), NEW q \in 1..Len(t), Core(t, p, q),
               Trimmed(t) = SubSeq(t, p, q), p <= o
        PROVE  \E j \in 0..o : /\ j <= Len(Trimmed(t))
                               /\ Letters(SubSeq(Trimmed(t), 1, j)) = Letters(u)
    <2>1. q \in p..Len(t)
      BY <1>3 DEF Core
    <2> DEFINE e == IF o <= q THEN o ELSE q
               j == e - p + 1
               w == SubSeq(t, p, e)
    <2>2. e \in p..q /\ e <= o /\ e \in 1..Len(t)
      BY <1>0, <1>3, <2>1 DEF Core
    <2>3. j \in 0..o /\ j <= q - p + 1 /\ Len(Trimmed(t)) = q - p + 1 /\ j >= 1
      BY <1>0, <1>3, <2>1, <2>2, TextSub
    <2>4. SubSeq(Trimmed(t), 1, j) = w
      <3>1. 1 \in 1..(q - p + 1) /\ j \in 1..(q - p + 1) /\ p + 1 - 1 = p /\ p + j - 1 = e
        BY <1>0, <2>1, <2>2, <2>3
      <3>2. SubSeq(SubSeq(t, p, q), 1, j) = SubSeq(t, p + 1 - 1, p + j - 1)
        BY <2>1, <3>1, TextSubSub
      <3> QED
        BY <1>3, <3>1, <3>2
    <2>5. SubSeq(u, p, e) = w
      <3>1. /\ 1 \in 1..Len(t) /\ o \in 1..Len(t) /\ p \in 1..(o - 1 + 1) /\ e \in p..(o - 1 + 1)
            /\ 1 + p - 1 = p /\ 1 + e - 1 = e
        BY <1>0, <1>3, <2>2
      <3>2. SubSeq(SubSeq(t, 1, o), p, e) = SubSeq(t, 1 + p - 1, 1 + e - 1)
        BY <3>1, TextSubSub
      <3> QED
        BY <3>1, <3>2
    <2> HIDE DEF w, u, j
    <2>6. /\ p \in 1..Len(u) /\ e \in p..Len(u)
          /\ \A i \in 1..(p - 1) : u[i] \in White
          /\ \A i \in (e + 1)..Len(u) : u[i] \in White
      <3>1. p \in 1..Len(u) /\ e \in p..Len(u)
        BY <1>0, <1>1, <1>3, <2>2
      <3>2. \A i \in 1..(p - 1) : i \in 1..o /\ t[i] \in White
        BY <1>0, <1>3 DEF Core
      <3>3. \A i \in (e + 1)..o : i \in 1..o /\ i \in (q + 1)..Len(t)
        BY <1>0, <1>3, <2>2
      <3>4. \A i \in (e + 1)..o : t[i] \in White
        BY <1>3, <3>3 DEF Core
      <3> QED
        BY <1>1, <3>1, <3>2, <3>3, <3>4
    <2> HIDE DEF e
    <2>9. Letters(u) = Letters(w)
      BY <1>1, <2>5, <2>6, LettersInside
    <2> QED
      BY <2>3, <2>4, <2>9
  <1>4. CASE Trimmed(t) = <<>> /\ \A i \in 1..Len(t) : t[i] \in White
    BY <1>2, <1>4
  <1>5. ASSUME NEW p \in 1..Len(t), NEW q \in 1..Len(t), Core(t, p, q), o < p
        PROVE  \A i \in 1..o : t[i] \in White
    BY <1>0, <1>5 DEF Core
  <1>6. ASSUME NEW p \in 1..Len(t), NEW q \in 1..Len(t), Core(t, p, q),
               Trimmed(t) = SubSeq(t, p, q)
        PROVE  \E j \in 0..o : /\ j <= Len(Trimmed(t))
                               /\ Letters(SubSeq(Trimmed(t), 1, j)) = Letters(u)
    <2>1. p <= o \/ o < p
      OBVIOUS
    <2> QED
      BY <1>2, <1>3, <1>5, <1>6, <2>1
  <1> QED
    BY <1>4, <1>6, TrimmedCore
-----------------------------------------------------------------------------
(* Cutting a text that is too long.                                        *)
Sizes(size, overlap) == size \in Nat /\ overlap \in Nat /\ overlap < size

LEMMA PieceAndRest ==
  ASSUME NEW size, NEW overlap, Sizes(size, overlap), NEW c \in Text, Len(c) > size
  PROVE  /\ Piece(c, size) \in Text /\ Rest(c, size, overlap) \in Text
         /\ Len(Piece(c, size)) <= size /\ Len(Rest(c, size, overlap)) < Len(c)
  <1>1. Len(c) \in Nat /\ size \in 0..Len(c) /\ size - overlap \in 0..Len(c)
    BY TextLen DEF Sizes
  <1>2. SubSeq(c, 1, size) \in Text /\ Len(SubSeq(c, 1, size)) = size
    BY <1>1, TextSplit
  <1> DEFINE w == SubSeq(c, size - overlap + 1, Len(c))
  <1>3. w \in Text /\ Len(w) = Len(c) - (size - overlap)
    BY <1>1, TextSplit
  <1>4. Len(w) < Len(c)
    BY <1>1, <1>3 DEF Sizes
  <1> HIDE DEF w
  <1>5. Trimmed(w) \in Text /\ Len(Trimmed(w)) <= Len(w) /\ Len(w) \in Nat
    BY <1>3, TrimmedText, TextLen
  <1>6. Rest(c, size, overlap) = Trimmed(w)
    BY DEF Rest, w
  <1>7. Len(Trimmed(w)) \in Nat
    BY <1>5, TextLen
  <1>8. Piece(c, size) \in Text /\ Len(Piece(c, size)) <= size
    BY <1>2, TrimmedText DEF Piece
  <1> QED
    BY <1>1, <1>4, <1>5, <1>6, <1>7, <1>8

(* The function of the loop, on the texts in D.                            *)
Cuts(f, D, size, overlap) ==
  f = [current \in D |->
         IF Len(current) <= size THEN <<current>>
         ELSE <<Piece(current, size)>> \o f[Rest(current, size, overlap)]]

UpTo(k) == {t \in Text : Len(t) <= k}

LEMMA CutsUpTo ==
  ASSUME NEW size, NEW overlap, Sizes(size, overlap), NEW k \in Nat
  PROVE  \E f : Cuts(f, UpTo(k), size, overlap)
  <1> DEFINE N == {n \in Nat : \E f : Cuts(f, UpTo(n), size, overlap)}
  <1>1. 0 \in N
    <2> DEFINE f == [current \in UpTo(0) |-> <<current>>]
    <2>1. \A t \in UpTo(0) : Len(t) <= size
      BY TextLen DEF UpTo, Sizes
    <2>2. Cuts(f, UpTo(0), size, overlap)
      BY <2>1 DEF Cuts
    <2> QED
      BY <2>2
  <1>2. ASSUME NEW n \in Nat, n \in N PROVE n + 1 \in N
    <2>1. PICK g : Cuts(g, UpTo(n), size, overlap)
      BY <1>2
    <2> DEFINE h == [current \in UpTo(n + 1) |->
                       IF Len(current) <= size THEN <<current>>
                       ELSE <<Piece(current, size)>> \o g[Rest(current, size, overlap)]]
    <2>2. ASSUME NEW t \in UpTo(n + 1), ~(Len(t) <= size)
          PROVE  h[Rest(t, size, overlap)] = g[Rest(t, size, overlap)]
      <3> DEFINE r == Rest(t, size, overlap)
      <3>1. t \in Text /\ Len(t) \in Nat /\ Len(t) <= n + 1 /\ Len(t) > size
        BY <2>2, TextLen DEF UpTo, Sizes
      <3>2. r \in Text /\ Len(r) < Len(t) /\ Len(r) \in Nat
        BY <3>1, PieceAndRest, TextLen
      <3> HIDE DEF r
      <3>3. r \in UpTo(n) /\ r \in UpTo(n + 1)
        BY <3>1, <3>2 DEF UpTo
      <3>4. g[r] = IF Len(r) <= size THEN <<r>>
                   ELSE <<Piece(r, size)>> \o g[Rest(r, size, overlap)]
        BY <2>1, <3>3 DEF Cuts
      <3>5. h[r] = g[r]
        BY <3>3, <3>4
      <3> QED
        BY <3>5 DEF r
    <2>3. \A t \in UpTo(n + 1) :
            h[t] = IF Len(t) <= size THEN <<t>>
                   ELSE <<Piece(t, size)>> \o h[Rest(t, size, overlap)]
      BY <2>2
    <2>4. h = [t \in UpTo(n + 1) |-> h[t]]
      OBVIOUS
    <2> HIDE DEF h
    <2>5. Cuts(h, UpTo(n + 1), size, overlap)
      BY <2>3, <2>4 DEF Cuts
    <2> QED
      BY <2>5
  <1> HIDE DEF N
  <1>3. Nat \subseteq N
    BY <1>1, <1>2, NatSet
  <1> QED
    BY <1>3 DEF N

LEMMA CutsAgree ==
  ASSUME NEW size, NEW overlap, Sizes(size, overlap), NEW k \in Nat, NEW l \in Nat,
         NEW f, Cuts(f, UpTo(k), size, overlap), NEW g, Cuts(g, UpTo(l), size, overlap),
         NEW t \in Text, Len(t) <= k, Len(t) <= l
  PROVE  f[t] = g[t]
  <1> DEFINE N == {n \in Nat : \A s \in Text : Len(s) <= n /\ Len(s) <= k /\ Len(s) <= l
                                                 => f[s] = g[s]}
  <1>1. ASSUME NEW s \in Text, Len(s) <= k, Len(s) <= l,
               Len(s) > size => f[Rest(s, size, overlap)] = g[Rest(s, size, overlap)]
        PROVE  f[s] = g[s]
    <2>1. s \in UpTo(k) /\ s \in UpTo(l) /\ Len(s) \in Nat
      BY <1>1, TextLen DEF UpTo
    <2>2. /\ f[s] = IF Len(s) <= size THEN <<s>>
                    ELSE <<Piece(s, size)>> \o f[Rest(s, size, overlap)]
          /\ g[s] = IF Len(s) <= size THEN <<s>>
                    ELSE <<Piece(s, size)>> \o g[Rest(s, size, overlap)]
      BY <2>1 DEF Cuts
    <2>3. Len(s) <= size \/ Len(s) > size
      BY <2>1 DEF Sizes
    <2> QED
      BY <1>1, <2>2, <2>3
  <1>2. 0 \in N
    <2>1. \A s \in Text : Len(s) <= 0 => ~(Len(s) > size)
      BY TextLen DEF Sizes
    <2> QED
      BY <1>1, <2>1
  <1>3. ASSUME NEW n \in Nat, n \in N PROVE n + 1 \in N
    <2> SUFFICES ASSUME NEW s \in Text, Len(s) <= n + 1, Len(s) <= k, Len(s) <= l,
                        Len(s) > size
                 PROVE  f[Rest(s, size, overlap)] = g[Rest(s, size, overlap)]
      BY <1>1
    <2> DEFINE r == Rest(s, size, overlap)
    <2>1. r \in Text /\ Len(r) < Len(s) /\ Len(r) \in Nat /\ Len(s) \in Nat
      BY PieceAndRest, TextLen
    <2> HIDE DEF r
    <2>2. Len(r) <= n /\ Len(r) <= k /\ Len(r) <= l
      BY <2>1
    <2> QED
      BY <1>3, <2>1, <2>2 DEF r
  <1> HIDE DEF N
  <1>4. Nat \subseteq N
    BY <1>2, <1>3, NatSet
  <1>5. Len(t) \in N /\ Len(t) <= Len(t)
    BY <1>4, TextLen
  <1> QED
    BY <1>5 DEF N

(* What `Cut` does, for every text.                                        *)
LEMMA CutSteps ==
  ASSUME NEW size, NEW overlap, Sizes(size, overlap), NEW text \in Text
  PROVE  Cut(text, size, overlap) =
           IF Len(text) <= size THEN <<text>>
           ELSE <<Piece(text, size)>> \o Cut(Rest(text, size, overlap), size, overlap)
  <1> DEFINE G == [k \in Nat |-> CHOOSE g : Cuts(g, UpTo(k), size, overlap)]
             F == [t \in Text |-> G[Len(t)][t]]
  <1>1. \A k \in Nat : Cuts(G[k], UpTo(k), size, overlap)
    BY CutsUpTo
  <1> HIDE DEF G
  <1>2. ASSUME NEW t \in Text
        PROVE  F[t] = IF Len(t) <= size THEN <<t>>
                      ELSE <<Piece(t, size)>> \o F[Rest(t, size, overlap)]
    <2>1. Len(t) \in Nat /\ t \in UpTo(Len(t)) /\ F[t] = G[Len(t)][t]
      BY TextLen DEF UpTo
    <2>2. F[t] = IF Len(t) <= size THEN <<t>>
                 ELSE <<Piece(t, size)>> \o G[Len(t)][Rest(t, size, overlap)]
      BY <1>1, <2>1 DEF Cuts
    <2>3. ASSUME ~(Len(t) <= size)
          PROVE  G[Len(t)][Rest(t, size, overlap)] = F[Rest(t, size, overlap)]
      <3> DEFINE r == Rest(t, size, overlap)
      <3>1. Len(t) > size
        BY <2>1, <2>3 DEF Sizes
      <3>2. r \in Text /\ Len(r) < Len(t) /\ Len(r) \in Nat
        BY <3>1, PieceAndRest, TextLen
      <3> HIDE DEF r
      <3>3. Len(r) <= Len(t) /\ Len(r) <= Len(r)
        BY <2>1, <3>2
      <3>4. G[Len(t)][r] = G[Len(r)][r]
        BY <1>1, <2>1, <3>2, <3>3, CutsAgree
      <3>5. F[r] = G[Len(r)][r]
        BY <3>2
      <3> QED
        BY <3>4, <3>5 DEF r
    <2> HIDE DEF F
    <2> QED
      BY <2>2, <2>3
  <1>3. F = [t \in Text |-> F[t]]
    OBVIOUS
  <1> HIDE DEF F
  <1>4. Cuts(F, Text, size, overlap)
    BY <1>2, <1>3 DEF Cuts
  <1> DEFINE C == CHOOSE f : Cuts(f, Text, size, overlap)
  <1>5. Cuts(C, Text, size, overlap)
    BY <1>4
  <1>6. \A t : Cut(t, size, overlap) = C[t]
    BY DEF Cut, Cuts
  <1> HIDE DEF C
  <1>7. C[text] = IF Len(text) <= size THEN <<text>>
                  ELSE <<Piece(text, size)>> \o C[Rest(text, size, overlap)]
    BY <1>5 DEF Cuts
  <1> QED
    BY <1>6, <1>7
-----------------------------------------------------------------------------
LEMMA FrontAndLast ==
  ASSUME NEW B, NEW s \in Seq(B), NEW b \in B
  PROVE  Front(Append(s, b)) = s /\ Last(Append(s, b)) = b
  <1> DEFINE r == Append(s, b)
  <1>1. /\ r \in Seq(B) /\ Len(r) = Len(s) + 1 /\ r[Len(s) + 1] = b
        /\ \A i \in 1..Len(s) : r[i] = s[i]
    BY AppendProperties
  <1>2. Len(s) \in Nat
    BY LenProperties
  <1> HIDE DEF r
  <1>3. Last(r) = b
    BY <1>1 DEF Last
  <1> DEFINE f == SubSeq(r, 1, Len(s))
  <1>4. \A i \in 1..Len(s) : r[i] \in B
    BY <1>1, ElementOfSeq
  <1>5. f \in Seq(B) /\ Len(f) = Len(s) /\ \A i \in 1..Len(s) : f[i] = r[i]
    <2>1. 1 \in Int /\ Len(s) \in Int
      BY <1>2
    <2>2. /\ f \in Seq(B) /\ Len(f) = IF 1 <= Len(s) THEN Len(s) - 1 + 1 ELSE 0
          /\ \A i \in 1..(Len(s) - 1 + 1) : f[i] = r[1 + i - 1]
      BY <1>4, <2>1, SubSeqProperties
    <2> QED
      BY <1>2, <2>2
  <1>6. Front(r) = f
    <2>1. Len(r) - 1 = Len(s)
      BY <1>1, <1>2
    <2> QED
      BY <2>1 DEF Front
  <1> HIDE DEF f
  <1>7. f = s
    BY <1>1, <1>5, SeqEqual
  <1> QED
    BY <1>3, <1>6, <1>7 DEF r

(* Chunks that hold a text, as far as its first n letters.  The letters of *)
(* the i-th stand behind the letters before[i].                            *)
Reach(cs, before, i) == Len(before[i]) + Len(Letters(cs[i]))

Placed(cs, before, size, all) ==
  /\ cs \in Seq(Text) /\ before \in [1..Len(cs) -> Text]
  /\ \A i \in 1..Len(cs) :
       /\ Tight(cs[i]) /\ Len(cs[i]) <= size
       /\ \E y \in Text : all = (before[i] \o Letters(cs[i])) \o y
       /\ Len(before[i]) <= (IF i = 1 THEN 0 ELSE Reach(cs, before, i - 1))
       /\ i # 1 => Reach(cs, before, i - 1) <= Reach(cs, before, i)

Built(cs, size, all, n) ==
  \E before : /\ Placed(cs, before, size, all)
              /\ n = IF Len(cs) = 0 THEN 0 ELSE Reach(cs, before, Len(cs))

LEMMA BuiltEmpty ==
  ASSUME NEW size, NEW all
  PROVE  Built(<<>>, size, all, 0)
  <1>1. <<>> \in Seq(Text) /\ Len(<<>>) = 0 /\ 1..0 = {}
    BY EmptySeq
  <1>2. Placed(<<>>, [i \in 1..0 |-> <<>>], size, all)
    BY <1>1 DEF Placed
  <1> QED
    BY <1>1, <1>2 DEF Built

LEMMA BuiltType ==
  ASSUME NEW cs, NEW size, NEW all, NEW n, Built(cs, size, all, n)
  PROVE  /\ cs \in Seq(Text) /\ Len(cs) \in Nat /\ n \in Nat
         /\ \A i \in 1..Len(cs) : cs[i] \in Text /\ Tight(cs[i]) /\ Len(cs[i]) <= size
  <1>1. PICK before : /\ Placed(cs, before, size, all)
                      /\ n = IF Len(cs) = 0 THEN 0 ELSE Reach(cs, before, Len(cs))
    BY DEF Built
  <1>2. cs \in Seq(Text) /\ before \in [1..Len(cs) -> Text]
    BY <1>1 DEF Placed
  <1>3. Len(cs) \in Nat /\ \A i \in 1..Len(cs) : cs[i] \in Text
    BY <1>2, LenProperties
  <1>4. \A i \in 1..Len(cs) : Reach(cs, before, i) \in Nat
    BY <1>2, <1>3, LettersType, TextLen DEF Reach
  <1>5. n \in Nat
    <2>1. Len(cs) = 0 \/ Len(cs) \in 1..Len(cs)
      BY <1>3
    <2> QED
      BY <1>1, <1>4, <2>1
  <1> QED
    BY <1>1, <1>2, <1>3, <1>5 DEF Placed

(* One chunk more.                                                         *)
LEMMA BuiltAppend ==
  ASSUME NEW size, NEW all, NEW cs, NEW n, Built(cs, size, all, n),
         NEW c, Tight(c), Len(c) <= size, NEW x \in Text,
         \E y \in Text : all = (x \o Letters(c)) \o y,
         Len(x) <= n, n <= Len(x) + Len(Letters(c))
  PROVE  Built(Append(cs, c), size, all, Len(x) + Len(Letters(c)))
  <1>1. PICK before : /\ Placed(cs, before, size, all)
                      /\ n = IF Len(cs) = 0 THEN 0 ELSE Reach(cs, before, Len(cs))
    BY DEF Built
  <1> DEFINE ds == Append(cs, c)
             l == Len(cs)
             after == [i \in 1..l + 1 |-> IF i = l + 1 THEN x ELSE before[i]]
  <1>2. cs \in Seq(Text) /\ c \in Text /\ l \in Nat
    BY <1>1, LenProperties DEF Placed, Tight
  <1>3. /\ ds \in Seq(Text) /\ Len(ds) = l + 1 /\ ds[l + 1] = c
        /\ \A i \in 1..l : ds[i] = cs[i]
    BY <1>2, AppendProperties
  <1>4. before \in [1..l -> Text]
    BY <1>1 DEF Placed
  <1>5. /\ after \in [1..l + 1 -> Text] /\ after[l + 1] = x
        /\ \A i \in 1..l : after[i] = before[i]
    BY <1>2, <1>4
  <1> HIDE DEF ds, after
  <1>6. /\ Reach(ds, after, l + 1) = Len(x) + Len(Letters(c))
        /\ \A i \in 1..l : Reach(ds, after, i) = Reach(cs, before, i)
    BY <1>3, <1>5 DEF Reach
  <1> HIDE DEF l
  <1>7. ASSUME NEW i \in 1..l + 1
        PROVE  /\ Tight(ds[i]) /\ Len(ds[i]) <= size
               /\ \E y \in Text : all = (after[i] \o Letters(ds[i])) \o y
               /\ Len(after[i]) <= (IF i = 1 THEN 0 ELSE Reach(ds, after, i - 1))
               /\ i # 1 => Reach(ds, after, i - 1) <= Reach(ds, after, i)
    <2>1. CASE i \in 1..l
      <3>1. i # 1 => i - 1 \in 1..l
        BY <1>2, <2>1
      <3>2. /\ Tight(cs[i]) /\ Len(cs[i]) <= size
            /\ \E y \in Text : all = (before[i] \o Letters(cs[i])) \o y
            /\ Len(before[i]) <= (IF i = 1 THEN 0 ELSE Reach(cs, before, i - 1))
            /\ i # 1 => Reach(cs, before, i - 1) <= Reach(cs, before, i)
        BY <1>1, <2>1 DEF Placed, l
      <3> QED
        BY <1>3, <1>5, <1>6, <2>1, <3>1, <3>2
    <2>2. CASE i = l + 1
      <3>1. i # 1 => i - 1 = l /\ l \in 1..l
        BY <1>2, <2>2
      <3>2. i = 1 <=> l = 0
        BY <1>2, <2>2
      <3>3. n = IF i = 1 THEN 0 ELSE Reach(cs, before, l)
        BY <1>1, <3>2 DEF l
      <3>4. i # 1 => Reach(ds, after, i - 1) = Reach(cs, before, l)
        BY <1>6, <3>1
      <3> QED
        BY <1>3, <1>5, <1>6, <2>2, <3>1, <3>3, <3>4
    <2>3. i \in 1..l \/ i = l + 1
      BY <1>2
    <2> QED
      BY <2>1, <2>2, <2>3
  <1>8. Placed(ds, after, size, all)
    BY <1>3, <1>5, <1>7 DEF Placed
  <1>9. Len(ds) = l + 1 /\ l + 1 # 0
    BY <1>2, <1>3
  <1>10. Built(ds, size, all, Len(x) + Len(Letters(c)))
    BY <1>6, <1>8, <1>9 DEF Built
  <1> QED
    BY <1>10 DEF ds

(* The last chunk: its letters stand behind x and are there up to n.       *)
Stands(c, all, x, n) ==
  (\E y \in Text : all = (x \o Letters(c)) \o y) /\ n = Len(x) + Len(Letters(c))

LEMMA BuiltLast ==
  ASSUME NEW size, NEW all, NEW ds \in Seq(Text), ds # <<>>, NEW n, Built(ds, size, all, n)
  PROVE  \E m \in Nat, x \in Text :
           /\ Built(Front(ds), size, all, m) /\ Stands(Last(ds), all, x, n)
           /\ Len(x) <= m /\ m <= n
  <1>0. PICK cs \in Seq(Text), c \in Text : ds = Append(cs, c)
    BY SequenceEmptyOrAppend
  <1>01. Front(ds) = cs /\ Last(ds) = c
    BY <1>0, FrontAndLast
  <1> DEFINE l == Len(cs)
  <1>1. PICK after : /\ Placed(ds, after, size, all)
                     /\ n = IF Len(ds) = 0 THEN 0 ELSE Reach(ds, after, Len(ds))
    BY DEF Built
  <1>2. l \in Nat /\ Len(ds) = l + 1 /\ ds[l + 1] = c /\ \A i \in 1..l : ds[i] = cs[i]
    BY <1>0, LenProperties, AppendProperties
  <1> DEFINE before == [i \in 1..l |-> after[i]]
             m == IF l = 0 THEN 0 ELSE Reach(cs, before, l)
  <1>3. l + 1 \in 1..l + 1 /\ l + 1 # 0 /\ (l # 0 => l \in 1..l) /\ l + 1 - 1 = l
        /\ (l + 1 = 1 <=> l = 0) /\ 1..l \subseteq 1..l + 1
    BY <1>2
  <1>4. /\ after \in [1..l + 1 -> Text]
        /\ \A i \in 1..l + 1 :
             /\ Tight(ds[i]) /\ Len(ds[i]) <= size
             /\ \E y \in Text : all = (after[i] \o Letters(ds[i])) \o y
             /\ Len(after[i]) <= (IF i = 1 THEN 0 ELSE Reach(ds, after, i - 1))
             /\ i # 1 => Reach(ds, after, i - 1) <= Reach(ds, after, i)
    BY <1>1, <1>2 DEF Placed
  <1>5. before \in [1..l -> Text] /\ \A i \in 1..l : before[i] = after[i]
    BY <1>3, <1>4
  <1> HIDE DEF before, l
  <1>6. \A i \in 1..l : Reach(ds, after, i) = Reach(cs, before, i)
    BY <1>2, <1>5 DEF Reach
  <1>7. Placed(cs, before, size, all)
    <2>1. \A i \in 1..l : i # 1 => i - 1 \in 1..l
      BY <1>2
    <2>2. \A i \in 1..l :
            /\ Tight(cs[i]) /\ Len(cs[i]) <= size
            /\ \E y \in Text : all = (before[i] \o Letters(cs[i])) \o y
            /\ Len(before[i]) <= (IF i = 1 THEN 0 ELSE Reach(cs, before, i - 1))
            /\ i # 1 => Reach(cs, before, i - 1) <= Reach(cs, before, i)
      <3> SUFFICES ASSUME NEW i \in 1..l
                   PROVE  /\ Tight(cs[i]) /\ Len(cs[i]) <= size
                          /\ \E y \in Text : all = (before[i] \o Letters(cs[i])) \o y
                          /\ Len(before[i]) <= (IF i = 1 THEN 0 ELSE Reach(cs, before, i - 1))
                          /\ i # 1 => Reach(cs, before, i - 1) <= Reach(cs, before, i)
        OBVIOUS
      <3>1. i \in 1..l + 1
        BY <1>3
      <3> QED
        BY <1>2, <1>4, <1>5, <1>6, <2>1, <3>1
    <2> QED
      BY <1>5, <2>2 DEF Placed, l
  <1>8. Built(cs, size, all, m)
    BY <1>7 DEF Built, l
  <1> DEFINE x == after[l + 1]
  <1>9. x \in Text /\ (\E y \in Text : all = (x \o Letters(c)) \o y)
    BY <1>2, <1>3, <1>4
  <1>10. n = Reach(ds, after, l + 1) /\ Reach(ds, after, l + 1) = Len(x) + Len(Letters(c))
    BY <1>1, <1>2, <1>3 DEF Reach
  <1>11. l # 0 => m = Reach(ds, after, l)
    BY <1>3, <1>6
  <1>12. /\ Len(x) <= (IF l = 0 THEN 0 ELSE Reach(ds, after, l))
         /\ l # 0 => Reach(ds, after, l) <= Reach(ds, after, l + 1)
    BY <1>3, <1>4
  <1>13. Len(x) \in Nat /\ Len(Letters(c)) \in Nat
    BY <1>9, LettersType, TextLen
  <1>14. Len(x) <= m /\ m <= n
    <2>1. CASE l = 0
      BY <1>10, <1>12, <1>13, <2>1
    <2>2. CASE l # 0
      BY <1>10, <1>11, <1>12, <2>2
    <2> QED
      BY <2>1, <2>2
  <1>15. m \in Nat
    BY <1>8, BuiltType
  <1>16. Stands(c, all, x, n)
    BY <1>9, <1>10 DEF Stands
  <1> HIDE DEF m, x
  <1> QED
    BY <1>01, <1>8, <1>9, <1>14, <1>15, <1>16

(* The text goes on.                                                       *)
LEMMA BuiltGrows ==
  ASSUME NEW size, NEW all \in Text, NEW cs, NEW n, Built(cs, size, all, n), NEW z \in Text
  PROVE  Built(cs, size, all \o z, n)
  <1>1. PICK before : /\ Placed(cs, before, size, all)
                      /\ n = IF Len(cs) = 0 THEN 0 ELSE Reach(cs, before, Len(cs))
    BY DEF Built
  <1>2. cs \in Seq(Text) /\ before \in [1..Len(cs) -> Text]
    BY <1>1 DEF Placed
  <1>3. ASSUME NEW i \in 1..Len(cs)
        PROVE  \E y \in Text : all \o z = (before[i] \o Letters(cs[i])) \o y
    <2>1. PICK y \in Text : all = (before[i] \o Letters(cs[i])) \o y
      BY <1>1 DEF Placed
    <2>2. cs[i] \in Text /\ before[i] \in Text
      BY <1>2, LenProperties
    <2>3. before[i] \o Letters(cs[i]) \in Text /\ y \o z \in Text
      BY <2>2, LettersType, TextConcat
    <2>4. ((before[i] \o Letters(cs[i])) \o y) \o z = (before[i] \o Letters(cs[i])) \o (y \o z)
      BY <2>3, TextAssociative
    <2> QED
      BY <2>1, <2>3, <2>4
  <1>4. Placed(cs, before, size, all \o z)
    BY <1>1, <1>3 DEF Placed
  <1> QED
    BY <1>1, <1>4 DEF Built
-----------------------------------------------------------------------------
(* The beginnings of a text.                                               *)
LEMMA TextBeginning ==
  ASSUME NEW t \in Text, NEW k \in 0..Len(t), NEW o \in 0..(Len(t) - k)
  PROVE  /\ SubSeq(SubSeq(t, k + 1, Len(t)), 1, o) \in Text
         /\ SubSeq(t, 1, k + o) = SubSeq(t, 1, k) \o SubSeq(SubSeq(t, k + 1, Len(t)), 1, o)
  <1> DEFINE a == SubSeq(t, 1, k)
             w == SubSeq(t, k + 1, Len(t))
             z == SubSeq(w, 1, o)
             u == SubSeq(t, 1, k + o)
  <1>1. Len(t) \in Nat /\ k + o \in 0..Len(t) /\ k \in Nat /\ o \in Nat
    BY TextLen
  <1>2. /\ a \in Text /\ Len(a) = k /\ \A i \in 1..k : a[i] = t[i]
        /\ w \in Text /\ Len(w) = Len(t) - k /\ \A i \in 1..(Len(t) - k) : w[i] = t[k + i]
    BY TextSplit
  <1>3. u \in Text /\ Len(u) = k + o /\ \A i \in 1..(k + o) : u[i] = t[i]
    BY <1>1, TextSplit
  <1>4. z \in Text /\ Len(z) = o /\ \A i \in 1..o : z[i] = w[i]
    <2>1. o \in 0..Len(w)
      BY <1>2
    <2> HIDE DEF w
    <2> QED
      BY <1>2, <2>1, TextSplit
  <1> HIDE DEF a, w, z, u
  <1>5. /\ a \o z \in Text /\ Len(a \o z) = k + o
        /\ \A i \in 1..k : (a \o z)[i] = t[i]
        /\ \A i \in 1..o : (a \o z)[k + i] = z[i]
    BY <1>2, <1>4, TextConcat
  <1>6. ASSUME NEW i \in 1..(k + o) PROVE u[i] = (a \o z)[i]
    <2>1. CASE i \in 1..k
      BY <1>1, <1>3, <1>5, <2>1
    <2>2. CASE i - k \in 1..o
      <3>1. i - k \in 1..(Len(t) - k) /\ k + (i - k) = i
        BY <1>1, <2>2
      <3>2. w[i - k] = t[i] /\ z[i - k] = w[i - k] /\ (a \o z)[i] = z[i - k]
        BY <1>2, <1>4, <1>5, <2>2, <3>1
      <3> QED
        BY <1>3, <3>2
    <2>3. i \in 1..k \/ i - k \in 1..o
      BY <1>1
    <2> QED
      BY <2>1, <2>2, <2>3
  <1>7. u = a \o z
    <2>1. u \in Seq(Byte) /\ a \o z \in Seq(Byte)
      BY <1>3, <1>5 DEF Text
    <2> QED
      BY <1>3, <1>5, <1>6, <2>1, SeqEqual
  <1> QED
    BY <1>4, <1>7 DEF a, w, z, u

LEMMA LettersBeginning ==
  ASSUME NEW t \in Text, NEW i \in 0..Len(t), NEW j \in 0..i
  PROVE  /\ Len(Letters(SubSeq(t, 1, j))) \in Nat /\ Len(Letters(SubSeq(t, 1, i))) \in Nat
         /\ Len(Letters(SubSeq(t, 1, j))) <= Len(Letters(SubSeq(t, 1, i)))
  <1> DEFINE z == SubSeq(SubSeq(t, j + 1, Len(t)), 1, i - j)
             a == SubSeq(t, 1, j)
             u == SubSeq(t, 1, i)
  <1>1. Len(t) \in Nat /\ j \in 0..Len(t) /\ i - j \in 0..(Len(t) - j) /\ j + (i - j) = i
    BY TextLen
  <1>2. z \in Text /\ SubSeq(t, 1, j + (i - j)) = a \o z
    BY <1>1, TextBeginning
  <1>3. a \in Text
    BY <1>1, TextSplit
  <1>4. u = a \o z
    BY <1>1, <1>2
  <1> HIDE DEF z, a, u
  <1>5. Letters(u) = Letters(a) \o Letters(z) /\ Letters(a) \in Text /\ Letters(z) \in Text
    BY <1>2, <1>3, <1>4, LettersConcat, LettersType
  <1>6. /\ Len(Letters(u)) = Len(Letters(a)) + Len(Letters(z))
        /\ Len(Letters(a)) \in Nat /\ Len(Letters(z)) \in Nat
    BY <1>5, TextConcat, TextLen
  <1>7. Len(Letters(a)) \in Nat /\ Len(Letters(u)) \in Nat /\ Len(Letters(a)) <= Len(Letters(u))
    BY <1>6
  <1> QED
    BY <1>7 DEF a, u
-----------------------------------------------------------------------------
(* The loop of `Cut`: what is left is behind the letters x, and of it no   *)
(* more than the overlap is in the chunks.                                 *)
Due(size, overlap, all, cs, current, n, x) ==
  /\ Tight(current) /\ Built(cs, size, all, n)
  /\ x \in Text /\ all = x \o Letters(current)
  /\ Len(x) <= n /\ n <= Len(all)
  /\ \E j \in 0..overlap :
       /\ j <= Len(current)
       /\ n <= Len(x) + Len(Letters(SubSeq(current, 1, j)))

LEMMA DueEnds ==
  ASSUME NEW size, NEW overlap, NEW all, NEW cs, NEW current, NEW n, NEW x,
         Due(size, overlap, all, cs, current, n, x), Len(current) <= size
  PROVE  Built(Append(cs, current), size, all, Len(all))
  <1>1. /\ Tight(current) /\ current \in Text /\ Built(cs, size, all, n)
        /\ x \in Text /\ all = x \o Letters(current) /\ Len(x) <= n /\ n <= Len(all)
    BY DEF Due, Tight
  <1>2. Letters(current) \in Text
    BY <1>1, LettersType
  <1>3. Len(all) = Len(x) + Len(Letters(current)) /\ all \in Text
    BY <1>1, <1>2, TextConcat
  <1>4. all = (x \o Letters(current)) \o <<>> /\ <<>> \in Text
    BY <1>1, <1>3, TextConcat, TextEmpty
  <1>5. n <= Len(x) + Len(Letters(current)) /\ \E y \in Text : all = (x \o Letters(current)) \o y
    BY <1>1, <1>3, <1>4
  <1>6. Built(Append(cs, current), size, all, Len(x) + Len(Letters(current)))
    BY <1>1, <1>5, BuiltAppend
  <1> QED
    BY <1>3, <1>6

LEMMA DueSteps ==
  ASSUME NEW size, NEW overlap, Sizes(size, overlap),
         NEW all, NEW cs, NEW current, NEW n, NEW x,
         Due(size, overlap, all, cs, current, n, x), Len(current) > size
  PROVE  \E m, y : Due(size, overlap, all, Append(cs, Piece(current, size)),
                       Rest(current, size, overlap), m, y)
  <1>1. /\ Tight(current) /\ current \in Text /\ Built(cs, size, all, n)
        /\ x \in Text /\ all = x \o Letters(current) /\ Len(x) <= n /\ n <= Len(all)
    BY DEF Due, Tight
  <1> DEFINE k == size - overlap
             u == SubSeq(current, 1, size)
             v == SubSeq(current, size + 1, Len(current))
             a == SubSeq(current, 1, k)
             w == SubSeq(current, k + 1, Len(current))
             z == SubSeq(w, 1, overlap)
  <1>2. /\ Len(current) \in Nat /\ size \in 0..Len(current) /\ k \in 0..Len(current)
        /\ overlap \in 0..(Len(current) - k) /\ k + overlap = size
        /\ 1 \in 1..size /\ Len(current) - k \in 1..(Len(current) - k)
        /\ k + (Len(current) - k) = Len(current)
    BY <1>1, TextLen DEF Sizes
  <1>3. /\ u \in Text /\ Len(u) = size /\ u[1] = current[1]
        /\ v \in Text /\ u \o v = current
    BY <1>1, <1>2, TextSplit
  <1>4. /\ a \in Text /\ w \in Text /\ Len(w) = Len(current) - k /\ a \o w = current
        /\ \A i \in 1..(Len(current) - k) : w[i] = current[k + i]
    BY <1>1, <1>2, TextSplit
  <1>5. w[Len(w)] = current[Len(current)]
    <2> HIDE DEF w, k
    <2> QED
      BY <1>2, <1>4
  <1>6. z \in Text /\ u = a \o z
    BY <1>1, <1>2, TextBeginning
  <1>7. Len(Letters(u)) >= 0 /\ \A j \in 0..overlap : j \in 0..size
    BY <1>2, <1>3, LettersType, TextLen DEF Sizes
  <1>8. n <= Len(x) + Len(Letters(u))
    <2>1. PICK j \in 0..overlap : n <= Len(x) + Len(Letters(SubSeq(current, 1, j)))
      BY DEF Due
    <2>2. /\ Len(Letters(SubSeq(current, 1, j))) \in Nat /\ Len(Letters(u)) \in Nat
          /\ Len(Letters(SubSeq(current, 1, j))) <= Len(Letters(u))
      BY <1>1, <1>2, <1>7, LettersBeginning
    <2>3. Len(x) \in Nat /\ n \in Nat
      BY <1>1, TextLen, BuiltType
    <2> HIDE DEF u
    <2> QED
      BY <2>1, <2>2, <2>3
  <1>9. \E j \in 0..overlap : /\ j <= Len(Trimmed(w))
                              /\ Letters(SubSeq(Trimmed(w), 1, j)) = Letters(z)
    <2>1. overlap \in 0..Len(w)
      BY <1>2, <1>4
    <2> HIDE DEF w
    <2>2. \E j \in 0..overlap : /\ j <= Len(Trimmed(w))
                   /\ Letters(SubSeq(Trimmed(w), 1, j)) = Letters(SubSeq(w, 1, overlap))
      BY <1>4, <2>1, TrimmedPrefix
    <2> QED
      BY <2>2
  <1>10. Piece(current, size) = Trimmed(u) /\ Rest(current, size, overlap) = Trimmed(w)
    BY DEF Piece, Rest
  <1> HIDE DEF u, v, a, w, z
  <1>11. Letters(u) # <<>> /\ Letters(w) # <<>>
    <2>1. 1 \in 1..Len(u) /\ Len(w) \in 1..Len(w) /\ u[1] \notin White /\ w[Len(w)] \notin White
      BY <1>1, <1>2, <1>3, <1>4, <1>5 DEF Tight
    <2> QED
      BY <1>3, <1>4, <2>1, LettersOrBlank
  <1>12. /\ Tight(Trimmed(u)) /\ Len(Trimmed(u)) <= size /\ Letters(Trimmed(u)) = Letters(u)
         /\ Tight(Trimmed(w)) /\ Letters(Trimmed(w)) = Letters(w)
    BY <1>3, <1>4, <1>11, TrimmedText
  <1>13. /\ Letters(u) \in Text /\ Letters(v) \in Text /\ Letters(a) \in Text
         /\ Letters(w) \in Text /\ Letters(z) \in Text
    BY <1>3, <1>4, <1>6, LettersType
  <1>14. /\ Letters(current) = Letters(u) \o Letters(v)
         /\ Letters(current) = Letters(a) \o Letters(w)
         /\ Letters(u) = Letters(a) \o Letters(z)
    BY <1>3, <1>4, <1>6, LettersConcat
  <1> DEFINE y == x \o Letters(a)
             m == Len(x) + Len(Letters(u))
  <1>15. all = (x \o Letters(u)) \o Letters(v) /\ all = y \o Letters(w) /\ y \in Text
    <2>1. x \o (Letters(u) \o Letters(v)) = (x \o Letters(u)) \o Letters(v)
      BY <1>1, <1>13, TextAssociative
    <2>2. x \o (Letters(a) \o Letters(w)) = (x \o Letters(a)) \o Letters(w)
      BY <1>1, <1>13, TextAssociative
    <2>3. x \o Letters(a) \in Text
      BY <1>1, <1>13, TextConcat
    <2> QED
      BY <1>1, <1>14, <2>1, <2>2, <2>3
  <1>16. /\ Len(x) \in Nat /\ Len(Letters(u)) \in Nat /\ Len(Letters(a)) \in Nat
         /\ Len(Letters(z)) \in Nat /\ Len(Letters(v)) \in Nat
         /\ Len(Letters(u)) = Len(Letters(a)) + Len(Letters(z))
         /\ Len(y) = Len(x) + Len(Letters(a))
    BY <1>1, <1>13, <1>14, TextLen, TextConcat
  <1>17. Len(all) = m + Len(Letters(v))
    <2>1. x \o Letters(u) \in Text /\ Len(x \o Letters(u)) = m
      BY <1>1, <1>13, TextConcat
    <2> HIDE DEF m
    <2>2. Len((x \o Letters(u)) \o Letters(v)) = Len(x \o Letters(u)) + Len(Letters(v))
      BY <1>13, <2>1, TextConcat
    <2> QED
      BY <1>15, <2>1, <2>2
  <1>18. Len(y) <= m /\ m <= Len(all) /\ m = Len(y) + Len(Letters(z))
    BY <1>16, <1>17
  <1>19. Built(Append(cs, Trimmed(u)), size, all, m)
    <2>1. \E t \in Text : all = (x \o Letters(Trimmed(u))) \o t
      BY <1>12, <1>13, <1>15
    <2>2. n <= Len(x) + Len(Letters(Trimmed(u)))
      BY <1>8, <1>12
    <2>3. Built(Append(cs, Trimmed(u)), size, all, Len(x) + Len(Letters(Trimmed(u))))
      BY <1>1, <1>12, <2>1, <2>2, BuiltAppend
    <2> QED
      BY <1>12, <2>3
  <1> HIDE DEF y, m
  <1>20. \E j \in 0..overlap : /\ j <= Len(Trimmed(w))
                               /\ m <= Len(y) + Len(Letters(SubSeq(Trimmed(w), 1, j)))
    <2>1. PICK j \in 0..overlap : /\ j <= Len(Trimmed(w))
                                  /\ Letters(SubSeq(Trimmed(w), 1, j)) = Letters(z)
      BY <1>9
    <2>2. m <= Len(y) + Len(Letters(SubSeq(Trimmed(w), 1, j)))
      BY <1>16, <1>18, <2>1
    <2> QED
      BY <2>1, <2>2
  <1>21. Due(size, overlap, all, Append(cs, Trimmed(u)), Trimmed(w), m, y)
    BY <1>12, <1>15, <1>18, <1>19, <1>20 DEF Due
  <1> QED
    BY <1>10, <1>21

LEMMA CutType ==
  ASSUME NEW size, NEW overlap, Sizes(size, overlap), NEW t \in Text
  PROVE  Cut(t, size, overlap) \in Seq(Text)
  <1> DEFINE N == {k \in Nat : \A s \in Text : Len(s) <= k => Cut(s, size, overlap) \in Seq(Text)}
  <1>1. ASSUME NEW s \in Text,
               Len(s) > size => Cut(Rest(s, size, overlap), size, overlap) \in Seq(Text)
        PROVE  Cut(s, size, overlap) \in Seq(Text)
    <2>1. CASE Len(s) <= size
      <3>1. Cut(s, size, overlap) = <<s>>
        BY <2>1, CutSteps
      <3>2. <<s>> \in Seq(Text)
        OBVIOUS
      <3> QED
        BY <3>1, <3>2
    <2>2. CASE Len(s) > size
      <3>1. <<Piece(s, size)>> \in Seq(Text)
        BY <2>2, PieceAndRest
      <3>2. ~(Len(s) <= size)
        BY <2>2, TextLen DEF Sizes
      <3> QED
        BY <1>1, <2>2, <3>1, <3>2, CutSteps, ConcatProperties
    <2>3. Len(s) <= size \/ Len(s) > size
      BY TextLen DEF Sizes
    <2> QED
      BY <2>1, <2>2, <2>3
  <1>2. 0 \in N
    <2>1. \A s \in Text : Len(s) <= 0 => ~(Len(s) > size)
      BY TextLen DEF Sizes
    <2> QED
      BY <1>1, <2>1
  <1>3. ASSUME NEW n \in Nat, n \in N PROVE n + 1 \in N
    <2> SUFFICES ASSUME NEW s \in Text, Len(s) <= n + 1, Len(s) > size
                 PROVE  Cut(Rest(s, size, overlap), size, overlap) \in Seq(Text)
      BY <1>1
    <2>1. /\ Rest(s, size, overlap) \in Text /\ Len(Rest(s, size, overlap)) < Len(s)
          /\ Len(Rest(s, size, overlap)) \in Nat /\ Len(s) \in Nat
      BY PieceAndRest, TextLen
    <2>2. Len(Rest(s, size, overlap)) <= n
      BY <2>1
    <2> QED
      BY <1>3, <2>1, <2>2
  <1> HIDE DEF N
  <1>4. Nat \subseteq N
    BY <1>2, <1>3, NatSet
  <1>5. Len(t) \in N /\ Len(t) <= Len(t)
    BY <1>4, TextLen
  <1> QED
    BY <1>5 DEF N

(* The whole loop.                                                         *)
LEMMA CutBuilds ==
  ASSUME NEW size, NEW overlap, Sizes(size, overlap),
         NEW all, NEW cs, NEW current, NEW n, NEW x,
         Due(size, overlap, all, cs, current, n, x)
  PROVE  Built(cs \o Cut(current, size, overlap), size, all, Len(all))
  <1> DEFINE Ends(ds, r) == Built(ds \o Cut(r, size, overlap), size, all, Len(all))
             N == {k \in Nat : \A r \in Text : \A ds, m, y :
                     Len(r) <= k /\ Due(size, overlap, all, ds, r, m, y) => Ends(ds, r)}
  <1>1. ASSUME NEW r \in Text, NEW ds, NEW m, NEW y, Due(size, overlap, all, ds, r, m, y),
               Len(r) > size =>
                 \A l, t : Due(size, overlap, all, Append(ds, Piece(r, size)),
                               Rest(r, size, overlap), l, t)
                   => Ends(Append(ds, Piece(r, size)), Rest(r, size, overlap))
        PROVE  Ends(ds, r)
    <2>0. ds \in Seq(Text)
      BY <1>1, BuiltType DEF Due
    <2>1. CASE Len(r) <= size
      <3>1. Built(Append(ds, r), size, all, Len(all))
        BY <1>1, <2>1, DueEnds
      <3>2. Append(ds, r) = ds \o <<r>>
        BY <2>0, AppendIsConcat
      <3>3. Cut(r, size, overlap) = <<r>>
        BY <2>1, CutSteps
      <3> QED
        BY <3>1, <3>2, <3>3
    <2>2. CASE Len(r) > size
      <3> DEFINE p == Piece(r, size)
                 q == Rest(r, size, overlap)
      <3>1. p \in Text /\ q \in Text
        BY <2>2, PieceAndRest
      <3>2. ~(Len(r) <= size)
        BY <2>2, TextLen DEF Sizes
      <3>3. Cut(r, size, overlap) = <<p>> \o Cut(q, size, overlap)
        BY <3>2, CutSteps
      <3>4. Ends(Append(ds, p), q)
        BY <1>1, <2>2, DueSteps
      <3> HIDE DEF p, q
      <3>5. Cut(q, size, overlap) \in Seq(Text) /\ <<p>> \in Seq(Text)
        BY <3>1, CutType
      <3>6. Append(ds, p) \o Cut(q, size, overlap) = ds \o (<<p>> \o Cut(q, size, overlap))
        BY <2>0, <3>1, <3>5, AppendIsConcat, ConcatAssociative
      <3> QED
        BY <3>3, <3>4, <3>6
    <2>3. Len(r) <= size \/ Len(r) > size
      BY TextLen DEF Sizes
    <2> QED
      BY <2>1, <2>2, <2>3
  <1> HIDE DEF Ends
  <1>2. 0 \in N
    <2>1. \A r \in Text : Len(r) <= 0 => ~(Len(r) > size)
      BY TextLen DEF Sizes
    <2> QED
      BY <1>1, <2>1
  <1>3. ASSUME NEW k \in Nat, k \in N PROVE k + 1 \in N
    <2> SUFFICES ASSUME NEW r \in Text, NEW ds, NEW m, NEW y, Len(r) <= k + 1,
                        Due(size, overlap, all, ds, r, m, y)
                 PROVE  Ends(ds, r)
      OBVIOUS
    <2> SUFFICES ASSUME Len(r) > size, NEW l, NEW t,
                        Due(size, overlap, all, Append(ds, Piece(r, size)),
                            Rest(r, size, overlap), l, t)
                 PROVE  Ends(Append(ds, Piece(r, size)), Rest(r, size, overlap))
      BY <1>1
    <2>1. /\ Rest(r, size, overlap) \in Text /\ Len(Rest(r, size, overlap)) < Len(r)
          /\ Len(Rest(r, size, overlap)) \in Nat /\ Len(r) \in Nat
      BY PieceAndRest, TextLen
    <2>2. Len(Rest(r, size, overlap)) <= k
      BY <2>1
    <2> QED
      BY <1>3, <2>1, <2>2
  <1> HIDE DEF N
  <1>4. Nat \subseteq N
    BY <1>2, <1>3, NatSet
  <1>5. current \in Text
    BY DEF Due, Tight
  <1>6. Len(current) \in N /\ Len(current) <= Len(current)
    BY <1>4, <1>5, TextLen
  <1> QED
    BY <1>5, <1>6 DEF N, Ends
-----------------------------------------------------------------------------
(* CleanText and the paragraphs keep the letters.                          *)
LEMMA OneAndTwo ==
  ASSUME NEW B, NEW f \in Seq(B), NEW a \in B, NEW b \in B
  PROVE  /\ <<a>> \in Seq(B) /\ <<a>> = Append(<<>>, a) /\ <<a>> # <<>>
         /\ f \o <<a, b>> = Append(Append(f, a), b)
  <1>1. <<a>> \in Seq(B) /\ <<b>> \in Seq(B) /\ <<a>> = Append(<<>>, a) /\ <<a>> # <<>>
    OBVIOUS
  <1>2. <<a>> \o <<b>> = <<a, b>>
    <2>1. /\ <<a, b>> \in Seq(B) /\ Len(<<a>>) = 1 /\ Len(<<b>>) = 1 /\ Len(<<a, b>>) = 2
      OBVIOUS
    <2>2. /\ <<a>> \o <<b>> \in Seq(B) /\ Len(<<a>> \o <<b>>) = 2
          /\ (<<a>> \o <<b>>)[1] = a /\ (<<a>> \o <<b>>)[2] = b
      BY <1>1, <2>1, ConcatProperties
    <2>3. \A i \in 1..2 : (<<a>> \o <<b>>)[i] = <<a, b>>[i]
      BY <2>2
    <2> QED
      BY <2>1, <2>2, <2>3, SeqEqual
  <1>3. Append(f, a) \in Seq(B)
    BY AppendProperties
  <1>4. Append(f, a) = f \o <<a>> /\ Append(Append(f, a), b) = Append(f, a) \o <<b>>
    BY <1>3, AppendIsConcat
  <1>5. (f \o <<a>>) \o <<b>> = f \o (<<a>> \o <<b>>)
    BY <1>1, ConcatAssociative
  <1> QED
    BY <1>1, <1>2, <1>4, <1>5

LEMMA NewLine == NL \in Byte /\ NL \in White
  BY ChunkingAssumption

LEMMA CleanLetters ==
  ASSUME NEW t \in Text
  PROVE  CleanText(t) \in Text /\ Letters(CleanText(t)) = Letters(t)
  <1> DEFINE F(s) == Folded(Squeezed, <<>>, s)
             S == {s \in Text : F(s) \in Text /\ Letters(F(s)) = Letters(s)}
  <1>1. <<>> \in S
    BY FoldEmpty, TextEmpty
  <1>2. ASSUME NEW s \in Text, NEW b \in Byte, s \in S PROVE Append(s, b) \in S
    <2>1. F(Append(s, b)) = Squeezed[F(s)][b]
      BY FoldAppend DEF Text
    <2> HIDE DEF F
    <2>2. F(s) \in Text /\ Letters(F(s)) = Letters(s)
      BY <1>2
    <2>3. \/ F(Append(s, b)) = F(s) /\ b \in White
          \/ F(Append(s, b)) = Append(F(s), b)
      BY <2>1, <2>2, NewLine DEF Squeezed
    <2>4. /\ Letters(Append(s, b)) = IF b \in White THEN Letters(s) ELSE Append(Letters(s), b)
          /\ Letters(Append(F(s), b)) =
               IF b \in White THEN Letters(F(s)) ELSE Append(Letters(F(s)), b)
      BY <2>2, LettersAppend
    <2>5. F(Append(s, b)) \in Text /\ Letters(F(Append(s, b))) = Letters(Append(s, b))
      BY <2>2, <2>3, <2>4, TextAppend
    <2> QED
      BY <2>5, TextAppend
  <1> HIDE DEF S
  <1>3. Text \subseteq S
    BY <1>1, <1>2, SeqSet DEF Text
  <1>4. F(t) \in Text /\ Letters(F(t)) = Letters(t)
    BY <1>3 DEF S
  <1> QED
    BY <1>4, TrimmedText DEF CleanText

(* The letters of the paragraphs, in their order.                          *)
Joining == [l \in Text |-> [p \in Text |-> l \o Letters(p)]]
Joint(ps) == Folded(Joining, <<>>, ps)

LEMMA JointAppend ==
  ASSUME NEW ps \in Seq(Text), NEW p \in Text
  PROVE  /\ Joint(ps) \in Text
         /\ Joint(Append(ps, p)) = Joint(ps) \o Letters(p)
  <1> DEFINE S == {qs \in Seq(Text) : Joint(qs) \in Text}
  <1>0. ASSUME NEW qs \in Seq(Text), NEW q \in Text
        PROVE  Joint(Append(qs, q)) = Joining[Joint(qs)][q]
    BY FoldAppend DEF Joint
  <1>1. ASSUME NEW qs \in Seq(Text), NEW q \in Text, Joint(qs) \in Text
        PROVE  Joint(Append(qs, q)) = Joint(qs) \o Letters(q)
    BY <1>0, <1>1 DEF Joining
  <1>2. <<>> \in S
    BY FoldEmpty, TextEmpty, EmptySeq DEF Joint
  <1>3. ASSUME NEW qs \in Seq(Text), NEW q \in Text, qs \in S PROVE Append(qs, q) \in S
    <2>1. Joint(qs) \in Text /\ Letters(q) \in Text
      BY <1>3, LettersType
    <2>2. Joint(Append(qs, q)) \in Text
      BY <1>1, <2>1, TextConcat
    <2> QED
      BY <2>2, AppendProperties
  <1> HIDE DEF S
  <1>4. Seq(Text) \subseteq S
    BY <1>2, <1>3, SeqSet
  <1>5. Joint(ps) \in Text
    BY <1>4 DEF S
  <1> QED
    BY <1>1, <1>5

LEMMA ParagraphsLetters ==
  ASSUME NEW t \in Text
  PROVE  Paragraphs(t) \in Seq(Text) /\ Joint(Paragraphs(t)) = Letters(t)
  <1> DEFINE F(s) == Folded(Parted, << <<>> >>, s)
             S == {s \in Text : /\ F(s) \in Seq(Text) /\ F(s) # <<>>
                                /\ Joint(F(s)) = Letters(s)}
  <1>1. <<>> \in S
    <2>1. F(<<>>) = << <<>> >>
      BY FoldEmpty
    <2>2. <<>> \in Seq(Text) /\ <<>> \in Text /\ Joint(<<>>) = <<>>
      BY EmptySeq, TextEmpty, FoldEmpty DEF Joint
    <2>3. << <<>> >> \in Seq(Text) /\ << <<>> >> = Append(<<>>, <<>>) /\ << <<>> >> # <<>>
      BY <2>2, OneAndTwo
    <2>4. Joint(Append(<<>>, <<>>)) = <<>> \o Letters(<<>>)
      BY <2>2, JointAppend
    <2>5. Joint(F(<<>>)) = Letters(<<>>)
      BY <2>1, <2>2, <2>3, <2>4, LettersEmpty, TextConcat
    <2>6. F(<<>>) \in Seq(Text) /\ F(<<>>) # <<>>
      BY <2>1, <2>3
    <2> QED
      BY <2>2, <2>5, <2>6
  <1>2. ASSUME NEW s \in Text, NEW b \in Byte, s \in S PROVE Append(s, b) \in S
    <2>1. F(Append(s, b)) = Parted[F(s)][b]
      BY FoldAppend DEF Text
    <2> HIDE DEF F
    <2>2. F(s) \in Seq(Text) /\ F(s) # <<>> /\ Joint(F(s)) = Letters(s)
      BY <1>2
    <2>3. PICK f \in Seq(Text), l \in Text : F(s) = Append(f, l)
      BY <2>2, SequenceEmptyOrAppend
    <2>4. Front(F(s)) = f /\ Last(F(s)) = l
      BY <2>3, FrontAndLast
    <2>5. /\ Joint(f) \in Text /\ Letters(l) \in Text
          /\ Letters(s) = Joint(f) \o Letters(l)
      BY <2>2, <2>3, JointAppend, LettersType
    <2>6. Letters(Append(s, b)) = IF b \in White THEN Letters(s) ELSE Append(Letters(s), b)
      BY LettersAppend
    <2>7. CASE b = NL /\ l # <<>> /\ Last(l) = NL
      <3>1. l \in Seq(Byte)
        BY DEF Text
      <3>2. PICK k \in Seq(Byte), c \in Byte : l = Append(k, c)
        BY <2>7, <3>1, SequenceEmptyOrAppend
      <3>3. Front(l) = k /\ c = NL /\ k \in Text
        BY <2>7, <3>2, FrontAndLast DEF Text
      <3>4. F(Append(s, b)) = f \o <<k, <<>>>>
        BY <2>1, <2>2, <2>4, <2>7, <3>3 DEF Parted
      <3>5. Letters(l) = Letters(k)
        BY <3>2, <3>3, LettersAppend, NewLine
      <3>6. Append(f, k) \in Seq(Text) /\ <<>> \in Text
        BY <3>3, AppendProperties, TextEmpty
      <3>7. f \o <<k, <<>>>> = Append(Append(f, k), <<>>)
        BY <3>3, <3>6, OneAndTwo
      <3>8. Joint(Append(Append(f, k), <<>>)) = (Joint(f) \o Letters(k)) \o <<>>
        BY <3>3, <3>6, JointAppend, LettersEmpty
      <3>9. Joint(Append(Append(f, k), <<>>)) = Letters(s)
        BY <2>5, <3>5, <3>8, TextConcat
      <3>10. F(Append(s, b)) \in Seq(Text) /\ F(Append(s, b)) # <<>>
        BY <3>4, <3>6, <3>7, AppendProperties
      <3>11. Joint(F(Append(s, b))) = Letters(Append(s, b))
        BY <2>6, <2>7, <3>4, <3>7, <3>9, NewLine
      <3> QED
        BY <3>10, <3>11, TextAppend
    <2>8. CASE ~(b = NL /\ l # <<>> /\ Last(l) = NL)
      <3>1. F(Append(s, b)) = Append(f, Append(l, b)) /\ Append(l, b) \in Text
        BY <2>1, <2>2, <2>4, <2>8, TextAppend DEF Parted
      <3>2. F(Append(s, b)) \in Seq(Text) /\ F(Append(s, b)) # <<>>
        BY <3>1, AppendProperties
      <3>3. Joint(F(Append(s, b))) = Joint(f) \o Letters(Append(l, b))
        BY <3>1, JointAppend
      <3>4. Letters(Append(l, b)) = IF b \in White THEN Letters(l) ELSE Append(Letters(l), b)
        BY LettersAppend
      <3>5. Joint(f) \o Append(Letters(l), b) = Append(Joint(f) \o Letters(l), b)
        BY <2>5, TextAppendConcat
      <3>6. Joint(F(Append(s, b))) = Letters(Append(s, b))
        BY <2>5, <2>6, <3>3, <3>4, <3>5
      <3> QED
        BY <3>2, <3>6, TextAppend
    <2> QED
      BY <2>7, <2>8
  <1> HIDE DEF S
  <1>3. Text \subseteq S
    BY <1>1, <1>2, SeqSet DEF Text
  <1> QED
    BY <1>3 DEF S, Paragraphs

LEMMA JoinedLetters ==
  ASSUME NEW a \in Text, NEW b \in Text
  PROVE  /\ a \o <<NL, NL>> \o b \in Text
         /\ Joined(a, b) \in Text
         /\ Letters(Joined(a, b)) = Letters(a) \o Letters(b)
         /\ Letters(a) # <<>> => Tight(Joined(a, b))
         /\ Letters(b) # <<>> => Tight(Joined(a, b))
  <1> DEFINE n == <<NL, NL>>
             r == (a \o n) \o b
  <1>1. n \in Text /\ Len(n) = 2 /\ \A i \in 1..2 : n[i] = NL
    BY NewLine DEF Text
  <1> HIDE DEF n
  <1>2. Letters(n) = <<>>
    BY <1>1, NewLine, LettersOrBlank
  <1>3. Letters(a) \in Text /\ Letters(b) \in Text
    BY LettersType
  <1>4. a \o n \in Text /\ Letters(a \o n) = Letters(a)
    <2>1. Letters(a \o n) = Letters(a) \o <<>>
      BY <1>1, <1>2, LettersConcat
    <2> QED
      BY <1>1, <1>3, <2>1, TextConcat
  <1>5. r \in Text /\ Letters(r) = Letters(a) \o Letters(b)
    <2>1. Letters((a \o n) \o b) = Letters(a \o n) \o Letters(b)
      BY <1>4, LettersConcat
    <2> QED
      BY <1>4, <2>1, TextConcat
  <1>6. (Letters(a) # <<>> \/ Letters(b) # <<>>) => Letters(a) \o Letters(b) # <<>>
    BY <1>3, TextConcat, TextLen
  <1>7. Joined(a, b) = Trimmed(r)
    BY DEF Joined, n
  <1> HIDE DEF r
  <1>8. /\ Trimmed(r) \in Text /\ Letters(Trimmed(r)) = Letters(r)
        /\ Letters(r) # <<>> => Tight(Trimmed(r))
    BY <1>5, TrimmedText
  <1> QED
    BY <1>5, <1>6, <1>7, <1>8 DEF r, n
-----------------------------------------------------------------------------
(* What the chunks hold between two paragraphs: nothing yet, or all the    *)
(* letters so far.                                                         *)
Held(chunks, size, all) ==
  \/ chunks = << <<>> >> /\ all = <<>>
  \/ chunks # <<>> /\ Built(chunks, size, all, Len(all))

LEMMA TailLetters ==
  ASSUME NEW overlap \in Nat, NEW c \in Text
  PROVE  /\ TailOf(c, overlap) \in Text /\ Len(TailOf(c, overlap)) <= overlap
         /\ \E h \in Text : Letters(c) = Letters(h) \o Letters(TailOf(c, overlap))
  <1>1. Len(c) \in Nat
    BY TextLen
  <1>2. CASE Len(c) > overlap
    <2> DEFINE k == Len(c) - overlap
               h == SubSeq(c, 1, k)
               w == SubSeq(c, k + 1, Len(c))
    <2>1. k \in 0..Len(c) /\ Len(c) - k = overlap
      BY <1>1, <1>2
    <2>2. h \in Text /\ w \in Text /\ Len(w) = Len(c) - k /\ h \o w = c
      BY <2>1, TextSplit
    <2>3. TailOf(c, overlap) = w
      BY <1>2 DEF TailOf
    <2> HIDE DEF h, w, k
    <2>4. Letters(c) = Letters(h) \o Letters(w)
      BY <2>2, LettersConcat
    <2> QED
      <3>1. Len(w) <= overlap
        BY <2>1, <2>2
      <3> QED
        BY <2>2, <2>3, <2>4, <3>1
  <1>3. CASE ~(Len(c) > overlap)
    <2>1. TailOf(c, overlap) = c
      BY <1>3 DEF TailOf
    <2>2. Letters(c) = Letters(<<>>) \o Letters(c)
      BY LettersEmpty, LettersType, TextConcat
    <2> QED
      BY <1>1, <1>3, <2>1, <2>2, TextEmpty
  <1> QED
    BY <1>2, <1>3

LEMMA TextFront ==
  ASSUME NEW a \in Text, NEW n \in Text
  PROVE  Len(a) \in 0..Len(a \o n) /\ SubSeq(a \o n, 1, Len(a)) = a
  <1> DEFINE r == a \o n
             u == SubSeq(r, 1, Len(a))
  <1>1. /\ r \in Text /\ Len(r) = Len(a) + Len(n) /\ \A i \in 1..Len(a) : r[i] = a[i]
    BY TextConcat
  <1>2. Len(a) \in 0..Len(r)
    BY <1>1, TextLen
  <1> HIDE DEF r
  <1>3. u \in Text /\ Len(u) = Len(a) /\ \A i \in 1..Len(a) : u[i] = r[i]
    BY <1>1, <1>2, TextSplit
  <1> HIDE DEF u
  <1>4. u \in Seq(Byte) /\ a \in Seq(Byte)
    BY <1>3 DEF Text
  <1>5. u = a
    BY <1>1, <1>3, <1>4, SeqEqual
  <1> QED
    BY <1>2, <1>5 DEF r, u

LEMMA JoinedParts ==
  ASSUME NEW a \in Text, NEW b \in Text
  PROVE  \E n \in Text : a \o <<NL, NL>> \o b = a \o n
  <1> DEFINE e == <<NL, NL>>
  <1>1. e \in Text
    BY NewLine DEF Text
  <1> HIDE DEF e
  <1>2. e \o b \in Text
    BY <1>1, TextConcat
  <1>3. (a \o e) \o b = a \o (e \o b)
    BY <1>1, TextAssociative
  <1> QED
    BY <1>2, <1>3 DEF e

LEMMA FrontType ==
  ASSUME NEW B, NEW s \in Seq(B), s # <<>>
  PROVE  Front(s) \in Seq(B) /\ Last(s) \in B
  <1>1. PICK r \in Seq(B), b \in B : s = Append(r, b)
    BY SequenceEmptyOrAppend
  <1>2. Front(s) = r /\ Last(s) = b
    BY <1>1, FrontAndLast
  <1> QED
    BY <1>2

(* When the chunks hold the whole text, its end is in the last one.        *)
Behind(c, all, x) == all = x \o Letters(c)

LEMMA BuiltWhole ==
  ASSUME NEW size, NEW all \in Text,
         NEW ds \in Seq(Text), ds # <<>>, Built(ds, size, all, Len(all))
  PROVE  \E m \in Nat, x \in Text :
           /\ Built(Front(ds), size, all, m) /\ Behind(Last(ds), all, x)
           /\ Len(x) <= m /\ m <= Len(all)
  <1> DEFINE cs == Front(ds)
             c == Last(ds)
  <1>0. c \in Text
    BY FrontType
  <1>1. PICK m \in Nat, x \in Text :
          /\ Built(cs, size, all, m) /\ Stands(c, all, x, Len(all))
          /\ Len(x) <= m /\ m <= Len(all)
    BY BuiltLast
  <1>10. Len(all) = Len(x) + Len(Letters(c))
    BY <1>1 DEF Stands
  <1>2. PICK y \in Text : all = (x \o Letters(c)) \o y
    BY <1>1 DEF Stands
  <1>3. x \o Letters(c) \in Text /\ Len(x \o Letters(c)) = Len(x) + Len(Letters(c))
    BY <1>0, LettersType, TextConcat
  <1>4. Len(all) = Len(x \o Letters(c)) + Len(y)
    BY <1>2, <1>3, TextConcat
  <1>5. Len(x \o Letters(c)) \in Nat /\ Len(y) \in Nat
    BY <1>3, TextLen
  <1>6. y = <<>>
    <2>1. Len(y) = 0
      BY <1>10, <1>3, <1>4, <1>5
    <2> QED
      BY <2>1, TextLen
  <1>7. all = x \o Letters(c)
    BY <1>2, <1>3, <1>6, TextConcat
  <1>8. Behind(c, all, x)
    BY <1>7 DEF Behind
  <1> QED
    BY <1>1, <1>8

(* A chunk is finished; the next text begins with its tail.                *)
LEMMA DueAfter ==
  ASSUME NEW size, NEW overlap, Sizes(size, overlap), NEW all \in Text,
         NEW ds \in Seq(Text), ds # <<>>, Built(ds, size, all, Len(all)),
         NEW para \in Text, Letters(para) # <<>>
  PROVE  \E x : Due(size, overlap, all \o Letters(para), ds,
                    Joined(TailOf(Last(ds), overlap), para), Len(all), x)
  <1> DEFINE c == Last(ds)
             tail == TailOf(c, overlap)
             r == tail \o <<NL, NL>> \o para
             current == Joined(tail, para)
  <1>0. c \in Text
    BY FrontType
  <1>1. PICK x \in Text : all = x \o Letters(c)
    <2>1. \E x \in Text : Behind(c, all, x)
      BY BuiltWhole
    <2> QED
      BY <2>1 DEF Behind
  <1> HIDE DEF c
  <1>2. PICK h \in Text : Letters(c) = Letters(h) \o Letters(tail)
    BY <1>0, TailLetters DEF Sizes
  <1>3. tail \in Text /\ Len(tail) <= overlap /\ Len(tail) \in Nat
    BY <1>0, TailLetters, TextLen DEF Sizes
  <1> HIDE DEF tail
  <1>4. /\ Letters(c) \in Text /\ Letters(h) \in Text /\ Letters(tail) \in Text
        /\ Letters(para) \in Text
    BY <1>0, <1>3, LettersType
  <1>6. /\ r \in Text /\ current \in Text /\ Tight(current)
        /\ Letters(current) = Letters(tail) \o Letters(para)
    BY <1>3, JoinedLetters
  <1>7. current = Trimmed(r)
    BY DEF Joined
  <1>8. \E j \in 0..Len(tail) : /\ j <= Len(current)
                                /\ Letters(SubSeq(current, 1, j)) = Letters(tail)
    <2>1. Len(tail) \in 0..Len(r) /\ SubSeq(r, 1, Len(tail)) = tail
      <3>1. PICK n \in Text : r = tail \o n
        BY <1>3, JoinedParts
      <3> HIDE DEF r
      <3> QED
        BY <1>3, <3>1, TextFront
    <2> HIDE DEF r
    <2>2. \E j \in 0..Len(tail) :
            /\ j <= Len(Trimmed(r))
            /\ Letters(SubSeq(Trimmed(r), 1, j)) = Letters(SubSeq(r, 1, Len(tail)))
      BY <1>6, <2>1, TrimmedPrefix DEF r
    <2> QED
      BY <1>7, <2>1, <2>2
  <1> HIDE DEF current, r
  <1> DEFINE z == x \o Letters(h)
  <1>9. /\ z \in Text /\ all = z \o Letters(tail)
        /\ all \o Letters(para) = z \o Letters(current)
    <2>1. all = x \o (Letters(h) \o Letters(tail))
      BY <1>1, <1>2
    <2> HIDE DEF tail
    <2> QED
      <3>1. /\ x \o Letters(h) \in Text
            /\ x \o (Letters(h) \o Letters(tail)) = (x \o Letters(h)) \o Letters(tail)
            /\ (x \o (Letters(h) \o Letters(tail))) \o Letters(para)
                 = (x \o Letters(h)) \o (Letters(tail) \o Letters(para))
        <4>1. Regroups(x, Letters(h), Letters(tail), Letters(para))
          BY <1>4, TextRegrouped
        <4> QED
          BY <4>1 DEF Regroups
      <3> QED
        BY <1>6, <2>1, <3>1
  <1> HIDE DEF z
  <1>10. /\ Len(all) = Len(z) + Len(Letters(tail))
         /\ Len(all \o Letters(para)) = Len(all) + Len(Letters(para))
         /\ Len(z) \in Nat /\ Len(all) \in Nat /\ Len(Letters(para)) \in Nat
         /\ Len(Letters(tail)) \in Nat
    BY <1>4, <1>9, TextConcat, TextLen
  <1>11. Len(z) <= Len(all) /\ Len(all) <= Len(all \o Letters(para))
    BY <1>10
  <1>12. Built(ds, size, all \o Letters(para), Len(all))
    BY <1>4, BuiltGrows
  <1>13. \E j \in 0..overlap :
           j <= Len(current) /\ Len(all) <= Len(z) + Len(Letters(SubSeq(current, 1, j)))
    <2>1. PICK j \in 0..Len(tail) : /\ j <= Len(current)
                                    /\ Letters(SubSeq(current, 1, j)) = Letters(tail)
      BY <1>8
    <2>2. j \in 0..overlap
      BY <1>3 DEF Sizes
    <2> QED
      BY <1>10, <2>1, <2>2
  <1>14. Due(size, overlap, all \o Letters(para), ds, current, Len(all), z)
    BY <1>6, <1>9, <1>11, <1>12, <1>13 DEF Due
  <1> QED
    BY <1>14 DEF current, tail, c

LEMMA CutSome ==
  ASSUME NEW size, NEW overlap, Sizes(size, overlap), NEW t \in Text
  PROVE  Cut(t, size, overlap) # <<>>
  <1>1. CASE Len(t) <= size
    <2>1. Cut(t, size, overlap) = <<t>>
      BY <1>1, CutSteps
    <2>2. <<t>> # <<>>
      BY OneAndTwo, EmptySeq
    <2> QED
      BY <2>1, <2>2
  <1>2. CASE ~(Len(t) <= size)
    <2>1. Len(t) > size
      BY <1>2, TextLen DEF Sizes
    <2> DEFINE p == Piece(t, size)
               q == Rest(t, size, overlap)
    <2>2. p \in Text /\ q \in Text
      BY <2>1, PieceAndRest
    <2>3. Cut(t, size, overlap) = <<p>> \o Cut(q, size, overlap)
      BY <1>2, CutSteps
    <2> HIDE DEF p, q
    <2>4. <<p>> \in Seq(Text) /\ <<p>> # <<>> /\ Cut(q, size, overlap) \in Seq(Text)
      BY <2>2, CutType, OneAndTwo, EmptySeq
    <2> QED
      BY <2>3, <2>4, ConcatEqualIffEmpty
  <1> QED
    BY <1>1, <1>2

LEMMA AddedHolds ==
  ASSUME NEW size, NEW overlap, Sizes(size, overlap),
         NEW chunks, NEW all \in Text, Held(chunks, size, all), NEW p \in Text
  PROVE  Held(Added(size, overlap)[chunks][p], size, all \o Letters(p))
  <1> DEFINE para == Trimmed(p)
             next == Added(size, overlap)[chunks][p]
             then == all \o Letters(p)
  <1>1. /\ para \in Text /\ Letters(para) = Letters(p) /\ Letters(p) \in Text
        /\ para = <<>> <=> Letters(p) = <<>>
        /\ para = <<>> \/ Tight(para)
    BY TrimmedText, LettersType
  <1>2. then \in Text /\ (para = <<>> => then = all)
    BY <1>1, TextConcat
  <1> HIDE DEF para
  <1>3. PICK cs \in Seq(Text), c \in Text : chunks = Append(cs, c)
    <2>1. CASE chunks = << <<>> >>
      <3>1. << <<>> >> = Append(<<>>, <<>>) /\ <<>> \in Seq(Text) /\ <<>> \in Text
        BY TextEmpty, EmptySeq, OneAndTwo
      <3> QED
        BY <2>1, <3>1
    <2>2. CASE chunks # <<>> /\ Built(chunks, size, all, Len(all))
      BY <2>2, BuiltType, SequenceEmptyOrAppend
    <2> QED
      BY <2>1, <2>2 DEF Held
  <1>4. /\ chunks \in Seq(Text) /\ Front(chunks) = cs /\ Last(chunks) = c /\ chunks # <<>>
    BY <1>3, FrontAndLast, AppendProperties
  <1> DEFINE candidate == IF c = <<>> THEN para ELSE Joined(c, para)
  <1>5. next = CASE para = <<>> -> chunks
                 [] para # <<>> /\ Len(candidate) <= size -> Append(cs, candidate)
                 [] para # <<>> /\ Len(candidate) > size /\ c = <<>> ->
                      cs \o Cut(para, size, overlap)
                 [] OTHER -> chunks \o Cut(Joined(TailOf(c, overlap), para), size, overlap)
    BY <1>4 DEF Added, para
  <1>6. Len(candidate) <= size \/ Len(candidate) > size
    <2>1. candidate \in Text
      BY <1>1, JoinedLetters
    <2> HIDE DEF candidate
    <2> QED
      BY <2>1, TextLen DEF Sizes
  <1> HIDE DEF next, then, candidate
  <1>8. ASSUME para # <<>>, c = <<>> PROVE Held(next, size, then)
    <2>1. chunks = << <<>> >> /\ all = <<>>
      <3> SUFFICES ASSUME chunks # <<>>, Built(chunks, size, all, Len(all)) PROVE FALSE
        BY DEF Held
      <3>1. Len(chunks) \in 1..Len(chunks) /\ chunks[Len(chunks)] = c
        <4>1. Len(cs) \in Nat /\ Len(chunks) = Len(cs) + 1 /\ chunks[Len(cs) + 1] = c
          BY <1>3, LenProperties, AppendProperties
        <4> QED
          BY <4>1
      <3> QED
        BY <1>8, <3>1, BuiltType DEF Tight
    <2>2. cs = <<>>
      <3>1. << <<>> >> = Append(<<>>, <<>>) /\ <<>> \in Seq(Text) /\ <<>> \in Text
        BY TextEmpty, EmptySeq, OneAndTwo
      <3> QED
        BY <1>3, <1>4, <2>1, <3>1, FrontAndLast
    <2>3. then = Letters(para) /\ then = <<>> \o Letters(para) /\ <<>> \in Text
      BY <1>1, <2>1, TextConcat, TextEmpty DEF then
    <2>4. candidate = para
      BY <1>8 DEF candidate
    <2>5. Len(then) \in Nat /\ 0 <= Len(then) /\ Len(<<>>) = 0 /\ Len(para) \in Nat
      BY <1>1, <1>2, TextLen, TextEmpty
    <2>6. 0 \in 0..overlap /\ Len(Letters(SubSeq(para, 1, 0))) = 0
      <3>1. SubSeq(para, 1, 0) = <<>>
        BY SubSeqEmpty
      <3>2. Len(Letters(SubSeq(para, 1, 0))) = 0
        BY <3>1, LettersEmpty, TextEmpty
      <3>3. 0 \in 0..overlap
        BY DEF Sizes
      <3> QED
        BY <3>2, <3>3
    <2>7. Due(size, overlap, then, <<>>, para, 0, <<>>)
      <3>1. \E j \in 0..overlap :
              j <= Len(para) /\ 0 <= Len(<<>>) + Len(Letters(SubSeq(para, 1, j)))
        BY <2>5, <2>6
      <3>2. Tight(para) /\ Built(<<>>, size, then, 0)
        BY <1>1, <1>8, BuiltEmpty
      <3> QED
        BY <2>3, <2>5, <3>1, <3>2 DEF Due
    <2>8. CASE Len(candidate) <= size
      <3>1. next = Append(cs, para)
        <4>1. ~(Len(candidate) > size)
          BY <2>4, <2>5, <2>8 DEF Sizes
        <4>2. next = Append(cs, candidate)
          BY <1>5, <1>8, <2>8, <4>1
        <4> QED
          BY <2>4, <4>2
      <3>2. Built(Append(cs, para), size, then, Len(then))
        BY <2>2, <2>4, <2>7, <2>8, DueEnds
      <3>3. Append(cs, para) # <<>>
        BY <1>1, AppendProperties
      <3> QED
        BY <3>1, <3>2, <3>3 DEF Held
    <2>9. CASE Len(candidate) > size
      <3>1. ~(Len(candidate) <= size)
        BY <2>4, <2>5, <2>9 DEF Sizes
      <3>2. next = <<>> \o Cut(para, size, overlap)
        BY <1>5, <1>8, <2>2, <2>9, <3>1
      <3>3. Built(next, size, then, Len(then))
        BY <2>7, <3>2, CutBuilds
      <3>4. next # <<>>
        <4>1. Cut(para, size, overlap) # <<>>
          BY <1>1, CutSome
        <4>2. Cut(para, size, overlap) \in Seq(Text)
          BY <1>1, CutType
        <4> QED
          BY <3>2, <4>1, <4>2, ConcatEmptySeq
      <3> QED
        BY <3>3, <3>4 DEF Held
    <2> QED
      BY <1>6, <2>8, <2>9
  <1>9. ASSUME para # <<>>, c # <<>> PROVE Held(next, size, then)
    <2>1. Built(chunks, size, all, Len(all))
      <3>1. chunks # << <<>> >>
        <4>1. << <<>> >> = Append(<<>>, <<>>) /\ <<>> \in Seq(Text) /\ <<>> \in Text
          BY TextEmpty, EmptySeq, OneAndTwo
        <4> QED
          BY <1>4, <1>9, <4>1, FrontAndLast
      <3> QED
        BY <1>3, <3>1 DEF Held
    <2>2. candidate = Joined(c, para)
      BY <1>9 DEF candidate
    <2>3. Letters(para) # <<>> /\ then = all \o Letters(para)
      BY <1>1, <1>9 DEF then
    <2>4. CASE Len(candidate) <= size
      <3>1. next = Append(cs, candidate)
        BY <1>5, <1>9, <2>4
      <3>2. PICK m \in Nat, x \in Text :
              /\ Built(cs, size, all, m) /\ Behind(c, all, x)
              /\ Len(x) <= m /\ m <= Len(all)
        BY <1>4, <2>1, BuiltWhole
      <3>3. Letters(c) \in Text /\ Letters(para) \in Text
        BY <1>1, LettersType
      <3>5. /\ Tight(candidate) /\ candidate \in Text
            /\ Letters(candidate) = Letters(c) \o Letters(para)
        BY <1>1, <2>2, <2>3, JoinedLetters
      <3>6. Letters(candidate) \in Text
        BY <3>5, LettersType
      <3>7. then = x \o Letters(candidate)
        <4>1. (x \o Letters(c)) \o Letters(para) = x \o (Letters(c) \o Letters(para))
          BY <3>3, TextAssociative
        <4> QED
          BY <2>3, <3>2, <3>5, <4>1 DEF Behind
      <3>8. Built(cs, size, then, m)
        BY <2>3, <3>2, <3>3, BuiltGrows
      <3>9. /\ Len(then) = Len(x) + Len(Letters(candidate)) /\ Len(then) \in Nat
            /\ Len(then) = Len(all) + Len(Letters(para))
            /\ Len(all) \in Nat /\ Len(Letters(para)) \in Nat
        <4>1. Len(then) = Len(x) + Len(Letters(candidate))
          BY <3>6, <3>7, TextConcat
        <4>2. Len(then) = Len(all) + Len(Letters(para))
          BY <2>3, <3>3, TextConcat
        <4> QED
          BY <1>2, <3>3, <4>1, <4>2, TextLen
      <3>10. \E t \in Text : then = (x \o Letters(candidate)) \o t
        BY <1>2, <3>7, TextConcat, TextEmpty
      <3>11. m <= Len(x) + Len(Letters(candidate))
        BY <3>2, <3>9
      <3>12. Built(Append(cs, candidate), size, then, Len(x) + Len(Letters(candidate)))
        BY <2>4, <3>2, <3>5, <3>8, <3>10, <3>11, BuiltAppend
      <3>13. Append(cs, candidate) # <<>>
        BY <3>5, AppendProperties
      <3> QED
        BY <3>1, <3>9, <3>12, <3>13 DEF Held
    <2>5. CASE Len(candidate) > size
      <3> DEFINE current == Joined(TailOf(c, overlap), para)
      <3>1. ~(Len(candidate) <= size)
        <4>1. Len(candidate) \in Nat
          BY <1>1, <2>2, JoinedLetters, TextLen
        <4> QED
          BY <2>5, <4>1 DEF Sizes
      <3>2. next = chunks \o Cut(current, size, overlap)
        BY <1>3, <1>5, <1>9, <3>1
      <3>3. PICK x : Due(size, overlap, then, chunks, current, Len(all), x)
        BY <1>1, <1>4, <2>1, <2>3, DueAfter
      <3>4. Built(next, size, then, Len(then))
        BY <3>2, <3>3, CutBuilds
      <3>5. next # <<>>
        <4>1. current \in Text
          BY <3>3 DEF Due, Tight
        <4> HIDE DEF current
        <4>2. Cut(current, size, overlap) \in Seq(Text) 
          BY <4>1, CutType
        <4> QED
          BY <1>4, <3>2, <4>2, ConcatEqualIffEmpty
      <3> QED
        BY <3>4, <3>5 DEF Held
    <2> QED
      BY <1>6, <2>4, <2>5
  <1>10. Held(next, size, then)
    <2>1. CASE para = <<>>
      <3>1. next = chunks /\ then = all
        BY <1>2, <1>5, <2>1
      <3> QED
        BY <3>1
    <2> QED
      BY <1>8, <1>9, <2>1
  <1> QED
    BY <1>10 DEF next, then
-----------------------------------------------------------------------------
(* All the paragraphs, and the chunks that are not blank.                  *)
LEMMA AddedAll ==
  ASSUME NEW size, NEW overlap, Sizes(size, overlap), NEW ps \in Seq(Text)
  PROVE  Held(Folded(Added(size, overlap), << <<>> >>, ps), size, Joint(ps))
  <1> DEFINE F(qs) == Folded(Added(size, overlap), << <<>> >>, qs)
             S == {qs \in Seq(Text) : Held(F(qs), size, Joint(qs))}
  <1>1. <<>> \in S
    <2>1. F(<<>>) = << <<>> >> /\ Joint(<<>>) = <<>> /\ <<>> \in Seq(Text)
      BY FoldEmpty, EmptySeq DEF Joint
    <2> QED
      BY <2>1 DEF Held
  <1>2. ASSUME NEW qs \in Seq(Text), NEW q \in Text, qs \in S PROVE Append(qs, q) \in S
    <2>1. F(Append(qs, q)) = Added(size, overlap)[F(qs)][q]
      BY FoldAppend
    <2> HIDE DEF F
    <2>2. Joint(qs) \in Text /\ Joint(Append(qs, q)) = Joint(qs) \o Letters(q)
      BY JointAppend
    <2>3. Held(F(qs), size, Joint(qs))
      BY <1>2
    <2>4. Held(F(Append(qs, q)), size, Joint(Append(qs, q)))
      BY <2>1, <2>2, <2>3, AddedHolds
    <2> QED
      BY <2>4, AppendProperties
  <1> HIDE DEF S
  <1>3. Seq(Text) \subseteq S
    BY <1>1, <1>2, SeqSet
  <1> QED
    BY <1>3 DEF S

LEMMA ShownTight ==
  ASSUME NEW cs \in Seq(Text), \A i \in 1..Len(cs) : Tight(cs[i])
  PROVE  Folded(Shown, <<>>, cs) = cs
  <1> DEFINE S == {ds \in Seq(Text) :
                     (\A i \in 1..Len(ds) : Tight(ds[i])) => Folded(Shown, <<>>, ds) = ds}
  <1>1. <<>> \in S
    BY FoldEmpty, EmptySeq
  <1>2. ASSUME NEW ds \in Seq(Text), NEW c \in Text, ds \in S PROVE Append(ds, c) \in S
    <2> DEFINE r == Append(ds, c)
    <2>1. /\ r \in Seq(Text) /\ Len(r) = Len(ds) + 1 /\ r[Len(ds) + 1] = c
          /\ \A i \in 1..Len(ds) : r[i] = ds[i]
      BY AppendProperties
    <2>2. Folded(Shown, <<>>, r) = Shown[Folded(Shown, <<>>, ds)][c]
      BY FoldAppend
    <2>3. Len(ds) \in Nat
      BY LenProperties
    <2>4. ASSUME \A i \in 1..Len(r) : Tight(r[i]) PROVE Folded(Shown, <<>>, r) = r
      <3> HIDE DEF r
      <3>1. Tight(c) /\ \A i \in 1..Len(ds) : Tight(ds[i])
        <4>1. Len(ds) + 1 \in 1..Len(r) /\ \A i \in 1..Len(ds) : i \in 1..Len(r)
          BY <2>1, <2>3
        <4> QED
          BY <2>1, <2>4, <4>1
      <3>2. Folded(Shown, <<>>, ds) = ds
        BY <1>2, <3>1
      <3>3. Trimmed(c) = c /\ c # <<>>
        BY <3>1, TightStays DEF Tight
      <3>4. Shown[ds][c] = Append(ds, c)
        BY <3>3 DEF Shown
      <3> QED
        BY <2>2, <3>2, <3>4 DEF r
    <2> HIDE DEF r
    <2>5. r \in S
      BY <2>1, <2>4
    <2> QED
      BY <2>5 DEF r
  <1> HIDE DEF S
  <1>3. Seq(Text) \subseteq S
    BY <1>1, <1>2, SeqSet
  <1> QED
    BY <1>3 DEF S

LEMMA ShownAll ==
  ASSUME NEW size, NEW chunks, NEW all, Held(chunks, size, all)
  PROVE  Built(Folded(Shown, <<>>, chunks), size, all, Len(all))
  <1>1. CASE chunks = << <<>> >> /\ all = <<>>
    <2> DEFINE e == <<>>
    <2>1. e \in Seq(Text) /\ e \in Text /\ e = <<>> /\ chunks = Append(e, e)
      BY <1>1, TextEmpty, EmptySeq, OneAndTwo
    <2>2. Folded(Shown, <<>>, e) = <<>>
      BY FoldEmpty
    <2>3. Trimmed(e) = <<>>
      BY LettersEmpty, TextEmpty, TrimmedText
    <2>4. Shown[e][e] = e
      BY <2>1, <2>3 DEF Shown
    <2> HIDE DEF e
    <2>5. Folded(Shown, <<>>, Append(e, e)) = Shown[Folded(Shown, <<>>, e)][e]
      <3>1. ASSUME NEW s \in Seq(Text), NEW c \in Text
            PROVE  Folded(Shown, <<>>, Append(s, c)) = Shown[Folded(Shown, <<>>, s)][c]
        BY FoldAppend
      <3> QED
        BY <2>1, <3>1
    <2>6. Folded(Shown, <<>>, chunks) = <<>>
      BY <2>1, <2>2, <2>4, <2>5
    <2> QED
      BY <1>1, <2>6, BuiltEmpty, TextEmpty
  <1>2. CASE chunks # <<>> /\ Built(chunks, size, all, Len(all))
    <2>1. chunks \in Seq(Text) /\ \A i \in 1..Len(chunks) : Tight(chunks[i])
      BY <1>2, BuiltType
    <2> QED
      BY <1>2, <2>1, ShownTight
  <1> QED
    BY <1>1, <1>2 DEF Held

LEMMA SplitBuilds ==
  ASSUME NEW text \in Text, NEW size, NEW overlap, Sizes(size, overlap)
  PROVE  Built(Split(text, size, overlap), size, Letters(text), Len(Letters(text)))
  <1> DEFINE ps == Paragraphs(CleanText(text))
             chunks == Folded(Added(size, overlap), << <<>> >>, ps)
  <1>1. ps \in Seq(Text) /\ Joint(ps) = Letters(text)
    BY CleanLetters, ParagraphsLetters
  <1> HIDE DEF ps
  <1>2. Held(chunks, size, Letters(text))
    BY <1>1, AddedAll
  <1>3. ~(overlap >= size)
    BY DEF Sizes
  <1>4. Split(text, size, overlap) = Folded(Shown, <<>>, chunks)
    BY <1>3 DEF Split, ps
  <1> HIDE DEF chunks
  <1> QED
    BY <1>2, <1>4, ShownAll

LEMMA TextMiddle ==
  ASSUME NEW x \in Text, NEW l \in Text, NEW y \in Text
  PROVE  SubSeq((x \o l) \o y, Len(x) + 1, Len(x) + Len(l)) = l
  <1> DEFINE r == x \o l
             t == r \o y
             p == Len(x) + 1
             q == Len(x) + Len(l)
             u == SubSeq(t, p, q)
  <1>1. /\ r \in Text /\ Len(r) = q /\ \A i \in 1..Len(l) : r[Len(x) + i] = l[i]
    BY TextConcat
  <1> HIDE DEF r
  <1>10. /\ t \in Text /\ Len(t) = Len(r) + Len(y)
         /\ \A i \in 1..Len(r) : t[i] = r[i]
    BY <1>1, TextConcat
  <1> HIDE DEF t
  <1>2. t \in Text /\ Len(t) = q + Len(y) /\ \A i \in 1..q : t[i] = r[i]
    BY <1>1, <1>10
  <1>3. Len(x) \in Nat /\ Len(l) \in Nat /\ Len(y) \in Nat
    BY TextLen
  <1>4. p \in 1..Len(t) + 1 /\ q \in (p - 1)..Len(t) /\ q - p + 1 = Len(l)
    BY <1>2, <1>3
  <1>5. \A i \in 1..Len(l) : p + i - 1 = Len(x) + i /\ Len(x) + i \in 1..q
    BY <1>3
  <1> HIDE DEF p, q
  <1>6. /\ u \in Text /\ Len(u) = Len(l) /\ \A i \in 1..Len(l) : u[i] = t[p + i - 1]
    BY <1>2, <1>4, TextSub
  <1> HIDE DEF u
  <1>7. \A i \in 1..Len(l) : u[i] = l[i]
    BY <1>1, <1>2, <1>5, <1>6
  <1>8. u \in Seq(Byte) /\ l \in Seq(Byte)
    BY <1>6 DEF Text
  <1>9. u = l
    BY <1>6, <1>7, <1>8, SeqEqual
  <1> QED
    BY <1>9 DEF r, t, p, q, u

(* The i-th chunk has the letters from the from[i]-th to the to[i]-th: no  *)
(* letter is left out, none is out of order, and the last one is there.    *)
HoldTheText(chunks, size, all, from, to) ==
  /\ from \in [1..Len(chunks) -> Nat] /\ to \in [1..Len(chunks) -> Nat]
  /\ \A i \in 1..Len(chunks) :
       /\ Len(chunks[i]) \in 1..size
       /\ 1 <= from[i] /\ from[i] <= to[i] /\ to[i] <= Len(all)
       /\ Letters(chunks[i]) = SubSeq(all, from[i], to[i])
       /\ from[i] <= (IF i = 1 THEN 1 ELSE to[i - 1] + 1)
       /\ i # 1 => to[i - 1] <= to[i]
  /\ Len(all) = IF Len(chunks) = 0 THEN 0 ELSE to[Len(chunks)]

(* chunk.Split loses nothing of a text, for every text, every chunk size   *)
(* and every smaller overlap.                                              *)
THEOREM SplitKeepsTheText ==
  ASSUME NEW text \in Text, NEW size \in Nat, NEW overlap \in Nat, overlap < size
  PROVE  /\ Split(text, size, overlap) \in Seq(Text)
         /\ \E from, to : HoldTheText(Split(text, size, overlap), size, Letters(text), from, to)
  <1> DEFINE cs == Split(text, size, overlap)
             all == Letters(text)
  <1>1. Built(cs, size, all, Len(all))
    BY SplitBuilds DEF Sizes
  <1>2. all \in Text
    BY LettersType
  <1> HIDE DEF cs, all
  <1>3. PICK before : /\ Placed(cs, before, size, all)
                      /\ Len(all) = IF Len(cs) = 0 THEN 0 ELSE Reach(cs, before, Len(cs))
    BY <1>1 DEF Built
  <1> DEFINE from == [i \in 1..Len(cs) |-> Len(before[i]) + 1]
             to == [i \in 1..Len(cs) |-> Reach(cs, before, i)]
  <1>4. cs \in Seq(Text) /\ Len(cs) \in Nat /\ before \in [1..Len(cs) -> Text]
    BY <1>3, LenProperties DEF Placed
  <1>5. /\ \A i \in 1..Len(cs) : from[i] = Len(before[i]) + 1 /\ to[i] = Reach(cs, before, i)
        /\ DOMAIN from = 1..Len(cs) /\ DOMAIN to = 1..Len(cs)
        /\ from = [i \in 1..Len(cs) |-> from[i]] /\ to = [i \in 1..Len(cs) |-> to[i]]
    OBVIOUS
  <1> HIDE DEF from, to
  <1>6. ASSUME NEW i \in 1..Len(cs)
        PROVE  /\ Len(cs[i]) \in 1..size
               /\ from[i] \in Nat /\ to[i] \in Nat
               /\ 1 <= from[i] /\ from[i] <= to[i] /\ to[i] <= Len(all)
               /\ Letters(cs[i]) = SubSeq(all, from[i], to[i])
               /\ from[i] <= (IF i = 1 THEN 1 ELSE to[i - 1] + 1)
               /\ i # 1 => to[i - 1] <= to[i]
    <2>1. /\ Tight(cs[i]) /\ Len(cs[i]) <= size
          /\ \E y \in Text : all = (before[i] \o Letters(cs[i])) \o y
          /\ Len(before[i]) <= (IF i = 1 THEN 0 ELSE Reach(cs, before, i - 1))
          /\ i # 1 => Reach(cs, before, i - 1) <= Reach(cs, before, i)
      BY <1>3 DEF Placed
    <2>2. Len(cs[i]) \in Nat \ {0} /\ Letters(cs[i]) # <<>> /\ cs[i] \in Text
      BY <2>1, TightStays DEF Tight
    <2> DEFINE x == before[i]
               l == Letters(cs[i])
    <2>3. x \in Text /\ l \in Text
      BY <1>4, <2>2, LettersType
    <2>4. PICK y \in Text : all = (x \o l) \o y
      BY <2>1
    <2>5. from[i] = Len(x) + 1 /\ to[i] = Len(x) + Len(l)
      BY <1>5 DEF Reach
    <2> HIDE DEF x, l
    <2>6. SubSeq(all, from[i], to[i]) = l
      BY <2>3, <2>4, <2>5, TextMiddle
    <2>7. Len(x) \in Nat /\ Len(l) \in Nat /\ Len(y) \in Nat /\ Len(l) # 0
      BY <2>2, <2>3, TextLen DEF l
    <2>8. Len(all) = Len(x) + Len(l) + Len(y)
      <3>1. x \o l \in Text /\ Len(x \o l) = Len(x) + Len(l)
        BY <2>3, TextConcat
      <3>2. Len((x \o l) \o y) = Len(x \o l) + Len(y)
        BY <3>1, TextConcat
      <3> QED
        BY <2>4, <3>1, <3>2
    <2>9. i # 1 => i - 1 \in 1..Len(cs) /\ to[i - 1] = Reach(cs, before, i - 1)
      BY <1>4, <1>5
    <2>10. Len(cs[i]) \in 1..size
      BY <2>1, <2>2
    <2>11. /\ from[i] \in Nat /\ to[i] \in Nat
           /\ 1 <= from[i] /\ from[i] <= to[i] /\ to[i] <= Len(all)
      BY <2>5, <2>7, <2>8
    <2>12. i = 1 => from[i] <= 1
      BY <2>1, <2>5, <2>7 DEF x
    <2>13. i # 1 => Reach(cs, before, i - 1) \in Nat
      <3>1. ASSUME NEW j \in 1..Len(cs) PROVE Reach(cs, before, j) \in Nat
        <4>1. before[j] \in Text /\ cs[j] \in Text
          BY <1>4, ElementOfSeq
        <4>2. Len(before[j]) \in Nat /\ Len(Letters(cs[j])) \in Nat
          BY <4>1, LettersType, TextLen
        <4> DEFINE a == Len(before[j])
                   b == Len(Letters(cs[j]))
        <4>3. Reach(cs, before, j) = a + b
          BY DEF Reach
        <4>4. a \in Nat /\ b \in Nat
          BY <4>2
        <4> HIDE DEF a, b
        <4> QED
          BY <4>3, <4>4
      <3> QED
        BY <2>9, <3>1
    <2>14. i # 1 => from[i] <= to[i - 1] + 1
      BY <2>1, <2>5, <2>7, <2>9, <2>13 DEF x
    <2>15. i # 1 => to[i - 1] <= to[i]
      BY <1>5, <2>1, <2>9
    <2> QED
      BY <2>6, <2>10, <2>11, <2>12, <2>14, <2>15 DEF l
  <1>7. Len(all) = IF Len(cs) = 0 THEN 0 ELSE to[Len(cs)]
    <2>1. Len(cs) = 0 \/ Len(cs) \in 1..Len(cs)
      BY <1>4
    <2> QED
      BY <1>3, <1>5, <2>1
  <1>8. from \in [1..Len(cs) -> Nat] /\ to \in [1..Len(cs) -> Nat]
    BY <1>5, <1>6
  <1>9. HoldTheText(cs, size, all, from, to)
    BY <1>6, <1>7, <1>8 DEF HoldTheText
  <1> QED
    BY <1>4, <1>9 DEF cs, all
=============================================================================
