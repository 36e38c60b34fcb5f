------------------------------ MODULE Chunking ------------------------------
(***************************************************************************)
(* chunk.Split (internal/chunk): how a text becomes chunks.  A text is a   *)
(* sequence of bytes; a byte that is not white space is a letter.          *)
(*                                                                         *)
(* The loops are folds.  Their steps are functions and not operators, so   *)
(* that a theorem about a fold can be about every step.                    *)
(***************************************************************************)
EXTENDS Naturals, Sequences, SequencesExt, FiniteSetsExt

CONSTANTS
  Byte,   \* the bytes a text is made of
  White   \* those that strings.TrimSpace takes away, newline among them

NL == "\n"

ASSUME ChunkingAssumption == NL \in White /\ White \subseteq Byte

Text == Seq(Byte)

(* A loop over the members of s: step[a][b] is what b makes of a.          *)
Folded(step, base, s) == FoldLeft(LAMBDA a, b : step[a][b], base, s)

(* The letters of a text, in their order.                                  *)
Spelled == [s \in Text |-> [b \in Byte |-> IF b \in White THEN s ELSE Append(s, b)]]

Letters(t) == Folded(Spelled, <<>>, t)

(* strings.TrimSpace.                                                      *)
Trimmed(t) ==
  LET letters == {i \in DOMAIN t : t[i] \notin White}
  IN  IF letters = {} THEN <<>> ELSE SubSeq(t, Min(letters), Max(letters))

(* CleanText: three newlines and more become two.                          *)
Squeezed ==
  [s \in Text |-> [b \in Byte |->
     IF b = NL /\ IsSuffix(<<NL, NL>>, s) THEN s ELSE Append(s, b)]]

CleanText(t) == Trimmed(Folded(Squeezed, <<>>, t))

(* strings.Split at every blank line.                                      *)
Parted ==
  [p \in Seq(Text) |-> [b \in Byte |->
     IF b = NL /\ Last(p) # <<>> /\ Last(Last(p)) = NL
     THEN Front(p) \o <<Front(Last(p)), <<>>>>
     ELSE Append(Front(p), Append(Last(p), b))]]

Paragraphs(t) == Folded(Parted, << <<>> >>, t)

Joined(a, b) == Trimmed(a \o <<NL, NL>> \o b)

(* The end of a finished chunk that the next one begins with.              *)
TailOf(current, overlap) ==
  IF Len(current) > overlap THEN SubSeq(current, Len(current) - overlap + 1, Len(current))
  ELSE current

(* Mutation: the next piece begins one byte after the end of this one.     *)
RestSkips(current, size, overlap) ==
  Trimmed(SubSeq(current, size - overlap + 2, Len(current)))

Piece(current, size) == Trimmed(SubSeq(current, 1, size))
Rest(current, size, overlap) ==
  Trimmed(SubSeq(current, size - overlap + 1, Len(current)))

(* Pieces are cut off until what is left fits; it comes last.              *)
Cut(text, size, overlap) ==
  LET cut[current \in Text] ==
        IF Len(current) <= size THEN <<current>>
        ELSE <<Piece(current, size)>> \o cut[Rest(current, size, overlap)]
  IN  cut[text]

(* One paragraph more.  The last of the chunks is the one being made; it   *)
(* is empty before the first paragraph.                                    *)
Added(size, overlap) ==
  [chunks \in Seq(Text) |-> [p \in Text |->
     LET para == Trimmed(p)
         current == Last(chunks)
         candidate == IF current = <<>> THEN para ELSE Joined(current, para)
     IN  CASE para = <<>> -> chunks
           [] para # <<>> /\ Len(candidate) <= size -> Append(Front(chunks), candidate)
           [] para # <<>> /\ Len(candidate) > size /\ current = <<>> ->
                Front(chunks) \o Cut(para, size, overlap)
           [] OTHER -> chunks \o Cut(Joined(TailOf(current, overlap), para), size, overlap)]]

(* The chunks that are not blank are the answer.                           *)
Shown ==
  [out \in Seq(Text) |-> [c \in Text |->
     IF Trimmed(c) = <<>> THEN out ELSE Append(out, Trimmed(c))]]

Split(text, size, overlap) ==
  IF overlap >= size THEN <<>>
  ELSE Folded(Shown, <<>>,
         Folded(Added(size, overlap), << <<>> >>, Paragraphs(CleanText(text))))
=============================================================================
