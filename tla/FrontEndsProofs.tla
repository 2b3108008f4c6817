---------------------------- MODULE FrontEndsProofs ----------------------------
(***************************************************************************)
(* What FrontEnds and Dashboard promise, for every value of the constants: *)
(* the types of their variables, that what was accepted is served after    *)
(* any number of restarts, through the routes, the command line and the    *)
(* page, and that the rows of the page name their requests.                *)
(*                                                                         *)
(* A restart reads the file.  So the proof goes from texts up: how Pieces  *)
(* and Tokens read a text that is put together (PiecesSplit, TokensSplit), *)
(* that a command of single words is read as it was written                *)
(* (SetIsReadAgain, DelIsReadAgain) and as one line (WrittenIsLine), that  *)
(* a replay leaves of each key what the last line about it says            *)
(* (LastLineDecides), and that this line says what was accepted (LogSays,  *)
(* a part of the invariant ServerInv).  What is induction over a text or a *)
(* file speaks of sets, as in InductionLemmas.                             *)
(***************************************************************************)
EXTENDS Dashboard, InductionLemmas

\* What holds of the empty sequence, and with a sequence of each that has one
\* element more, holds of all.
LEMMA AppendInduction ==
  ASSUME NEW S, NEW T, <<>> \in T,
         \A s \in Seq(S) : \A x \in S : s \in T => Append(s, x) \in T
  PROVE  Seq(S) \subseteq T
<1> DEFINE Good == {n \in Nat : \A s \in Seq(S) : Len(s) = n => s \in T}
<1>1. 0 \in Good
  <2>1. ASSUME NEW s \in Seq(S), Len(s) = 0 PROVE s \in T
    BY <2>1, EmptySeq
  <2> QED BY <2>1
<1>2. ASSUME NEW n \in Nat, n \in Good PROVE n + 1 \in Good
  <2>1. ASSUME NEW s \in Seq(S), Len(s) = n + 1 PROVE s \in T
    <3>1. PICK r \in Seq(S), x \in S : s = Append(r, x)
      BY <2>1, EmptySeq, SequenceEmptyOrAppend
    <3>2. Len(r) = n
      BY <2>1, <3>1, AppendProperties, LenProperties
    <3> QED BY <1>2, <3>1, <3>2
  <2> QED BY <2>1
<1>3. Nat \subseteq Good
  <2> HIDE DEF Good
  <2> QED BY <1>1, <1>2, Counting
<1> QED BY <1>3, LenProperties

\* An element more at the end of the second is one more of both.
LEMMA ConcatAppend ==
  ASSUME NEW S, NEW s \in Seq(S), NEW t \in Seq(S), NEW x \in S
  PROVE  s \o Append(t, x) = Append(s \o t, x)
<1>1. Append(t, x) = t \o <<x>> /\ <<x>> \in Seq(S) /\ s \o t \in Seq(S)
  BY AppendIsConcat, ConcatProperties
<1>2. Append(s \o t, x) = (s \o t) \o <<x>>
  BY <1>1, AppendIsConcat
<1>3. (s \o t) \o <<x>> = s \o (t \o <<x>>)
  BY <1>1, ConcatAssociative
<1> QED BY <1>1, <1>2, <1>3

-----------------------------------------------------------------------------
(* The pieces of a text *)

PiecesRead == [done : Seq(Text), piece : Text]
NothingRead == [done |-> <<>>, piece |-> <<>>]

\* Pieces' Read, one symbol further.
ReadOne(r, w, between) ==
  IF w \in between THEN [done |-> Append(r.done, r.piece), piece |-> <<>>]
  ELSE [r EXCEPT !.piece = Append(@, w)]

\* Pieces reads its text from the left.
LEMMA PiecesAreRead ==
  ASSUME NEW B, NEW text \in Text
  PROVE  \E f \in [0 .. Len(text) -> PiecesRead] :
           /\ f[0] = NothingRead
           /\ \A n \in 1 .. Len(text) : f[n] = ReadOne(f[n - 1], text[n], B)
           /\ Pieces(text, B) = Append(f[Len(text)].done, f[Len(text)].piece)
<1> DEFINE m == Len(text)
           R == PiecesRead
           next == [n \in Nat |-> [r \in R |-> IF n \in 1 .. m THEN ReadOne(r, text[n], B) ELSE r]]
           Right(g) == g = [t \in SUBSET DOMAIN text |->
                              IF t = {} THEN NothingRead
                              ELSE ReadOne(g[t \ {Max(t)}], text[Max(t)], B)]
           G == CHOOSE g : Right(g)
<1>0. m \in Nat /\ DOMAIN text = 1 .. m /\ \A n \in 1 .. m : text[n] \in Symbol
  BY LenProperties DEF Text
<1>1. NothingRead \in R
  BY EmptySeq DEF NothingRead, PiecesRead, Text
<1>2. ASSUME NEW r \in R, NEW w \in Symbol PROVE ReadOne(r, w, B) \in R
  <2>1. Append(r.done, r.piece) \in Seq(Text) /\ Append(r.piece, w) \in Text /\ <<>> \in Text
    BY AppendProperties, EmptySeq DEF PiecesRead, Text
  <2> QED BY <2>1 DEF PiecesRead, ReadOne
<1> HIDE DEF R, m
<1>3. next \in [Nat -> [R -> R]]
  BY <1>0, <1>2
<1>4. \A n \in 1 .. m : \A r \in R : next[n][r] = ReadOne(r, text[n], B)
  BY <1>0
<1> HIDE DEF next
<1>5. PICK g \in [SUBSET (1 .. m) -> R] : Folds(g, NothingRead, next, m)
  BY <1>0, <1>1, <1>3, FoldsExist
<1>6. Right(g)
  <2>1. ASSUME NEW t \in SUBSET (1 .. m)
        PROVE  g[t] = IF t = {} THEN NothingRead ELSE ReadOne(g[t \ {Max(t)}], text[Max(t)], B)
    <3>1. CASE t = {}
      BY <1>5, <3>1 DEF Folds
    <3>2. CASE t # {}
      <4>1. Max(t) \in 1 .. m /\ t \ {Max(t)} \in SUBSET (1 .. m)
        BY <1>0, <3>2, MaxExists
      <4> QED BY <1>4, <1>5, <3>2, <4>1 DEF Folds
    <3> QED BY <3>1, <3>2
  <2> QED BY <1>0, <2>1
<1>7. Right(G)
  BY <1>6
<1>8. FoldsInOrder(G, NothingRead, next, R, m)
  <2> HIDE DEF G
  <2>1. G[{}] = NothingRead
    BY <1>7
  <2>2. ASSUME NEW n \in 1 .. m, G[1 .. n - 1] \in R
        PROVE  G[1 .. n] = next[n][G[1 .. n - 1]]
    <3>1. /\ 1 .. n \in SUBSET (1 .. m) /\ 1 .. n # {}
          /\ Max(1 .. n) = n /\ (1 .. n) \ {n} = 1 .. n - 1
      BY <1>0, UpTo
    <3>2. G[1 .. n] = ReadOne(G[1 .. n - 1], text[n], B)
      BY <1>0, <1>7, <3>1
    <3> QED BY <1>4, <2>2, <3>2
  <2> QED BY <2>1, <2>2 DEF FoldsInOrder
<1>9. Pieces(text, B) = Append(G[1 .. m].done, G[1 .. m].piece)
  BY <1>0 DEF Pieces, FoldLeft, MapThenFoldSet, ReadOne, NothingRead
<1> HIDE DEF G, Right
<1>10. PICK f \in [0 .. m -> R] : Follows(f, NothingRead, next, m) /\ G[1 .. m] = f[m]
  BY <1>0, <1>1, <1>3, <1>8, FoldIs
<1>11. \A n \in 1 .. m : f[n] = ReadOne(f[n - 1], text[n], B)
  BY <1>0, <1>4, <1>10 DEF Follows
<1> QED BY <1>9, <1>10, <1>11 DEF Follows, m, R

\* They are the pieces done with and the last one.
LEMMA PiecesMade ==
  ASSUME NEW B, NEW text \in Text
  PROVE  \E d \in Seq(Text), p \in Text : Pieces(text, B) = Append(d, p)
<1>1. PICK f \in [0 .. Len(text) -> PiecesRead] :
        Pieces(text, B) = Append(f[Len(text)].done, f[Len(text)].piece)
  BY PiecesAreRead
<1>2. Len(text) \in 0 .. Len(text)
  BY LenProperties DEF Text
<1> QED BY <1>1, <1>2 DEF PiecesRead

\* There is a last piece, and the others come before it.
LEMMA LastPiece ==
  \A d, e \in Seq(Text) : \A p, q \in Text : Append(d, p) = Append(e, q) => d = e /\ p = q
BY AppendInjective

\* The pieces of a text are texts.
LEMMA PiecesAreTexts ==
  ASSUME NEW B, NEW text \in Text PROVE Pieces(text, B) \in Seq(Text)
<1>1. PICK d \in Seq(Text), p \in Text : Pieces(text, B) = Append(d, p)
  BY PiecesMade
<1> QED BY <1>1, AppendProperties

\* Of the empty text there is one, which is empty.
LEMMA PiecesOfNothing == ASSUME NEW B PROVE Pieces(<<>>, B) = <<<<>>>>
<1> DEFINE text == <<>>
<1>1. text \in Text /\ Len(text) = 0
  BY EmptySeq DEF Text
<1> HIDE DEF text
<1>2. PICK f \in [0 .. Len(text) -> PiecesRead] :
        /\ f[0] = NothingRead
        /\ Pieces(text, B) = Append(f[Len(text)].done, f[Len(text)].piece)
  BY <1>1, PiecesAreRead
<1>3. Pieces(text, B) = Append(<<>>, <<>>)
  <2>1. f[Len(text)] = NothingRead
    BY <1>1, <1>2
  <2>2. NothingRead.done = <<>> /\ NothingRead.piece = <<>>
    BY DEF NothingRead
  <2> QED BY <1>2, <2>1, <2>2
<1> QED BY <1>3 DEF text

\* One symbol more ends the last piece or goes to its end.
LEMMA PiecesAppend ==
  ASSUME NEW B, NEW text \in Text, NEW w \in Symbol,
         NEW d \in Seq(Text), NEW p \in Text, Pieces(text, B) = Append(d, p)
  PROVE  /\ w \in B => Pieces(Append(text, w), B) = Append(Append(d, p), <<>>)
         /\ w \notin B => Pieces(Append(text, w), B) = Append(d, Append(p, w))
<1> DEFINE m == Len(text)
           more == Append(text, w)
<1>1. /\ m \in Nat /\ more \in Text /\ Len(more) = m + 1 /\ more[m + 1] = w
      /\ \A i \in 1 .. m : more[i] = text[i]
  <2>1. m \in Nat
    BY LenProperties DEF Text
  <2>2. /\ more \in Seq(Symbol) /\ Len(more) = m + 1 /\ more[m + 1] = w
        /\ \A i \in 1 .. m : more[i] = text[i]
    BY AppendProperties DEF Text
  <2> QED BY <2>1, <2>2 DEF Text
<1>2. PICK f \in [0 .. m -> PiecesRead] :
        /\ f[0] = NothingRead
        /\ \A n \in 1 .. m : f[n] = ReadOne(f[n - 1], text[n], B)
        /\ Pieces(text, B) = Append(f[m].done, f[m].piece)
  BY PiecesAreRead
<1> HIDE DEF more, m
<1>3. PICK g \in [0 .. m + 1 -> PiecesRead] :
        /\ g[0] = NothingRead
        /\ \A n \in 1 .. m + 1 : g[n] = ReadOne(g[n - 1], more[n], B)
        /\ Pieces(more, B) = Append(g[m + 1].done, g[m + 1].piece)
  <2>1. \E g \in [0 .. Len(more) -> PiecesRead] :
           /\ g[0] = NothingRead
           /\ \A n \in 1 .. Len(more) : g[n] = ReadOne(g[n - 1], more[n], B)
           /\ Pieces(more, B) = Append(g[Len(more)].done, g[Len(more)].piece)
    BY <1>1, PiecesAreRead
  <2> QED BY <1>1, <2>1
<1>4. f[m] = g[m]
  <2> DEFINE T == {n \in Nat : f[n] = g[n]}
  <2>1. 0 \in T
    BY <1>2, <1>3
  <2>2. ASSUME NEW n \in 1 .. m, n - 1 \in T PROVE n \in T
    <3>1. n \in 1 .. m + 1 /\ n \in Nat /\ f[n - 1] = g[n - 1] /\ more[n] = text[n]
      BY <2>2, <1>1
    <3> QED BY <3>1, <1>2, <1>3
  <2>3. 0 .. m \subseteq T
    <3> HIDE DEF T
    <3> QED BY <2>1, <2>2, <1>1, CountingTo
  <2> QED BY <2>3, <1>1
<1>5. f[m].done = d /\ f[m].piece = p
  <2>1. f[m].done \in Seq(Text) /\ f[m].piece \in Text
    BY <1>1, <1>2 DEF PiecesRead
  <2>2. Append(f[m].done, f[m].piece) = Append(d, p)
    BY <1>2
  <2>3. ASSUME NEW a \in Seq(Text), NEW b \in Text, Append(a, b) = Append(d, p)
        PROVE  a = d /\ b = p
    BY <2>3, LastPiece
  <2> QED BY <2>1, <2>2, <2>3
<1>6. g[m + 1] = ReadOne(f[m], w, B)
  BY <1>1, <1>3, <1>4
<1>7. f[m] \in PiecesRead
  BY <1>1, <1>2
<1>8. CASE w \in B
  BY <1>8, <1>3, <1>5, <1>6, <1>7 DEF ReadOne, more
<1>9. CASE w \notin B
  <2>1. g[m + 1].done = d /\ g[m + 1].piece = Append(p, w)
    BY <1>9, <1>5, <1>6, <1>7 DEF ReadOne, PiecesRead
  <2> QED BY <1>9, <2>1, <1>3 DEF more
<1> QED BY <1>8, <1>9

\* No symbol of a text is in the set.
Free(text, B) == \A i \in 1 .. Len(text) : text[i] \notin B

\* Below, w ends the last piece or goes to its end.
LEMMA PiecesEnd ==
  ASSUME NEW B, NEW text \in Text, NEW w \in Symbol, w \in B
  PROVE  Pieces(Append(text, w), B) = Append(Pieces(text, B), <<>>)
<1>1. PICK d \in Seq(Text), p \in Text : Pieces(text, B) = Append(d, p)
  BY PiecesMade
<1> QED BY <1>1, PiecesAppend

\* Any other symbol lengthens the last piece.
LEMMA PiecesGoOn ==
  ASSUME NEW B, NEW text \in Text, NEW w \in Symbol, w \notin B,
         NEW d \in Seq(Text), NEW p \in Text, Pieces(text, B) = Append(d, p)
  PROVE  Pieces(Append(text, w), B) = Append(d, Append(p, w))
BY PiecesAppend, Zenon

\* A text with one symbol more is free of B if it was, and the symbol is not in B.
LEMMA FreeAppend ==
  ASSUME NEW B, NEW text \in Text, NEW w \in Symbol
  PROVE  /\ Append(text, w) \in Text
         /\ Free(Append(text, w), B) <=> Free(text, B) /\ w \notin B
<1>1. /\ Append(text, w) \in Seq(Symbol) /\ Len(text) \in Nat
      /\ Len(Append(text, w)) = Len(text) + 1 /\ Append(text, w)[Len(text) + 1] = w
      /\ \A i \in 1 .. Len(text) : Append(text, w)[i] = text[i]
  <2>1. text \in Seq(Symbol)
    BY DEF Text
  <2>2. Len(text) \in Nat
    BY <2>1, LenProperties
  <2>3. /\ Append(text, w) \in Seq(Symbol)
        /\ Len(Append(text, w)) = Len(text) + 1 /\ Append(text, w)[Len(text) + 1] = w
        /\ \A i \in 1 .. Len(text) : Append(text, w)[i] = text[i]
    BY <2>1, AppendProperties
  <2> QED BY <2>2, <2>3
<1> DEFINE m == Len(text)
           more == Append(text, w)
<1> HIDE DEF m, more
<1>2. \A i \in 1 .. m + 1 : i \in 1 .. m \/ i = m + 1
  BY <1>1 DEF m
<1>3. 1 .. m \subseteq 1 .. m + 1 /\ m + 1 \in 1 .. m + 1
  BY <1>1 DEF m
<1>4. Free(more, B) <=> Free(text, B) /\ w \notin B
  BY <1>1, <1>2, <1>3 DEF Free, m, more
<1> QED BY <1>1, <1>4 DEF more, Text

\* The empty text is free of everything.
LEMMA FreeNothing == ASSUME NEW B PROVE <<>> \in Text /\ Free(<<>>, B)
BY EmptySeq DEF Free, Text

\* A text without symbols of the set is one piece.
LEMMA PiecesOfFree ==
  ASSUME NEW B, NEW text \in Text, Free(text, B) PROVE Pieces(text, B) = <<text>>
<1> DEFINE T == {t \in Text : Free(t, B) => Pieces(t, B) = <<t>>}
<1>1. <<>> \in T
  BY FreeNothing, PiecesOfNothing
<1>2. ASSUME NEW t \in Seq(Symbol), NEW w \in Symbol, t \in T PROVE Append(t, w) \in T
  <2>0. t \in Text /\ Append(t, w) \in Text
    BY FreeAppend DEF Text
  <2>1. SUFFICES ASSUME Free(Append(t, w), B) PROVE Pieces(Append(t, w), B) = <<Append(t, w)>>
    BY <2>0
  <2>2. t \in Text /\ Free(t, B) /\ w \notin B
    BY <2>1, FreeAppend DEF Text
  <2>3. <<>> \in Seq(Text) /\ Pieces(t, B) = Append(<<>>, t)
    BY <1>2, <2>2, EmptySeq
  <2>4. Pieces(Append(t, w), B) = Append(<<>>, Append(t, w))
    BY <2>2, <2>3, PiecesGoOn
  <2> QED BY <2>4
<1>3. Seq(Symbol) \subseteq T
  <2> HIDE DEF T
  <2> QED BY <1>1, <1>2, AppendInduction
<1> QED BY <1>3 DEF Text

\* The pieces have no symbol of the set.
LEMMA PiecesAreFree ==
  ASSUME NEW B, NEW text \in Text
  PROVE  \A i \in 1 .. Len(Pieces(text, B)) : Free(Pieces(text, B)[i], B)
<1> DEFINE AllFree(s) == \A i \in 1 .. Len(s) : Free(s[i], B)
           T == {t \in Text : AllFree(Pieces(t, B))}
<1>0. ASSUME NEW s \in Seq(Text), NEW x \in Text
      PROVE  AllFree(Append(s, x)) <=> AllFree(s) /\ Free(x, B)
  <2>1. /\ Len(s) \in Nat /\ Len(Append(s, x)) = Len(s) + 1 /\ Append(s, x)[Len(s) + 1] = x
        /\ \A i \in 1 .. Len(s) : Append(s, x)[i] = s[i]
    BY AppendProperties, LenProperties
  <2> DEFINE m == Len(s)
             more == Append(s, x)
  <2> HIDE DEF m, more
  <2>2. \A i \in 1 .. m + 1 : i \in 1 .. m \/ i = m + 1
    BY <2>1 DEF m
  <2>3. 1 .. m \subseteq 1 .. m + 1 /\ m + 1 \in 1 .. m + 1
    BY <2>1 DEF m
  <2>4. AllFree(more) <=> AllFree(s) /\ Free(x, B)
    BY <2>1, <2>2, <2>3 DEF m, more
  <2> QED BY <2>4 DEF more
<1>1. <<>> \in T
  <2>1. \A i \in 1 .. Len(<<<<>>>>) : Free(<<<<>>>>[i], B)
    BY FreeNothing
  <2> QED BY <2>1, FreeNothing, PiecesOfNothing
<1>2. ASSUME NEW t \in Seq(Symbol), NEW w \in Symbol, t \in T PROVE Append(t, w) \in T
  <2>1. t \in Text /\ Append(t, w) \in Text
    BY FreeAppend DEF Text
  <2>2. PICK d \in Seq(Text), p \in Text : Pieces(t, B) = Append(d, p)
    BY <2>1, PiecesMade
  <2>3. Append(d, p) \in Seq(Text) /\ Append(p, w) \in Text /\ <<>> \in Text
    BY AppendProperties, FreeAppend, FreeNothing
  <2>4. AllFree(d) /\ Free(p, B) /\ AllFree(Append(d, p))
    BY <1>0, <1>2, <2>2
  <2> HIDE DEF AllFree
  <2>5. CASE w \in B
    <3>1. Pieces(Append(t, w), B) = Append(Append(d, p), <<>>)
      BY <2>1, <2>2, <2>5, PiecesEnd
    <3>2. AllFree(Append(Append(d, p), <<>>))
      BY <1>0, <2>3, <2>4, FreeNothing
    <3> QED BY <2>1, <3>1, <3>2
  <2>6. CASE w \notin B
    <3>1. Pieces(Append(t, w), B) = Append(d, Append(p, w))
      BY <2>1, <2>2, <2>6, PiecesGoOn
    <3>2. Free(Append(p, w), B)
      BY <2>4, <2>6, FreeAppend
    <3>3. AllFree(Append(d, Append(p, w)))
      BY <1>0, <2>3, <2>4, <3>2
    <3> QED BY <2>1, <3>1, <3>3
  <2> QED BY <2>5, <2>6
<1>3. Seq(Symbol) \subseteq T
  <2> HIDE DEF T
  <2> QED BY <1>1, <1>2, AppendInduction
<1> QED BY <1>3 DEF Text

\* A symbol of the set parts the pieces before it from those after it.
LEMMA PiecesSplit ==
  ASSUME NEW B, NEW a \in Text, NEW sep \in Symbol, sep \in B, NEW b \in Text
  PROVE  Pieces(Append(a, sep) \o b, B) = Pieces(a, B) \o Pieces(b, B)
<1> DEFINE left == Append(a, sep)
           T == {t \in Text : Pieces(left \o t, B) = Pieces(a, B) \o Pieces(t, B)}
<1>0. left \in Text /\ left \in Seq(Symbol) /\ Pieces(a, B) \in Seq(Text)
  BY FreeAppend, PiecesAreTexts DEF Text
<1>a. Pieces(left, B) = Append(Pieces(a, B), <<>>)
  BY PiecesEnd
<1> HIDE DEF left
<1>1. <<>> \in T
  <2>1. left \o <<>> = left
    BY <1>0, ConcatEmptySeq
  <2>2. Append(Pieces(a, B), <<>>) = Pieces(a, B) \o <<<<>>>>
    BY <1>0, FreeNothing, AppendIsConcat
  <2> QED BY <1>a, <2>1, <2>2, FreeNothing, PiecesOfNothing
<1>2. ASSUME NEW t \in Seq(Symbol), NEW w \in Symbol, t \in T PROVE Append(t, w) \in T
  <2>1. t \in Text /\ Append(t, w) \in Text
    BY FreeAppend DEF Text
  <2>2. left \o Append(t, w) = Append(left \o t, w) /\ left \o t \in Text
    <3>1. left \o t \in Seq(Symbol)
      BY <1>0, ConcatProperties
    <3>2. left \o Append(t, w) = Append(left \o t, w)
      BY <1>0, ConcatAppend
    <3> QED BY <3>1, <3>2 DEF Text
  <2>3. PICK d \in Seq(Text), p \in Text : Pieces(t, B) = Append(d, p)
    BY <2>1, PiecesMade
  <2>e. Append(d, p) \in Seq(Text) /\ Append(p, w) \in Text /\ <<>> \in Text
    BY AppendProperties, FreeAppend, FreeNothing
  <2> DEFINE P == Pieces(a, B)
  <2>p. P \in Seq(Text)
    BY <1>0
  <2>h. Pieces(left \o t, B) = P \o Append(d, p)
    BY <1>2, <2>3
  <2> HIDE DEF P
  <2>4. P \o d \in Seq(Text) /\ P \o Append(d, p) = Append(P \o d, p)
    BY <2>p, ConcatAppend, ConcatProperties
  <2>5. Pieces(left \o t, B) = Append(P \o d, p)
    BY <2>h, <2>4
  <2>6. CASE w \in B
    <3>1. Pieces(Append(left \o t, w), B) = Append(Append(P \o d, p), <<>>)
      BY <2>2, <2>5, <2>6, PiecesEnd
    <3>2. Pieces(Append(t, w), B) = Append(Append(d, p), <<>>)
      BY <2>1, <2>3, <2>6, PiecesEnd
    <3>3. P \o Append(Append(d, p), <<>>) = Append(P \o Append(d, p), <<>>)
      BY <2>p, <2>e, ConcatAppend
    <3> QED BY <2>1, <2>2, <2>4, <3>1, <3>2, <3>3 DEF P
  <2>7. CASE w \notin B
    <3>1. Pieces(Append(left \o t, w), B) = Append(P \o d, Append(p, w))
      <4> DEFINE e == P \o d
                 u == left \o t
      <4> HIDE DEF e, u
      <4>1. e \in Seq(Text) /\ u \in Text /\ Pieces(u, B) = Append(e, p)
        BY <2>2, <2>4, <2>5 DEF e, u
      <4>2. Pieces(Append(u, w), B) = Append(e, Append(p, w))
        BY <2>7, <4>1, PiecesGoOn
      <4> QED BY <4>2 DEF e, u
    <3>2. Pieces(Append(t, w), B) = Append(d, Append(p, w))
      BY <2>1, <2>3, <2>7, PiecesGoOn
    <3>3. P \o Append(d, Append(p, w)) = Append(P \o d, Append(p, w))
      BY <2>p, <2>e, ConcatAppend
    <3> QED BY <2>1, <2>2, <3>1, <3>2, <3>3 DEF P
  <2> QED BY <2>6, <2>7
<1>3. Seq(Symbol) \subseteq T
  <2> HIDE DEF T
  <2> QED BY <1>1, <1>2, AppendInduction
<1> QED BY <1>3 DEF Text, left

-----------------------------------------------------------------------------
(* The words among the pieces *)

\* Tokens' Take.
TakeOne(words, piece) == IF piece = <<>> THEN words ELSE Append(words, piece)

\* The pieces that are not empty.
Kept(s) == FoldLeft(TakeOne, <<>>, s)

\* Tokens keeps the pieces between blanks that are not empty.
LEMMA TokensAreKept == ASSUME NEW text PROVE Tokens(text) = Kept(Pieces(text, Spaces))
BY DEF Tokens, Kept, TakeOne, FoldLeft, MapThenFoldSet

\* Kept takes its pieces from the left.
LEMMA TakenFromTheLeft ==
  ASSUME NEW s \in Seq(Text)
  PROVE  \E f \in [0 .. Len(s) -> Seq(Text)] :
           /\ f[0] = <<>> /\ \A n \in 1 .. Len(s) : f[n] = TakeOne(f[n - 1], s[n])
           /\ Kept(s) = f[Len(s)]
<1> DEFINE m == Len(s)
           R == Seq(Text)
           next == [n \in Nat |-> [r \in R |-> IF n \in 1 .. m THEN TakeOne(r, s[n]) ELSE r]]
           Right(g) == g = [t \in SUBSET DOMAIN s |->
                              IF t = {} THEN <<>> ELSE TakeOne(g[t \ {Max(t)}], s[Max(t)])]
           G == CHOOSE g : Right(g)
<1>0. m \in Nat /\ DOMAIN s = 1 .. m /\ \A n \in 1 .. m : s[n] \in Text
  BY LenProperties
<1>1. <<>> \in R
  BY EmptySeq
<1>2. ASSUME NEW r \in R, NEW x \in Text PROVE TakeOne(r, x) \in R
  BY AppendProperties DEF TakeOne
<1> HIDE DEF R, m
<1>3. next \in [Nat -> [R -> R]]
  BY <1>0, <1>2
<1>4. \A n \in 1 .. m : \A r \in R : next[n][r] = TakeOne(r, s[n])
  BY <1>0
<1> HIDE DEF next
<1>5. PICK g \in [SUBSET (1 .. m) -> R] : Folds(g, <<>>, next, m)
  BY <1>0, <1>1, <1>3, FoldsExist
<1>6. Right(g)
  <2>1. ASSUME NEW t \in SUBSET (1 .. m)
        PROVE  g[t] = IF t = {} THEN <<>> ELSE TakeOne(g[t \ {Max(t)}], s[Max(t)])
    <3>1. CASE t = {}
      BY <1>5, <3>1 DEF Folds
    <3>2. CASE t # {}
      <4>1. Max(t) \in 1 .. m /\ t \ {Max(t)} \in SUBSET (1 .. m)
        BY <1>0, <3>2, MaxExists
      <4> QED BY <1>4, <1>5, <3>2, <4>1 DEF Folds
    <3> QED BY <3>1, <3>2
  <2> QED BY <1>0, <2>1
<1>7. Right(G)
  BY <1>6
<1>8. FoldsInOrder(G, <<>>, next, R, m)
  <2> HIDE DEF G
  <2>1. G[{}] = <<>>
    BY <1>7
  <2>2. ASSUME NEW n \in 1 .. m, G[1 .. n - 1] \in R
        PROVE  G[1 .. n] = next[n][G[1 .. n - 1]]
    <3>1. /\ 1 .. n \in SUBSET (1 .. m) /\ 1 .. n # {}
          /\ Max(1 .. n) = n /\ (1 .. n) \ {n} = 1 .. n - 1
      BY <1>0, UpTo
    <3>2. G[1 .. n] = TakeOne(G[1 .. n - 1], s[n])
      BY <1>0, <1>7, <3>1
    <3> QED BY <1>4, <2>2, <3>2
  <2> QED BY <2>1, <2>2 DEF FoldsInOrder
<1>9. Kept(s) = G[1 .. m]
  BY <1>0 DEF Kept, FoldLeft, MapThenFoldSet
<1> HIDE DEF G, Right
<1>10. PICK f \in [0 .. m -> R] : Follows(f, <<>>, next, m) /\ G[1 .. m] = f[m]
  BY <1>0, <1>1, <1>3, <1>8, FoldIs
<1>11. \A n \in 1 .. m : f[n] = TakeOne(f[n - 1], s[n])
  BY <1>0, <1>4, <1>10 DEF Follows
<1> QED BY <1>9, <1>10, <1>11 DEF Follows, m, R

\* Nothing is kept of nothing.
LEMMA KeptOfNothing == Kept(<<>>) = <<>>
<1> DEFINE s == <<>>
<1>1. s \in Seq(Text) /\ Len(s) = 0
  BY EmptySeq
<1> HIDE DEF s
<1>2. PICK f \in [0 .. Len(s) -> Seq(Text)] : f[0] = <<>> /\ Kept(s) = f[Len(s)]
  BY <1>1, TakenFromTheLeft
<1> QED BY <1>1, <1>2 DEF s

\* One piece more is taken or left.
LEMMA KeptAppend ==
  ASSUME NEW s \in Seq(Text), NEW x \in Text
  PROVE  /\ Kept(s) \in Seq(Text)
         /\ Kept(Append(s, x)) = TakeOne(Kept(s), x)
<1> DEFINE m == Len(s)
           more == Append(s, x)
<1>1. /\ m \in Nat /\ more \in Seq(Text) /\ Len(more) = m + 1 /\ more[m + 1] = x
      /\ \A i \in 1 .. m : more[i] = s[i]
  BY AppendProperties, LenProperties
<1>2. PICK f \in [0 .. m -> Seq(Text)] :
        /\ f[0] = <<>> /\ \A n \in 1 .. m : f[n] = TakeOne(f[n - 1], s[n])
        /\ Kept(s) = f[m]
  BY TakenFromTheLeft
<1> HIDE DEF more, m
<1>3. PICK g \in [0 .. m + 1 -> Seq(Text)] :
        /\ g[0] = <<>> /\ \A n \in 1 .. m + 1 : g[n] = TakeOne(g[n - 1], more[n])
        /\ Kept(more) = g[m + 1]
  <2>1. \E g \in [0 .. Len(more) -> Seq(Text)] :
           /\ g[0] = <<>> /\ \A n \in 1 .. Len(more) : g[n] = TakeOne(g[n - 1], more[n])
           /\ Kept(more) = g[Len(more)]
    BY <1>1, TakenFromTheLeft
  <2> QED BY <1>1, <2>1
<1>4. f[m] = g[m]
  <2> DEFINE T == {n \in Nat : f[n] = g[n]}
  <2>1. 0 \in T
    BY <1>2, <1>3
  <2>2. ASSUME NEW n \in 1 .. m, n - 1 \in T PROVE n \in T
    <3>1. n \in 1 .. m + 1 /\ n \in Nat /\ f[n - 1] = g[n - 1] /\ more[n] = s[n]
      BY <2>2, <1>1
    <3> QED BY <3>1, <1>2, <1>3
  <2>3. 0 .. m \subseteq T
    <3> HIDE DEF T
    <3> QED BY <2>1, <2>2, <1>1, CountingTo
  <2> QED BY <2>3, <1>1
<1>5. g[m + 1] = TakeOne(f[m], x)
  BY <1>1, <1>3, <1>4
<1> QED BY <1>1, <1>2, <1>3, <1>5 DEF more

\* What is kept of two sequences is kept of one after the other.
LEMMA KeptConcat ==
  ASSUME NEW s \in Seq(Text), NEW t \in Seq(Text)
  PROVE  Kept(s \o t) = Kept(s) \o Kept(t)
<1> DEFINE T == {u \in Seq(Text) : Kept(s \o u) = Kept(s) \o Kept(u)}
<1>0. Kept(s) \in Seq(Text) /\ <<>> \in Seq(Text)
  BY EmptySeq, KeptAppend, FreeNothing
<1>1. <<>> \in T
  <2>1. s \o <<>> = s /\ Kept(s) \o <<>> = Kept(s)
    BY <1>0, ConcatEmptySeq
  <2> QED BY <1>0, <2>1, KeptOfNothing
<1>2. ASSUME NEW u \in Seq(Text), NEW x \in Text, u \in T PROVE Append(u, x) \in T
  <2>1. s \o u \in Seq(Text) /\ Append(u, x) \in Seq(Text)
    BY ConcatProperties, AppendProperties
  <2>2. s \o Append(u, x) = Append(s \o u, x)
    BY ConcatAppend
  <2>3. Kept(s \o Append(u, x)) = TakeOne(Kept(s) \o Kept(u), x)
    BY <1>2, <2>1, <2>2, KeptAppend
  <2>4. Kept(u) \in Seq(Text) /\ Kept(Append(u, x)) = TakeOne(Kept(u), x)
    BY KeptAppend
  <2> DEFINE k == Kept(s)
             l == Kept(u)
  <2> HIDE DEF k, l
  <2>5. k \o TakeOne(l, x) = TakeOne(k \o l, x)
    <3>1. k \in Seq(Text) /\ l \in Seq(Text)
      BY <1>0, <2>4 DEF k, l
    <3>2. k \o Append(l, x) = Append(k \o l, x)
      BY <3>1, ConcatAppend
    <3> QED BY <3>2 DEF TakeOne
  <2> QED BY <2>1, <2>3, <2>4, <2>5 DEF k, l
<1>3. Seq(Text) \subseteq T
  <2> HIDE DEF T
  <2> QED BY <1>1, <1>2, AppendInduction
<1> QED BY <1>3

-----------------------------------------------------------------------------
(* Words *)

\* What every text in a sequence is.
Each(s, P) == \A i \in 1 .. Len(s) : s[i] \in P

\* What holds of each element still does with one more of which it holds.
LEMMA EachAppend ==
  ASSUME NEW P, NEW s \in Seq(Text), NEW x \in Text
  PROVE  Each(Append(s, x), P) <=> Each(s, P) /\ x \in P
<1> DEFINE m == Len(s)
           more == Append(s, x)
<1>1. /\ m \in Nat /\ Len(more) = m + 1 /\ more[m + 1] = x
      /\ \A i \in 1 .. m : more[i] = s[i]
  BY AppendProperties, LenProperties
<1> HIDE DEF m, more
<1>2. \A i \in 1 .. m + 1 : i \in 1 .. m \/ i = m + 1
  BY <1>1
<1>3. 1 .. m \subseteq 1 .. m + 1 /\ m + 1 \in 1 .. m + 1
  BY <1>1
<1>4. Each(more, P) <=> Each(s, P) /\ x \in P
  BY <1>1, <1>2, <1>3 DEF Each, m
<1> QED BY <1>4 DEF more

SingleWords == {t \in Text : t # <<>> /\ Free(t, Spaces)}

\* Of texts without spaces, words are kept.
LEMMA KeptAreWords ==
  ASSUME NEW s \in Seq(Text), Each(s, {t \in Text : Free(t, Spaces)})
  PROVE  Each(Kept(s), SingleWords)
<1> DEFINE F == {t \in Text : Free(t, Spaces)}
           T == {u \in Seq(Text) : Each(u, F) => Each(Kept(u), SingleWords)}
<1>1. <<>> \in T
  <2>1. Each(<<>>, SingleWords) /\ <<>> \in Seq(Text)
    BY EmptySeq DEF Each
  <2> QED BY <2>1, KeptOfNothing
<1>2. ASSUME NEW u \in Seq(Text), NEW x \in Text, u \in T PROVE Append(u, x) \in T
  <2>1. Append(u, x) \in Seq(Text)
    BY AppendProperties
  <2>2. SUFFICES ASSUME Each(Append(u, x), F) PROVE Each(Kept(Append(u, x)), SingleWords)
    BY <2>1
  <2>3. Each(u, F) /\ x \in F
    BY <2>2, EachAppend
  <2>4. Each(Kept(u), SingleWords) /\ (x # <<>> => x \in SingleWords)
    BY <1>2, <2>3 DEF SingleWords
  <2>5. Kept(u) \in Seq(Text) /\ Kept(Append(u, x)) = TakeOne(Kept(u), x)
    BY KeptAppend
  <2>6. x # <<>> => Each(Append(Kept(u), x), SingleWords)
    BY <2>4, <2>5, EachAppend
  <2> QED BY <2>4, <2>5, <2>6 DEF TakeOne
<1>3. Seq(Text) \subseteq T
  <2> HIDE DEF T
  <2> QED BY <1>1, <1>2, AppendInduction
<1> QED BY <1>3

\* The tokens of a text are words.
LEMMA TokensAreWords ==
  ASSUME NEW text \in Text
  PROVE  Tokens(text) \in Seq(Text) /\ Each(Tokens(text), SingleWords)
<1> DEFINE s == Pieces(text, Spaces)
<1>1. s \in Seq(Text)
  BY PiecesAreTexts
<1>2. Each(s, {t \in Text : Free(t, Spaces)})
  BY <1>1, LenProperties, PiecesAreFree DEF Each
<1> HIDE DEF s
<1>3. Kept(s) \in Seq(Text)
  <2>1. \A x \in Text : Kept(s) \in Seq(Text)
    BY <1>1, KeptAppend
  <2> QED BY <2>1, FreeNothing
<1> QED BY <1>1, <1>2, <1>3, KeptAreWords, TokensAreKept DEF s

\* A space parts the tokens before it from those after it.
LEMMA TokensSplit ==
  ASSUME NEW a \in Text, NEW sep \in Spaces, sep \in Symbol, NEW b \in Text
  PROVE  Tokens(Append(a, sep) \o b) = Tokens(a) \o Tokens(b)
<1>1. Pieces(Append(a, sep) \o b, Spaces) = Pieces(a, Spaces) \o Pieces(b, Spaces)
  BY PiecesSplit
<1>2. Pieces(a, Spaces) \in Seq(Text) /\ Pieces(b, Spaces) \in Seq(Text)
  BY PiecesAreTexts
<1> QED BY <1>1, <1>2, KeptConcat, TokensAreKept

\* A single word is its only token.
LEMMA TokensOfWord ==
  ASSUME NEW text \in SingleWords PROVE Tokens(text) = <<text>>
<1>1. text \in Text /\ text # <<>> /\ Pieces(text, Spaces) = <<text>>
  BY PiecesOfFree DEF SingleWords
<1>2. <<>> \in Seq(Text) /\ Append(<<>>, text) = <<text>>
  BY EmptySeq
<1>3. Kept(Append(<<>>, text)) = TakeOne(<<>>, text)
  BY <1>1, <1>2, KeptAppend, KeptOfNothing
<1> QED BY <1>1, <1>2, <1>3, TokensAreKept DEF TakeOne

\* What reads as itself is a text that is not empty and has no blank.
LEMMA IsWordMeans == ASSUME NEW text \in Text PROVE IsWord(text) <=> text \in SingleWords
<1>1. IsWord(text) => text \in SingleWords
  <2> SUFFICES ASSUME IsWord(text) PROVE text \in SingleWords
    OBVIOUS
  <2>1. Each(<<text>>, SingleWords)
    BY TokensAreWords DEF IsWord
  <2> QED BY <2>1 DEF Each
<1>2. text \in SingleWords => IsWord(text)
  BY TokensOfWord DEF IsWord
<1> QED BY <1>1, <1>2

-----------------------------------------------------------------------------
(* The lines written, and read again *)

\* What stoll and the check after it let pass.
Times == {Numeral[w] : w \in {x \in DOMAIN Numeral : Numeral[x] >= 0}}

\* A time to live is spelled as a word that reads as that time.
LEMMA NumeralsAreWords ==
  ASSUME NEW n \in Times
  PROVE  /\ n \in Nat /\ n # None /\ Spelled(n) \in SingleWords
         /\ IsTtl(Spelled(n)) /\ Ttl(Spelled(n)) = n
<1> DEFINE w == CHOOSE x \in DOMAIN Numeral : Numeral[x] = n
<1>1. w \in DOMAIN Numeral /\ Numeral[w] = n /\ n >= 0
  BY DEF Times
<1>2. w \in Symbol /\ w \notin Spaces /\ n \in Int /\ n # None
  BY <1>1, CommandTextOK
<1>3. Spelled(n) = <<w>>
  BY DEF Spelled
<1> HIDE DEF w
<1>4. <<w>> \in SingleWords
  <2>1. <<w>> \in Text /\ <<w>> # <<>>
    BY <1>2 DEF Text
  <2> QED BY <2>1, <1>2 DEF SingleWords, Free
<1>5. Front(<<w>>) = <<>>
  <2>1. SubSeq(<<w>>, 1, 0) = <<>>
    BY SubSeqEmpty
  <2> QED BY <2>1 DEF Front
<1>6. IsTtl(<<w>>) /\ Ttl(<<w>>) = n
  BY <1>1, <1>5 DEF IsTtl, Ttl, Last, ToSet
<1> QED BY <1>1, <1>2, <1>3, <1>4, <1>6

\* The name of a command is a word.
LEMMA VerbsAreWords ==
  ASSUME NEW v \in Verbs PROVE <<v>> \in SingleWords
<1>1. v \in Symbol
  BY CommandTextOK
<1>2. v \notin Spaces
  BY DEF Verbs, Spaces
<1>3. <<v>> \in Text /\ <<v>> # <<>>
  BY <1>1 DEF Text
<1> QED BY <1>2, <1>3 DEF SingleWords, Free

\* A blank is a symbol, and parts words.
LEMMA SpaceIsSymbol == " " \in Spaces /\ " " \in Symbol /\ "\n" \in Spaces
<1>1. " " \in Spaces /\ "\n" \in Spaces
  BY DEF Spaces
<1> QED BY <1>1, CommandTextOK

\* What is written down as two is one after the other.
LEMMA TwoAreAppended ==
  ASSUME NEW S, NEW x \in S, NEW y \in S
  PROVE  <<x, y>> = Append(<<x>>, y) /\ <<x>> \o <<y>> = <<x, y>>
<1>1. <<x>> \in Seq(S) /\ <<x, y>> = Append(<<x>>, y)
  OBVIOUS
<1> QED BY <1>1, AppendIsConcat

\* Words behind a text, one by one.
LEMMA ThreeAreAppended ==
  \A x, y, z, w \in Text : /\ <<x, y>> \o <<z>> = <<x, y, z>>
                           /\ <<x, y, z>> \o <<w>> = <<x, y, z, w>>
<1> SUFFICES ASSUME NEW x \in Text, NEW y \in Text, NEW z \in Text, NEW w \in Text
             PROVE  /\ <<x, y>> \o <<z>> = <<x, y, z>>
                    /\ <<x, y, z>> \o <<w>> = <<x, y, z, w>>
  OBVIOUS
<1>1. <<x, y>> \in Seq(Text) /\ <<x, y, z>> \in Seq(Text)
  OBVIOUS
<1>2. <<x, y, z>> = Append(<<x, y>>, z) /\ <<x, y, z, w>> = Append(<<x, y, z>>, w)
  OBVIOUS
<1> QED BY <1>1, <1>2, AppendIsConcat

\* A text between two others.
LEMMA ConcatPart ==
  ASSUME NEW s \in Text, NEW x \in Symbol, NEW t \in Text
  PROVE  s \o (<<x>> \o t) = Append(s, x) \o t
<1>1. s \in Seq(Symbol) /\ t \in Seq(Symbol) /\ <<x>> \in Seq(Symbol)
  BY DEF Text
<1>2. (s \o <<x>>) \o t = s \o (<<x>> \o t)
  BY <1>1, ConcatAssociative
<1>3. s \o <<x>> = Append(s, x)
  BY <1>1, AppendIsConcat
<1> QED BY <1>2, <1>3

\* A name, a blank and a word have the two for tokens.
LEMMA TokensOfCommand ==
  ASSUME NEW v \in Verbs, NEW k \in SingleWords
  PROVE  <<v, " ">> \o k \in Text /\ Tokens(<<v, " ">> \o k) = <<<<v>>, k>>
<1>0. v \in Symbol /\ " " \in Symbol /\ " " \in Spaces
  BY CommandTextOK, SpaceIsSymbol
<1>1. <<v>> \in SingleWords /\ <<v, " ">> = Append(<<v>>, " ")
  BY <1>0, VerbsAreWords, TwoAreAppended
<1>2. <<v>> \in Text /\ k \in Text /\ <<v, " ">> \in Text
  <2>1. <<v>> \in Text /\ k \in Text
    BY <1>1 DEF SingleWords
  <2>2. Append(<<v>>, " ") \in Text
    BY <1>0, <2>1, FreeAppend
  <2> QED BY <1>1, <2>1, <2>2
<1>3. Tokens(<<v, " ">> \o k) = Tokens(<<v>>) \o Tokens(k)
  <2> DEFINE a == <<v>>
  <2>1. a \in Text /\ <<v, " ">> = Append(a, " ")
    BY <1>1, <1>2
  <2> HIDE DEF a
  <2>2. Tokens(Append(a, " ") \o k) = Tokens(a) \o Tokens(k)
    BY <1>0, <1>2, <2>1, TokensSplit
  <2> QED BY <2>1, <2>2 DEF a
<1>4. <<<<v>>>> \o <<k>> = <<<<v>>, k>>
  BY <1>2, TwoAreAppended
<1>5. <<v, " ">> \o k \in Text
  BY <1>2, ConcatProperties DEF Text
<1> QED BY <1>1, <1>3, <1>4, <1>5, TokensOfWord

\* What a DEL wrote is parsed as it was.
LEMMA DelIsReadAgain ==
  ASSUME NEW cmd, cmd.type = "del", cmd.key \in SingleWords
  PROVE  Written(cmd) \in Text /\ Parse(Written(cmd)) = Command("del", cmd.key, None, None)
<1> DEFINE k == cmd.key
           word == <<<<"DEL">>, k>>
<1>1. Written(cmd) = <<"DEL", " ">> \o k
  BY DEF Written
<1>2. Written(cmd) \in Text /\ Tokens(Written(cmd)) = word
  BY <1>1, TokensOfCommand DEF Verbs
<1>3. word # <<>> /\ Len(word) = 2 /\ word[1] = <<"DEL">> /\ word[2] = k
  OBVIOUS
<1>4. \A v \in {"SET", "GET", "HELP", "PING", "STATS", "QUIT", "EXIT"} : <<"DEL">> # <<v>>
  OBVIOUS
<1> HIDE DEF word, k
<1>5. Parse(Written(cmd)) = Command("del", k, None, None)
  BY <1>2, <1>3, <1>4 DEF Parse
<1> QED BY <1>2, <1>5 DEF k

\* What a SET writes: the line, and its tokens.
LEMMA TokensOfSet ==
  ASSUME NEW cmd, cmd.type = "set", cmd.key \in SingleWords, cmd.value \in Text,
         cmd.ttl \in Times \cup {None}
  PROVE  /\ Written(cmd) \in Text
         /\ Tokens(Written(cmd)) =
              (<<<<"SET">>, cmd.key>> \o Tokens(cmd.value))
                \o (IF cmd.ttl = None THEN <<>> ELSE <<Spelled(cmd.ttl)>>)
<1> DEFINE k == cmd.key
           v == cmd.value
           head == <<"SET", " ">> \o k
           part == Append(head, " ") \o v
<1>1. head \in Text /\ Tokens(head) = <<<<"SET">>, k>>
  BY TokensOfCommand DEF Verbs
<1>2. Append(head, " ") \in Text /\ part \in Text
  <2> HIDE DEF head
  <2>1. Append(head, " ") \in Text
    BY <1>1, SpaceIsSymbol, FreeAppend
  <2> QED BY <2>1, ConcatProperties DEF Text
<1>3. Tokens(part) = <<<<"SET">>, k>> \o Tokens(v)
  <2> HIDE DEF head
  <2> QED BY <1>1, SpaceIsSymbol, TokensSplit
<1>4. head \o <<" ">> = Append(head, " ")
  <2> HIDE DEF head
  <2> QED BY <1>1, SpaceIsSymbol, AppendIsConcat DEF Text
<1>5. Tokens(part) \in Seq(Text)
  <2> HIDE DEF part
  <2> QED BY <1>2, TokensAreWords
<1>6. CASE cmd.ttl = None
  <2>1. Written(cmd) = (head \o <<" ">> \o v) \o <<>>
    BY <1>6 DEF Written
  <2>2. part \o <<>> = part
    <3> HIDE DEF part
    <3> QED BY <1>2, ConcatEmptySeq DEF Text
  <2>3. Tokens(part) \o <<>> = Tokens(part)
    <3> HIDE DEF part
    <3> QED BY <1>5, ConcatEmptySeq
  <2>4. Written(cmd) = part
    <3> HIDE DEF head
    <3> QED BY <1>4, <2>1, <2>2
  <2> HIDE DEF part
  <2> QED BY <1>2, <1>3, <1>6, <2>3, <2>4
<1>7. CASE cmd.ttl # None
  <2> DEFINE last == Spelled(cmd.ttl)
  <2>1. last \in SingleWords /\ last \in Text
    BY <1>7, NumeralsAreWords DEF SingleWords
  <2>2. Written(cmd) = (head \o <<" ">> \o v) \o (<<" ">> \o last)
    BY <1>7 DEF Written
  <2> HIDE DEF last
  <2>3. Written(cmd) = part \o (<<" ">> \o last)
    <3> HIDE DEF head
    <3> QED BY <1>4, <2>2
  <2> HIDE DEF part
  <2>4. part \o (<<" ">> \o last) = Append(part, " ") \o last
    BY <1>2, <2>1, SpaceIsSymbol, ConcatPart
  <2>5. Append(part, " ") \in Text
    BY <1>2, SpaceIsSymbol, FreeAppend
  <2>6. Append(part, " ") \o last \in Text
    BY <2>1, <2>5, ConcatProperties DEF Text
  <2>7. Tokens(Append(part, " ") \o last) = Tokens(part) \o <<last>>
    <3>1. Tokens(Append(part, " ") \o last) = Tokens(part) \o Tokens(last)
      BY <1>2, <2>1, SpaceIsSymbol, TokensSplit
    <3> QED BY <2>1, <3>1, TokensOfWord
  <2> QED BY <1>3, <1>7, <2>3, <2>4, <2>6, <2>7 DEF last
<1> QED BY <1>6, <1>7

\* What a SET of a word wrote is parsed as it was.
LEMMA SetIsReadAgain ==
  ASSUME NEW cmd, cmd.type = "set", cmd.key \in SingleWords, cmd.value \in SingleWords,
         cmd.ttl \in Times \cup {None}
  PROVE  Parse(Written(cmd)) = Command("set", cmd.key, cmd.value, cmd.ttl)
<1> DEFINE k == cmd.key
           v == cmd.value
           last == Spelled(cmd.ttl)
           line == Written(cmd)
<1>0. \A x \in Verbs : x # "SET" => <<"SET">> # <<x>>
  OBVIOUS
<1>1. k \in Text /\ v \in Text /\ <<"SET">> \in Text
  BY VerbsAreWords DEF SingleWords, Verbs
<1>2. Tokens(line) = (<<<<"SET">>, k>> \o <<v>>) \o (IF cmd.ttl = None THEN <<>> ELSE <<last>>)
  BY <1>1, TokensOfSet, TokensOfWord
<1>3. <<<<"SET">>, k>> \o <<v>> = <<<<"SET">>, k, v>>
  BY <1>1, ThreeAreAppended, Zenon
<1>4. CASE cmd.ttl = None
  <2> DEFINE word == <<<<"SET">>, k, v>>
  <2>1. Tokens(line) = word
    BY <1>2, <1>3, <1>4
  <2>2. word # <<>> /\ Len(word) = 3 /\ word[1] = <<"SET">> /\ word[2] = k /\ word[3] = v
    OBVIOUS
  <2> HIDE DEF word, k, v, line
  <2>3. Parse(line) = Command("set", k, v, None)
    BY <1>0, <2>1, <2>2 DEF Parse, Verbs
  <2> QED BY <1>4, <2>3 DEF k, v, line
<1>5. CASE cmd.ttl # None
  <2> DEFINE word == <<<<"SET">>, k, v, last>>
  <2>1. Tokens(line) = word
    <3>0. last \in Text
      BY <1>5, NumeralsAreWords DEF SingleWords
    <3>1. <<<<"SET">>, k, v>> \o <<last>> = word
      BY <1>1, <3>0, ThreeAreAppended, Zenon
    <3> QED BY <1>2, <1>3, <1>5, <3>1
  <2>2. /\ word # <<>> /\ Len(word) = 4 /\ word[1] = <<"SET">> /\ word[2] = k /\ word[3] = v
        /\ word[4] = last
    OBVIOUS
  <2>3. IsTtl(last) /\ Ttl(last) = cmd.ttl
    BY <1>5, NumeralsAreWords
  <2> HIDE DEF word, k, v, line, last
  <2>4. Parse(line) = Command("set", k, v, cmd.ttl)
    BY <1>0, <2>1, <2>2, <2>3 DEF Parse, Verbs
  <2> QED BY <2>4 DEF k, v, line
<1> QED BY <1>4, <1>5

\* What a SET of any value wrote is parsed as a SET of that key, if at all.
LEMMA SetIsReadOfItsKey ==
  ASSUME NEW cmd, cmd.type = "set", cmd.key \in SingleWords, cmd.value \in Text,
         cmd.ttl \in Times \cup {None}, Parse(Written(cmd)).type # "invalid"
  PROVE  Parse(Written(cmd)).type = "set" /\ Parse(Written(cmd)).key = cmd.key
<1> DEFINE k == cmd.key
           line == Written(cmd)
           rest == IF cmd.ttl = None THEN <<>> ELSE <<Spelled(cmd.ttl)>>
           word == Tokens(line)
<1>0. \A x \in Verbs : x # "SET" => <<"SET">> # <<x>>
  OBVIOUS
<1>1. word = (<<<<"SET">>, k>> \o Tokens(cmd.value)) \o rest
  BY TokensOfSet
<1>2. k \in Text /\ <<"SET">> \in Text /\ Tokens(cmd.value) \in Seq(Text)
  BY VerbsAreWords, TokensAreWords DEF SingleWords, Verbs
<1>3. rest \in Seq(Text)
  <2>1. cmd.ttl # None => Spelled(cmd.ttl) \in Text
    BY NumeralsAreWords DEF SingleWords
  <2> QED BY <2>1, EmptySeq
<1>4. /\ Len(word) \in Nat /\ Len(word) >= 2 /\ word # <<>>
      /\ word[1] = <<"SET">> /\ word[2] = k
  <2> DEFINE head == <<<<"SET">>, k>>
             values == Tokens(cmd.value)
             part == head \o values
  <2>1. head \in Seq(Text) /\ Len(head) = 2 /\ head[1] = <<"SET">> /\ head[2] = k
    BY <1>2
  <2>v. values \in Seq(Text) /\ Len(values) \in Nat
    BY <1>2, LenProperties
  <2>w. word = part \o rest
    BY <1>1
  <2>l. Len(rest) \in Nat
    BY <1>3, LenProperties
  <2> HIDE DEF head, values, rest, k, word
  <2>2. /\ part \in Seq(Text) /\ Len(part) = 2 + Len(values)
        /\ part[1] = <<"SET">> /\ part[2] = k
    <3>1. /\ part \in Seq(Text) /\ Len(part) = Len(head) + Len(values)
          /\ \A i \in 1 .. Len(head) + Len(values) :
               part[i] = IF i <= Len(head) THEN head[i] ELSE values[i - Len(head)]
      BY <2>1, <2>v, ConcatProperties
    <3>2. 1 \in 1 .. 2 + Len(values) /\ 2 \in 1 .. 2 + Len(values)
      BY <2>v
    <3> HIDE DEF part
    <3> QED BY <2>1, <3>1, <3>2
  <2> HIDE DEF part
  <2>3. /\ Len(word) = Len(part) + Len(rest)
        /\ \A i \in 1 .. Len(part) + Len(rest) :
             word[i] = IF i <= Len(part) THEN part[i] ELSE rest[i - Len(part)]
    <3>0. part \in Seq(Text)
      BY <2>2
    <3>1. /\ Len(part \o rest) = Len(part) + Len(rest)
          /\ \A i \in 1 .. Len(part) + Len(rest) :
               (part \o rest)[i] = IF i <= Len(part) THEN part[i] ELSE rest[i - Len(part)]
      BY <1>3, <3>0, ConcatProperties
    <3> QED BY <2>w, <3>1
  <2>4. 1 \in 1 .. Len(part) + Len(rest) /\ 2 \in 1 .. Len(part) + Len(rest)
    BY <2>v, <2>l, <2>2
  <2>5. Len(word) \in Nat /\ Len(word) >= 2 /\ word[1] = <<"SET">> /\ word[2] = k
    BY <2>v, <2>l, <2>2, <2>3, <2>4
  <2> QED BY <2>5, EmptySeq
<1> HIDE DEF word, k, line
<1>5. \/ Parse(line) = Invalid
      \/ \E v, t : Parse(line) = Command("set", k, v, t)
  BY <1>0, <1>4 DEF Parse, Verbs, word
<1> QED BY <1>5 DEF Command, Invalid, k, line

\* What may be executed.
CommandOK(c) ==
  /\ c.type \in {"set", "get", "del", "ask", "quit", "invalid"}
  /\ c.type \in {"set", "get", "del"} => c.key \in Text
  /\ c.type = "set" => c.value \in Text /\ c.ttl \in Times \cup {None}

\* What is taken for a time to live is one.
LEMMA TtlIsTime == ASSUME NEW text \in Text, IsTtl(text) PROVE Ttl(text) \in Times
BY DEF IsTtl, Ttl, Times

\* What is parsed may be executed.
LEMMA ParseIsOK == ASSUME NEW text \in Text PROVE CommandOK(Parse(text))
<1> DEFINE word == Tokens(text)
<1>1. \A i \in 1 .. Len(word) : word[i] \in Text
  BY TokensAreWords DEF Each, SingleWords
<1>2. \A i \in 1 .. Len(word) : IsTtl(word[i]) => Ttl(word[i]) \in Times
  BY <1>1, TtlIsTime
<1> HIDE DEF word
<1>3. \/ \E c \in {"ask", "quit", "invalid"} : Parse(text).type = c
      \/ Len(word) = 3 /\ Parse(text) = Command("set", word[2], word[3], None)
      \/ /\ Len(word) = 4 /\ IsTtl(word[4])
         /\ Parse(text) = Command("set", word[2], word[3], Ttl(word[4]))
      \/ Len(word) = 2 /\ Parse(text) = Command("get", word[2], None, None)
      \/ Len(word) = 2 /\ Parse(text) = Command("del", word[2], None, None)
  BY DEF Parse, Command, Invalid, word
<1> QED BY <1>1, <1>2, <1>3 DEF CommandOK, Command

\* Two texts free of B make one.
LEMMA FreeConcat ==
  ASSUME NEW B, NEW a \in Text, NEW b \in Text, Free(a, B), Free(b, B)
  PROVE  a \o b \in Text /\ Free(a \o b, B)
<1>1. /\ a \o b \in Text /\ Len(a \o b) = Len(a) + Len(b)
      /\ \A i \in 1 .. Len(a) + Len(b) :
           (a \o b)[i] = IF i <= Len(a) THEN a[i] ELSE b[i - Len(a)]
  BY ConcatProperties DEF Text
<1>2. Len(a) \in Nat /\ Len(b) \in Nat
  BY LenProperties DEF Text
<1>3. \A i \in 1 .. Len(a) + Len(b) : i \in 1 .. Len(a) \/ (i > Len(a) /\ i - Len(a) \in 1 .. Len(b))
  BY <1>2
<1>4. \A i \in 1 .. Len(a) : i <= Len(a)
  BY <1>2
<1>5. \A i \in 1 .. Len(a) + Len(b) : i > Len(a) => ~(i <= Len(a))
  BY <1>2
<1> QED BY <1>1, <1>2, <1>3, <1>4, <1>5 DEF Free

\* A text is a line when it has no line break in it, and a word is a line.
LEMMA LineIsFree ==
  ASSUME NEW text \in Text
  PROVE  /\ Lines(text) = <<text>> <=> Free(text, {"\n"})
         /\ text \in SingleWords => Free(text, {"\n"})
<1>1. Free(text, {"\n"}) => Lines(text) = <<text>>
  BY PiecesOfFree DEF Lines
<1>2. Lines(text) = <<text>> => Free(text, {"\n"})
  <2> SUFFICES ASSUME Lines(text) = <<text>> PROVE Free(text, {"\n"})
    OBVIOUS
  <2>1. \A i \in 1 .. Len(<<text>>) : Free(<<text>>[i], {"\n"})
    BY PiecesAreFree DEF Lines
  <2> QED BY <2>1
<1>3. text \in SingleWords => Free(text, {"\n"})
  BY SpaceIsSymbol DEF SingleWords, Free
<1> QED BY <1>1, <1>2, <1>3

\* What is written of a line and a word is one line.
LEMMA WrittenIsLine ==
  ASSUME NEW cmd, cmd.type \in Writes, cmd.key \in SingleWords,
         cmd.type = "set" => /\ cmd.value \in Text /\ Lines(cmd.value) = <<cmd.value>>
                             /\ cmd.ttl \in Times \cup {None}
  PROVE  Written(cmd) \in Text /\ Lines(Written(cmd)) = <<Written(cmd)>>
<1> DEFINE B == {"\n"}
           k == cmd.key
<1>0. \A v \in Verbs : v # "\n"
  BY DEF Verbs
<1>1. ASSUME NEW v \in Verbs PROVE <<v, " ">> \in Text /\ Free(<<v, " ">>, B)
  <2>1. <<v>> \in SingleWords /\ <<v>> \in Text
    BY VerbsAreWords DEF SingleWords
  <2>2. Free(<<v>>, B) /\ " " \notin B
    BY <2>1, LineIsFree
  <2>3. Append(<<v>>, " ") \in Text /\ Free(Append(<<v>>, " "), B)
    BY <2>1, <2>2, SpaceIsSymbol, FreeAppend
  <2>4. v \in Symbol /\ " " \in Symbol
    BY CommandTextOK, SpaceIsSymbol
  <2>5. <<v, " ">> = Append(<<v>>, " ")
    BY <2>4, TwoAreAppended
  <2> QED BY <2>3, <2>5
<1>2. k \in Text /\ Free(k, B)
  BY LineIsFree DEF SingleWords
<1>3. ASSUME NEW v \in Verbs PROVE <<v, " ">> \o k \in Text /\ Free(<<v, " ">> \o k, B)
  BY <1>1, <1>2, FreeConcat
<1>s. <<" ">> \in Text /\ Free(<<" ">>, B)
  <2>1. \A x \in Symbol : <<x>> \in Text /\ Len(<<x>>) = 1 /\ <<x>>[1] = x
    BY DEF Text
  <2>2. " " \notin B
    OBVIOUS
  <2>3. \A i \in 1 .. 1 : i = 1
    OBVIOUS
  <2> QED BY <2>1, <2>2, <2>3, SpaceIsSymbol DEF Free
<1>4. Written(cmd) \in Text /\ Free(Written(cmd), B)
  <2>1. CASE cmd.type = "del"
    BY <1>3, <2>1 DEF Written, Verbs
  <2>2. CASE cmd.type # "del"
    <3> DEFINE head == <<"SET", " ">> \o k
               v == cmd.value
               part == head \o <<" ">>
               body == part \o v
               tail == IF cmd.ttl = None THEN <<>> ELSE <<" ">> \o Spelled(cmd.ttl)
    <3>0. cmd.type = "set"
      BY <2>2 DEF Writes
    <3>1. head \in Text /\ Free(head, B) /\ v \in Text /\ Free(v, B)
      BY <1>3, <3>0, LineIsFree DEF Verbs
    <3>2. part \in Text /\ Free(part, B)
      <4> HIDE DEF head
      <4> QED BY <1>s, <3>1, FreeConcat
    <3>3. body \in Text /\ Free(body, B)
      <4> HIDE DEF part, v
      <4> QED BY <3>1, <3>2, FreeConcat
    <3>4. tail \in Text /\ Free(tail, B)
      <4>1. CASE cmd.ttl = None
        BY <4>1, FreeNothing
      <4>2. CASE cmd.ttl # None
        <5>1. Spelled(cmd.ttl) \in Text /\ Free(Spelled(cmd.ttl), B)
          BY <3>0, <4>2, NumeralsAreWords, LineIsFree DEF SingleWords
        <5> QED BY <1>s, <4>2, <5>1, FreeConcat
      <4> QED BY <4>1, <4>2
    <3>5. Written(cmd) = body \o tail
      BY <3>0 DEF Written
    <3> HIDE DEF body, tail
    <3> QED BY <3>3, <3>4, <3>5, FreeConcat
  <2> QED BY <2>1, <2>2
<1> QED BY <1>4, LineIsFree

\* What is written of words is read again as it was: one line, which is parsed
\* as the same command, whatever the key, the value and the time to live
\* (record_set, record_del, replay_file, parse_tcp_command).
THEOREM RecordedIsReadAgain ==
  ASSUME NEW key \in Text, IsWord(key), NEW value \in Text, IsWord(value),
         NEW ttl \in Times \cup {None},
         NEW cmd \in {Command("set", key, value, ttl), Command("del", key, None, None)}
  PROVE  Lines(Written(cmd)) = <<Written(cmd)>> /\ Parse(Written(cmd)) = cmd
<1>1. key \in SingleWords /\ value \in SingleWords
  BY IsWordMeans
<1>2. /\ cmd.type \in {"set", "del"} /\ cmd.key = key
      /\ cmd.type = "set" => cmd = Command("set", key, value, ttl)
      /\ cmd.type = "del" => cmd = Command("del", key, None, None)
  BY DEF Command
<1>3. cmd.type = "set" => cmd.value = value /\ cmd.ttl = ttl
  BY <1>2 DEF Command
<1>4. Parse(Written(cmd)) = cmd
  BY <1>1, <1>2, <1>3, SetIsReadAgain, DelIsReadAgain
<1>5. value \in Text /\ Lines(value) = <<value>>
  <2>1. Free(value, {"\n"})
    BY <1>1 DEF SingleWords, Free, Spaces
  <2> QED BY <2>1, PiecesOfFree DEF Lines
<1> QED BY <1>1, <1>2, <1>3, <1>4, <1>5, WrittenIsLine DEF Writes

-----------------------------------------------------------------------------
(* The lines of the file, and the cache they leave *)

\* A file of single lines is read line by line.
LinesOf(l) == [i \in DOMAIN l |-> Lines(l[i])]

\* A line more in the file is one line more to be read.
LEMMA LinesOfAppend ==
  ASSUME NEW l \in Seq(Text), NEW x \in Text
  PROVE  /\ LinesOf(l) \in Seq(Seq(Text)) /\ Lines(x) \in Seq(Text)
         /\ LinesOf(Append(l, x)) = Append(LinesOf(l), Lines(x))
<1> DEFINE m == Len(l)
           more == Append(l, x)
<1>1. /\ m \in Nat /\ DOMAIN l = 1 .. m /\ \A i \in 1 .. m : l[i] \in Text
  BY LenProperties
<1>2. /\ more \in Seq(Text) /\ Len(more) = m + 1 /\ more[m + 1] = x
      /\ \A i \in 1 .. m : more[i] = l[i]
  BY AppendProperties
<1>3. DOMAIN more = 1 .. m + 1
  BY <1>2, LenProperties
<1> HIDE DEF m, more
<1>4. \A t \in Text : Lines(t) \in Seq(Text)
  BY PiecesAreTexts DEF Lines
<1>5. LinesOf(l) \in Seq(Seq(Text)) /\ Len(LinesOf(l)) = m
  BY <1>1, <1>4 DEF LinesOf
<1>6. /\ Append(LinesOf(l), Lines(x)) \in Seq(Seq(Text))
      /\ Len(Append(LinesOf(l), Lines(x))) = m + 1
      /\ Append(LinesOf(l), Lines(x))[m + 1] = Lines(x)
      /\ \A i \in 1 .. m : Append(LinesOf(l), Lines(x))[i] = Lines(l[i])
  BY <1>1, <1>4, <1>5, AppendProperties DEF LinesOf
<1>7. LinesOf(more) \in Seq(Seq(Text)) /\ Len(LinesOf(more)) = m + 1
  <2>1. \A i \in 1 .. m + 1 : more[i] \in Text
    BY <1>2, <1>3, LenProperties
  <2> QED BY <1>1, <1>3, <1>4, <2>1 DEF LinesOf
<1>8. ASSUME NEW i \in 1 .. m + 1
      PROVE  LinesOf(more)[i] = Append(LinesOf(l), Lines(x))[i]
  <2>1. LinesOf(more)[i] = Lines(more[i])
    BY <1>3 DEF LinesOf
  <2>2. i \in 1 .. m \/ i = m + 1
    BY <1>1
  <2> QED BY <1>2, <1>6, <2>1, <2>2
<1>9. LinesOf(more) = Append(LinesOf(l), Lines(x))
  BY <1>6, <1>7, <1>8, SeqEqual
<1> QED BY <1>4, <1>5, <1>9 DEF more

\* A file each of whose records is one line is read record by record.
LEMMA FileOfLines ==
  ASSUME NEW l \in Seq(Text)
  PROVE  /\ FlattenSeq(LinesOf(l)) \in Seq(Text)
         /\ (\A i \in 1 .. Len(l) : Lines(l[i]) = <<l[i]>>) => FlattenSeq(LinesOf(l)) = l
<1> DEFINE T == {u \in Seq(Text) :
                   /\ FlattenSeq(LinesOf(u)) \in Seq(Text)
                   /\ (\A i \in 1 .. Len(u) : Lines(u[i]) = <<u[i]>>) => FlattenSeq(LinesOf(u)) = u}
<1>1. <<>> \in T
  <2>1. <<>> \in Seq(Text) /\ Len(<<>>) = 0 /\ DOMAIN <<>> = 1 .. 0
    BY EmptySeq, LenProperties
  <2>2. LinesOf(<<>>) = <<>>
    BY <2>1 DEF LinesOf
  <2>3. FlattenSeq(<<>>) = <<>>
    BY <2>1 DEF FlattenSeq
  <2> QED BY <2>1, <2>2, <2>3
<1>2. ASSUME NEW u \in Seq(Text), NEW x \in Text, u \in T PROVE Append(u, x) \in T
  <2>0. Append(u, x) \in Seq(Text)
    BY AppendProperties
  <2>1. FlattenSeq(LinesOf(Append(u, x))) = FlattenSeq(LinesOf(u)) \o Lines(x)
    BY LinesOfAppend, FlattenAppend
  <2>2. FlattenSeq(LinesOf(u)) \o Lines(x) \in Seq(Text)
    BY <1>2, LinesOfAppend, ConcatProperties
  <2>3. ASSUME \A i \in 1 .. Len(Append(u, x)) : Lines(Append(u, x)[i]) = <<Append(u, x)[i]>>
        PROVE  FlattenSeq(LinesOf(Append(u, x))) = Append(u, x)
    <3>1. /\ Len(u) \in Nat /\ Len(Append(u, x)) = Len(u) + 1 /\ Append(u, x)[Len(u) + 1] = x
          /\ \A i \in 1 .. Len(u) : Append(u, x)[i] = u[i]
      BY AppendProperties, LenProperties
    <3>2. Lines(x) = <<x>> /\ \A i \in 1 .. Len(u) : Lines(u[i]) = <<u[i]>>
      BY <2>3, <3>1
    <3>3. FlattenSeq(LinesOf(u)) = u
      BY <1>2, <3>2
    <3>4. u \o <<x>> = Append(u, x)
      BY AppendIsConcat
    <3> QED BY <2>1, <3>2, <3>3, <3>4
  <2> QED BY <2>0, <2>1, <2>2, <2>3
<1>3. Seq(Text) \subseteq T
  <2> HIDE DEF T
  <2> QED BY <1>1, <1>2, AppendInduction
<1> QED BY <1>3

-----------------------------------------------------------------------------
(* The cache *)

\* Functions from some keys, finitely many.
Maps(K, E) == UNION {[D -> E] : D \in {d \in SUBSET K : IsFiniteSet(d)}}

\* What a map is: its keys, finitely many, and its values.
LEMMA MapFacts ==
  ASSUME NEW K, NEW E, NEW f \in Maps(K, E)
  PROVE  /\ DOMAIN f \subseteq K /\ IsFiniteSet(DOMAIN f)
         /\ \A k \in DOMAIN f : f[k] \in E
BY DEF Maps

\* A function from finitely many keys is a map.
LEMMA IsMap ==
  ASSUME NEW K, NEW E, NEW D \in SUBSET K, IsFiniteSet(D), NEW f \in [D -> E]
  PROVE  f \in Maps(K, E)
BY DEF Maps

\* The empty function is a map.
LEMMA NothingIsMap == ASSUME NEW K, NEW E PROVE <<>> \in Maps(K, E) /\ DOMAIN <<>> = {}
<1>1. <<>> \in [1 .. 0 -> E] /\ 1 .. 0 = {}
  BY EmptySeq, LenProperties
<1>2. IsFiniteSet({}) /\ {} \in SUBSET K
  BY FS_EmptySet
<1> QED BY <1>1, <1>2, IsMap

\* An entry more makes a map.
LEMMA PutIsMap ==
  ASSUME NEW K, NEW E, NEW f \in Maps(K, E), NEW k \in K, NEW x \in E
  PROVE  Put(f, k, x) \in Maps(K, E)
<1> DEFINE D == DOMAIN f \cup {k}
<1>1. D \in SUBSET K /\ IsFiniteSet(D)
  BY MapFacts, FS_AddElement
<1>2. Put(f, k, x) \in [D -> E]
  BY MapFacts DEF Put
<1> HIDE DEF D
<1> QED BY <1>1, <1>2, IsMap

\* An entry less makes a map.
LEMMA WithoutIsMap ==
  ASSUME NEW K, NEW E, NEW f \in Maps(K, E), NEW k PROVE Without(f, k) \in Maps(K, E)
<1> DEFINE D == DOMAIN f \ {k}
<1>1. D \in SUBSET K /\ IsFiniteSet(D)
  BY MapFacts, FS_Subset
<1>2. Without(f, k) \in [D -> E]
  BY MapFacts DEF Without, Restrict
<1> HIDE DEF D
<1> QED BY <1>1, <1>2, IsMap

Entry == [value : Text, expiry : (-Top - 1 .. Top) \cup {None}, ahead : SUBSET Storable]

\* The caches: an entry has ahead of it entries of its shard.
Beside(s, k) == {j \in DOMAIN s \ {k} : Shard[j] = Shard[k]}
Stores == {s \in Maps(Storable, Entry) : \A k \in DOMAIN s : s[k].ahead \subseteq Beside(s, k)}

\* What a cache is.
LEMMA StoreIs ==
  ASSUME NEW s \in Stores
  PROVE  /\ DOMAIN s \subseteq Storable /\ IsFiniteSet(DOMAIN s)
         /\ \A k \in DOMAIN s : /\ s[k] \in Entry /\ s[k].ahead \subseteq DOMAIN s \ {k}
                                /\ \A j \in s[k].ahead : Shard[j] = Shard[k]
BY MapFacts DEF Stores, Beside

\* What is a cache.
LEMMA IsStore ==
  ASSUME NEW D \in SUBSET Storable, IsFiniteSet(D), NEW s \in [D -> Entry],
         \A k \in D : s[k].ahead \subseteq D \ {k} /\ \A j \in s[k].ahead : Shard[j] = Shard[k]
  PROVE  s \in Stores
<1>1. s \in Maps(Storable, Entry)
  BY IsMap
<1> QED BY <1>1 DEF Stores, Beside

\* The empty cache is one.
LEMMA NothingIsStore == <<>> \in Stores /\ DOMAIN <<>> = {}
<1>1. <<>> \in Maps(Storable, Entry) /\ DOMAIN <<>> = {}
  BY NothingIsMap
<1> QED BY <1>1 DEF Stores

\* A wrapped count is a time point, and a count that is one stays.
LEMMA WrappedFacts ==
  ASSUME NEW n \in Int
  PROVE  Wrapped(n) \in -Top - 1 .. Top /\ (n \in 0 .. Top => Wrapped(n) = n)
<1>1. Top \in Nat
  BY FrontEndsOK
<1> DEFINE w == 2 * (Top + 1)
           a == n + Top + 1
<1>2. w \in Int /\ w > 0 /\ a \in Int /\ w = Top + 1 + Top + 1
  BY <1>1
<1>3. Wrapped(n) = (a % w) - (Top + 1)
  BY DEF Wrapped
<1>4. n \in 0 .. Top => a >= 0 /\ a < w
  BY <1>1, <1>2
<1> HIDE DEF w
<1>5. a % w \in 0 .. w - 1
  BY <1>2
<1>6. n \in 0 .. Top => a % w = a
  BY <1>2, <1>4
<1> QED BY <1>1, <1>2, <1>3, <1>5, <1>6

\* A deadline is a time point, and what can be counted is.
LEMMA DeadlineFacts ==
  ASSUME clock \in 0 .. MaxTime, NEW ttl \in Times \cup {None}
  PROVE  /\ Deadline(ttl) \in (-Top - 1 .. Top) \cup {None}
         /\ Deadline(ttl) = None <=> ttl = None
         /\ ttl # None => ttl \in Nat /\ ttl * TicksPerMs \in Nat
         /\ ttl # None /\ Fits(ttl) => Deadline(ttl) = clock + ttl * TicksPerMs
<1>1. Top \in Nat /\ MaxTime \in 0 .. Top /\ TicksPerMs \in Nat /\ clock \in Nat /\ clock <= MaxTime
  BY FrontEndsOK
<1>2. CASE ttl = None
  BY <1>2 DEF Deadline
<1>3. CASE ttl # None
  <2>1. ttl \in Nat
    BY <1>3, NumeralsAreWords
  <2> DEFINE n == ttl * TicksPerMs
  <2>2. n \in Nat
    BY <1>1, <2>1
  <2> HIDE DEF n
  <2>3. Wrapped(n) \in -Top - 1 .. Top /\ (n \in 0 .. Top => Wrapped(n) = n)
    BY <2>2, WrappedFacts
  <2>4. clock + Wrapped(n) \in Int
    BY <1>1, <2>3
  <2>5. /\ Wrapped(clock + Wrapped(n)) \in -Top - 1 .. Top
        /\ clock + Wrapped(n) \in 0 .. Top => Wrapped(clock + Wrapped(n)) = clock + Wrapped(n)
    BY <2>4, WrappedFacts
  <2>6. Deadline(ttl) = Wrapped(clock + Wrapped(n))
    BY <1>3 DEF Deadline, n
  <2>7. Wrapped(clock + Wrapped(n)) # None
    BY <1>1, <2>5, CommandTextOK
  <2>8. Fits(ttl) => n + MaxTime <= Top
    BY <1>3 DEF Fits, n
  <2>9. n + MaxTime <= Top => Wrapped(n) = n /\ clock + n \in 0 .. Top
    BY <1>1, <2>2, <2>3
  <2> QED BY <1>3, <2>1, <2>2, <2>3, <2>5, <2>6, <2>7, <2>8, <2>9 DEF n
<1> QED BY <1>2, <1>3

\* So many keys of S are that an entry of k after them is one too many.
Crowded(k, S) == \E D \in SUBSET S : Cardinality(D) >= Capacity[Shard[k]]

\* Cache t has of k what s had, but that more may be ahead of it; or there was
\* too much ahead.
KeptOf(s, t, k, more) ==
  /\ k \in DOMAIN t =>
       /\ k \in DOMAIN s /\ t[k].value = s[k].value /\ t[k].expiry = s[k].expiry
       /\ t[k].ahead \subseteq s[k].ahead \cup more
  /\ k \in DOMAIN s /\ k \notin DOMAIN t => Crowded(k, s[k].ahead \cup more)

\* An entry and what is ahead of it.
LEMMA AheadFacts ==
  ASSUME NEW e \in Entry, NEW S \in SUBSET Storable
  PROVE  /\ [e EXCEPT !.ahead = S] \in Entry
         /\ [e EXCEPT !.ahead = S].ahead = S
         /\ [e EXCEPT !.ahead = S].value = e.value
         /\ [e EXCEPT !.ahead = S].expiry = e.expiry
BY DEF Entry

\* A shard has room for one at least.
LEMMA RoomFacts ==
  ASSUME NEW k \in Storable
  PROVE  Capacity[Shard[k]] \in Nat /\ Capacity[Shard[k]] > 0
BY FrontEndsOK

\* Cache t is s without D, whose keys are ahead of none.
IsWithout(s, t, D) ==
  /\ t \in Stores /\ DOMAIN t = DOMAIN s \ D
  /\ \A k \in DOMAIN s \ D : /\ t[k].value = s[k].value /\ t[k].expiry = s[k].expiry
                              /\ t[k].ahead = s[k].ahead \ D

\* Entries are erased.
LEMMA DroppedFacts == ASSUME NEW s \in Stores, NEW D PROVE IsWithout(s, Dropped(s, D), D)
<1> DEFINE t == Dropped(s, D)
           K == DOMAIN s \ D
<1>1. DOMAIN t = K /\ \A k \in K : t[k] = [s[k] EXCEPT !.ahead = s[k].ahead \ D]
  BY DEF Dropped
<1>2. K \in SUBSET Storable /\ IsFiniteSet(K)
  BY StoreIs, FS_Subset
<1>3. \A k \in K : s[k] \in Entry /\ s[k].ahead \ D \in SUBSET Storable
  BY StoreIs DEF Entry
<1> HIDE DEF t
<1>4. ASSUME NEW k \in K
      PROVE  /\ t[k] \in Entry /\ t[k].ahead = s[k].ahead \ D
             /\ t[k].value = s[k].value /\ t[k].expiry = s[k].expiry
  <2> DEFINE e == s[k]
             S == s[k].ahead \ D
  <2>1. e \in Entry /\ S \in SUBSET Storable
    BY <1>3
  <2>2. t[k] = [e EXCEPT !.ahead = S]
    BY <1>1
  <2> HIDE DEF e, S
  <2>3. /\ t[k] \in Entry /\ t[k].ahead = S /\ t[k].value = e.value /\ t[k].expiry = e.expiry
    BY <2>1, <2>2, AheadFacts
  <2> QED BY <2>3 DEF e, S
<1>5. t \in [K -> Entry]
  <2>1. t = [k \in K |-> t[k]]
    BY DEF t, Dropped
  <2> QED BY <1>4, <2>1
<1>6. \A k \in K : t[k].ahead \subseteq K \ {k} /\ \A j \in t[k].ahead : Shard[j] = Shard[k]
  BY <1>4, StoreIs
<1> HIDE DEF K
<1>7. t \in Stores
  BY <1>2, <1>5, <1>6, IsStore
<1> QED BY <1>1, <1>4, <1>7 DEF t, K, IsWithout

\* Cache t is s with k ahead of the others of its shard.
IsTouched(s, t, k) ==
  /\ t \in Stores /\ DOMAIN t = DOMAIN s
  /\ \A j \in DOMAIN s : /\ t[j].value = s[j].value /\ t[j].expiry = s[j].expiry
                         /\ t[j].ahead = IF j = k THEN {}
                                         ELSE IF Shard[j] = Shard[k] THEN s[j].ahead \cup {k}
                                         ELSE s[j].ahead

\* An entry is used.
LEMMA TouchedFacts ==
  ASSUME NEW s \in Stores, NEW k \in DOMAIN s PROVE IsTouched(s, Touched(s, k), k)
<1> DEFINE t == Touched(s, k)
           K == DOMAIN s
           S(j) == IF j = k THEN {} ELSE IF Shard[j] = Shard[k] THEN s[j].ahead \cup {k}
                   ELSE s[j].ahead
<1>1. DOMAIN t = K /\ \A j \in K : t[j] = [s[j] EXCEPT !.ahead = S(j)]
  BY DEF Touched
<1>2. K \in SUBSET Storable /\ IsFiniteSet(K) /\ k \in K
  BY StoreIs
<1>3. \A j \in K : s[j] \in Entry /\ S(j) \in SUBSET Storable
  BY <1>2, StoreIs DEF Entry
<1>s. \A j \in K : S(j) \subseteq K \ {j} /\ \A i \in S(j) : Shard[i] = Shard[j]
  BY <1>2, StoreIs
<1> HIDE DEF t, S
<1>4. ASSUME NEW j \in K
      PROVE  /\ t[j] \in Entry /\ t[j].ahead = S(j)
             /\ t[j].value = s[j].value /\ t[j].expiry = s[j].expiry
  <2> DEFINE e == s[j]
             U == S(j)
  <2>1. e \in Entry /\ U \in SUBSET Storable
    BY <1>3
  <2>2. t[j] = [e EXCEPT !.ahead = U]
    BY <1>1
  <2> HIDE DEF e, U
  <2>3. /\ t[j] \in Entry /\ t[j].ahead = U /\ t[j].value = e.value /\ t[j].expiry = e.expiry
    BY <2>1, <2>2, AheadFacts
  <2> QED BY <2>3 DEF e, U
<1>5. t \in [K -> Entry]
  <2>1. t = [j \in K |-> t[j]]
    BY DEF t, Touched
  <2> QED BY <1>4, <2>1
<1> HIDE DEF K
<1>6. t \in Stores
  BY <1>2, <1>4, <1>5, <1>s, IsStore
<1> QED BY <1>1, <1>4, <1>6 DEF t, K, S, IsTouched

\* The last of a shard goes when there are too many.
LEMMA EvictedFacts ==
  ASSUME NEW s \in Stores
  PROVE  /\ Evicted(s) \in Stores
         /\ \A k \in DOMAIN s : s[k].ahead = {} => k \in DOMAIN Evicted(s)
                                                  /\ Evicted(s)[k].ahead = {}
         /\ \A k \in DOMAIN Evicted(s) :
              /\ k \in DOMAIN s
              /\ Evicted(s)[k].value = s[k].value /\ Evicted(s)[k].expiry = s[k].expiry
              /\ Evicted(s)[k].ahead \subseteq s[k].ahead
         /\ \A k \in DOMAIN s : k \notin DOMAIN Evicted(s) => Crowded(k, s[k].ahead)
<1> DEFINE D == {j \in DOMAIN s : Cardinality(s[j].ahead) >= Capacity[Shard[j]]}
<1>1. Evicted(s) = Dropped(s, D)
  BY DEF Evicted
<1>2. ASSUME NEW k \in DOMAIN s, s[k].ahead = {} PROVE k \notin D
  <2>1. k \in Storable /\ Cardinality(s[k].ahead) = 0
    BY <1>2, StoreIs, FS_EmptySet
  <2>2. ~(0 >= Capacity[Shard[k]])
    BY <2>1, RoomFacts
  <2> QED BY <2>1, <2>2
<1>3. \A k \in D : Crowded(k, s[k].ahead)
  BY DEF Crowded
<1> HIDE DEF D
<1>4. IsWithout(s, Evicted(s), D)
  BY <1>1, DroppedFacts
<1>5. \A k \in DOMAIN s : s[k].ahead = {} => k \in DOMAIN s \ D
  BY <1>2
<1> QED BY <1>3, <1>4, <1>5 DEF IsWithout

\* Cache t is s with what a set enters.
IsEntered(s, t, cmd) ==
  /\ t \in Stores /\ DOMAIN t = DOMAIN s \cup {cmd.key}
  /\ t[cmd.key] = [value |-> cmd.value, expiry |-> Deadline(cmd.ttl), ahead |-> {}]
  /\ \A j \in DOMAIN s : j # cmd.key => t[j] = s[j]

\* A set enters what it says.
LEMMA EnteredFacts ==
  ASSUME clock \in 0 .. MaxTime, NEW s \in Stores, NEW cmd, CommandOK(cmd),
         cmd.type = "set", cmd.key \in Storable
  PROVE  IsEntered(s, Entered(s, cmd), cmd)
<1> DEFINE k == cmd.key
           x == [value |-> cmd.value, expiry |-> Deadline(cmd.ttl), ahead |-> {}]
           K == DOMAIN s \cup {k}
           t == Entered(s, cmd)
<1>1. x \in Entry /\ x.ahead = {}
  BY DeadlineFacts DEF CommandOK, Entry
<1>2. K \in SUBSET Storable /\ IsFiniteSet(K)
  BY StoreIs, FS_AddElement
<1> HIDE DEF x
<1>3. t = [j \in K |-> IF j = k THEN x ELSE s[j]]
  BY DEF Entered, Put, x
<1>4. \A j \in DOMAIN s : /\ s[j] \in Entry /\ s[j].ahead \subseteq K \ {j}
                          /\ \A i \in s[j].ahead : Shard[i] = Shard[j]
  BY StoreIs
<1> HIDE DEF t
<1>5. t \in [K -> Entry]
  BY <1>1, <1>3, <1>4
<1>6. \A j \in K : t[j].ahead \subseteq K \ {j} /\ \A i \in t[j].ahead : Shard[i] = Shard[j]
  BY <1>1, <1>3, <1>4
<1>7. t \in Stores
  <2> HIDE DEF K
  <2> QED BY <1>2, <1>5, <1>6, IsStore
<1> QED BY <1>3, <1>7 DEF t, x, IsEntered

\* A set of another key of its shard puts that ahead of k.
Pushed(cmd, k) ==
  IF cmd.type = "set" /\ cmd.key \in Storable /\ cmd.key # k /\ Shard[cmd.key] = Shard[k]
  THEN {cmd.key} ELSE {}

\* What a command does to the cache it does to its key, and to the others at
\* most that they get one more ahead of them, which may be one too many.
LEMMA AppliedFacts ==
  ASSUME clock \in 0 .. MaxTime, NEW s \in Stores, NEW cmd, CommandOK(cmd)
  PROVE  /\ Applied(s, cmd) \in Stores
         /\ \A k : k # cmd.key \/ cmd.type \notin Writes =>
              KeptOf(s, Applied(s, cmd), k, Pushed(cmd, k))
         /\ cmd.type = "del" => cmd.key \notin DOMAIN Applied(s, cmd)
         /\ cmd.type = "set" /\ cmd.key \in Storable =>
              /\ cmd.key \in DOMAIN Applied(s, cmd)
              /\ Applied(s, cmd)[cmd.key].value = cmd.value
              /\ Applied(s, cmd)[cmd.key].expiry = Deadline(cmd.ttl)
              /\ Applied(s, cmd)[cmd.key].ahead = {}
<1>1. CASE cmd.type = "del"
  <2>1. Applied(s, cmd) = Dropped(s, {cmd.key})
    BY <1>1 DEF Applied
  <2>2. IsWithout(s, Applied(s, cmd), {cmd.key})
    BY <2>1, DroppedFacts
  <2>3. /\ Applied(s, cmd) \in Stores /\ cmd.key \notin DOMAIN Applied(s, cmd)
        /\ \A k : k # cmd.key => KeptOf(s, Applied(s, cmd), k, Pushed(cmd, k))
    BY <2>2 DEF IsWithout, KeptOf
  <2> QED BY <1>1, <2>3 DEF Writes
<1>2. CASE cmd.type = "set" /\ cmd.key \in Storable
  <2> DEFINE key == cmd.key
             e == Entered(s, cmd)
             t == Touched(e, key)
             v == Evicted(t)
  <2>1. Applied(s, cmd) = v
    BY <1>2 DEF Applied, Refused
  <2>e. IsEntered(s, e, cmd)
    BY <1>2, EnteredFacts
  <2>2. /\ e \in Stores /\ DOMAIN e = DOMAIN s \cup {key}
        /\ e[key].value = cmd.value /\ e[key].expiry = Deadline(cmd.ttl)
        /\ \A j \in DOMAIN s : j # key => e[j] = s[j]
    <3> HIDE DEF e
    <3> QED BY <2>e DEF IsEntered
  <2> HIDE DEF e
  <2>t. IsTouched(e, t, key)
    BY <2>2, TouchedFacts
  <2>3. /\ t \in Stores /\ DOMAIN t = DOMAIN e
        /\ \A j \in DOMAIN e :
              /\ t[j].value = e[j].value /\ t[j].expiry = e[j].expiry
              /\ t[j].ahead = IF j = key THEN {}
                              ELSE IF Shard[j] = Shard[key] THEN e[j].ahead \cup {key}
                              ELSE e[j].ahead
    <3> HIDE DEF t
    <3> QED BY <2>t DEF IsTouched
  <2> HIDE DEF t
  <2>4. /\ v \in Stores
        /\ \A k \in DOMAIN t : t[k].ahead = {} => k \in DOMAIN v /\ v[k].ahead = {}
        /\ \A k \in DOMAIN v : /\ k \in DOMAIN t
                               /\ v[k].value = t[k].value /\ v[k].expiry = t[k].expiry
                               /\ v[k].ahead \subseteq t[k].ahead
        /\ \A k \in DOMAIN t : k \notin DOMAIN v => Crowded(k, t[k].ahead)
    BY <2>3, EvictedFacts
  <2> HIDE DEF v
  <2>5. /\ key \in DOMAIN v /\ v[key].value = cmd.value /\ v[key].expiry = Deadline(cmd.ttl)
        /\ v[key].ahead = {}
    BY <2>2, <2>3, <2>4
  <2>6. ASSUME NEW k, k # key PROVE KeptOf(s, v, k, Pushed(cmd, k))
    <3>1. k \in DOMAIN s => t[k].ahead = s[k].ahead \cup Pushed(cmd, k)
      BY <1>2, <2>2, <2>3, <2>6 DEF Pushed
    <3>2. k \in DOMAIN t <=> k \in DOMAIN s
      BY <2>2, <2>3, <2>6
    <3>3. k \in DOMAIN s => t[k].value = s[k].value /\ t[k].expiry = s[k].expiry
      BY <2>2, <2>3, <2>6
    <3> QED BY <2>4, <3>1, <3>2, <3>3 DEF KeptOf
  <2> QED BY <1>2, <2>1, <2>4, <2>5, <2>6 DEF Writes
<1>3. CASE cmd.type # "del" /\ ~(cmd.type = "set" /\ cmd.key \in Storable)
  <2>1. Applied(s, cmd) = s
    BY <1>3 DEF Applied, Refused
  <2> QED BY <1>3, <2>1 DEF Writes, KeptOf
<1> QED BY <1>1, <1>2, <1>3

\* The lines of l, replayed into the empty cache.
Replay(l) == FoldLeft(Replayed, <<>>, l)

\* A replay goes through its lines from the first to the last.
LEMMA ReplayedInOrder ==
  ASSUME clock \in 0 .. MaxTime, NEW l \in Seq(Text)
  PROVE  \E f \in [0 .. Len(l) -> Stores] :
           /\ f[0] = <<>> /\ \A n \in 1 .. Len(l) : f[n] = Replayed(f[n - 1], l[n])
           /\ Replay(l) = f[Len(l)]
<1> DEFINE m == Len(l)
           R == Stores
           next == [n \in Nat |-> [r \in R |-> IF n \in 1 .. m THEN Replayed(r, l[n]) ELSE r]]
           Right(g) == g = [t \in SUBSET DOMAIN l |->
                              IF t = {} THEN <<>> ELSE Replayed(g[t \ {Max(t)}], l[Max(t)])]
           G == CHOOSE g : Right(g)
<1>0. m \in Nat /\ DOMAIN l = 1 .. m /\ \A n \in 1 .. m : l[n] \in Text
  BY LenProperties
<1>1. <<>> \in R
  BY NothingIsStore
<1>2. ASSUME NEW r \in R, NEW x \in Text PROVE Replayed(r, x) \in R
  BY ParseIsOK, AppliedFacts DEF Replayed
<1> HIDE DEF R, m
<1>3. next \in [Nat -> [R -> R]]
  BY <1>0, <1>2
<1>4. \A n \in 1 .. m : \A r \in R : next[n][r] = Replayed(r, l[n])
  BY <1>0
<1> HIDE DEF next
<1>5. PICK g \in [SUBSET (1 .. m) -> R] : Folds(g, <<>>, next, m)
  BY <1>0, <1>1, <1>3, FoldsExist
<1>6. Right(g)
  <2>1. ASSUME NEW t \in SUBSET (1 .. m)
        PROVE  g[t] = IF t = {} THEN <<>> ELSE Replayed(g[t \ {Max(t)}], l[Max(t)])
    <3>1. CASE t = {}
      BY <1>5, <3>1 DEF Folds
    <3>2. CASE t # {}
      <4>1. Max(t) \in 1 .. m /\ t \ {Max(t)} \in SUBSET (1 .. m)
        BY <1>0, <3>2, MaxExists
      <4> QED BY <1>4, <1>5, <3>2, <4>1 DEF Folds
    <3> QED BY <3>1, <3>2
  <2> QED BY <1>0, <2>1
<1>7. Right(G)
  BY <1>6
<1>8. FoldsInOrder(G, <<>>, next, R, m)
  <2> HIDE DEF G
  <2>1. G[{}] = <<>>
    BY <1>7
  <2>2. ASSUME NEW n \in 1 .. m, G[1 .. n - 1] \in R
        PROVE  G[1 .. n] = next[n][G[1 .. n - 1]]
    <3>1. /\ 1 .. n \in SUBSET (1 .. m) /\ 1 .. n # {}
          /\ Max(1 .. n) = n /\ (1 .. n) \ {n} = 1 .. n - 1
      BY <1>0, UpTo
    <3>2. G[1 .. n] = Replayed(G[1 .. n - 1], l[n])
      BY <1>0, <1>7, <3>1
    <3> QED BY <1>4, <2>2, <3>2
  <2> QED BY <2>1, <2>2 DEF FoldsInOrder
<1>9. Replay(l) = G[1 .. m]
  BY <1>0 DEF Replay, FoldLeft, MapThenFoldSet
<1> HIDE DEF G, Right
<1>10. PICK f \in [0 .. m -> R] : Follows(f, <<>>, next, m) /\ G[1 .. m] = f[m]
  BY <1>0, <1>1, <1>3, <1>8, FoldIs, SMTT(60)
<1>11. \A n \in 1 .. m : f[n] = Replayed(f[n - 1], l[n])
  BY <1>0, <1>4, <1>10 DEF Follows
<1> QED BY <1>9, <1>10, <1>11 DEF Follows, m, R

\* The replay of an empty file leaves the cache empty.
LEMMA ReplayOfNothing == ASSUME clock \in 0 .. MaxTime PROVE Replay(<<>>) = <<>>
<1> DEFINE l == <<>>
<1>1. l \in Seq(Text) /\ Len(l) = 0
  BY EmptySeq
<1> HIDE DEF l
<1>2. PICK f \in [0 .. Len(l) -> Stores] : f[0] = <<>> /\ Replay(l) = f[Len(l)]
  BY <1>1, ReplayedInOrder
<1> QED BY <1>1, <1>2 DEF l

\* One line more is replayed last.
LEMMA ReplayAppend ==
  ASSUME clock \in 0 .. MaxTime, NEW l \in Seq(Text), NEW x \in Text
  PROVE  /\ Replay(l) \in Stores
         /\ Replay(Append(l, x)) = Replayed(Replay(l), x)
<1> DEFINE m == Len(l)
           more == Append(l, x)
<1>1. /\ m \in Nat /\ more \in Seq(Text) /\ Len(more) = m + 1 /\ more[m + 1] = x
      /\ \A i \in 1 .. m : more[i] = l[i]
  BY AppendProperties, LenProperties
<1>2. PICK f \in [0 .. m -> Stores] :
        /\ f[0] = <<>> /\ \A n \in 1 .. m : f[n] = Replayed(f[n - 1], l[n])
        /\ Replay(l) = f[m]
  BY ReplayedInOrder
<1> HIDE DEF more, m
<1>3. PICK g \in [0 .. m + 1 -> Stores] :
        /\ g[0] = <<>> /\ \A n \in 1 .. m + 1 : g[n] = Replayed(g[n - 1], more[n])
        /\ Replay(more) = g[m + 1]
  <2>1. \E g \in [0 .. Len(more) -> Stores] :
           /\ g[0] = <<>> /\ \A n \in 1 .. Len(more) : g[n] = Replayed(g[n - 1], more[n])
           /\ Replay(more) = g[Len(more)]
    BY <1>1, ReplayedInOrder
  <2> QED BY <1>1, <2>1
<1>4. f[m] = g[m]
  <2> DEFINE T == {n \in Nat : f[n] = g[n]}
  <2>1. 0 \in T
    BY <1>2, <1>3
  <2>2. ASSUME NEW n \in 1 .. m, n - 1 \in T PROVE n \in T
    <3>1. n \in 1 .. m + 1 /\ n \in Nat /\ f[n - 1] = g[n - 1] /\ more[n] = l[n]
      BY <2>2, <1>1
    <3> QED BY <3>1, <1>2, <1>3
  <2>3. 0 .. m \subseteq T
    <3> HIDE DEF T
    <3> QED BY <2>1, <2>2, <1>1, CountingTo
  <2> QED BY <2>3, <1>1
<1>5. g[m + 1] = Replayed(f[m], x)
  BY <1>1, <1>3, <1>4
<1> QED BY <1>1, <1>2, <1>3, <1>5 DEF more

\* Line i of l is about k; it is the last that is.
About(l, k, i)    == Parse(l[i]).type \in Writes /\ Parse(l[i]).key = k
IsLastOf(l, k, i) == About(l, k, i) /\ \A j \in i + 1 .. Len(l) : ~About(l, k, j)

\* A line more is the last about its key, and about no other.
LEMMA LastOfAppend ==
  ASSUME NEW l \in Seq(Text), NEW x \in Text, NEW k
  PROVE  LET more == Append(l, x)
             n == Len(l) + 1
             isAbout == Parse(x).type \in Writes /\ Parse(x).key = k
         IN  /\ Len(l) \in Nat /\ more \in Seq(Text) /\ Len(more) = n /\ more[n] = x
             /\ \A i \in 1 .. Len(l) : more[i] = l[i]
             /\ isAbout => \A i \in 1 .. n : IsLastOf(more, k, i) <=> i = n
             /\ ~isAbout => \A i \in 1 .. n :
                             IsLastOf(more, k, i) <=> i \in 1 .. Len(l) /\ IsLastOf(l, k, i)
<1> DEFINE m == Len(l)
           n == m + 1
           more == Append(l, x)
           isAbout == Parse(x).type \in Writes /\ Parse(x).key = k
<1>1. m \in Nat
  BY LenProperties
<1>2. /\ more \in Seq(Text) /\ Len(more) = n /\ more[n] = x
      /\ \A i \in 1 .. m : more[i] = l[i]
  BY AppendProperties
<1>3. About(more, k, n) <=> isAbout
  BY <1>2 DEF About
<1>4. \A i \in 1 .. m : About(more, k, i) <=> About(l, k, i)
  BY <1>2 DEF About
<1> HIDE DEF m, more, isAbout
<1>5. isAbout => \A i \in 1 .. n : IsLastOf(more, k, i) <=> i = n
  <2> SUFFICES ASSUME isAbout, NEW i \in 1 .. n PROVE IsLastOf(more, k, i) <=> i = n
    OBVIOUS
  <2>1. ASSUME i = n PROVE IsLastOf(more, k, i)
    <3>1. i + 1 .. n = {}
      BY <1>1, <2>1
    <3> QED BY <1>2, <1>3, <2>1, <3>1 DEF IsLastOf
  <2>2. ASSUME i # n PROVE ~IsLastOf(more, k, i)
    <3>1. n \in i + 1 .. n
      BY <1>1, <2>2
    <3> QED BY <1>2, <1>3, <3>1 DEF IsLastOf
  <2> QED BY <2>1, <2>2
<1>6. ~isAbout => \A i \in 1 .. n :
                   IsLastOf(more, k, i) <=> i \in 1 .. m /\ IsLastOf(l, k, i)
  <2> SUFFICES ASSUME ~isAbout, NEW i \in 1 .. n
               PROVE  IsLastOf(more, k, i) <=> i \in 1 .. m /\ IsLastOf(l, k, i)
    OBVIOUS
  <2>1. CASE i = n
    <3>1. i \notin 1 .. m
      BY <1>1, <2>1
    <3> QED BY <1>3, <2>1, <3>1 DEF IsLastOf
  <2>2. CASE i # n
    <3>1. i \in 1 .. m
      BY <1>1, <2>2
    <3>2. \A j \in i + 1 .. n : j = n \/ j \in i + 1 .. m
      BY <1>1, <3>1
    <3>3. \A j \in i + 1 .. m : j \in 1 .. m /\ j \in i + 1 .. n
      BY <1>1, <3>1
    <3> QED BY <1>2, <1>3, <1>4, <3>1, <3>2, <3>3 DEF IsLastOf, m
  <2> QED BY <2>1, <2>2
<1> QED BY <1>1, <1>2, <1>5, <1>6 DEF m, more, isAbout

\* The keys of the shard of k that lines after i set.
After(l, i, k) == UNION {Pushed(Parse(l[j]), k) : j \in i + 1 .. Len(l)}

\* What the lines of l leave of k: nothing, unless one is about k, and what the
\* last of these says, unless too many are set after it.
Leaves(l, k) ==
  /\ k \in DOMAIN Replay(l) => \E i \in 1 .. Len(l) : IsLastOf(l, k, i)
  /\ \A i \in 1 .. Len(l) : IsLastOf(l, k, i) =>
       /\ Parse(l[i]).type = "del" => k \notin DOMAIN Replay(l)
       /\ Parse(l[i]).type = "set" =>
            /\ k \in DOMAIN Replay(l) =>
                 /\ Replay(l)[k].value = Parse(l[i]).value
                 /\ Replay(l)[k].expiry = Deadline(Parse(l[i]).ttl)
                 /\ Replay(l)[k].ahead \subseteq After(l, i, k)
            /\ k \notin DOMAIN Replay(l) => Crowded(k, After(l, i, k))

\* One line more.
LEMMA AfterAppend ==
  ASSUME NEW l \in Seq(Text), NEW x \in Text, NEW k, NEW i \in 1 .. Len(l)
  PROVE  After(Append(l, x), i, k) = After(l, i, k) \cup Pushed(Parse(x), k)
<1> DEFINE m == Len(l)
           more == Append(l, x)
<1>1. /\ m \in Nat /\ Len(more) = m + 1 /\ more[m + 1] = x
      /\ \A j \in 1 .. m : more[j] = l[j]
  BY AppendProperties, LenProperties
<1> HIDE DEF m, more
<1>2. i \in 1 .. m
  BY DEF m
<1>3. i + 1 .. m + 1 = (i + 1 .. m) \cup {m + 1} /\ i + 1 .. m \subseteq 1 .. m
  BY <1>1, <1>2
<1>4. \A j \in i + 1 .. m : more[j] = l[j]
  BY <1>1, <1>3
<1>5. UNION {Pushed(Parse(more[j]), k) : j \in i + 1 .. m + 1} =
        (UNION {Pushed(Parse(l[j]), k) : j \in i + 1 .. m}) \cup Pushed(Parse(x), k)
  BY <1>1, <1>3, <1>4
<1> QED BY <1>1, <1>5 DEF After, m, more

\* After the last line there is none.
LEMMA AfterLast ==
  ASSUME NEW l \in Seq(Text), NEW k PROVE After(l, Len(l), k) = {}
<1>1. Len(l) \in Nat
  BY LenProperties
<1>2. Len(l) + 1 .. Len(l) = {}
  BY <1>1
<1> QED BY <1>2 DEF After

\* The last line about a key that can be cached decides what is cached for it,
\* but for the lines after it that may evict it.
LEMMA LastLineDecides ==
  ASSUME clock \in 0 .. MaxTime, NEW l \in Seq(Text), NEW k \in Storable
  PROVE  Replay(l) \in Stores /\ Leaves(l, k)
<1> DEFINE T == {u \in Seq(Text) : Replay(u) \in Stores /\ Leaves(u, k)}
<1>1. <<>> \in T
  <2>1. <<>> \in Seq(Text) /\ Len(<<>>) = 0 /\ Replay(<<>>) = <<>>
    BY EmptySeq, ReplayOfNothing
  <2>2. <<>> \in Stores /\ DOMAIN <<>> = {} /\ 1 .. 0 = {}
    BY NothingIsStore
  <2> QED BY <2>1, <2>2 DEF Leaves
<1>2. ASSUME NEW u \in Seq(Text), NEW x \in Text, u \in T PROVE Append(u, x) \in T
  <2> DEFINE more == Append(u, x)
             n == Len(u) + 1
             cmd == Parse(x)
             isAbout == cmd.type \in Writes /\ cmd.key = k
             old == Replay(u)
             new == Replay(more)
  <2>1. /\ Len(u) \in Nat /\ more \in Seq(Text) /\ Len(more) = n /\ more[n] = x
        /\ \A i \in 1 .. Len(u) : more[i] = u[i]
        /\ isAbout => \A i \in 1 .. n : IsLastOf(more, k, i) <=> i = n
        /\ ~isAbout => \A i \in 1 .. n :
                        IsLastOf(more, k, i) <=> i \in 1 .. Len(u) /\ IsLastOf(u, k, i)
    BY LastOfAppend
  <2>2. old \in Stores /\ new = IF cmd.type \in Writes THEN Applied(old, cmd) ELSE old
    BY ReplayAppend DEF Replayed
  <2>3. CommandOK(cmd)
    BY ParseIsOK
  <2>4. Leaves(u, k)
    BY <1>2
  <2>a. /\ After(more, n, k) = {}
        /\ \A i \in 1 .. Len(u) : After(more, i, k) = After(u, i, k) \cup Pushed(cmd, k)
    <3>1. After(more, Len(more), k) = {}
      BY <2>1, AfterLast
    <3> QED BY <2>1, <3>1, AfterAppend
  <2>n. n \in 1 .. n /\ 1 .. Len(u) \subseteq 1 .. n
    BY <2>1
  <2> HIDE DEF more, cmd, old, new
  <2>5. new \in Stores
    BY <2>2, <2>3, AppliedFacts
  <2>6. CASE isAbout
    <3>1. new = Applied(old, cmd)
      BY <2>2, <2>6
    <3>2. cmd.type = "del" => k \notin DOMAIN new
      BY <2>2, <2>3, <2>6, <3>1, AppliedFacts
    <3>3. cmd.type = "set" =>
            /\ k \in DOMAIN new /\ new[k].value = cmd.value
            /\ new[k].expiry = Deadline(cmd.ttl) /\ new[k].ahead = {}
      BY <2>2, <2>3, <2>6, <3>1, AppliedFacts
    <3>4. \A i \in 1 .. n : IsLastOf(more, k, i) <=> i = n
      BY <2>1, <2>6
    <3> QED BY <2>1, <2>5, <2>n, <3>2, <3>3, <3>4 DEF Leaves, new, cmd, more
  <2>7. CASE ~isAbout
    <3>1. KeptOf(old, new, k, Pushed(cmd, k))
      <4>1. CASE cmd.type \in Writes
        BY <2>2, <2>3, <2>7, <4>1, AppliedFacts
      <4>2. CASE cmd.type \notin Writes
        BY <2>2, <4>2 DEF KeptOf
      <4> QED BY <4>1, <4>2
    <3>2. \A i \in 1 .. n : IsLastOf(more, k, i) <=> i \in 1 .. Len(u) /\ IsLastOf(u, k, i)
      BY <2>1, <2>7
    <3>3. \A i \in 1 .. n : IsLastOf(more, k, i) => more[i] = u[i]
      BY <2>1, <3>2
    <3>4. \A i \in 1 .. Len(u) : IsLastOf(u, k, i) =>
             /\ Parse(u[i]).type = "del" => k \notin DOMAIN old
             /\ Parse(u[i]).type = "set" =>
                  /\ k \in DOMAIN old =>
                       /\ old[k].value = Parse(u[i]).value
                       /\ old[k].expiry = Deadline(Parse(u[i]).ttl)
                       /\ old[k].ahead \subseteq After(u, i, k)
                  /\ k \notin DOMAIN old => Crowded(k, After(u, i, k))
      BY <2>4 DEF Leaves, old
    <3>5. k \in DOMAIN old => \E i \in 1 .. Len(u) : IsLastOf(u, k, i)
      BY <2>4 DEF Leaves, old
    <3>6. k \in DOMAIN new => \E i \in 1 .. n : IsLastOf(more, k, i)
      BY <2>n, <3>1, <3>2, <3>5 DEF KeptOf
    <3>7. ASSUME NEW i \in 1 .. n, IsLastOf(more, k, i)
          PROVE  /\ Parse(more[i]).type = "del" => k \notin DOMAIN new
                 /\ Parse(more[i]).type = "set" =>
                      /\ k \in DOMAIN new =>
                           /\ new[k].value = Parse(more[i]).value
                           /\ new[k].expiry = Deadline(Parse(more[i]).ttl)
                           /\ new[k].ahead \subseteq After(more, i, k)
                      /\ k \notin DOMAIN new => Crowded(k, After(more, i, k))
      <4>1. /\ i \in 1 .. Len(u) /\ IsLastOf(u, k, i) /\ more[i] = u[i]
            /\ After(more, i, k) = After(u, i, k) \cup Pushed(cmd, k)
        BY <2>a, <3>2, <3>3, <3>7
      <4>2. Parse(u[i]).type = "del" => k \notin DOMAIN new
        BY <3>1, <3>4, <4>1 DEF KeptOf
      <4>3. ASSUME Parse(u[i]).type = "set", k \in DOMAIN new
            PROVE  /\ new[k].value = Parse(u[i]).value
                   /\ new[k].expiry = Deadline(Parse(u[i]).ttl)
                   /\ new[k].ahead \subseteq After(u, i, k) \cup Pushed(cmd, k)
        BY <3>1, <3>4, <4>1, <4>3 DEF KeptOf
      <4>4. ASSUME Parse(u[i]).type = "set", k \notin DOMAIN new
            PROVE  Crowded(k, After(u, i, k) \cup Pushed(cmd, k))
        <5>1. CASE k \in DOMAIN old
          <6>1. old[k].ahead \cup Pushed(cmd, k) \subseteq After(u, i, k) \cup Pushed(cmd, k)
            BY <3>4, <4>1, <4>4, <5>1
          <6>2. Crowded(k, old[k].ahead \cup Pushed(cmd, k))
            BY <3>1, <4>4, <5>1 DEF KeptOf
          <6> QED BY <6>1, <6>2 DEF Crowded
        <5>2. CASE k \notin DOMAIN old
          <6>1. Crowded(k, After(u, i, k))
            BY <3>4, <4>1, <4>4, <5>2
          <6> QED BY <6>1 DEF Crowded
        <5> QED BY <5>1, <5>2
      <4> QED BY <4>1, <4>2, <4>3, <4>4
    <3> QED BY <2>1, <2>5, <3>6, <3>7 DEF Leaves, new, more
  <2> QED BY <2>6, <2>7
<1>3. Seq(Text) \subseteq T
  <2> HIDE DEF T
  <2> QED BY <1>1, <1>2, AppendInduction
<1> QED BY <1>3

-----------------------------------------------------------------------------
(* The invariant of the server and the command line *)

Given == [value : Text, ttl : Times \cup {None}, due : Int \cup {None},
          since : {S \in SUBSET Storable : IsFiniteSet(S)}]

Typed ==
  /\ clock \in 0 .. MaxTime /\ program \in {"http", "cli", "none"}
  /\ store \in Stores /\ (program = "none" => store = <<>>)
  /\ tally \in [hits : Nat, misses : Nat]
  /\ log \in Seq(Text) /\ asked \in 0 .. MaxRequests
  /\ accepted \in Maps(Storable, Given) /\ plain \in BOOLEAN

LogIsLines == plain => \A i \in 1 .. Len(log) : Lines(log[i]) = <<log[i]>>

\* The last line about a key says what was accepted for it, and the lines after
\* it set what was used since; of a key for which nothing is accepted the last
\* says that it was deleted.
LogSays ==
  plain => \A k \in Storable :
    /\ k \notin DOMAIN accepted =>
         \A i \in 1 .. Len(log) : IsLastOf(log, k, i) => Parse(log[i]).type = "del"
    /\ k \in DOMAIN accepted /\ IsWord(accepted[k].value) =>
         \E i \in 1 .. Len(log) :
           /\ IsLastOf(log, k, i)
           /\ Parse(log[i]) = Command("set", k, accepted[k].value, accepted[k].ttl)
           /\ After(log, i, k) \subseteq accepted[k].since

\* What is due was so by its time to live, from some time that is over.
DueIsCounted ==
  \A k \in DOMAIN accepted :
    LET a == accepted[k] IN
    /\ a.ttl = None <=> a.due = None
    /\ a.ttl # None => a.due <= clock + a.ttl * TicksPerMs

\* What is cached is what was accepted, and what is ahead of it was used since.
StoreFollows ==
  plain => \A k \in DOMAIN store :
    /\ k \in DOMAIN accepted
    /\ IsWord(accepted[k].value) => /\ store[k].value = accepted[k].value
                                    /\ store[k].ahead \subseteq accepted[k].since

\* What stands is cached, and no less long than it is due.
StandingIsStored ==
  program # "none" /\ plain =>
    \A k \in DOMAIN accepted :
      Standing(k) /\ IsWord(accepted[k].value) =>
        /\ k \in DOMAIN store /\ store[k].value = accepted[k].value
        /\ store[k].expiry # None =>
             accepted[k].due # None /\ store[k].expiry >= accepted[k].due

ServerInv == Typed /\ LogIsLines /\ LogSays /\ DueIsCounted /\ StoreFollows /\ StandingIsStored

-----------------------------------------------------------------------------
(* A request keeps it *)

\* A route asks what may be executed.
LEMMA AsksIsOK == ASSUME NEW req \in Request PROVE CommandOK(Asks(req))
<1>1. CASE /\ req.route = "/set" /\ None \notin {req.key, req.value}
           /\ (req.ttl = None \/ (req.ttl # None /\ IsTtl(req.ttl)))
  <2>1. req.ttl # None => Ttl(req.ttl) \in Times
    BY <1>1, TtlIsTime DEF Request
  <2>2. Asks(req) = Command("set", req.key, req.value, IF req.ttl = None THEN None ELSE Ttl(req.ttl))
    BY <1>1 DEF Asks
  <2> QED BY <1>1, <2>1, <2>2 DEF Request, Command, CommandOK
<1>2. CASE req.route = "/get" /\ req.key # None
  BY <1>2 DEF Asks, Request, Command, CommandOK
<1>3. CASE req.route = "/del" /\ req.key # None
  BY <1>3 DEF Asks, Request, Command, CommandOK
<1>4. CASE req.route = "/cmd"
  BY <1>4, ParseIsOK DEF Asks, Request
<1>5. CASE /\ req.route # "/cmd" /\ ~(req.route = "/del" /\ req.key # None)
           /\ ~(req.route = "/get" /\ req.key # None)
           /\ ~(/\ req.route = "/set" /\ None \notin {req.key, req.value}
                /\ (req.ttl = None \/ (req.ttl # None /\ IsTtl(req.ttl))))
  <2>1. Asks(req) = Command("ask", None, None, None) \/ Asks(req) = Invalid
    BY <1>5 DEF Asks
  <2> QED BY <2>1 DEF Command, Invalid, CommandOK
<1> QED BY <1>1, <1>2, <1>3, <1>4, <1>5

\* What is recorded of a set that is accepted.
Told(cmd) == [value |-> cmd.value, ttl |-> cmd.ttl,
              due |-> IF cmd.ttl = None THEN None ELSE clock + cmd.ttl * TicksPerMs,
              since |-> {}]

\* The key of a request that sets or finds another key of the shard of k.
UsedBy(cmd, k) ==
  IF /\ (cmd.type = "set" /\ cmd.key \in Storable) \/ (cmd.type = "get" /\ Served(cmd.key))
     /\ cmd.key # k /\ Shard[cmd.key] = Shard[k]
  THEN {cmd.key} ELSE {}

\* Record b says of k what a does, and that more was used since.
SaysOn(a, b, k, more) ==
  /\ k \in DOMAIN b <=> k \in DOMAIN a
  /\ k \in DOMAIN a => /\ b[k].value = a[k].value /\ b[k].ttl = a[k].ttl
                        /\ b[k].due = a[k].due /\ b[k].since = a[k].since \cup more

\* A record of what was used since.
LEMMA SinceFacts ==
  ASSUME NEW x \in Given, NEW S \in SUBSET Storable, IsFiniteSet(S)
  PROVE  /\ [x EXCEPT !.since = S] \in Given
         /\ [x EXCEPT !.since = S].since = S /\ [x EXCEPT !.since = S].value = x.value
         /\ [x EXCEPT !.since = S].ttl = x.ttl /\ [x EXCEPT !.since = S].due = x.due
<1> DEFINE sets == {U \in SUBSET Storable : IsFiniteSet(U)}
<1>1. S \in sets
  OBVIOUS
<1>2. x \in [value : Text, ttl : Times \cup {None}, due : Int \cup {None}, since : sets]
  BY DEF Given
<1> HIDE DEF sets
<1>3. [x EXCEPT !.since = S] \in
        [value : Text, ttl : Times \cup {None}, due : Int \cup {None}, since : sets]
  BY <1>1, <1>2
<1> QED BY <1>2, <1>3 DEF Given, sets

\* A use is noted for the other keys of the shard.
LEMMA NotedFacts ==
  ASSUME NEW a \in Maps(Storable, Given), NEW k \in Storable
  PROVE  /\ Noted(a, k) \in Maps(Storable, Given) /\ DOMAIN Noted(a, k) = DOMAIN a
         /\ \A j \in DOMAIN a :
              SaysOn(a, Noted(a, k), j, IF j # k /\ Shard[j] = Shard[k] THEN {k} ELSE {})
<1> DEFINE b == Noted(a, k)
           D == DOMAIN a
           more(j) == IF j # k /\ Shard[j] = Shard[k] THEN {k} ELSE {}
           S(j) == a[j].since \cup more(j)
<1>1. DOMAIN b = D /\ \A j \in D : b[j] = [a[j] EXCEPT !.since = S(j)]
  BY DEF Noted
<1>2. D \in SUBSET Storable /\ IsFiniteSet(D)
  BY MapFacts
<1>3. ASSUME NEW j \in D PROVE a[j] \in Given /\ S(j) \in SUBSET Storable /\ IsFiniteSet(S(j))
  <2>1. a[j] \in Given
    BY MapFacts
  <2>2. a[j].since \in SUBSET Storable /\ IsFiniteSet(a[j].since)
    BY <2>1 DEF Given
  <2>3. IsFiniteSet(a[j].since \cup {k})
    BY <2>2, FS_AddElement
  <2>4. S(j) = a[j].since \/ S(j) = a[j].since \cup {k}
    OBVIOUS
  <2> HIDE DEF S
  <2> QED BY <2>1, <2>2, <2>3, <2>4
<1> HIDE DEF b, S
<1>4. ASSUME NEW j \in D
      PROVE  /\ b[j] \in Given /\ b[j].since = S(j) /\ b[j].value = a[j].value
             /\ b[j].ttl = a[j].ttl /\ b[j].due = a[j].due
  <2> DEFINE x == a[j]
             U == S(j)
  <2>1. x \in Given /\ U \in SUBSET Storable /\ IsFiniteSet(U)
    BY <1>3
  <2>2. b[j] = [x EXCEPT !.since = U]
    BY <1>1
  <2> HIDE DEF x, U
  <2>3. /\ b[j] \in Given /\ b[j].since = U /\ b[j].value = x.value
        /\ b[j].ttl = x.ttl /\ b[j].due = x.due
    BY <2>1, <2>2, SinceFacts
  <2> QED BY <2>3 DEF x, U
<1>5. b \in [D -> Given]
  <2>1. b = [j \in D |-> b[j]]
    BY DEF b, Noted
  <2> QED BY <1>4, <2>1
<1>6. \A j \in D : SaysOn(a, b, j, more(j))
  <2> HIDE DEF more
  <2> QED BY <1>1, <1>4 DEF SaysOn, S
<1> HIDE DEF D
<1>7. b \in Maps(Storable, Given)
  BY <1>2, <1>5, IsMap
<1> QED BY <1>1, <1>6, <1>7 DEF b, D

\* What is accepted changes at the key of a command, as what is cached does.
LEMMA AcceptedFacts ==
  ASSUME Typed, NEW cmd, CommandOK(cmd), Execute(cmd)
  PROVE  /\ accepted' \in Maps(Storable, Given)
         /\ \A k : k # cmd.key \/ cmd.type \notin Writes =>
              SaysOn(accepted, accepted', k, UsedBy(cmd, k))
         /\ cmd.type = "del" => cmd.key \notin DOMAIN accepted'
         /\ cmd.type = "set" /\ cmd.key \in Storable =>
              /\ cmd.key \in DOMAIN accepted'
              /\ accepted'[cmd.key] = Told(cmd)
<1>1. CASE cmd.type = "del"
  <2>1. accepted' = Without(accepted, cmd.key)
    BY <1>1 DEF Execute
  <2>2. Without(accepted, cmd.key) \in Maps(Storable, Given)
    BY WithoutIsMap DEF Typed
  <2>3. /\ DOMAIN Without(accepted, cmd.key) = DOMAIN accepted \ {cmd.key}
        /\ \A j \in DOMAIN accepted : j # cmd.key => Without(accepted, cmd.key)[j] = accepted[j]
    BY DEF Without, Restrict
  <2>4. \A k : UsedBy(cmd, k) = {}
    BY <1>1 DEF UsedBy
  <2> QED BY <1>1, <2>1, <2>2, <2>3, <2>4 DEF Writes, SaysOn
<1>2. CASE cmd.type = "set" /\ cmd.key \in Storable
  <2> DEFINE x == Told(cmd)
             a == Noted(accepted, cmd.key)
             b == Put(a, cmd.key, x)
  <2>1. accepted' = b
    BY <1>2 DEF Execute, Refused, Told
  <2>2. x \in Given
    <3>1. cmd.ttl # None => clock + cmd.ttl * TicksPerMs \in Int
      BY <1>2, DeadlineFacts DEF CommandOK, Typed
    <3>2. {} \in {S \in SUBSET Storable : IsFiniteSet(S)}
      BY FS_EmptySet
    <3> QED BY <1>2, <3>1, <3>2 DEF CommandOK, Given, Told
  <2>a. /\ a \in Maps(Storable, Given) /\ DOMAIN a = DOMAIN accepted
        /\ \A j \in DOMAIN accepted :
             SaysOn(accepted, a, j, IF j # cmd.key /\ Shard[j] = Shard[cmd.key] THEN {cmd.key} ELSE {})
    BY <1>2, NotedFacts DEF Typed
  <2> HIDE DEF a
  <2>3. b \in Maps(Storable, Given)
    <3> HIDE DEF x
    <3> QED BY <1>2, <2>2, <2>a, PutIsMap
  <2>4. /\ DOMAIN b = DOMAIN accepted \cup {cmd.key} /\ b[cmd.key] = x
        /\ \A j \in DOMAIN accepted : j # cmd.key => b[j] = a[j]
    <3> HIDE DEF x
    <3> QED BY <2>a DEF Put
  <2> HIDE DEF x, b
  <2>5. \A j : j # cmd.key => SaysOn(accepted, b, j, UsedBy(cmd, j))
    <3>1. \A j : j # cmd.key /\ Shard[j] = Shard[cmd.key] => UsedBy(cmd, j) = {cmd.key}
      BY <1>2 DEF UsedBy
    <3>2. \A j : Shard[j] # Shard[cmd.key] => UsedBy(cmd, j) = {}
      BY <1>2 DEF UsedBy
    <3> QED BY <2>a, <2>4, <3>1, <3>2 DEF SaysOn
  <2> QED BY <1>2, <2>1, <2>3, <2>4, <2>5 DEF Writes, x
<1>3. CASE cmd.type = "get" /\ Served(cmd.key)
  <2>1. accepted' = Noted(accepted, cmd.key)
    BY <1>3 DEF Execute
  <2>2. cmd.key \in Storable
    BY <1>3, StoreIs DEF Served, Typed
  <2>3. /\ accepted' \in Maps(Storable, Given) /\ DOMAIN accepted' = DOMAIN accepted
        /\ \A j \in DOMAIN accepted :
             SaysOn(accepted, accepted', j,
                    IF j # cmd.key /\ Shard[j] = Shard[cmd.key] THEN {cmd.key} ELSE {})
    BY <2>1, <2>2, NotedFacts DEF Typed
  <2>4. \A j : UsedBy(cmd, j) =
               IF j # cmd.key /\ Shard[j] = Shard[cmd.key] THEN {cmd.key} ELSE {}
    BY <1>3 DEF UsedBy
  <2>5. \A j : SaysOn(accepted, accepted', j, UsedBy(cmd, j))
    BY <2>3, <2>4 DEF SaysOn
  <2> QED BY <1>3, <2>3, <2>5 DEF Writes
<1>4. CASE /\ cmd.type # "del" /\ ~(cmd.type = "set" /\ cmd.key \in Storable)
           /\ ~(cmd.type = "get" /\ Served(cmd.key))
  <2>1. accepted' = accepted
    BY <1>4 DEF Execute, Refused
  <2>2. \A k : UsedBy(cmd, k) = {}
    BY <1>4 DEF UsedBy
  <2> QED BY <1>4, <2>1, <2>2 DEF Writes, Typed, SaysOn
<1> QED BY <1>1, <1>2, <1>3, <1>4

\* What is written is text.
LEMMA WrittenIsText ==
  ASSUME NEW cmd, CommandOK(cmd), cmd.type \in Writes PROVE Written(cmd) \in Text
<1> DEFINE k == cmd.key
<1>1. k \in Text
  BY DEF CommandOK, Writes
<1>0. \A x, y \in Symbol : <<x>> \in Text /\ <<x, y>> \in Text
  BY DEF Text
<1>2. ASSUME NEW v \in Verbs PROVE <<v, " ">> \in Text
  <2>1. v \in Symbol
    BY CommandTextOK
  <2> QED BY <1>0, <2>1, SpaceIsSymbol
<1>3. ASSUME NEW v \in Verbs PROVE <<v, " ">> \o k \in Text
  BY <1>1, <1>2, ConcatProperties DEF Text
<1>s. <<" ">> \in Text
  BY <1>0, SpaceIsSymbol
<1>c. \A a, b \in Text : a \o b \in Text
  BY ConcatProperties DEF Text
<1>4. CASE cmd.type = "del"
  BY <1>3, <1>4 DEF Written, Verbs
<1>5. CASE cmd.type # "del"
  <2> DEFINE head == <<"SET", " ">> \o k
             tail == IF cmd.ttl = None THEN <<>> ELSE <<" ">> \o Spelled(cmd.ttl)
  <2>0. cmd.type = "set" /\ cmd.value \in Text /\ cmd.ttl \in Times \cup {None}
    BY <1>5 DEF Writes, CommandOK
  <2>1. head \in Text
    BY <1>3 DEF Verbs
  <2>2. tail \in Text
    <3>1. cmd.ttl # None => Spelled(cmd.ttl) \in Text
      BY <2>0, NumeralsAreWords DEF SingleWords
    <3> QED BY <1>s, <1>c, <3>1, FreeNothing
  <2>3. Written(cmd) = ((head \o <<" ">>) \o cmd.value) \o tail
    BY <2>0 DEF Written
  <2> HIDE DEF head, tail
  <2> QED BY <1>s, <1>c, <2>0, <2>1, <2>2, <2>3
<1> QED BY <1>4, <1>5

\* A request keeps the types.
LEMMA ExecuteIsTyped ==
  ASSUME Typed, program # "none", NEW cmd, CommandOK(cmd), Execute(cmd),
         asked' \in 0 .. MaxRequests
  PROVE  Typed'
<1>1. accepted' \in Maps(Storable, Given)
  BY AcceptedFacts
<1>2. store' \in Stores
  <2>1. Applied(store, cmd) \in Stores
    BY AppliedFacts DEF Typed
  <2>2. Dropped(store, {cmd.key}) \in Stores
    BY DroppedFacts DEF Typed, IsWithout
  <2>3. Served(cmd.key) => Touched(store, cmd.key) \in Stores
    BY TouchedFacts DEF Served, Typed, IsTouched
  <2> QED BY <2>1, <2>2, <2>3 DEF Execute
<1>3. log' \in Seq(Text)
  BY WrittenIsText, AppendProperties DEF Execute, Typed
<1>4. tally' \in [hits : Nat, misses : Nat]
  BY DEF Execute, Typed
<1>5. plain' \in BOOLEAN
  BY DEF Execute
<1> QED BY <1>1, <1>2, <1>3, <1>4, <1>5 DEF Execute, Typed

\* A request that writes adds the line about its key that is the last now.
LEMMA ExecuteKeepsLog ==
  ASSUME Typed, LogIsLines, LogSays, NEW cmd, CommandOK(cmd), Execute(cmd)
  PROVE  LogIsLines' /\ LogSays'
<1> SUFFICES ASSUME plain' PROVE /\ \A i \in 1 .. Len(log') : Lines(log'[i]) = <<log'[i]>>
                                 /\ LogSays'
  BY DEF LogIsLines, LogSays
<1>1. /\ plain /\ (cmd.type \in Writes => IsWord(cmd.key))
      /\ (cmd.type = "set" => Lines(cmd.value) = <<cmd.value>>)
  BY DEF Execute
<1>2. log \in Seq(Text) /\ \A i \in 1 .. Len(log) : Lines(log[i]) = <<log[i]>>
  BY <1>1 DEF Typed, LogIsLines
<1>3. CASE cmd.type \notin Writes
  <2>1. log' = log
    BY <1>3 DEF Execute
  <2>2. \A k : SaysOn(accepted, accepted', k, UsedBy(cmd, k))
    BY <1>3, AcceptedFacts
  <2>3. \A k : /\ k \in DOMAIN accepted' <=> k \in DOMAIN accepted
               /\ k \in DOMAIN accepted =>
                    /\ accepted'[k].value = accepted[k].value /\ accepted'[k].ttl = accepted[k].ttl
                    /\ accepted[k].since \subseteq accepted'[k].since
    BY <2>2 DEF SaysOn
  <2>4. LogSays'
    <3> SUFFICES ASSUME NEW k \in Storable
                 PROVE  /\ k \notin DOMAIN accepted' =>
                             \A i \in 1 .. Len(log) : IsLastOf(log, k, i) => Parse(log[i]).type = "del"
                        /\ k \in DOMAIN accepted' /\ IsWord(accepted'[k].value) =>
                             \E i \in 1 .. Len(log) :
                               /\ IsLastOf(log, k, i)
                               /\ Parse(log[i]) = Command("set", k, accepted'[k].value, accepted'[k].ttl)
                               /\ After(log, i, k) \subseteq accepted'[k].since
      BY <2>1 DEF LogSays
    <3>1. k \notin DOMAIN accepted' =>
            \A i \in 1 .. Len(log) : IsLastOf(log, k, i) => Parse(log[i]).type = "del"
      BY <1>1, <2>3 DEF LogSays
    <3>2. ASSUME k \in DOMAIN accepted', IsWord(accepted'[k].value)
          PROVE  \E i \in 1 .. Len(log) :
                   /\ IsLastOf(log, k, i)
                   /\ Parse(log[i]) = Command("set", k, accepted'[k].value, accepted'[k].ttl)
                   /\ After(log, i, k) \subseteq accepted'[k].since
      <4>1. PICK i \in 1 .. Len(log) :
              /\ IsLastOf(log, k, i)
              /\ Parse(log[i]) = Command("set", k, accepted[k].value, accepted[k].ttl)
              /\ After(log, i, k) \subseteq accepted[k].since
        BY <1>1, <2>3, <3>2 DEF LogSays
      <4> QED BY <2>3, <3>2, <4>1
    <3> QED BY <3>1, <3>2
  <2> QED BY <1>2, <2>1, <2>4
<1>4. CASE cmd.type \in Writes
  <2> DEFINE x == Written(cmd)
             n == Len(log) + 1
  <2>k. cmd.key \in SingleWords
    BY <1>1, <1>4, IsWordMeans DEF CommandOK, Writes
  <2>1. log' = Append(log, x)
    BY <1>4 DEF Execute
  <2>2. x \in Text /\ Lines(x) = <<x>>
    BY <1>1, <1>4, <2>k, WrittenIsLine DEF CommandOK
  <2>3. Parse(x).type \in Writes => Parse(x).key = cmd.key
    <3>1. CASE cmd.type = "del"
      BY <2>k, <3>1, DelIsReadAgain DEF Command
    <3>2. CASE cmd.type = "set"
      <4>1. Parse(x).type # "invalid" => Parse(x).key = cmd.key
        BY <2>k, <3>2, SetIsReadOfItsKey DEF CommandOK
      <4> QED BY <4>1 DEF Writes
    <3> QED BY <1>4, <3>1, <3>2 DEF Writes
  <2>p. \A k : Pushed(Parse(x), k) \subseteq UsedBy(cmd, k)
    <3>1. Parse(x).type = "set" => cmd.type = "set"
      BY <1>4, <2>k, DelIsReadAgain DEF Command, Writes
    <3> QED BY <2>3, <3>1 DEF Pushed, UsedBy, Writes
  <2> HIDE DEF x
  <2>4. /\ Len(log) \in Nat /\ Len(log') = n /\ log'[n] = x
        /\ \A i \in 1 .. Len(log) : log'[i] = log[i]
        /\ \A i \in 1 .. n : i \in 1 .. Len(log) \/ i = n
        /\ n \in 1 .. n
    BY <1>2, <2>1, <2>2, LastOfAppend
  <2>5. \A i \in 1 .. Len(log') : Lines(log'[i]) = <<log'[i]>>
    BY <1>2, <2>2, <2>4
  <2>6. ASSUME NEW k \in Storable
        PROVE  /\ k \notin DOMAIN accepted' =>
                    \A i \in 1 .. Len(log') : IsLastOf(log', k, i) => Parse(log'[i]).type = "del"
               /\ k \in DOMAIN accepted' /\ IsWord(accepted'[k].value) =>
                    \E i \in 1 .. Len(log') :
                      /\ IsLastOf(log', k, i)
                      /\ Parse(log'[i]) = Command("set", k, accepted'[k].value, accepted'[k].ttl)
                      /\ After(log', i, k) \subseteq accepted'[k].since
    <3>1. CASE ~(Parse(x).type \in Writes /\ Parse(x).key = k) /\ k # cmd.key
      <4>1. \A i \in 1 .. n : IsLastOf(log', k, i) <=> i \in 1 .. Len(log) /\ IsLastOf(log, k, i)
        BY <1>2, <2>1, <2>2, <3>1, LastOfAppend
      <4>s. SaysOn(accepted, accepted', k, UsedBy(cmd, k))
        BY <3>1, AcceptedFacts
      <4>2. /\ k \in DOMAIN accepted' <=> k \in DOMAIN accepted
            /\ k \in DOMAIN accepted =>
                 /\ accepted'[k].value = accepted[k].value /\ accepted'[k].ttl = accepted[k].ttl
                 /\ accepted'[k].since = accepted[k].since \cup UsedBy(cmd, k)
        BY <4>s DEF SaysOn
      <4>3. /\ k \notin DOMAIN accepted =>
                  \A i \in 1 .. Len(log) : IsLastOf(log, k, i) => Parse(log[i]).type = "del"
            /\ k \in DOMAIN accepted /\ IsWord(accepted[k].value) =>
                  \E i \in 1 .. Len(log) :
                    /\ IsLastOf(log, k, i)
                    /\ Parse(log[i]) = Command("set", k, accepted[k].value, accepted[k].ttl)
                    /\ After(log, i, k) \subseteq accepted[k].since
        BY <1>1 DEF LogSays
      <4>4. k \notin DOMAIN accepted' =>
              \A i \in 1 .. n : IsLastOf(log', k, i) => Parse(log'[i]).type = "del"
        BY <2>4, <4>1, <4>2, <4>3
      <4>5. ASSUME k \in DOMAIN accepted', IsWord(accepted'[k].value)
            PROVE  \E i \in 1 .. n :
                     /\ IsLastOf(log', k, i)
                     /\ Parse(log'[i]) = Command("set", k, accepted'[k].value, accepted'[k].ttl)
                     /\ After(log', i, k) \subseteq accepted'[k].since
        <5>1. PICK i \in 1 .. Len(log) :
                /\ IsLastOf(log, k, i)
                /\ Parse(log[i]) = Command("set", k, accepted[k].value, accepted[k].ttl)
                /\ After(log, i, k) \subseteq accepted[k].since
          BY <4>2, <4>3, <4>5
        <5>2. i \in 1 .. n
          BY <2>4
        <5>3. After(log', i, k) = After(log, i, k) \cup Pushed(Parse(x), k)
          BY <1>2, <2>1, <2>2, AfterAppend
        <5>4. After(log', i, k) \subseteq accepted'[k].since
          BY <2>p, <4>2, <4>5, <5>1, <5>3
        <5> QED BY <2>4, <4>1, <4>2, <4>5, <5>1, <5>2, <5>4
      <4> QED BY <2>4, <4>4, <4>5
    <3>2. CASE k = cmd.key /\ cmd.type = "del"
      <4>1. Parse(x).type = "del" /\ Parse(x).key = k
        BY <2>k, <3>2, DelIsReadAgain DEF Command, x
      <4>2. \A i \in 1 .. n : IsLastOf(log', k, i) <=> i = n
        BY <1>2, <2>1, <2>2, <4>1, LastOfAppend DEF Writes
      <4>3. k \notin DOMAIN accepted'
        BY <3>2, AcceptedFacts
      <4> QED BY <2>4, <4>1, <4>2, <4>3
    <3>3. CASE k = cmd.key /\ cmd.type = "set"
      <4>1. /\ k \in DOMAIN accepted'
            /\ accepted'[k].value = cmd.value /\ accepted'[k].ttl = cmd.ttl
        <5>1. cmd.key \in DOMAIN accepted' /\ accepted'[cmd.key] = Told(cmd)
          BY <3>3, AcceptedFacts
        <5> QED BY <3>3, <5>1 DEF Told
      <4>2. ASSUME IsWord(cmd.value)
            PROVE  /\ IsLastOf(log', k, n)
                   /\ Parse(log'[n]) = Command("set", k, cmd.value, cmd.ttl)
                   /\ After(log', n, k) = {}
        <5>1. cmd.value \in SingleWords
          BY <3>3, <4>2, IsWordMeans DEF CommandOK
        <5>2. Parse(x) = Command("set", k, cmd.value, cmd.ttl)
          BY <2>k, <3>3, <5>1, SetIsReadAgain DEF CommandOK, x
        <5>3. Parse(x).type \in Writes /\ Parse(x).key = k
          BY <5>2 DEF Command, Writes
        <5>4. IsLastOf(log', k, n)
          BY <1>2, <2>1, <2>2, <2>4, <5>3, LastOfAppend
        <5>5. After(log', n, k) = {}
          <6>1. log' \in Seq(Text)
            BY <1>2, <2>1, <2>2, AppendProperties
          <6> QED BY <2>4, <6>1, AfterLast
        <5> QED BY <2>4, <5>2, <5>4, <5>5
      <4> QED BY <2>4, <4>1, <4>2
    <3> QED BY <1>4, <2>3, <3>1, <3>2, <3>3 DEF Writes
  <2>7. \A k, i : IsLastOf(log, k, i)' <=> IsLastOf(log', k, i)
    BY DEF IsLastOf, About
  <2> QED BY <2>5, <2>6, <2>7 DEF LogSays
<1> QED BY <1>3, <1>4

\* A set is due by the clock it was made at.
LEMMA ExecuteKeepsDue ==
  ASSUME Typed, DueIsCounted, NEW cmd, CommandOK(cmd), Execute(cmd)
  PROVE  DueIsCounted'
<1> SUFFICES ASSUME NEW k \in DOMAIN accepted'
             PROVE  /\ accepted'[k].ttl = None <=> accepted'[k].due = None
                    /\ accepted'[k].ttl # None =>
                         accepted'[k].due <= clock + accepted'[k].ttl * TicksPerMs
  BY DEF DueIsCounted, Execute
<1>1. CASE k # cmd.key \/ cmd.type \notin Writes
  <2>1. SaysOn(accepted, accepted', k, UsedBy(cmd, k))
    BY <1>1, AcceptedFacts
  <2>2. /\ k \in DOMAIN accepted
        /\ accepted'[k].ttl = accepted[k].ttl /\ accepted'[k].due = accepted[k].due
    BY <2>1 DEF SaysOn
  <2> QED BY <2>2 DEF DueIsCounted
<1>2. CASE k = cmd.key /\ cmd.type \in Writes
  <2>1. cmd.type = "set" /\ k \in Storable
    BY <1>2, AcceptedFacts, MapFacts DEF Writes
  <2>2. accepted'[k] = Told(cmd)
    BY <1>2, <2>1, AcceptedFacts
  <2>3. cmd.ttl # None => clock + cmd.ttl * TicksPerMs \in Int
    BY <2>1, DeadlineFacts DEF CommandOK, Typed
  <2>4. cmd.ttl # None => clock + cmd.ttl * TicksPerMs # None
    BY <2>3, CommandTextOK
  <2> QED BY <2>2, <2>3, <2>4 DEF Told
<1> QED BY <1>1, <1>2

\* What is cached for other keys is kept, unless it has expired, but what the
\* request uses is ahead of it, which may be one too many.
LEMMA StoreFacts ==
  ASSUME Typed, NEW cmd, CommandOK(cmd), Execute(cmd)
  PROVE  /\ \A k : k # cmd.key \/ cmd.type \notin Writes =>
              /\ k \in DOMAIN store' =>
                   /\ k \in DOMAIN store /\ store'[k].value = store[k].value
                   /\ store'[k].expiry = store[k].expiry
                   /\ store'[k].ahead \subseteq store[k].ahead \cup UsedBy(cmd, k)
              /\ Served(k) /\ k \notin DOMAIN store' =>
                   Crowded(k, store[k].ahead \cup UsedBy(cmd, k))
         /\ cmd.type = "del" => cmd.key \notin DOMAIN store'
         /\ cmd.type = "set" /\ cmd.key \in Storable =>
              /\ cmd.key \in DOMAIN store'
              /\ store'[cmd.key].value = cmd.value /\ store'[cmd.key].expiry = Deadline(cmd.ttl)
              /\ store'[cmd.key].ahead = {}
<1>0. clock \in 0 .. MaxTime /\ store \in Stores
  BY DEF Typed
<1>1. CASE cmd.type = "get" /\ ~Served(cmd.key)
  <2>1. store' = Dropped(store, {cmd.key})
    BY <1>1 DEF Execute
  <2>d. IsWithout(store, store', {cmd.key})
    BY <1>0, <2>1, DroppedFacts
  <2>2. /\ DOMAIN store' = DOMAIN store \ {cmd.key}
        /\ \A k \in DOMAIN store \ {cmd.key} :
             /\ store'[k].value = store[k].value /\ store'[k].expiry = store[k].expiry
             /\ store'[k].ahead = store[k].ahead \ {cmd.key}
    BY <2>d DEF IsWithout
  <2>3. \A k : Served(k) => k \in DOMAIN store /\ k # cmd.key
    BY <1>1 DEF Served
  <2> QED BY <1>1, <2>2, <2>3
<1>2. CASE cmd.type = "get" /\ Served(cmd.key)
  <2>1. store' = Touched(store, cmd.key) /\ cmd.key \in DOMAIN store
    BY <1>2 DEF Execute, Served
  <2>t. IsTouched(store, store', cmd.key)
    BY <1>0, <2>1, TouchedFacts
  <2>2. /\ DOMAIN store' = DOMAIN store
        /\ \A k \in DOMAIN store :
             /\ store'[k].value = store[k].value /\ store'[k].expiry = store[k].expiry
             /\ store'[k].ahead = IF k = cmd.key THEN {}
                                  ELSE IF Shard[k] = Shard[cmd.key] THEN store[k].ahead \cup {cmd.key}
                                  ELSE store[k].ahead
    BY <2>t DEF IsTouched
  <2>3. \A k \in DOMAIN store : store'[k].ahead \subseteq store[k].ahead \cup UsedBy(cmd, k)
    BY <1>2, <2>2 DEF UsedBy
  <2>4. \A k : Served(k) => k \in DOMAIN store
    BY DEF Served
  <2> QED BY <1>2, <2>2, <2>3, <2>4
<1>3. CASE cmd.type # "get"
  <2>1. store' = Applied(store, cmd)
    BY <1>3 DEF Execute
  <2>2. \A k : Pushed(cmd, k) = UsedBy(cmd, k)
    BY <1>3 DEF Pushed, UsedBy
  <2>3. \A k : k # cmd.key \/ cmd.type \notin Writes => KeptOf(store, store', k, UsedBy(cmd, k))
    BY <1>0, <2>1, <2>2, AppliedFacts
  <2>4. \A k : Served(k) => k \in DOMAIN store
    BY DEF Served
  <2>5. /\ cmd.type = "del" => cmd.key \notin DOMAIN store'
        /\ cmd.type = "set" /\ cmd.key \in Storable =>
              /\ cmd.key \in DOMAIN store'
              /\ store'[cmd.key].value = cmd.value /\ store'[cmd.key].expiry = Deadline(cmd.ttl)
              /\ store'[cmd.key].ahead = {}
    BY <1>0, <2>1, AppliedFacts
  <2> QED BY <2>3, <2>4, <2>5 DEF KeptOf
<1> QED BY <1>1, <1>2, <1>3

\* Where fewer keys were used than the shard has room for, it is not crowded.
LEMMA FewDoNotCrowd ==
  ASSUME NEW S, IsFiniteSet(S), NEW U \in SUBSET S, NEW k \in Storable, Crowded(k, U)
  PROVE  ~(Cardinality(S) < Capacity[Shard[k]])
<1>1. PICK D \in SUBSET U : Cardinality(D) >= Capacity[Shard[k]]
  BY DEF Crowded
<1>2. D \in SUBSET S
  BY <1>1
<1>3. Cardinality(D) <= Cardinality(S) /\ Cardinality(D) \in Nat /\ Cardinality(S) \in Nat
  BY <1>2, FS_Subset, FS_CardinalityType
<1> QED BY <1>1, <1>3, RoomFacts

\* And the fewer were used the more so.
LEMMA FewerStand ==
  ASSUME NEW S, IsFiniteSet(S), NEW U \in SUBSET S, NEW k \in Storable,
         Cardinality(S) < Capacity[Shard[k]]
  PROVE  Cardinality(U) < Capacity[Shard[k]]
<1>1. Cardinality(U) <= Cardinality(S) /\ Cardinality(U) \in Nat /\ Cardinality(S) \in Nat
  BY FS_Subset, FS_CardinalityType
<1> QED BY <1>1, RoomFacts

\* What stands is served.
LEMMA StandingIsServed ==
  ASSUME Typed, StandingIsStored, program # "none", plain,
         NEW k \in DOMAIN accepted, Standing(k), IsWord(accepted[k].value)
  PROVE  Served(k) /\ store[k].value = accepted[k].value
<1>1. /\ k \in DOMAIN store /\ store[k].value = accepted[k].value
      /\ store[k].expiry # None => accepted[k].due # None /\ store[k].expiry >= accepted[k].due
  BY DEF StandingIsStored
<1>2. accepted[k].due = None \/ clock < accepted[k].due
  BY DEF Standing
<1>3. store[k] \in Entry /\ accepted[k] \in Given /\ clock \in Nat
  BY <1>1, StoreIs, MapFacts DEF Typed
<1>4. store[k].expiry # None => store[k].expiry \in Int /\ accepted[k].due \in Int
  BY <1>1, <1>3, FrontEndsOK DEF Entry, Given
<1> QED BY <1>1, <1>2, <1>3, <1>4 DEF Served, Expired

\* A request does to the cache what it does to what is accepted.
LEMMA ExecuteKeepsStore ==
  ASSUME Typed, program # "none", StoreFollows, StandingIsStored,
         NEW cmd, CommandOK(cmd), Execute(cmd)
  PROVE  StoreFollows' /\ StandingIsStored'
<1>1. plain' => plain
  BY DEF Execute
<1>2. ASSUME plain', NEW k \in DOMAIN store'
      PROVE  /\ k \in DOMAIN accepted'
             /\ IsWord(accepted'[k].value) => /\ store'[k].value = accepted'[k].value
                                              /\ store'[k].ahead \subseteq accepted'[k].since
  <2>1. CASE k # cmd.key \/ cmd.type \notin Writes
    <3>1. /\ k \in DOMAIN store /\ store'[k].value = store[k].value
          /\ store'[k].ahead \subseteq store[k].ahead \cup UsedBy(cmd, k)
      BY <1>2, <2>1, StoreFacts
    <3>2. /\ k \in DOMAIN accepted
          /\ IsWord(accepted[k].value) => /\ store[k].value = accepted[k].value
                                          /\ store[k].ahead \subseteq accepted[k].since
      BY <1>1, <1>2, <3>1 DEF StoreFollows
    <3>3. SaysOn(accepted, accepted', k, UsedBy(cmd, k))
      BY <2>1, AcceptedFacts
    <3>4. /\ k \in DOMAIN accepted' /\ accepted'[k].value = accepted[k].value
          /\ accepted'[k].since = accepted[k].since \cup UsedBy(cmd, k)
      BY <3>2, <3>3 DEF SaysOn
    <3> QED BY <3>1, <3>2, <3>4
  <2>2. CASE k = cmd.key /\ cmd.type \in Writes
    <3>1. cmd.type = "set"
      BY <1>2, <2>2, StoreFacts DEF Writes
    <3>2. cmd.key \in Storable
      <4>1. store' \in Stores
        <5>1. store' = Applied(store, cmd)
          BY <3>1 DEF Execute
        <5> QED BY <5>1, AppliedFacts DEF Typed
      <4>2. DOMAIN store' \subseteq Storable
        BY <4>1, StoreIs
      <4> QED BY <1>2, <2>2, <4>2
    <3>3. store'[cmd.key].value = cmd.value /\ store'[cmd.key].ahead = {}
      BY <3>1, <3>2, StoreFacts
    <3>4. cmd.key \in DOMAIN accepted' /\ accepted'[cmd.key] = Told(cmd)
      BY <3>1, <3>2, AcceptedFacts
    <3> QED BY <2>2, <3>3, <3>4 DEF Told
  <2> QED BY <2>1, <2>2
<1>3. ASSUME plain', NEW k \in DOMAIN accepted', Standing(k)', IsWord(accepted'[k].value)
      PROVE  /\ k \in DOMAIN store' /\ store'[k].value = accepted'[k].value
             /\ store'[k].expiry # None =>
                  accepted'[k].due # None /\ store'[k].expiry >= accepted'[k].due
  <2>1. /\ Fits(accepted'[k].ttl)
        /\ accepted'[k].due = None \/ clock < accepted'[k].due
        /\ Cardinality(accepted'[k].since) < Capacity[Shard[k]]
    BY <1>3 DEF Standing, Execute
  <2>k. /\ k \in Storable /\ IsFiniteSet(accepted'[k].since)
    <3>1. accepted' \in Maps(Storable, Given)
      BY AcceptedFacts
    <3>2. k \in Storable /\ accepted'[k] \in Given
      BY <1>3, <3>1, MapFacts
    <3> QED BY <3>2 DEF Given
  <2>2. CASE k # cmd.key \/ cmd.type \notin Writes
    <3>s. SaysOn(accepted, accepted', k, UsedBy(cmd, k))
      BY <2>2, AcceptedFacts
    <3>1. /\ k \in DOMAIN accepted /\ accepted'[k].value = accepted[k].value
          /\ accepted'[k].ttl = accepted[k].ttl /\ accepted'[k].due = accepted[k].due
          /\ accepted'[k].since = accepted[k].since \cup UsedBy(cmd, k)
      BY <1>3, <3>s DEF SaysOn
    <3>2. Standing(k)
      <4>1. Cardinality(accepted[k].since) < Capacity[Shard[k]]
        BY <2>1, <2>k, <3>1, FewerStand
      <4> QED BY <2>1, <3>1, <4>1 DEF Standing
    <3>3. /\ k \in DOMAIN store /\ store[k].value = accepted[k].value
          /\ store[k].expiry # None =>
               accepted[k].due # None /\ store[k].expiry >= accepted[k].due
      BY <1>1, <1>3, <3>1, <3>2 DEF StandingIsStored
    <3>4. Served(k)
      BY <1>1, <1>3, <3>1, <3>2, StandingIsServed
    <3>5. store[k].ahead \subseteq accepted[k].since
      BY <1>1, <1>3, <3>1, <3>3 DEF StoreFollows
    <3>6. ASSUME k \notin DOMAIN store' PROVE FALSE
      <4>1. Crowded(k, store[k].ahead \cup UsedBy(cmd, k))
        BY <2>2, <3>4, <3>6, StoreFacts
      <4>2. store[k].ahead \cup UsedBy(cmd, k) \in SUBSET accepted'[k].since
        BY <3>1, <3>5
      <4> QED BY <2>1, <2>k, <4>1, <4>2, FewDoNotCrowd
    <3>7. store'[k].value = store[k].value /\ store'[k].expiry = store[k].expiry
      BY <2>2, <3>6, StoreFacts
    <3> QED BY <3>1, <3>3, <3>6, <3>7
  <2>3. CASE k = cmd.key /\ cmd.type \in Writes
    <3>1. cmd.type = "set" /\ cmd.key \in Storable
      BY <1>3, <2>3, <2>k, AcceptedFacts DEF Writes
    <3>2. cmd.key \in DOMAIN accepted' /\ accepted'[cmd.key] = Told(cmd)
      BY <3>1, AcceptedFacts
    <3>3. /\ cmd.key \in DOMAIN store' /\ store'[cmd.key].value = cmd.value
          /\ store'[cmd.key].expiry = Deadline(cmd.ttl)
      BY <3>1, StoreFacts
    <3>4. /\ Deadline(cmd.ttl) = None <=> cmd.ttl = None
          /\ cmd.ttl # None => cmd.ttl * TicksPerMs \in Nat
          /\ cmd.ttl # None /\ Fits(cmd.ttl) => Deadline(cmd.ttl) = clock + cmd.ttl * TicksPerMs
      BY <3>1, DeadlineFacts DEF CommandOK, Typed
    <3>5. accepted'[k].ttl = cmd.ttl /\ accepted'[k].value = cmd.value
      BY <2>3, <3>2 DEF Told
    <3>6. Deadline(cmd.ttl) = accepted'[k].due
      BY <2>1, <2>3, <3>2, <3>4, <3>5 DEF Told
    <3>7. accepted'[k].due # None => accepted'[k].due \in Int
      BY <2>3, <3>2, <3>4 DEF Told, Typed
    <3> QED BY <2>3, <3>3, <3>5, <3>6, <3>7
  <2> QED BY <2>2, <2>3
<1> QED BY <1>2, <1>3 DEF StoreFollows, StandingIsStored

\* A request keeps the invariant.
LEMMA ExecuteKeepsInv ==
  ASSUME ServerInv, program # "none", NEW cmd, CommandOK(cmd), Execute(cmd),
         asked' \in 0 .. MaxRequests
  PROVE  ServerInv'
BY ExecuteIsTyped, ExecuteKeepsLog, ExecuteKeepsDue, ExecuteKeepsStore DEF ServerInv

-----------------------------------------------------------------------------
(* The life of a process keeps it *)

\* A start finds in the file what was accepted: the last line about a key is
\* the one that was written last, it says the same after all that was between,
\* and a deadline counted anew is no earlier.
LEMMA StartKeepsInv == ASSUME ServerInv, Start PROVE ServerInv'
<1>1. /\ Typed /\ log \in Seq(Text) /\ clock \in 0 .. MaxTime
      /\ program' # "none" /\ program' \in {"http", "cli", "none"}
      /\ tally' \in [hits : Nat, misses : Nat]
      /\ UNCHANGED <<clock, log, asked, accepted, plain>>
  BY DEF ServerInv, Typed, Start
<1>2. store' = Replay(FlattenSeq(LinesOf(log)))
  BY DEF Start, Replay, LinesOf
<1>3. store' \in Stores
  <2>1. FlattenSeq(LinesOf(log)) \in Seq(Text)
    BY <1>1, FileOfLines
  <2> DEFINE lines == FlattenSeq(LinesOf(log))
  <2> HIDE DEF lines
  <2>2. lines \in Seq(Text) /\ Len(lines) \in Nat
    BY <2>1, LenProperties DEF lines
  <2>3. Replay(lines) \in Stores
    BY <1>1, <2>2, ReplayedInOrder
  <2> QED BY <1>2, <2>3 DEF lines
<1>4. Typed'
  BY <1>1, <1>3 DEF Typed
<1>5. LogIsLines' /\ LogSays' /\ DueIsCounted'
  BY <1>1 DEF ServerInv, LogIsLines, LogSays, DueIsCounted
<1>6. ASSUME plain, NEW k \in Storable PROVE Leaves(log, k) /\ store' = Replay(log)
  <2>1. FlattenSeq(LinesOf(log)) = log
    BY <1>1, <1>6, FileOfLines DEF ServerInv, LogIsLines
  <2> QED BY <1>1, <1>2, <2>1, LastLineDecides
<1>7. ASSUME plain, NEW k \in Storable, k \in DOMAIN accepted, IsWord(accepted[k].value)
      PROVE  /\ k \in DOMAIN store' =>
                  /\ store'[k].value = accepted[k].value
                  /\ store'[k].expiry = Deadline(accepted[k].ttl)
                  /\ store'[k].ahead \subseteq accepted[k].since
             /\ k \notin DOMAIN store' => Crowded(k, accepted[k].since)
  <2>1. PICK i \in 1 .. Len(log) :
          /\ IsLastOf(log, k, i)
          /\ Parse(log[i]) = Command("set", k, accepted[k].value, accepted[k].ttl)
          /\ After(log, i, k) \subseteq accepted[k].since
    BY <1>7 DEF ServerInv, LogSays
  <2>2. Leaves(log, k) /\ store' = Replay(log)
    BY <1>6, <1>7
  <2>3. /\ k \in DOMAIN Replay(log) =>
             /\ Replay(log)[k].value = accepted[k].value
             /\ Replay(log)[k].expiry = Deadline(accepted[k].ttl)
             /\ Replay(log)[k].ahead \subseteq After(log, i, k)
        /\ k \notin DOMAIN Replay(log) => Crowded(k, After(log, i, k))
    BY <2>1, <2>2 DEF Leaves, Command
  <2>4. Crowded(k, After(log, i, k)) => Crowded(k, accepted[k].since)
    BY <2>1 DEF Crowded
  <2> QED BY <2>1, <2>2, <2>3, <2>4
<1>8. ASSUME plain, NEW k \in Storable, k \notin DOMAIN accepted PROVE k \notin DOMAIN store'
  <2>1. \A i \in 1 .. Len(log) : IsLastOf(log, k, i) => Parse(log[i]).type = "del"
    BY <1>8 DEF ServerInv, LogSays
  <2> QED BY <1>6, <1>8, <2>1 DEF Leaves
<1>9. DOMAIN store' \subseteq Storable /\ DOMAIN accepted \subseteq Storable
  BY <1>1, <1>3, StoreIs, MapFacts DEF Typed
<1>10. StoreFollows'
  <2>1. ASSUME plain, NEW k \in DOMAIN store'
        PROVE  /\ k \in DOMAIN accepted
               /\ IsWord(accepted[k].value) => /\ store'[k].value = accepted[k].value
                                               /\ store'[k].ahead \subseteq accepted[k].since
    <3>1. k \in Storable /\ k \in DOMAIN accepted
      BY <1>8, <1>9, <2>1
    <3>2. IsWord(accepted[k].value) => /\ store'[k].value = accepted[k].value
                                       /\ store'[k].ahead \subseteq accepted[k].since
      BY <1>7, <2>1, <3>1
    <3> QED BY <3>1, <3>2
  <2> QED BY <1>1, <2>1 DEF StoreFollows
<1>11. ASSUME plain, NEW k \in DOMAIN accepted, Standing(k), IsWord(accepted[k].value)
       PROVE  /\ k \in DOMAIN store' /\ store'[k].value = accepted[k].value
              /\ store'[k].expiry # None =>
                   accepted[k].due # None /\ store'[k].expiry >= accepted[k].due
  <2> DEFINE ttl == accepted[k].ttl
  <2>2. accepted[k] \in Given /\ k \in Storable /\ IsFiniteSet(accepted[k].since)
    <3>1. accepted[k] \in Given /\ k \in Storable
      BY <1>1, MapFacts DEF Typed
    <3> QED BY <3>1 DEF Given
  <2>0. k \in DOMAIN store'
    <3>1. ~Crowded(k, accepted[k].since)
      BY <1>11, <2>2, FewDoNotCrowd DEF Standing
    <3> QED BY <1>7, <1>11, <2>2, <3>1
  <2>1. /\ k \in DOMAIN store' /\ store'[k].value = accepted[k].value
        /\ store'[k].expiry = Deadline(ttl)
    BY <1>7, <1>11, <2>0, <2>2
  <2>3. /\ Deadline(ttl) = None <=> ttl = None
        /\ ttl # None /\ Fits(ttl) => Deadline(ttl) = clock + ttl * TicksPerMs
    BY <1>1, <2>2, DeadlineFacts DEF Given
  <2>4. Fits(ttl)
    BY <1>11 DEF Standing
  <2>5. /\ ttl = None <=> accepted[k].due = None
        /\ ttl # None => accepted[k].due <= clock + ttl * TicksPerMs
    BY DEF ServerInv, DueIsCounted
  <2>6. ttl # None => ttl * TicksPerMs \in Nat
    BY <1>1, <2>2, DeadlineFacts DEF Given
  <2>7. ttl # None => accepted[k].due \in Int
    BY <2>2, <2>5 DEF Given
  <2> HIDE DEF ttl
  <2> QED BY <1>1, <2>1, <2>3, <2>4, <2>5, <2>6, <2>7
<1>12. StandingIsStored'
  <2>1. \A k : Standing(k)' <=> Standing(k)
    BY <1>1 DEF Standing
  <2> QED BY <1>1, <1>11, <2>1 DEF StandingIsStored
<1> QED BY <1>4, <1>5, <1>10, <1>12 DEF ServerInv

\* What is not cached any more was expired.
LEMMA ReapKeepsInv ==
  ASSUME ServerInv, NEW k, Reap(k) PROVE ServerInv'
<1>1. /\ Typed /\ UNCHANGED <<clock, program, tally, log, asked, accepted, plain>>
      /\ store' = Dropped(store, {k}) /\ k \in DOMAIN store /\ Expired(store[k])
  BY DEF ServerInv, Reap
<1>2. /\ store' \in Stores /\ DOMAIN store' = DOMAIN store \ {k}
      /\ \A j \in DOMAIN store \ {k} :
           /\ store'[j].value = store[j].value /\ store'[j].expiry = store[j].expiry
           /\ store'[j].ahead = store[j].ahead \ {k}
  <2>1. IsWithout(store, store', {k})
    BY <1>1, DroppedFacts DEF Typed
  <2> QED BY <2>1 DEF IsWithout
<1>3. store' \in Stores /\ (program = "none" => store' = <<>>)
  <2>1. store' \in Stores
    BY <1>2
  <2>2. program # "none"
    BY <1>1, NothingIsStore DEF Typed
  <2> QED BY <2>1, <2>2
<1>4. Typed'
  BY <1>1, <1>3 DEF Typed
<1>5. LogIsLines' /\ LogSays' /\ DueIsCounted'
  BY <1>1 DEF ServerInv, LogIsLines, LogSays, DueIsCounted
<1>6. StoreFollows'
  BY <1>1, <1>2 DEF ServerInv, StoreFollows
<1>7. StandingIsStored'
  <2>1. \A j : Standing(j)' <=> Standing(j)
    BY <1>1 DEF Standing
  <2>2. ASSUME program # "none", plain, NEW j \in DOMAIN accepted, Standing(j),
               IsWord(accepted[j].value)
        PROVE  /\ j \in DOMAIN store' /\ store'[j].value = store[j].value
               /\ store'[j].expiry = store[j].expiry
    <3>1. Served(j)
      BY <1>1, <2>2, StandingIsServed DEF ServerInv
    <3> QED BY <1>1, <1>2, <3>1 DEF Served
  <2> QED BY <1>1, <2>1, <2>2 DEF ServerInv, StandingIsStored
<1> QED BY <1>4, <1>5, <1>6, <1>7 DEF ServerInv

\* The file outlives the process.
LEMMA DieKeepsInv == ASSUME ServerInv, Die PROVE ServerInv'
<1>1. /\ Typed /\ UNCHANGED <<clock, tally, log, asked, accepted, plain>>
      /\ program' = "none" /\ store' = <<>> /\ store' \in Stores /\ DOMAIN store' = {}
  BY NothingIsStore DEF ServerInv, Die
<1>2. Typed'
  BY <1>1 DEF Typed
<1>3. LogIsLines' /\ LogSays' /\ DueIsCounted'
  BY <1>1 DEF ServerInv, LogIsLines, LogSays, DueIsCounted
<1> QED BY <1>1, <1>2, <1>3 DEF ServerInv, StoreFollows, StandingIsStored

\* Time passes: what stands then stood before.
LEMMA TickKeepsInv == ASSUME ServerInv, Tick PROVE ServerInv'
<1>1. /\ Typed /\ clock < MaxTime /\ clock' = clock + 1 /\ clock \in Nat /\ MaxTime \in Nat
      /\ UNCHANGED <<program, store, tally, log, asked, accepted, plain>>
  BY FrontEndsOK DEF ServerInv, Typed, Tick
<1>2. Typed'
  BY <1>1 DEF Typed
<1>3. LogIsLines' /\ LogSays' /\ StoreFollows'
  BY <1>1 DEF ServerInv, LogIsLines, LogSays, StoreFollows
<1>4. ASSUME NEW k \in DOMAIN accepted
      PROVE  /\ accepted[k].due # None => accepted[k].due \in Int
             /\ accepted[k].ttl # None => accepted[k].ttl * TicksPerMs \in Nat
  <2>1. accepted[k] \in Given
    BY <1>1, MapFacts DEF Typed
  <2> QED BY <1>1, <2>1, DeadlineFacts DEF Given, Typed
<1>5. DueIsCounted'
  <2>1. ASSUME NEW k \in DOMAIN accepted, accepted[k].ttl # None
        PROVE  accepted[k].due <= clock' + accepted[k].ttl * TicksPerMs
    <3>1. /\ accepted[k].due # None
          /\ accepted[k].due <= clock + accepted[k].ttl * TicksPerMs
      BY <2>1 DEF ServerInv, DueIsCounted
    <3> QED BY <1>1, <1>4, <2>1, <3>1
  <2> QED BY <1>1, <2>1 DEF ServerInv, DueIsCounted
<1>6. StandingIsStored'
  <2>1. \A k \in DOMAIN accepted : Standing(k)' => Standing(k)
    BY <1>1, <1>4 DEF Standing
  <2> QED BY <1>1, <2>1 DEF ServerInv, StandingIsStored
<1> QED BY <1>2, <1>3, <1>5, <1>6 DEF ServerInv

\* A step of others keeps it.
LEMMA StutterKeepsInv == ASSUME ServerInv, UNCHANGED server PROVE ServerInv'
BY DEF ServerInv, Typed, LogIsLines, LogSays, DueIsCounted, StoreFollows, StandingIsStored,
       Standing, server

\* It holds of the empty file.
LEMMA InitHasInv == ASSUME Init PROVE ServerInv
<1>1. store \in Stores /\ accepted \in Maps(Storable, Given)
      /\ DOMAIN store = {} /\ DOMAIN accepted = {}
  BY NothingIsMap, NothingIsStore DEF Init
<1>2. log \in Seq(Text) /\ Len(log) = 0 /\ 1 .. 0 = {}
  BY EmptySeq DEF Init
<1>3. Typed
  BY <1>1, <1>2, FrontEndsOK DEF Init, Typed
<1> QED BY <1>1, <1>2, <1>3 DEF Init, ServerInv, LogIsLines, LogSays, DueIsCounted,
                               StoreFollows, StandingIsStored

\* A typed line keeps it.
LEMMA CliKeepsInv == ASSUME ServerInv, NEW line \in CliLines, Cli(line) PROVE ServerInv'
<1>1. line \in Text /\ CommandOK(Parse(line))
  BY FrontEndsOK, ParseIsOK
<1>2. asked' \in 0 .. MaxRequests
  BY FrontEndsOK DEF Cli, ServerInv, Typed
<1>3. CASE Parse(line).type # "quit"
  <2>1. Execute(Parse(line)) /\ program # "none"
    BY <1>3 DEF Cli
  <2> QED BY <1>1, <1>2, <2>1, ExecuteKeepsInv
<1>4. CASE Parse(line).type = "quit"
  <2>1. /\ Typed /\ UNCHANGED <<clock, tally, log, accepted, plain>>
        /\ program' = "none" /\ store' = <<>> /\ store' \in Stores /\ DOMAIN store' = {}
    BY <1>4, NothingIsStore DEF ServerInv, Cli
  <2>2. Typed'
    BY <1>2, <2>1 DEF Typed
  <2>3. LogIsLines' /\ LogSays' /\ DueIsCounted'
    BY <2>1 DEF ServerInv, LogIsLines, LogSays, DueIsCounted
  <2> QED BY <2>1, <2>2, <2>3 DEF ServerInv, StoreFollows, StandingIsStored
<1> QED BY <1>3, <1>4

\* A request of a route keeps it.
LEMMA HttpKeepsInv == ASSUME ServerInv, NEW req \in HttpRequests, Http(req) PROVE ServerInv'
<1>1. CommandOK(Asks(req))
  BY FrontEndsOK, AsksIsOK
<1>2. asked' \in 0 .. MaxRequests
  BY FrontEndsOK DEF Http, ServerInv, Typed
<1> QED BY <1>1, <1>2, ExecuteKeepsInv DEF Http

\* Every step keeps it.
LEMMA NextKeepsInv == ASSUME ServerInv, [Next]_server PROVE ServerInv'
<1>1. ASSUME NEW req \in HttpRequests, Http(req) PROVE ServerInv'
  BY <1>1, HttpKeepsInv
<1>2. ASSUME NEW line \in CliLines, Cli(line) PROVE ServerInv'
  BY <1>2, CliKeepsInv
<1>3. ASSUME NEW k \in DOMAIN store, Reap(k) PROVE ServerInv'
  BY <1>3, ReapKeepsInv
<1> QED BY <1>1, <1>2, <1>3, DieKeepsInv, StartKeepsInv, TickKeepsInv, StutterKeepsInv DEF Next

\* The invariant says what the runs check.
LEMMA InvIsTypeOK == ServerInv => TypeOK
<1> SUFFICES ASSUME Typed PROVE TypeOK
  BY DEF ServerInv
<1>1. \A k \in DOMAIN store :
        store[k] \in Entry /\ store[k].ahead \subseteq {j \in DOMAIN store \ {k} : Shard[j] = Shard[k]}
  BY StoreIs DEF Typed
<1>2. DOMAIN store \subseteq Storable /\ DOMAIN accepted \subseteq Storable
  BY StoreIs, MapFacts DEF Typed
<1>3. \A k \in DOMAIN accepted : accepted[k].since \subseteq Storable
  <2>1. \A k \in DOMAIN accepted : accepted[k] \in Given
    BY MapFacts DEF Typed
  <2> QED BY <2>1 DEF Given
<1> QED BY <1>1, <1>2, <1>3 DEF Typed, TypeOK, Entry

\* What is cached is what was accepted.
LEMMA InvServes == ServerInv => ServesWhatWasAccepted
<1> SUFFICES ASSUME ServerInv, program # "none", plain
             PROVE  /\ \A k \in DOMAIN accepted :
                         Standing(k) /\ IsWord(accepted[k].value) =>
                           Served(k) /\ store[k].value = accepted[k].value
                    /\ \A k \in DOMAIN store :
                         Served(k) => /\ k \in DOMAIN accepted
                                      /\ IsWord(accepted[k].value) =>
                                           store[k].value = accepted[k].value
  BY DEF ServesWhatWasAccepted
<1>1. \A k \in DOMAIN accepted :
        Standing(k) /\ IsWord(accepted[k].value) =>
          Served(k) /\ store[k].value = accepted[k].value
  BY StandingIsServed DEF ServerInv
<1> QED BY <1>1 DEF ServerInv, StoreFollows

\* Every variable has its type: only keys with room are cached, deadlines are
\* time points in spite of the wrapping, what is ahead of an entry is of its
\* shard, and the file holds text, whatever the clients of the routes and the
\* user of the command line say.
THEOREM TypesOfFrontEnds == Spec => []TypeOK
<1>1. Init => ServerInv
  BY InitHasInv
<1>2. ServerInv /\ [Next]_server => ServerInv'
  BY NextKeepsInv
<1> QED BY <1>1, <1>2, InvIsTypeOK, PTL DEF Spec

\* Whoever was told OK finds the value until its time to live is over or as many
\* other keys of its shard as that has room for have been used, after any number
\* of restarts and through whichever program, and nothing else is found, where
\* keys and values are single words (record_set, parse_tcp_command, replay_file,
\* set_impl, touch_lru_locked, evict_if_needed_locked).
THEOREM AcceptedIsServed == Spec => []ServesWhatWasAccepted
<1>1. Init => ServerInv
  BY InitHasInv
<1>2. ServerInv /\ [Next]_server => ServerInv'
  BY NextKeepsInv
<1> QED BY <1>1, <1>2, InvServes, PTL DEF Spec

-----------------------------------------------------------------------------
(* The page *)

Fields == [key : Text, value : Text, ttl : Text, cmd : Text]

\* An answer has a status, and figures where they were asked for; what a
\* request was made of is in the fields until they are edited.
CallSays(c, f) ==
  /\ c.stage = "answered" => c.status # None /\ (c.op = "STATS" => c.figures # None)
  /\ c.op \in {"SET", "GET", "DEL"} /\ ~c.edited => c.req.key = f.key
  /\ c.op = "SET" /\ ~c.edited => f.ttl = IF c.req.ttl = None THEN <<>> ELSE c.req.ttl

\* What RowsNameTheirRequest says of a row.
NamesRequest(row) ==
  LET req == row.request
  IN req # None =>
       CASE row.action = "SET" -> row.details = <<req.key, IF req.ttl = None THEN <<>> ELSE req.ttl>>
         [] row.action \in {"GET", "DEL"} -> row.details = <<req.key>>
         [] row.action = "CMD" -> row.details = <<req.body>>
         [] OTHER -> TRUE

\* The rows of requests, by their naming them.
Rows ==
  {row \in [action : Buttons, ok : BOOLEAN, details : Seq(Text) \cup {None},
            request : Request \cup {None}] : NamesRequest(row)}

PageTyped ==
  /\ form \in Fields /\ calls \in [Slots -> Call \cup {None}]
  /\ history \in Seq(Rows) /\ Len(history) <= HistoryLimit
  /\ badge \in {"checking", "up", "down"} /\ (badge = "up" => shown # None)

CallsSay == \A s \in Slots : ~Idle(s) => CallSays(calls[s], form)

PageInv == ServerInv /\ PageTyped /\ CallsSay

\* A click is counted, and changes nothing of the server.
LEMMA AskKeepsInv ==
  ASSUME ServerInv, asked' \in 0 .. MaxRequests,
         UNCHANGED <<clock, program, store, tally, log, accepted, plain>>
  PROVE  ServerInv'
BY DEF ServerInv, Typed, LogIsLines, LogSays, DueIsCounted, StoreFollows, StandingIsStored,
       Standing, IsLastOf, About

\* The fields fill a request.
LEMMA FilledIsRequest ==
  ASSUME form \in Fields, NEW op \in Buttons \cup {"STATS"}
  PROVE  Filled(op) \in Request
<1>1. Route[op] \in {"/set", "/get", "/del", "/cmd", "/stats", "/health"}
  BY DEF Route, Buttons
<1>2. <<>> \in Text
  BY FreeNothing
<1>3. form.key \in Text /\ form.value \in Text /\ form.ttl \in Text /\ form.cmd \in Text
  BY DEF Fields
<1> QED BY <1>1, <1>2, <1>3 DEF Filled, Request

\* A request about to be sent is made of the fields.
LEMMA SentSays ==
  ASSUME form \in Fields, NEW op \in Buttons \cup {"STATS"}
  PROVE  Sent(op) \in Call /\ CallSays(Sent(op), form)
<1>1. Filled(op) \in Request
  BY FilledIsRequest
<1>2. Sent(op) \in Call
  BY <1>1 DEF Sent, Call
<1>3. /\ op \in {"SET", "GET", "DEL"} => Filled(op).key = form.key
      /\ op = "SET" => Filled(op).ttl = IF form.ttl = <<>> THEN None ELSE form.ttl
  BY DEF Filled
<1>4. None # form.ttl
  BY CommandTextOK DEF Fields
<1> QED BY <1>2, <1>3, <1>4 DEF Sent, CallSays

\* One request more, or one gone on.
LEMMA CallsKept ==
  ASSUME PageTyped, CallsSay, NEW s \in Slots, NEW c,
         calls' = [calls EXCEPT ![s] = c], c = None \/ (c \in Call /\ CallSays(c, form)),
         form' = form
  PROVE  calls' \in [Slots -> Call \cup {None}] /\ CallsSay'
<1>1. calls \in [Slots -> Call \cup {None}]
  BY DEF PageTyped
<1>2. calls' \in [Slots -> Call \cup {None}]
  BY <1>1
<1>3. ASSUME NEW u \in Slots, calls'[u] # None PROVE CallSays(calls'[u], form')
  <2>1. CASE u = s
    <3>1. calls'[u] = c
      BY <1>1, <2>1
    <3>2. c # None
      BY <1>3, <3>1
    <3> QED BY <3>1, <3>2
  <2>2. CASE u # s
    <3>1. calls'[u] = calls[u]
      BY <1>1, <2>2
    <3>2. CallSays(calls[u], form)
      BY <1>3, <3>1 DEF CallsSay, Idle
    <3> QED BY <3>1, <3>2
  <2> QED BY <2>1, <2>2
<1> QED BY <1>2, <1>3 DEF CallsSay, Idle

\* A request more under way keeps the invariant of the page.
LEMMA SentKeepsInv ==
  ASSUME PageInv, ServerInv', NEW s \in Slots, NEW op \in Buttons \cup {"STATS"},
         calls' = [calls EXCEPT ![s] = Sent(op)], UNCHANGED <<form, history, shown, badge>>
  PROVE  PageInv'
<1>1. Sent(op) \in Call /\ CallSays(Sent(op), form)
  BY SentSays DEF PageInv, PageTyped
<1>2. calls' \in [Slots -> Call \cup {None}] /\ CallsSay'
  <2> DEFINE c == Sent(op)
  <2> HIDE DEF c
  <2>1. calls' = [calls EXCEPT ![s] = c] /\ c \in Call /\ CallSays(c, form)
    BY <1>1 DEF c
  <2> QED BY <2>1, CallsKept DEF PageInv
<1> QED BY <1>2 DEF PageInv, PageTyped

\* A request whose fields were edited, and one that was answered.
Edited(c) == [c EXCEPT !.edited = TRUE]
Answered(c, status, figures) ==
  [c EXCEPT !.stage = "answered", !.status = status, !.figures = figures]

LEMMA CallChanges ==
  ASSUME NEW c \in Call, NEW status \in {200, 400, 404, 500, None},
         NEW figures \in [hits : Nat, misses : Nat, keys : Nat] \cup {None}
  PROVE  Edited(c) \in Call /\ Answered(c, status, figures) \in Call
<1> DEFINE A == Buttons \cup {"STATS"}
           B == BOOLEAN
           T == {"sent", "answered", "lost"}
           S == {200, 400, 404, 500, None}
           F == [hits : Nat, misses : Nat, keys : Nat] \cup {None}
           C == [op : A, req : Request, edited : B, stage : T, status : S, figures : F]
<1>1. C = Call
  BY DEF Call
<1>2. TRUE \in B /\ "answered" \in T /\ status \in S /\ figures \in F
  OBVIOUS
<1> HIDE DEF A, B, T, S, F
<1>3. c \in C
  BY <1>1
<1>4. Edited(c) \in C
  BY <1>2, <1>3 DEF Edited
<1>5. Answered(c, status, figures) \in C
  BY <1>2, <1>3 DEF Answered
<1> HIDE DEF C
<1> QED BY <1>1, <1>4, <1>5

\* An edit marks the requests that no longer agree with the fields.
LEMMA EditKeepsInv == ASSUME PageInv, NEW f \in Forms \cup {Blank}, Edit(f) PROVE PageInv'
<1>1. ServerInv'
  BY StutterKeepsInv DEF PageInv, Edit
<1>2. form' \in Fields
  <2>1. Blank \in Fields
    BY FreeNothing DEF Blank, Fields
  <2> QED BY <2>1, DashboardOK DEF Edit, Fields
<1>3. calls \in [Slots -> Call \cup {None}]
  BY DEF PageInv, PageTyped
<1>4. ASSUME NEW s \in Slots
      PROVE  /\ calls'[s] \in Call \cup {None}
             /\ calls'[s] # None => CallSays(calls'[s], form')
  <2>1. CASE calls[s] = None
    <3>1. calls'[s] = None
      BY <2>1 DEF Edit, Idle
    <3> QED BY <3>1
  <2>2. CASE calls[s] # None /\ calls[s].op \in {"SET", "GET", "DEL"}
    <3>1. calls'[s] = [calls[s] EXCEPT !.edited = TRUE]
      BY <2>2 DEF Edit, Idle
    <3>2. calls[s] \in Call /\ CallSays(calls[s], form)
      BY <1>3, <2>2 DEF PageInv, CallsSay, Idle
    <3>3. calls'[s] \in Call
      <4>1. Edited(calls[s]) \in Call
        BY <3>2, CallChanges
      <4> QED BY <3>1, <4>1 DEF Edited
    <3>4. CallSays(calls'[s], form')
      BY <3>1, <3>2 DEF Call, CallSays
    <3> QED BY <3>3, <3>4
  <2>3. CASE calls[s] # None /\ calls[s].op \notin {"SET", "GET", "DEL"}
    <3>1. calls'[s] = calls[s]
      BY <2>3 DEF Edit, Idle
    <3>2. calls[s] \in Call /\ CallSays(calls[s], form)
      BY <1>3, <2>3 DEF PageInv, CallsSay, Idle
    <3>3. CallSays(calls[s], form')
      BY <2>3, <3>2 DEF CallSays
    <3> QED BY <3>1, <3>2, <3>3
  <2> QED BY <2>1, <2>2, <2>3
<1>5. calls' \in [Slots -> Call \cup {None}]
  BY <1>4 DEF Edit
<1>6. CallsSay'
  BY <1>4 DEF CallsSay, Idle
<1> QED BY <1>1, <1>2, <1>5, <1>6 DEF PageInv, PageTyped, Edit

\* Figures are numbers: the cache has finitely many keys.
LEMMA FiguresType ==
  ASSUME Typed PROVE Figures \in [hits : Nat, misses : Nat, keys : Nat]
<1> DEFINE live == {k \in DOMAIN store : Served(k)}
<1>1. IsFiniteSet(live)
  BY StoreIs, FS_Subset DEF Typed
<1>2. Cardinality(live) \in Nat
  BY <1>1, FS_CardinalityType
<1> HIDE DEF live
<1>3. Figures = [hits |-> tally.hits, misses |-> tally.misses, keys |-> Cardinality(live)]
  BY DEF Figures, live
<1> QED BY <1>2, <1>3 DEF Typed

\* An answer has one of four statuses.
LEMMA StatusType == ASSUME NEW req PROVE Status(req) \in {200, 400, 404, 500} /\ Status(req) # None
<1>1. Status(req) \in {200, 400, 404, 500}
  BY DEF Status
<1>2. None \notin {200, 400, 404, 500}
  BY CommandTextOK
<1> QED BY <1>1, <1>2

\* The server takes a request and answers it.
LEMMA ServeKeepsInv == ASSUME PageInv, NEW s \in Slots, Serve(s) PROVE PageInv'
<1> DEFINE c == calls[s]
           figures == IF c.op = "STATS" THEN Figures ELSE None
           answered == Answered(c, Status(c.req), figures)
<1>1. c \in Call /\ CallSays(c, form)
  BY DEF Serve, PageInv, PageTyped, CallsSay, Idle
<1>2. CommandOK(Asks(c.req))
  BY <1>1, AsksIsOK DEF Call
<1>3. ServerInv'
  <2>1. asked' \in 0 .. MaxRequests
    BY DEF Serve, PageInv, ServerInv, Typed
  <2>2. ServerInv /\ program # "none" /\ Execute(Asks(c.req))
    BY DEF Serve, PageInv
  <2> QED BY <1>2, <2>1, <2>2, ExecuteKeepsInv
<1>4. Figures \in [hits : Nat, misses : Nat, keys : Nat] /\ Figures # None
  BY FiguresType, NoneIsNoFigures DEF PageInv, ServerInv
<1>5. Status(c.req) \in {200, 400, 404, 500} /\ Status(c.req) # None
  BY StatusType
<1>6. answered \in Call /\ CallSays(answered, form)
  <2>1. figures \in [hits : Nat, misses : Nat, keys : Nat] \cup {None}
    BY <1>4
  <2>2. c.op = "STATS" => figures # None
    BY <1>4
  <2> HIDE DEF figures
  <2>3. answered \in Call
    <3>1. Status(c.req) \in {200, 400, 404, 500, None}
      BY <1>5
    <3> QED BY <1>1, <2>1, <3>1, CallChanges
  <2>4. /\ answered.status = Status(c.req) /\ answered.figures = figures
        /\ answered.op = c.op /\ answered.edited = c.edited /\ answered.req = c.req
        /\ answered.stage = "answered"
    BY <1>1 DEF Call, Answered
  <2> HIDE DEF answered
  <2> QED BY <1>1, <1>5, <2>2, <2>3, <2>4 DEF CallSays
<1>7. calls' = [calls EXCEPT ![s] = answered] /\ UNCHANGED <<form, history, shown, badge>>
  BY DEF Serve, Answered
<1> HIDE DEF answered
<1>8. calls' \in [Slots -> Call \cup {None}] /\ CallsSay'
  BY <1>6, <1>7, CallsKept DEF PageInv
<1> QED BY <1>3, <1>7, <1>8 DEF PageInv, PageTyped

\* A request, or its answer, is lost.
LEMMA LoseKeepsInv == ASSUME PageInv, NEW s \in Slots, Lose(s) PROVE PageInv'
<1> DEFINE lost == [calls[s] EXCEPT !.stage = "lost"]
<1>1. calls[s] \in Call /\ CallSays(calls[s], form)
  BY DEF Lose, PageInv, PageTyped, CallsSay, Idle
<1>2. lost \in Call /\ CallSays(lost, form)
  BY <1>1 DEF Call, CallSays
<1>3. calls' = [calls EXCEPT ![s] = lost] /\ UNCHANGED <<form, history, shown, badge>>
  BY DEF Lose
<1>4. ServerInv'
  BY StutterKeepsInv DEF PageInv, Lose
<1> HIDE DEF lost
<1>5. calls' \in [Slots -> Call \cup {None}] /\ CallsSay'
  BY <1>2, <1>3, CallsKept DEF PageInv
<1> QED BY <1>3, <1>4, <1>5 DEF PageInv, PageTyped

\* The row of a request names it, or says that something was edited since.
LEMMA RowIsRow ==
  ASSUME form \in Fields, NEW c \in Call, CallSays(c, form), c.op \in Buttons
  PROVE  Row(c) \in Rows
<1>1. c.req \in Request /\ c.req.body \in Text
  BY DEF Call, Request
<1>2. form.key \in Text /\ form.ttl \in Text
  BY DEF Fields
<1>3. Details(c.op, c.req) \in Seq(Text)
  BY <1>1, <1>2, EmptySeq DEF Details
<1>4. Row(c) \in [action : Buttons, ok : BOOLEAN, details : Seq(Text) \cup {None},
                  request : Request \cup {None}]
  BY <1>1, <1>3 DEF Row
<1>5. NamesRequest(Row(c))
  <2>1. CASE c.stage = "lost" \/ c.edited
    BY <2>1 DEF Row, NamesRequest
  <2>2. CASE ~(c.stage = "lost" \/ c.edited)
    <3>1. /\ Row(c).action = c.op /\ Row(c).request = c.req
          /\ Row(c).details = Details(c.op, c.req)
      BY <2>2 DEF Row
    <3> QED BY <2>2, <3>1 DEF NamesRequest, Details, CallSays
  <2> QED BY <2>1, <2>2
<1> QED BY <1>4, <1>5 DEF Rows

\* A row comes first, and the last give way.
LEMMA RowsAreCut ==
  ASSUME NEW R, NEW h \in Seq(R), NEW row \in R, NEW limit \in Nat
  PROVE  LET rows == <<row>> \o h
             cut == SubSeq(rows, 1, IF Len(rows) > limit THEN limit ELSE Len(rows))
         IN  cut \in Seq(R) /\ Len(cut) <= limit
<1> DEFINE rows == <<row>> \o h
           n == IF Len(rows) > limit THEN limit ELSE Len(rows)
<1>1. <<row>> \in Seq(R)
  OBVIOUS
<1>2. rows \in Seq(R)
  BY <1>1, ConcatProperties
<1> HIDE DEF rows
<1>3. Len(rows) \in Nat /\ \A i \in 1 .. Len(rows) : rows[i] \in R
  BY <1>2, LenProperties
<1>4. n \in Nat /\ n <= limit /\ n <= Len(rows)
  BY <1>3
<1> HIDE DEF n
<1>5. \A i \in 1 .. n : rows[i] \in R
  BY <1>3, <1>4
<1>6. SubSeq(rows, 1, n) \in Seq(R) /\ Len(SubSeq(rows, 1, n)) = IF 1 <= n THEN n - 1 + 1 ELSE 0
  BY <1>4, <1>5, SubSeqProperties
<1> QED BY <1>4, <1>6 DEF rows, n

\* An answer to a button makes a row.
LEMMA SettleButtonKeepsInv == ASSUME PageInv, NEW s \in Slots, SettleButton(s) PROVE PageInv'
<1> DEFINE c == calls[s]
           next == IF c.stage = "lost" \/ c.op = "PING" THEN None ELSE Sent("STATS")
<1>1. c \in Call /\ CallSays(c, form) /\ c.op \in Buttons /\ form \in Fields
  BY DEF SettleButton, PageInv, PageTyped, CallsSay, Idle
<1>2. next = None \/ (next \in Call /\ CallSays(next, form))
  BY <1>1, SentSays
<1>3. calls' = [calls EXCEPT ![s] = next] /\ UNCHANGED <<server, form, shown, badge>>
  BY DEF SettleButton
<1>4. history' \in Seq(Rows) /\ Len(history') <= HistoryLimit
  <2>1. Row(c) \in Rows
    BY <1>1, RowIsRow
  <2>2. history \in Seq(Rows) /\ HistoryLimit \in Nat
    BY DashboardOK DEF PageInv, PageTyped
  <2> DEFINE row == Row(c)
             rows == <<row>> \o history
  <2>3. history' = SubSeq(rows, 1, IF Len(rows) > HistoryLimit THEN HistoryLimit ELSE Len(rows))
    BY DEF SettleButton
  <2> HIDE DEF row
  <2> QED BY <2>1, <2>2, <2>3, RowsAreCut DEF row
<1>5. ServerInv'
  BY <1>3, StutterKeepsInv DEF PageInv
<1> HIDE DEF next
<1>6. calls' \in [Slots -> Call \cup {None}] /\ CallsSay'
  BY <1>2, <1>3, CallsKept DEF PageInv
<1> QED BY <1>3, <1>4, <1>5, <1>6 DEF PageInv, PageTyped

\* An answer with figures shows them.
LEMMA SettleStatsKeepsInv == ASSUME PageInv, NEW s \in Slots, SettleStats(s) PROVE PageInv'
<1> DEFINE c == calls[s]
<1>1. c \in Call /\ CallSays(c, form) /\ c.op = "STATS" /\ c.stage # "sent"
  BY DEF SettleStats, PageInv, PageTyped, CallsSay, Idle
<1>2. calls' = [calls EXCEPT ![s] = None] /\ UNCHANGED <<server, form, history>>
  BY DEF SettleStats
<1>3. badge' \in {"checking", "up", "down"} /\ (badge' = "up" => shown' # None)
  <2>1. CASE c.stage = "lost"
    BY <2>1 DEF SettleStats
  <2>2. CASE c.stage # "lost"
    <3>1. c.stage = "answered"
      BY <1>1, <2>2 DEF Call
    <3>2. badge' = "up" /\ shown' = c.figures
      BY <2>2 DEF SettleStats
    <3> QED BY <1>1, <3>1, <3>2 DEF CallSays
  <2> QED BY <2>1, <2>2
<1>4. ServerInv'
  BY <1>2, StutterKeepsInv DEF PageInv
<1>5. calls' \in [Slots -> Call \cup {None}] /\ CallsSay'
  <2> DEFINE none == None
  <2> HIDE DEF none
  <2>1. calls' = [calls EXCEPT ![s] = none] /\ none = None
    BY <1>2 DEF none
  <2> QED BY <1>2, <2>1, CallsKept DEF PageInv
<1> QED BY <1>2, <1>3, <1>4, <1>5 DEF PageInv, PageTyped

\* A step of the server alone keeps the page.
LEMMA ServerKeepsPage == ASSUME PageInv, ServerInv', UNCHANGED page PROVE PageInv'
BY DEF PageInv, PageTyped, CallsSay, CallSays, Idle, page

\* It holds of the page before it is loaded.
LEMMA PageInitHasInv == ASSUME PageInit PROVE PageInv
<1>1. ServerInv
  BY InitHasInv DEF PageInit
<1>2. form \in Fields
  BY FreeNothing DEF PageInit, Blank, Fields
<1>3. history \in Seq(Rows) /\ Len(history) <= HistoryLimit
  BY EmptySeq, DashboardOK DEF PageInit
<1> QED BY <1>1, <1>2, <1>3 DEF PageInit, PageInv, PageTyped, CallsSay, Idle

\* Every step keeps it.
LEMMA PageNextKeepsInv == ASSUME PageInv, [PageNext]_vars PROVE PageInv'
<1>0. ServerInv
  BY DEF PageInv
<1>1. CASE Server
  <2>1. ServerInv'
    BY <1>0, <1>1, StartKeepsInv, DieKeepsInv, TickKeepsInv, ReapKeepsInv DEF Server
  <2> QED BY <1>1, <2>1, ServerKeepsPage DEF Server
<1>2. CASE ClearHistory
  <2>1. ServerInv'
    BY <1>0, <1>2, StutterKeepsInv DEF ClearHistory
  <2>2. history' \in Seq(Rows) /\ Len(history') <= HistoryLimit
    BY <1>2, EmptySeq, DashboardOK DEF ClearHistory
  <2> QED BY <1>2, <2>1, <2>2 DEF ClearHistory, PageInv, PageTyped, CallsSay, CallSays, Idle
<1>3. ASSUME NEW f \in Forms \cup {Blank}, Edit(f) PROVE PageInv'
  BY <1>3, EditKeepsInv
<1>4. ASSUME NEW s \in Slots, Open(s) \/ Refresh(s) PROVE PageInv'
  <2>1. ServerInv'
    BY <1>0, <1>4, StutterKeepsInv DEF Open, Refresh
  <2>2. calls' = [calls EXCEPT ![s] = Sent("STATS")] /\ UNCHANGED <<form, history, shown, badge>>
    BY <1>4 DEF Open, Refresh
  <2> QED BY <2>1, <2>2, SentKeepsInv
<1>5. ASSUME NEW s \in Slots, NEW op \in Buttons, Click(s, op) PROVE PageInv'
  <2>1. asked' \in 0 .. MaxRequests
    BY <1>0, <1>5, FrontEndsOK DEF Click, ServerInv, Typed
  <2>2. ServerInv'
    BY <1>0, <1>5, <2>1, AskKeepsInv DEF Click
  <2>3. calls' = [calls EXCEPT ![s] = Sent(op)] /\ UNCHANGED <<form, history, shown, badge>>
    BY <1>5 DEF Click
  <2> QED BY <2>2, <2>3, SentKeepsInv
<1>6. ASSUME NEW s \in Slots, Serve(s) PROVE PageInv'
  BY <1>6, ServeKeepsInv
<1>7. ASSUME NEW s \in Slots, Lose(s) PROVE PageInv'
  BY <1>7, LoseKeepsInv
<1>8. ASSUME NEW s \in Slots, SettleButton(s) PROVE PageInv'
  BY <1>8, SettleButtonKeepsInv
<1>9. ASSUME NEW s \in Slots, SettleStats(s) PROVE PageInv'
  BY <1>9, SettleStatsKeepsInv
<1>10. CASE UNCHANGED vars
  BY <1>0, <1>10, StutterKeepsInv, ServerKeepsPage DEF vars
<1> QED BY <1>1, <1>2, <1>3, <1>4, <1>5, <1>6, <1>7, <1>8, <1>9, <1>10 DEF PageNext

\* The invariant of the page says what the runs check.
LEMMA InvIsPageTypeOK == PageInv => PageTypeOK
BY InvIsTypeOK DEF PageInv, PageTyped, PageTypeOK, Fields, CallsSay, CallSays, Idle

\* Each row is one that names its request.
LEMMA InvNames == PageInv => RowsNameTheirRequest
<1> SUFFICES ASSUME PageInv, NEW i \in DOMAIN history PROVE NamesRequest(history[i])
  BY DEF RowsNameTheirRequest, NamesRequest
<1>1. history \in Seq(Rows)
  BY DEF PageInv, PageTyped
<1>2. history[i] \in Rows
  BY <1>1, LenProperties
<1> QED BY <1>2 DEF Rows

\* Every variable of the page has its type, whatever overlaps: the table of
\* last operations is cut to its limit, an answer has a status, and figures are
\* shown once the badge has been up.
THEOREM TypesOfPage == PageSpec => []PageTypeOK
<1>1. PageInit => PageInv
  BY PageInitHasInv
<1>2. PageInv /\ [PageNext]_vars => PageInv'
  BY PageNextKeepsInv
<1> QED BY <1>1, <1>2, InvIsPageTypeOK, PTL DEF PageSpec

\* A row of the table names the request it is about, unless the fields were
\* edited while the answer was under way; the row of a command always does
\* (setValue, getValue, delValue, runCmd).
THEOREM RowsNameRequests == PageSpec => []RowsNameTheirRequest
<1>1. PageInit => PageInv
  BY PageInitHasInv
<1>2. PageInv /\ [PageNext]_vars => PageInv'
  BY PageNextKeepsInv
<1> QED BY <1>1, <1>2, InvNames, PTL DEF PageSpec

\* Through the page as well, whoever was told OK finds the value until its time
\* to live is over.
THEOREM PageServesAccepted == PageSpec => []ServesWhatWasAccepted
<1>1. PageInit => PageInv
  BY PageInitHasInv
<1>2. PageInv /\ [PageNext]_vars => PageInv'
  BY PageNextKeepsInv
<1>3. PageInv => ServesWhatWasAccepted
  BY InvServes DEF PageInv
<1> QED BY <1>1, <1>2, <1>3, PTL DEF PageSpec
=============================================================================
