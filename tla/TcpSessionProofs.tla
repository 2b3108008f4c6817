--------------------------- MODULE TcpSessionProofs ---------------------------
(***************************************************************************)
(* Proofs about TcpSession, for any number of connections, any input and   *)
(* any sizes of the chunks and of the sockets.                             *)
(*                                                                         *)
(* The handler works on lines it finds in a buffer; the reference          *)
(* (Reading) is a reader of single bytes that has no buffer.  What ties    *)
(* the two is Framed: the buffer is the part of the input that came in     *)
(* after the last line taken, and the reader, stopped at the start of that *)
(* part, is at the start of a line and has the same commands.  A chunk     *)
(* makes the part longer (MoreIsFramed); taking a line moves the reader    *)
(* over it (LineIsFramed), which by LineRead has then kept what            *)
(* sanitize_line keeps of the bytes between.                               *)
(*                                                                         *)
(* The order of the answers is about sequences alone: what a client has    *)
(* read, what is on its way and what is still to be sent make the answers  *)
(* to the lines executed, whatever part of it a send takes (SendKeeps).    *)
(***************************************************************************)
EXTENDS TcpSession, InductionLemmas, SequenceTheorems

-----------------------------------------------------------------------------
(* What the recursive definitions compute *)

\* sanitize_line goes over the line once.
LEMMA KeptFacts ==
  ASSUME NEW line \in Seq(Byte)
  PROVE  \E f \in [0 .. Len(line) -> Seq(Words)] :
           /\ f[0] = <<>>
           /\ \A n \in 1 .. Len(line) :
                f[n] = IF line[n] \in Words THEN Append(f[n - 1], line[n]) ELSE f[n - 1]
           /\ Kept(line) = f[Len(line)]
<1> DEFINE m == Len(line)
           one(r, n) == IF line[n] \in Words THEN Append(r, line[n]) ELSE r
           next == [n \in Nat |-> [r \in Seq(Words) |-> one(r, n)]]
           Right(g) == g = [n \in 0 .. m |-> IF n = 0 THEN <<>>
                              ELSE IF line[n] \in Words THEN Append(g[n - 1], line[n])
                              ELSE g[n - 1]]
           G == CHOOSE g : Right(g)
<1>0. m \in Nat /\ <<>> \in Seq(Words)
  BY LenProperties, EmptySeq
<1>1. next \in [Nat -> [Seq(Words) -> Seq(Words)]]
  <2>1. ASSUME NEW n \in Nat, NEW r \in Seq(Words) PROVE one(r, n) \in Seq(Words)
    BY AppendProperties
  <2> HIDE DEF one
  <2> QED BY <2>1
<1> HIDE DEF m
<1>2. PICK f \in [0 .. m -> Seq(Words)] : Follows(f, <<>>, next, m)
  <2> HIDE DEF next
  <2> QED BY <1>0, <1>1, RecursionExists
<1>3. ASSUME NEW n \in 1 .. m PROVE f[n] = one(f[n - 1], n)
  <2>1. n \in Nat /\ n - 1 \in 0 .. m
    BY <1>0
  <2>2. f[n - 1] \in Seq(Words)
    BY <2>1
  <2>3. f[n] = next[n][f[n - 1]]
    BY <1>2 DEF Follows
  <2> HIDE DEF one
  <2> QED BY <2>1, <2>2, <2>3
<1>4. f[0] = <<>>
  BY <1>2 DEF Follows
<1> HIDE DEF next
<1>5. Right(f)
  <2>1. ASSUME NEW n \in 0 .. m PROVE f[n] = IF n = 0 THEN <<>> ELSE one(f[n - 1], n)
    <3>1. n # 0 => n \in 1 .. m
      BY <1>0
    <3> HIDE DEF one
    <3> QED BY <3>1, <1>3, <1>4
  <2> QED BY <2>1
<1>6. Right(G)
  <2> HIDE DEF Right
  <2> QED BY <1>5
<1>7. Kept(line) = G[m]
  BY DEF Kept, m
<1>8. \A n \in 0 .. m : G[n] = IF n = 0 THEN <<>> ELSE one(G[n - 1], n)
  <2> HIDE DEF G
  <2> QED BY <1>6
<1> HIDE DEF G, Right, one
<1>9. \A n \in 0 .. m : G[n] = f[n]
  <2> DEFINE T == {n \in Nat : G[n] = f[n]}
  <2>1. 0 \in T
    BY <1>0, <1>4, <1>8
  <2>2. ASSUME NEW n \in 1 .. m, n - 1 \in T PROVE n \in T
    <3>1. n \in Nat /\ n # 0 /\ n \in 0 .. m
      BY <1>0
    <3> QED BY <3>1, <2>2, <1>3, <1>8
  <2>3. 0 .. m \subseteq T
    <3> HIDE DEF T
    <3> QED BY <2>1, <2>2, <1>0, CountingTo
  <2> QED BY <2>3
<1>10. Kept(line) = f[m] 
  BY <1>0, <1>7, <1>9
<1> QED BY <1>3, <1>4, <1>10 DEF m, one

\* What it makes of a line with one byte more.
LEMMA KeptAppend ==
  ASSUME NEW line \in Seq(Byte), NEW b \in Byte
  PROVE  /\ Kept(line) \in Seq(Words)
         /\ Kept(Append(line, b)) = IF b \in Words THEN Append(Kept(line), b) ELSE Kept(line)
<1> DEFINE m == Len(line)
           a == Append(line, b)
<1>0. m \in Nat
  BY LenProperties
<1>1. /\ a \in Seq(Byte) /\ Len(a) = m + 1 /\ a[m + 1] = b
      /\ \A i \in 1 .. m : a[i] = line[i]
  BY AppendProperties
<1>2. PICK f \in [0 .. m -> Seq(Words)] :
        /\ f[0] = <<>>
        /\ \A n \in 1 .. m :
             f[n] = IF line[n] \in Words THEN Append(f[n - 1], line[n]) ELSE f[n - 1]
        /\ Kept(line) = f[m]
  BY KeptFacts
<1> HIDE DEF a
<1>3. PICK g \in [0 .. m + 1 -> Seq(Words)] :
        /\ g[0] = <<>>
        /\ \A n \in 1 .. m + 1 :
             g[n] = IF a[n] \in Words THEN Append(g[n - 1], a[n]) ELSE g[n - 1]
        /\ Kept(a) = g[m + 1]
  <2>1. \E g \in [0 .. Len(a) -> Seq(Words)] :
          /\ g[0] = <<>>
          /\ \A n \in 1 .. Len(a) :
               g[n] = IF a[n] \in Words THEN Append(g[n - 1], a[n]) ELSE g[n - 1]
          /\ Kept(a) = g[Len(a)]
    BY <1>1, KeptFacts
  <2> QED BY <1>1, <2>1
<1> HIDE DEF m
<1>4. g[m] = f[m]
  <2> DEFINE T == {n \in Nat : f[n] = g[n]}
  <2>1. 0 \in T
    BY <1>2, <1>3
  <2>2. ASSUME NEW n \in 1 .. m, n - 1 \in T PROVE n \in T
    <3>1. n \in 1 .. m + 1 /\ n \in Nat /\ f[n - 1] = g[n - 1] /\ a[n] = line[n]
      BY <2>2, <1>0, <1>1
    <3>2. f[n] = IF line[n] \in Words THEN Append(f[n - 1], line[n]) ELSE f[n - 1]
      BY <1>2
    <3>3. g[n] = IF a[n] \in Words THEN Append(g[n - 1], a[n]) ELSE g[n - 1]
      BY <3>1, <1>3
    <3>5. CASE line[n] \in Words
      <4>1. f[n] = Append(f[n - 1], line[n])
        BY <3>2, <3>5
      <4>2. g[n] = Append(g[n - 1], a[n])
        BY <3>1, <3>3, <3>5
      <4> QED BY <3>1, <4>1, <4>2
    <3>6. CASE line[n] \notin Words
      BY <3>1, <3>2, <3>3, <3>6
    <3>4. f[n] = g[n]
      BY <3>5, <3>6
    <3> QED BY <3>1, <3>4
  <2>3. 0 .. m \subseteq T
    <3> HIDE DEF T
    <3> QED BY <2>1, <2>2, <1>0, CountingTo
  <2> QED BY <2>3, <1>0
<1>5. Kept(a) = IF b \in Words THEN Append(f[m], b) ELSE f[m]
  <2>1. m + 1 \in 1 .. m + 1 /\ (m + 1) - 1 = m
    BY <1>0
  <2> QED BY <2>1, <1>1, <1>3, <1>4
<1> QED BY <1>0, <1>2, <1>5 DEF a

\* Of an empty line nothing is kept.
LEMMA KeptEmpty == Kept(<<>>) = <<>>
<1>1. <<>> \in Seq(Byte) /\ Len(<<>>) = 0
  BY EmptySeq
<1> QED BY <1>1, KeptFacts

-----------------------------------------------------------------------------
(* The reference reader *)

Reader == [line : Seq(Words), lines : Seq(Seq(Words)), over : BOOLEAN]

LEMMA ReadType ==
  /\ Fresh \in Reader
  /\ \A r \in Reader, b \in Byte : Read(r, b) \in Reader
<1>1. Fresh \in Reader
  BY EmptySeq DEF Fresh, Reader
<1>2. ASSUME NEW r \in Reader, NEW b \in Byte PROVE Read(r, b) \in Reader
  <2>1. r.over \in BOOLEAN /\ r.line \in Seq(Words) /\ r.lines \in Seq(Seq(Words))
    BY DEF Reader
  <2>2. CASE r.over \/ b \in Noise
    BY <2>2 DEF Read
  <2>3. CASE ~(r.over \/ b \in Noise) /\ b # NL
    <3>1. b \in Words
      BY <2>3 DEF Byte
    <3>2. Append(r.line, b) \in Seq(Words)
      BY <2>1, <3>1, AppendProperties
    <3>3. Read(r, b) = [r EXCEPT !.line = Append(r.line, b)]
      BY <2>3 DEF Read
    <3> QED BY <3>2, <3>3 DEF Reader
  <2>4. CASE ~(r.over \/ b \in Noise) /\ b = NL /\ r.line = <<>>
    BY <2>4 DEF Read
  <2>5. CASE ~(r.over \/ b \in Noise) /\ b = NL /\ r.line # <<>>
    <3>1. Append(r.lines, r.line) \in Seq(Seq(Words)) /\ <<>> \in Seq(Words)
      BY <2>1, AppendProperties, EmptySeq
    <3>2. Read(r, b) = [line |-> <<>>, lines |-> Append(r.lines, r.line), over |-> r.line \in Quits]
      BY <2>5 DEF Read
    <3> QED BY <3>1, <3>2 DEF Reader
  <2> QED BY <2>2, <2>3, <2>4, <2>5
<1> QED BY <1>1, <1>2

\* It reads every byte once.
LEMMA ReadingFacts ==
  ASSUME NEW bytes \in Seq(Byte)
  PROVE  /\ Reading(bytes) \in [0 .. Len(bytes) -> Reader]
         /\ Reading(bytes)[0] = Fresh
         /\ \A n \in 1 .. Len(bytes) : Reading(bytes)[n] = Read(Reading(bytes)[n - 1], bytes[n])
<1> DEFINE m == Len(bytes)
           next == [n \in Nat |-> [r \in Reader |-> IF n \in 1 .. m THEN Read(r, bytes[n]) ELSE r]]
           Right(g) == g = [n \in 0 .. m |-> IF n = 0 THEN Fresh ELSE Read(g[n - 1], bytes[n])]
           G == CHOOSE g : Right(g)
<1>0. m \in Nat /\ \A n \in 1 .. m : bytes[n] \in Byte
  BY LenProperties
<1>1. next \in [Nat -> [Reader -> Reader]]
  <2>1. ASSUME NEW n \in Nat, NEW r \in Reader
        PROVE  (IF n \in 1 .. m THEN Read(r, bytes[n]) ELSE r) \in Reader
    BY <1>0, ReadType
  <2> HIDE DEF m
  <2> QED BY <2>1
<1> HIDE DEF m
<1>2. PICK f \in [0 .. m -> Reader] : Follows(f, Fresh, next, m)
  <2> HIDE DEF next
  <2> QED BY <1>0, <1>1, ReadType, RecursionExists
<1>3. ASSUME NEW n \in 1 .. m PROVE f[n] = Read(f[n - 1], bytes[n])
  <2>1. n \in Nat /\ n - 1 \in 0 .. m
    BY <1>0
  <2>2. f[n - 1] \in Reader
    BY <2>1
  <2>3. f[n] = next[n][f[n - 1]]
    BY <1>2 DEF Follows
  <2> QED BY <2>1, <2>2, <2>3
<1>4. f[0] = Fresh
  BY <1>2 DEF Follows
<1> HIDE DEF next
<1>5. Right(f)
  <2>1. ASSUME NEW n \in 0 .. m PROVE f[n] = IF n = 0 THEN Fresh ELSE Read(f[n - 1], bytes[n])
    <3>1. n # 0 => n \in 1 .. m
      BY <1>0
    <3> QED BY <3>1, <1>3, <1>4
  <2> QED BY <2>1
<1>6. Right(G)
  <2> HIDE DEF Right
  <2> QED BY <1>5
<1>7. Reading(bytes) = G
  BY DEF Reading, m
<1>8. \A n \in 0 .. m : G[n] = IF n = 0 THEN Fresh ELSE Read(G[n - 1], bytes[n])
  <2> HIDE DEF G
  <2> QED BY <1>6
<1>d. G = [n \in 0 .. m |-> G[n]]
  <2> HIDE DEF G
  <2> QED BY <1>6
<1> HIDE DEF G, Right
<1>9. \A n \in 0 .. m : G[n] \in Reader
  <2> DEFINE T == {n \in Nat : G[n] \in Reader}
  <2>1. 0 \in T
    BY <1>0, <1>8, ReadType
  <2>2. ASSUME NEW n \in 1 .. m, n - 1 \in T PROVE n \in T
    <3>1. n \in Nat /\ n # 0 /\ n \in 0 .. m /\ bytes[n] \in Byte
      BY <1>0
    <3> QED BY <3>1, <2>2, <1>8, ReadType
  <2>3. 0 .. m \subseteq T
    <3> HIDE DEF T
    <3> QED BY <2>1, <2>2, <1>0, CountingTo
  <2> QED BY <2>3
<1>10. G \in [0 .. m -> Reader]
  BY <1>d, <1>9
<1>11. \A n \in 1 .. m : n # 0 /\ n \in 0 .. m
  BY <1>0
<1>12. G[0] = Fresh /\ \A n \in 1 .. m : G[n] = Read(G[n - 1], bytes[n])
  BY <1>0, <1>8, <1>11
<1> QED BY <1>7, <1>10, <1>12 DEF m

\* Reading a first part is the first part of reading.
LEMMA ReadingOfPart ==
  ASSUME NEW bytes \in Seq(Byte), NEW m \in 0 .. Len(bytes)
  PROVE  Commands(SubSeq(bytes, 1, m)) = Reading(bytes)[m].lines
<1> DEFINE part == SubSeq(bytes, 1, m)
           R == Reading(bytes)
           P == Reading(part)
<1>0. m \in Nat /\ Len(bytes) \in Nat /\ m <= Len(bytes)
  BY LenProperties
<1>1. part \in Seq(Byte) /\ Len(part) = m /\ \A i \in 1 .. m : part[i] = bytes[i]
  <2>1. /\ part \in Seq(Byte)
        /\ Len(part) = IF 1 <= m THEN m - 1 + 1 ELSE 0
        /\ \A i \in 1 .. m - 1 + 1 : part[i] = bytes[1 + i - 1]
    BY <1>0, SubSeqProperties
  <2>2. m - 1 + 1 = m /\ (~(1 <= m) => m = 0) /\ \A i \in 1 .. m : 1 + i - 1 = i
    BY <1>0
  <2> QED BY <2>1, <2>2
<1> HIDE DEF part
<1>2. R[0] = Fresh /\ \A n \in 1 .. Len(bytes) : R[n] = Read(R[n - 1], bytes[n])
  BY ReadingFacts
<1>3. P[0] = Fresh /\ \A n \in 1 .. m : P[n] = Read(P[n - 1], part[n])
  BY <1>1, ReadingFacts
<1> HIDE DEF R, P
<1>4. P[m] = R[m]
  <2> DEFINE T == {n \in Nat : P[n] = R[n]}
  <2>1. 0 \in T
    BY <1>2, <1>3
  <2>2. ASSUME NEW n \in 1 .. m, n - 1 \in T PROVE n \in T
    <3>1. n \in Nat /\ n \in 1 .. Len(bytes)
      BY <1>0
    <3> QED BY <3>1, <2>2, <1>1, <1>2, <1>3
  <2>3. 0 .. m \subseteq T
    <3> HIDE DEF T
    <3> QED BY <2>1, <2>2, <1>0, CountingTo
  <2> QED BY <2>3, <1>0
<1> QED BY <1>1, <1>4 DEF Commands, P, R, part

\* A sequence is a first part of what appending makes of it.
LEMMA PrefixFacts ==
  ASSUME NEW S
  PROVE  /\ \A s \in Seq(S) : IsPrefix(s, s)
         /\ \A s, u, v \in Seq(S) : IsPrefix(s, u) /\ IsPrefix(u, v) => IsPrefix(s, v)
         /\ \A s, u \in Seq(S) : IsPrefix(s, s \o u)
         /\ \A s, u, v \in Seq(S) : IsPrefix(s \o u, v) => IsPrefix(s, v)
<1>0. \A s \in Seq(S) : Len(s) \in Nat
  BY LenProperties
<1> DEFINE Pre(s, t) == Len(s) <= Len(t) /\ \A i \in 1 .. Len(s) : s[i] = t[i]
<1>1. ASSUME NEW s \in Seq(S), NEW t \in Seq(S) PROVE IsPrefix(s, t) <=> Pre(s, t)
  <2> DEFINE a == SubSeq(s, 1, Len(s))
             b == SubSeq(t, 1, Len(s))
  <2>1. a = s
    BY SubSeqFull
  <2> SUFFICES ASSUME Len(s) <= Len(t) PROVE a = b <=> \A i \in 1 .. Len(s) : s[i] = t[i]
    BY DEF IsPrefix
  <2>2. b \in Seq(S) /\ Len(b) = Len(s) /\ \A i \in 1 .. Len(s) : b[i] = t[i]
    <3>0. Len(s) \in Nat /\ Len(t) \in Nat
      BY <1>0
    <3>1. /\ b \in Seq(S)
          /\ Len(b) = IF 1 <= Len(s) THEN Len(s) - 1 + 1 ELSE 0
          /\ \A i \in 1 .. Len(s) - 1 + 1 : b[i] = t[1 + i - 1]
      BY <3>0, SubSeqProperties
    <3>2. /\ Len(s) - 1 + 1 = Len(s) /\ (~(1 <= Len(s)) => Len(s) = 0)
          /\ \A i \in 1 .. Len(s) : 1 + i - 1 = i
      BY <3>0
    <3> QED BY <3>1, <3>2
  <2> HIDE DEF a, b
  <2> QED BY <2>1, <2>2, SeqEqual
<1>2. ASSUME NEW s \in Seq(S), NEW u \in Seq(S), NEW v \in Seq(S), Pre(s, u), Pre(u, v)
      PROVE  Pre(s, v)
  BY <1>0, <1>2
<1>3. ASSUME NEW s \in Seq(S), NEW u \in Seq(S) PROVE Pre(s, s \o u) /\ s \o u \in Seq(S)
  <2> DEFINE c == s \o u
  <2>1. c \in Seq(S) /\ Len(c) = Len(s) + Len(u)
        /\ \A i \in 1 .. Len(s) + Len(u) : c[i] = IF i <= Len(s) THEN s[i] ELSE u[i - Len(s)]
    BY ConcatProperties
  <2> HIDE DEF c
  <2> QED BY <2>1, <1>0
<1> HIDE DEF Pre
<1>4. ASSUME NEW s \in Seq(S) PROVE Pre(s, s)
  BY <1>0 DEF Pre
<1> QED BY <1>1, <1>2, <1>3, <1>4

\* The reader never takes a command back.
LEMMA LinesGrow ==
  ASSUME NEW bytes \in Seq(Byte), NEW d \in 0 .. Len(bytes), NEW e \in d .. Len(bytes)
  PROVE  IsPrefix(Reading(bytes)[d].lines, Reading(bytes)[e].lines)
<1> DEFINE R == Reading(bytes)
           L == Seq(Seq(Words))
<1>0. Len(bytes) \in Nat /\ d \in Nat /\ e - d \in Nat /\ d + (e - d) = e
  BY LenProperties
<1>1. /\ R \in [0 .. Len(bytes) -> Reader]
      /\ \A n \in 1 .. Len(bytes) : R[n] = Read(R[n - 1], bytes[n])
  BY ReadingFacts
<1> HIDE DEF R
<1>2. \A n \in 0 .. Len(bytes) : R[n].lines \in L /\ R[n] \in Reader
  BY <1>1 DEF Reader
<1>3. ASSUME NEW r \in Reader, NEW b PROVE IsPrefix(r.lines, Read(r, b).lines)
  <2>1. r.lines \in L /\ r.line \in Seq(Words)
    BY DEF Reader
  <2>2. Read(r, b).lines \in {r.lines, Append(r.lines, r.line)}
    BY DEF Read, Reader
  <2>3. Append(r.lines, r.line) = r.lines \o <<r.line>> /\ <<r.line>> \in L
    <3> DEFINE S == Seq(Words)
    <3>1. r.lines \in Seq(S) /\ r.line \in S
      BY <2>1
    <3> HIDE DEF S
    <3>2. Append(r.lines, r.line) = r.lines \o <<r.line>>
      BY <3>1, AppendIsConcat
    <3>3. <<r.line>> \in Seq(S)
      BY <3>1
    <3> QED BY <3>2, <3>3 DEF S
  <2> QED BY <2>1, <2>2, <2>3, PrefixFacts
<1> DEFINE T == {n \in Nat : IsPrefix(R[d].lines, R[d + n].lines)}
<1>4. 0 \in T
  BY <1>0, <1>2, PrefixFacts
<1>5. ASSUME NEW n \in 1 .. e - d, n - 1 \in T PROVE n \in T
  <2>1. /\ n \in Nat /\ d + n \in 1 .. Len(bytes) /\ (d + n) - 1 = d + (n - 1)
        /\ d + (n - 1) \in 0 .. Len(bytes) /\ d + n \in 0 .. Len(bytes) /\ d \in 0 .. Len(bytes)
    BY <1>0
  <2>2. R[d + n] = Read(R[d + (n - 1)], bytes[d + n])
    BY <1>1, <2>1
  <2>3. IsPrefix(R[d + (n - 1)].lines, R[d + n].lines)
    BY <1>2, <1>3, <2>1, <2>2
  <2>4. IsPrefix(R[d].lines, R[d + (n - 1)].lines)
    BY <1>5
  <2>5. R[d].lines \in L /\ R[d + (n - 1)].lines \in L /\ R[d + n].lines \in L
    BY <1>2, <2>1
  <2>6. IsPrefix(R[d].lines, R[d + n].lines)
    BY <2>3, <2>4, <2>5, PrefixFacts
  <2> QED BY <2>1, <2>6
<1>6. 0 .. e - d \subseteq T
  <2> HIDE DEF T
  <2> QED BY <1>0, <1>4, <1>5, CountingTo
<1>7. IsPrefix(R[d].lines, R[d + (e - d)].lines)
  BY <1>0, <1>6
<1> QED BY <1>0, <1>7 DEF R

\* A reader at the start of a line that sees no newline has in its line what
\* sanitize_line keeps of the bytes it saw.
LEMMA LineRead ==
  ASSUME ConstantsOK,
         NEW bytes \in Seq(Byte), NEW d \in 0 .. Len(bytes), NEW e \in d .. Len(bytes),
         NEW L, Reading(bytes)[d] = [line |-> <<>>, lines |-> L, over |-> FALSE],
         \A i \in d + 1 .. e : bytes[i] # NL
  PROVE  Reading(bytes)[e]
           = [line |-> Kept(SubSeq(bytes, d + 1, e)), lines |-> L, over |-> FALSE]
<1> DEFINE R == Reading(bytes)
           Mid(n) == SubSeq(bytes, d + 1, d + n)
           At(n) == [line |-> Kept(Mid(n)), lines |-> L, over |-> FALSE]
           T == {n \in Nat : R[d + n] = At(n)}
<1>0. Len(bytes) \in Nat /\ d \in Nat /\ e - d \in Nat /\ d + (e - d) = e
      /\ d + 0 = d /\ \A n \in 1 .. Len(bytes) : bytes[n] \in Byte
  BY LenProperties
<1>1. \A n \in 1 .. Len(bytes) : R[n] = Read(R[n - 1], bytes[n])
  BY ReadingFacts
<1> HIDE DEF R
<1>2. 0 \in T
  <2>1. Mid(0) = <<>>
    BY <1>0, SubSeqEmpty
  <2>2. R[d + 0] = [line |-> <<>>, lines |-> L, over |-> FALSE]
    BY <1>0 DEF R
  <2> HIDE DEF Mid
  <2> QED BY <2>1, <2>2, KeptEmpty
<1>3. ASSUME NEW n \in 1 .. e - d, n - 1 \in T PROVE n \in T
  <2>1. /\ n \in Nat /\ n - 1 \in Nat /\ d + n \in 1 .. Len(bytes)
        /\ (d + n) - 1 = d + (n - 1) /\ d + n \in d + 1 .. e
        /\ (d + (n - 1)) + 1 = d + n /\ d + 1 \in 1 .. Len(bytes) + 1
        /\ d + (n - 1) \in 0 .. Len(bytes) /\ d + 1 <= (d + (n - 1)) + 1
    BY <1>0
  <2> DEFINE b == bytes[d + n]
  <2>2. b \in Byte /\ b # NL
    BY <2>1, <1>0
  <2>3. R[d + n] = Read(At(n - 1), b)
    <3>1. R[d + n] = Read(R[(d + n) - 1], b)
      BY <1>1, <2>1
    <3>2. R[d + (n - 1)] = At(n - 1)
      BY <1>3
    <3> HIDE DEF At, b
    <3> QED BY <2>1, <3>1, <3>2
  <2>4. Mid(n - 1) \in Seq(Byte) /\ Mid(n) = Append(Mid(n - 1), b)
    <3>1. /\ SubSeq(bytes, d + 1, d + (n - 1)) \in Seq(Byte)
          /\ SubSeq(bytes, d + 1, (d + (n - 1)) + 1)
               = Append(SubSeq(bytes, d + 1, d + (n - 1)), bytes[(d + (n - 1)) + 1])
      <4> DEFINE k == d + (n - 1)
                 g == d + 1
      <4>1. g \in 1 .. Len(bytes) + 1 /\ k \in Nat /\ k + 1 \in 1 .. Len(bytes) /\ g <= k + 1
            /\ g \in Nat \ {0}
        BY <2>1, <1>0
      <4> HIDE DEF g, k
      <4>2. SubSeq(bytes, g, k) \in Seq(Byte)
        BY <4>1, <1>0, SubSeqProperties
      <4>3. SubSeq(bytes, g, k + 1) = Append(SubSeq(bytes, g, k), bytes[k + 1])
        BY <4>1, <1>0, SubSeqRecursiveSecond
      <4> QED BY <4>2, <4>3 DEF g, k
    <3> QED BY <2>1, <3>1
  <2> HIDE DEF Mid, b
  <2>5. Kept(Mid(n)) = IF b \in Words THEN Append(Kept(Mid(n - 1)), b) ELSE Kept(Mid(n - 1))
    BY <2>2, <2>4, KeptAppend
  <2>6. CASE b \in Words
    <3>1. b \notin Noise
      BY <2>6, ConstantsOK DEF ConstantsOK
    <3>2. Read(At(n - 1), b) = [At(n - 1) EXCEPT !.line = Append(At(n - 1).line, b)]
      BY <2>2, <3>1 DEF Read
    <3> QED BY <2>1, <2>3, <2>5, <2>6, <3>2
  <2>7. CASE b \notin Words
    <3>1. b \in Noise
      BY <2>2, <2>7 DEF Byte
    <3>2. Read(At(n - 1), b) = At(n - 1)
      BY <3>1 DEF Read
    <3> QED BY <2>1, <2>3, <2>5, <2>7, <3>2
  <2> QED BY <2>6, <2>7
<1>4. 0 .. e - d \subseteq T
  <2> HIDE DEF T
  <2> QED BY <1>0, <1>2, <1>3, CountingTo
<1>5. R[d + (e - d)] = At(e - d)
  <2>1. e - d \in 0 .. e - d
    BY <1>0
  <2> QED BY <1>4, <2>1
<1> QED BY <1>0, <1>5 DEF R

\* A part of a sequence, by where it begins and how long it is.
LEMMA PartFacts ==
  ASSUME NEW S, NEW s \in Seq(S), NEW i \in Nat, NEW n \in Nat, i + n <= Len(s)
  PROVE  /\ SubSeq(s, i + 1, i + n) \in Seq(S) /\ Len(SubSeq(s, i + 1, i + n)) = n
         /\ \A k \in 1 .. n : i + k \in 1 .. Len(s) /\ SubSeq(s, i + 1, i + n)[k] = s[i + k]
<1> DEFINE a == i + 1
           b == i + n
           part == SubSeq(s, a, b)
<1>0. Len(s) \in Nat /\ \A k \in 1 .. Len(s) : s[k] \in S
  BY LenProperties
<1>1. a \in Int /\ b \in Int /\ b - a + 1 = n /\ (a <= b <=> n # 0)
  OBVIOUS
<1>2. \A k \in 1 .. n : i + k \in 1 .. Len(s) /\ a + k - 1 = i + k
  BY <1>0
<1>3. \A k \in a .. b : s[k] \in S
  BY <1>0
<1> HIDE DEF a, b
<1>4. /\ part \in Seq(S) /\ Len(part) = IF a <= b THEN b - a + 1 ELSE 0
      /\ \A k \in 1 .. b - a + 1 : part[k] = s[a + k - 1]
  BY <1>1, <1>3, SubSeqProperties
<1> HIDE DEF part
<1>5. Len(part) = n
  BY <1>1, <1>4
<1>6. \A k \in 1 .. n : part[k] = s[i + k]
  BY <1>1, <1>2, <1>4
<1> QED BY <1>2, <1>4, <1>5, <1>6 DEF part, a, b

-----------------------------------------------------------------------------
(* The buffer of a handler *)

\* buf holds the bytes of what came in, up to the count rec, that are past
\* the last line taken; the reader is there at the start of a line, with the
\* same commands.
Framed(in, rec, buf, lines, over) ==
  /\ Len(buf) <= rec
  /\ buf = SubSeq(in, rec - Len(buf) + 1, rec)
  /\ Reading(in)[rec - Len(buf)] = [line |-> <<>>, lines |-> lines, over |-> over]

\* find('\n') gives the first newline.
LEMMA NewlineFacts ==
  ASSUME NEW buf \in Seq(Byte)
  PROVE  /\ Newline(buf) \in 0 .. Len(buf)
         /\ (Newline(buf) = 0) <=> (NL \notin ToSet(buf))
         /\ Newline(buf) > 0 => /\ buf[Newline(buf)] = NL
                                /\ \A i \in 1 .. Newline(buf) - 1 : buf[i] # NL
<1> DEFINE end == Newline(buf)
           I == {i \in 1 .. Len(buf) : buf[i] = NL}
           M == Min(I)
<1>0. Len(buf) \in Nat /\ DOMAIN buf = 1 .. Len(buf)
  BY LenProperties
<1>1. end = IF I # {} THEN M ELSE 0
  BY DEF Newline, SelectInSeq
<1> HIDE DEF end
<1>2. NL \in ToSet(buf) <=> I # {}
  BY <1>0 DEF ToSet
<1> SUFFICES /\ end \in 0 .. Len(buf)
             /\ (end = 0) <=> (NL \notin ToSet(buf))
             /\ end > 0 => buf[end] = NL /\ \A i \in 1 .. end - 1 : buf[i] # NL
  BY DEF end
<1>3. CASE I = {}
  BY <1>0, <1>1, <1>2, <1>3
<1>4. CASE I # {}
  <2>1. I \in SUBSET Nat
    BY <1>0
  <2> HIDE DEF I
  <2>2. \E x \in I : \A y \in I : x <= y
    BY <1>4, <2>1, LeastExists
  <2>3. M \in I /\ \A y \in I : M <= y
    BY <2>2 DEF Min
  <2> HIDE DEF M
  <2>4. M \in 1 .. Len(buf) /\ buf[M] = NL
    BY <2>3 DEF I
  <2>5. ASSUME NEW i \in 1 .. M - 1 PROVE buf[i] # NL
    <3>1. i \in 1 .. Len(buf) /\ ~(M <= i)
      BY <1>0, <2>4
    <3>2. i \notin I
      BY <3>1, <2>3
    <3> QED BY <3>1, <3>2 DEF I
  <2>6. end = M
    BY <1>1, <1>4
  <2> QED BY <1>0, <1>2, <1>4, <2>4, <2>5, <2>6
<1> QED BY <1>3, <1>4

\* More bytes come in.
LEMMA MoreIsFramed ==
  ASSUME NEW in \in Seq(Byte), NEW rec \in Nat, NEW n \in Nat, rec + n <= Len(in),
         NEW buf \in Seq(Byte), NEW lines, NEW over, Framed(in, rec, buf, lines, over)
  PROVE  /\ SubSeq(in, rec + 1, rec + n) \in Seq(Byte)
         /\ Framed(in, rec + n, buf \o SubSeq(in, rec + 1, rec + n), lines, over)
<1> DEFINE d == rec - Len(buf)
           more == SubSeq(in, rec + 1, rec + n)
           all == buf \o more
<1>0. /\ Len(in) \in Nat /\ Len(buf) \in Nat /\ Len(buf) <= rec
      /\ \A i \in 1 .. Len(in) : in[i] \in Byte
  BY LenProperties DEF Framed
<1>1. d \in Nat /\ d + 1 \in 1 .. Len(in) + 1 /\ rec \in (d + 1) - 1 .. Len(in)
      /\ rec + n \in rec .. Len(in) /\ rec + 1 \in Int /\ rec + n \in Int
  BY <1>0
<1>2. more \in Seq(Byte) /\ Len(more) = n
  <2>1. \A i \in rec + 1 .. rec + n : in[i] \in Byte
    BY <1>0
  <2>2. more \in Seq(Byte)
        /\ Len(more) = IF rec + 1 <= rec + n THEN rec + n - (rec + 1) + 1 ELSE 0
    BY <1>1, <2>1, SubSeqProperties
  <2>3. (IF rec + 1 <= rec + n THEN rec + n - (rec + 1) + 1 ELSE 0) = n
    OBVIOUS
  <2> QED BY <2>2, <2>3
<1>3. buf = SubSeq(in, d + 1, rec)
      /\ Reading(in)[d] = [line |-> <<>>, lines |-> lines, over |-> over]
  BY DEF Framed
<1> HIDE DEF d
<1>4. SubSeq(in, d + 1, rec) \o SubSeq(in, rec + 1, rec + n) = SubSeq(in, d + 1, rec + n)
  BY <1>1, ConcatAdjacentSubSeq
<1>5. all = SubSeq(in, d + 1, rec + n)
  BY <1>3, <1>4
<1> HIDE DEF more
<1>6. Len(all) = Len(buf) + n
  BY <1>2, ConcatProperties
<1> HIDE DEF all
<1>7. Len(all) <= rec + n /\ (rec + n) - Len(all) = d
  BY <1>0, <1>6 DEF d
<1>8. Framed(in, rec + n, all, lines, over)
  BY <1>3, <1>5, <1>7 DEF Framed
<1> QED BY <1>2, <1>8 DEF all, more

\* A line is taken: the reader has the same one, and ends it at the newline.
LEMMA LineIsFramed ==
  ASSUME ConstantsOK,
         NEW in \in Seq(Byte), NEW rec \in 0 .. Len(in), NEW buf \in Seq(Byte), NEW lines,
         Framed(in, rec, buf, lines, FALSE), lines \in Seq(Seq(Words)),
         Newline(buf) > 0
  PROVE  LET line == Kept(SubSeq(buf, 1, Newline(buf) - 1))
             rest == SubSeq(buf, Newline(buf) + 1, Len(buf))
         IN  /\ line \in Seq(Words) /\ rest \in Seq(Byte)
             /\ line = <<>> => Framed(in, rec, rest, lines, FALSE)
             /\ line # <<>> => Framed(in, rec, rest, Append(lines, line), line \in Quits)
<1> DEFINE end == Newline(buf)
           d == rec - Len(buf)
           first == SubSeq(buf, 1, end - 1)
           line == Kept(first)
           rest == SubSeq(buf, end + 1, Len(buf))
           R == Reading(in)
<1>0. /\ Len(in) \in Nat /\ Len(buf) \in Nat /\ Len(buf) <= rec /\ rec \in Nat
      /\ \A i \in 1 .. Len(in) : in[i] \in Byte
      /\ \A i \in 1 .. Len(buf) : buf[i] \in Byte
  BY LenProperties DEF Framed
<1>1. /\ end \in 1 .. Len(buf) /\ buf[end] = NL
      /\ \A i \in 1 .. end - 1 : buf[i] # NL
  BY <1>0, NewlineFacts
<1> HIDE DEF end
<1>2. /\ d \in 0 .. Len(in) /\ d + Len(buf) = rec
      /\ d + end \in 1 .. Len(in) /\ (d + end) - 1 \in d .. Len(in)
      /\ rec - d = Len(buf) /\ d + end <= rec
  <2> HIDE DEF first, line, rest, R
  <2>1. d \in Nat /\ d + Len(buf) = rec /\ rec - d = Len(buf) /\ d <= Len(in)
    BY <1>0
  <2>2. end \in Nat /\ 1 <= end /\ end <= Len(buf)
    BY <1>0, <1>1
  <2> HIDE DEF d
  <2> QED BY <1>0, <2>1, <2>2
<1>3. buf = SubSeq(in, d + 1, rec)
      /\ R[d] = [line |-> <<>>, lines |-> lines, over |-> FALSE]
  BY DEF Framed
<1> HIDE DEF d, R
<1>n. /\ d \in Nat /\ end \in Nat \ {0} /\ rec \in Nat /\ Len(buf) \in Nat
      /\ end <= Len(buf) /\ rec = d + Len(buf)
  BY <1>0, <1>1, <1>2
<1> HIDE DEF first, line, rest
<1>4. \A i \in 1 .. Len(buf) : buf[i] = in[d + i]
  <2> DEFINE n == Len(buf)
  <2>1. n \in Nat /\ d + n <= Len(in) /\ d + n = rec
    BY <1>0, <1>2, <1>n
  <2> HIDE DEF n
  <2>2. \A k \in 1 .. n : d + k \in 1 .. Len(in) /\ SubSeq(in, d + 1, d + n)[k] = in[d + k]
    <3>1. in \in Seq(Byte) /\ d \in Nat
      BY <1>n
    <3> HIDE DEF Byte
    <3> QED BY <2>1, <3>1, PartFacts
  <2>3. \A k \in 1 .. n : buf[k] = in[d + k]
    BY <1>3, <2>1, <2>2
  <2> QED BY <2>3 DEF n
<1>5. first = SubSeq(in, d + 1, (d + end) - 1) /\ first \in Seq(Byte)
  <2> DEFINE n == end - 1
             other == SubSeq(in, d + 1, d + n)
  <2>0. n \in Nat /\ 0 + n = n /\ 0 + 1 = 1 /\ n <= Len(buf) /\ d + n <= Len(in)
        /\ d + n = (d + end) - 1
    BY <1>0, <1>n
  <2>1. first = SubSeq(buf, 0 + 1, 0 + n)
    BY <2>0 DEF first
  <2> HIDE DEF n
  <2>2. first \in Seq(Byte) /\ Len(first) = n
        /\ \A k \in 1 .. n : 0 + k \in 1 .. Len(buf) /\ first[k] = buf[0 + k]
    BY <2>0, <2>1, PartFacts
  <2>3. other \in Seq(Byte) /\ Len(other) = n /\ \A k \in 1 .. n : other[k] = in[d + k]
    BY <1>n, <2>0, PartFacts
  <2> HIDE DEF other
  <2>4. \A k \in 1 .. n : 0 + k = k
    OBVIOUS
  <2>5. first = other
    BY <1>4, <2>2, <2>3, <2>4, SeqEqual
  <2> QED BY <2>0, <2>2, <2>5 DEF other
<1>6. R[(d + end) - 1] = [line |-> line, lines |-> lines, over |-> FALSE]
  <2>1. ASSUME NEW i \in d + 1 .. (d + end) - 1 PROVE in[i] # NL
    <3>1. i - d \in 1 .. end - 1 /\ i - d \in 1 .. Len(buf) /\ d + (i - d) = i
      BY <1>0, <1>1, <1>2
    <3> QED BY <3>1, <1>1, <1>4
  <2> DEFINE e == (d + end) - 1
  <2>2. e \in d .. Len(in)
    BY <1>2
  <2>3. \A i \in d + 1 .. e : in[i] # NL
    BY <2>1
  <2> HIDE DEF e
  <2>4. Reading(in)[d] = [line |-> <<>>, lines |-> lines, over |-> FALSE]
    BY <1>3 DEF R
  <2>5. Reading(in)[e] = [line |-> Kept(SubSeq(in, d + 1, e)), lines |-> lines, over |-> FALSE]
    BY <1>2, <2>2, <2>3, <2>4, LineRead
  <2> QED BY <1>5, <2>5 DEF R, e, line
<1>7. R[d + end] = Read([line |-> line, lines |-> lines, over |-> FALSE], NL)
  <2>1. R[d + end] = Read(R[(d + end) - 1], in[d + end])
    BY <1>2, ReadingFacts DEF R
  <2>2. in[d + end] = NL
    BY <1>1, <1>4
  <2> QED BY <1>6, <2>1, <2>2
<1>8. NL \notin Noise
  BY ConstantsOK DEF ConstantsOK
<1>9. line \in Seq(Words)
  <2>1. NL \in Byte
    BY DEF Byte
  <2> QED BY <1>5, <2>1, KeptAppend DEF line
<1>10. rest \in Seq(Byte) /\ Len(rest) = Len(buf) - end /\ rest = SubSeq(in, (d + end) + 1, rec)
  <2> DEFINE n == Len(buf) - end
             e == d + end
             other == SubSeq(in, e + 1, e + n)
  <2>0. n \in Nat /\ e \in Nat /\ end + n = Len(buf) /\ e + n = rec /\ e + n <= Len(in)
    BY <1>0, <1>n
  <2>1. rest = SubSeq(buf, end + 1, end + n)
    BY <2>0 DEF rest
  <2>2. \A k \in 1 .. n : d + (end + k) = e + k
    BY <1>n
  <2> HIDE DEF n, e
  <2>3. rest \in Seq(Byte) /\ Len(rest) = n
        /\ \A k \in 1 .. n : end + k \in 1 .. Len(buf) /\ rest[k] = buf[end + k]
    BY <1>n, <2>0, <2>1, PartFacts
  <2>4. other \in Seq(Byte) /\ Len(other) = n /\ \A k \in 1 .. n : other[k] = in[e + k]
    BY <2>0, PartFacts
  <2> HIDE DEF other
  <2>5. \A k \in 1 .. n : rest[k] = other[k]
    BY <1>4, <2>2, <2>3, <2>4
  <2>6. rest = other
    BY <2>3, <2>4, <2>5, SeqEqual
  <2> QED BY <2>0, <2>3, <2>6 DEF other, n, e
<1>11. Len(rest) <= rec /\ rec - Len(rest) = d + end
  BY <1>0, <1>1, <1>2, <1>10
<1>12. CASE line = <<>>
  <2>1. R[d + end] = [line |-> <<>>, lines |-> lines, over |-> FALSE]
    <3> DEFINE r == [line |-> line, lines |-> lines, over |-> FALSE]
    <3>1. ~r.over /\ r.line = line
      OBVIOUS
    <3> HIDE DEF r
    <3>2. Read(r, NL) = r
      BY <1>8, <1>12, <3>1 DEF Read
    <3> QED BY <1>7, <1>12, <3>2 DEF r
  <2>2. Framed(in, rec, rest, lines, FALSE)
    BY <1>10, <1>11, <2>1 DEF Framed, R
  <2> QED BY <1>9, <1>10, <1>12, <2>2 DEF line, rest, first, end
<1>13. CASE line # <<>>
  <2>1. R[d + end] = [line |-> <<>>, lines |-> Append(lines, line), over |-> line \in Quits]
    <3> DEFINE r == [line |-> line, lines |-> lines, over |-> FALSE]
    <3>1. ~r.over /\ r.line = line /\ r.lines = lines
      OBVIOUS
    <3> HIDE DEF r
    <3>2. Read(r, NL) = [line |-> <<>>, lines |-> Append(r.lines, r.line), over |-> r.line \in Quits]
      BY <1>8, <1>13, <3>1 DEF Read
    <3> QED BY <1>7, <3>1, <3>2 DEF r
  <2>2. Framed(in, rec, rest, Append(lines, line), line \in Quits)
    BY <1>10, <1>11, <2>1 DEF Framed, R
  <2> QED BY <1>9, <1>10, <1>13, <2>2 DEF line, rest, first, end
<1> QED BY <1>12, <1>13

\* What the frame says of the lines executed.
LEMMA FramedLines ==
  ASSUME ConstantsOK,
         NEW in \in Seq(Byte), NEW rec \in 0 .. Len(in), NEW buf \in Seq(Byte), NEW lines,
         NEW over, Framed(in, rec, buf, lines, over)
  PROVE  LET arrived == Commands(SubSeq(in, 1, rec)) IN
         /\ IsPrefix(lines, arrived)
         /\ ~over /\ over \in BOOLEAN /\ NL \notin ToSet(buf) => lines = arrived
<1> DEFINE d == rec - Len(buf)
           R == Reading(in)
<1>0. /\ Len(in) \in Nat /\ Len(buf) \in Nat /\ Len(buf) <= rec /\ rec \in Nat
      /\ DOMAIN buf = 1 .. Len(buf) /\ \A i \in 1 .. Len(in) : in[i] \in Byte
  BY LenProperties DEF Framed
<1>1. d \in 0 .. Len(in) /\ rec \in d .. Len(in) /\ rec - d = Len(buf)
  BY <1>0
<1>2. /\ buf = SubSeq(in, d + 1, rec)
      /\ R[d] = [line |-> <<>>, lines |-> lines, over |-> over]
  BY DEF Framed
<1> HIDE DEF d
<1>3. Commands(SubSeq(in, 1, rec)) = R[rec].lines
  BY ReadingOfPart
<1>4. IsPrefix(R[d].lines, R[rec].lines)
  BY <1>1, LinesGrow
<1> HIDE DEF R
<1>5. IsPrefix(lines, R[rec].lines)
  BY <1>2, <1>4
<1>6. ASSUME over = FALSE, NL \notin ToSet(buf) PROVE lines = R[rec].lines
  <2>1. ASSUME NEW i \in d + 1 .. rec PROVE in[i] # NL
    <3>1. /\ i - d \in 1 .. Len(buf) /\ i - d \in 1 .. rec - (d + 1) + 1 /\ (d + 1) + (i - d) - 1 = i
          /\ d + 1 \in Int /\ rec \in Int /\ \A j \in d + 1 .. rec : in[j] \in Byte
      BY <1>0, <1>1
    <3>2. SubSeq(in, d + 1, rec)[i - d] = in[(d + 1) + (i - d) - 1]
      BY <3>1, SubSeqProperties
    <3>3. buf[i - d] \in ToSet(buf)
      BY <1>0, <3>1 DEF ToSet
    <3> QED BY <1>2, <1>6, <3>1, <3>2, <3>3
  <2>2. Reading(in)[d] = [line |-> <<>>, lines |-> lines, over |-> FALSE]
    BY <1>2, <1>6 DEF R
  <2>3. Reading(in)[rec] = [line |-> Kept(SubSeq(in, d + 1, rec)), lines |-> lines, over |-> FALSE]
    BY <1>1, <2>1, <2>2, LineRead
  <2> QED BY <2>3 DEF R
<1> QED BY <1>3, <1>5, <1>6

-----------------------------------------------------------------------------
(* The answers of a connection *)

Bytes == Seq(Nat \cup {NL})
Done  == [line : Seq(Words), answer : Nat]

LinesIn(ex) == [i \in DOMAIN ex |-> ex[i].line]
Said(ex)    == Greeting \o FlattenSeq([i \in DOMAIN ex |-> Reply(ex[i].answer)])

LEMMA BytesFacts ==
  \A s, t \in Bytes :
    /\ s \o t \in Bytes /\ Len(s \o t) = Len(s) + Len(t) /\ IsPrefix(s, s \o t)
<1> SUFFICES ASSUME NEW s \in Bytes, NEW t \in Bytes
             PROVE  s \o t \in Bytes /\ Len(s \o t) = Len(s) + Len(t) /\ IsPrefix(s, s \o t)
  OBVIOUS
<1> DEFINE B == Nat \cup {NL}
<1>1. s \in Seq(B) /\ t \in Seq(B) /\ Bytes = Seq(B)
  BY DEF Bytes
<1> HIDE DEF B
<1>2. s \o t \in Seq(B) /\ Len(s \o t) = Len(s) + Len(t)
  BY <1>1, ConcatProperties
<1>3. IsPrefix(s, s \o t)
  BY <1>1, PrefixFacts
<1> QED BY <1>1, <1>2, <1>3

\* What moves from the handler to the socket stays in its place.
LEMMA OrderOfParts ==
  ASSUME NEW g \in Bytes, NEW k \in Bytes, NEW a \in Bytes, NEW b \in Bytes
  PROVE  /\ (g \o (k \o a)) \o b = (g \o k) \o (a \o b)
         /\ IsPrefix(g \o (k \o a), (g \o k) \o (a \o b))
<1> DEFINE B == Nat \cup {NL}
           gk == g \o k
           gka == gk \o a
<1>1. g \in Seq(B) /\ k \in Seq(B) /\ a \in Seq(B) /\ b \in Seq(B)
  BY DEF Bytes
<1> HIDE DEF B
<1>2. gk \in Seq(B)
  BY <1>1, ConcatProperties
<1>3. gka = g \o (k \o a)
  BY <1>1, ConcatAssociative
<1> HIDE DEF gk
<1>4. gka \in Seq(B)
  BY <1>1, <1>2, ConcatProperties
<1>5. gka \o b = gk \o (a \o b)
  BY <1>1, <1>2, ConcatAssociative
<1> HIDE DEF gka
<1>6. IsPrefix(gka, gka \o b)
  BY <1>1, <1>4, PrefixFacts
<1> QED BY <1>3, <1>5, <1>6 DEF gk

LEMMA NothingSaid == LinesIn(<<>>) = <<>> /\ Said(<<>>) = Greeting /\ Greeting \in Bytes
<1>1. [i \in DOMAIN <<>> |-> Reply(<<>>[i].answer)] = <<>>
  OBVIOUS
<1>2. <<>> \in Seq(Bytes) /\ Len(<<>>) = 0
  BY EmptySeq
<1>3. FlattenSeq(<<>>) = <<>>
  BY <1>2 DEF FlattenSeq
<1>4. Greeting \in Bytes
  BY DEF Greeting, Bytes
<1>5. Greeting \o <<>> = Greeting
  BY <1>4, ConcatEmptySeq DEF Bytes
<1>6. Said(<<>>) = Greeting
  BY <1>1, <1>3, <1>5, Zenon DEF Said
<1>7. LinesIn(<<>>) = <<>>
  BY DEF LinesIn
<1> QED BY <1>4, <1>6, <1>7

\* One more line is one more answer, after those before.
LEMMA OneMoreSaid ==
  ASSUME NEW ex \in Seq(Done), NEW x \in Done
  PROVE  /\ LinesIn(ex) \in Seq(Seq(Words)) /\ Said(ex) \in Bytes /\ Reply(x.answer) \in Bytes
         /\ LinesIn(Append(ex, x)) = Append(LinesIn(ex), x.line)
         /\ Said(Append(ex, x)) = Said(ex) \o Reply(x.answer)
<1> DEFINE m == Len(ex)
           a == Append(ex, x)
           replies == [i \in 1 .. m |-> Reply(ex[i].answer)]
           more == [i \in 1 .. m + 1 |-> Reply(a[i].answer)]
<1>0. m \in Nat /\ DOMAIN ex = 1 .. m /\ \A i \in 1 .. m : ex[i] \in Done
  BY LenProperties
<1>1. /\ Len(a) = m + 1 /\ a[m + 1] = x /\ \A i \in 1 .. m : a[i] = ex[i]
      /\ a \in Seq(Done) /\ DOMAIN a = 1 .. m + 1
  BY AppendProperties, LenProperties
<1>2. \A n \in Nat : Reply(n) \in Bytes
  BY DEF Reply, Bytes
<1>3. \A i \in 1 .. m : ex[i].answer \in Nat /\ ex[i].line \in Seq(Words)
  BY <1>0 DEF Done
<1>4. x.answer \in Nat /\ x.line \in Seq(Words)
  BY DEF Done
<1> HIDE DEF m, a
<1>5. replies \in Seq(Bytes)
  <2>1. replies \in [1 .. m -> Bytes]
    BY <1>2, <1>3
  <2> HIDE DEF replies
  <2> QED BY <2>1, <1>0, SeqDef
<1>6. more = Append(replies, Reply(x.answer))
  <2>1. Len(replies) = m
    BY <1>0
  <2>2. Append(replies, Reply(x.answer))
          = [i \in 1 .. m + 1 |-> IF i = m + 1 THEN Reply(x.answer) ELSE replies[i]]
    BY <1>0, <2>1
  <2>3. ASSUME NEW i \in 1 .. m + 1
        PROVE  Reply(a[i].answer) = IF i = m + 1 THEN Reply(x.answer) ELSE replies[i]
    <3>1. i # m + 1 => i \in 1 .. m
      BY <1>0
    <3> QED BY <3>1, <1>1
  <2> QED BY <2>2, <2>3
<1>7. LinesIn(ex) \in Seq(Seq(Words)) /\ LinesIn(a) = Append(LinesIn(ex), x.line)
  <2> DEFINE l == [i \in 1 .. m |-> ex[i].line]
             S == Seq(Words)
  <2>1. LinesIn(ex) = l /\ LinesIn(a) = [i \in 1 .. m + 1 |-> a[i].line]
    BY <1>0, <1>1 DEF LinesIn
  <2>2. l \in [1 .. m -> S]
    BY <1>3
  <2>3. l \in Seq(S)
    <3> HIDE DEF l, S
    <3> QED BY <2>2, <1>0, SeqDef
  <2>4. Append(l, x.line) = [i \in 1 .. m + 1 |-> IF i = m + 1 THEN x.line ELSE l[i]]
    BY <1>0
  <2>5. ASSUME NEW i \in 1 .. m + 1 PROVE a[i].line = IF i = m + 1 THEN x.line ELSE l[i]
    <3>1. i # m + 1 => i \in 1 .. m
      BY <1>0
    <3> QED BY <3>1, <1>1
  <2>6. [i \in 1 .. m + 1 |-> a[i].line]
          = [i \in 1 .. m + 1 |-> IF i = m + 1 THEN x.line ELSE l[i]]
    <3> HIDE DEF l
    <3> QED BY <2>5
  <2>7. LinesIn(a) = Append(l, x.line)
    <3> HIDE DEF l
    <3> QED BY <2>1, <2>4, <2>6, Zenon
  <2> HIDE DEF l
  <2> QED BY <2>1, <2>3, <2>7 DEF S
<1>8. Said(ex) = Greeting \o FlattenSeq(replies) /\ Said(a) = Greeting \o FlattenSeq(more)
  BY <1>0, <1>1 DEF Said
<1>9. Greeting \in Bytes
  BY NothingSaid
<1> HIDE DEF replies, more
<1>10. Reply(x.answer) \in Bytes
  BY <1>2, <1>4
<1> DEFINE B == Nat \cup {NL}
<1>11. Greeting \in Seq(B) /\ replies \in Seq(Seq(B)) /\ Reply(x.answer) \in Seq(B)
  BY <1>5, <1>9, <1>10 DEF Bytes
<1> HIDE DEF B
<1>12. FlattenSeq(replies) \in Seq(B)
       /\ FlattenSeq(more) = FlattenSeq(replies) \o Reply(x.answer)
  BY <1>6, <1>11, FlattenAppend
<1>13. Said(ex) \in Seq(B)
  BY <1>8, <1>11, <1>12, ConcatProperties
<1>14. Said(a) = Said(ex) \o Reply(x.answer)
  <2> DEFINE F == FlattenSeq(replies)
             G == FlattenSeq(more)
             r == Reply(x.answer)
  <2>1. F \in Seq(B) /\ r \in Seq(B) /\ G = F \o r
    BY <1>11, <1>12
  <2>2. Said(ex) = Greeting \o F /\ Said(a) = Greeting \o G
    BY <1>8
  <2> HIDE DEF F, G, r
  <2>3. (Greeting \o F) \o r = Greeting \o (F \o r)
    BY <1>11, <2>1, ConcatAssociative
  <2>4. Said(a) = Said(ex) \o r
    BY <2>1, <2>2, <2>3
  <2> QED BY <2>4 DEF r
<1> QED BY <1>7, <1>10, <1>13, <1>14 DEF a, B, Bytes

-----------------------------------------------------------------------------
(* The invariant, a connection at a time *)

Types ==
  /\ input \in [Conns -> Seq(Byte)]
  /\ sent \in [Conns -> Nat] /\ received \in [Conns -> Nat]
  /\ peer \in [Conns -> {"open", "half", "gone"}]
  /\ at \in [Conns -> {"none", "recv", "lines", "send", "closed"}]
  /\ buffer \in [Conns -> Seq(Byte)] /\ quit \in [Conns -> BOOLEAN]
  /\ out \in [Conns -> Bytes] /\ back \in [Conns -> Bytes] /\ got \in [Conns -> Bytes]
  /\ up \in BOOLEAN /\ served \in Nat
  /\ executed \in [Conns -> Seq(Done)]

Bounded(c) ==
  /\ received[c] <= sent[c] /\ sent[c] <= Len(input[c]) /\ Len(back[c]) <= Window
  /\ out[c] # <<>> => at[c] = "send" \/ peer[c] = "gone"
  /\ at[c] = "recv" => ~quit[c] /\ NL \notin ToSet(buffer[c])

\* After QUIT only its answer is sent; a connection not accepted yet is blank.
Staged(c) ==
  /\ quit[c] => at[c] \in {"send", "closed"}
  /\ at[c] = "none" =>
       /\ peer[c] = "gone" /\ ~quit[c] /\ sent[c] = 0 /\ received[c] = 0
       /\ input[c] = <<>> /\ buffer[c] = <<>> /\ executed[c] = <<>>
       /\ out[c] = <<>> /\ back[c] = <<>> /\ got[c] = <<>>

InFrame(c) == Framed(input[c], received[c], buffer[c], LinesIn(executed[c]), quit[c])

InOrder(c) ==
  at[c] # "none" =>
    /\ IsPrefix(got[c] \o back[c], Said(executed[c]))
    /\ peer[c] # "gone" => (got[c] \o back[c]) \o out[c] = Said(executed[c])

Sound(c) == Bounded(c) /\ Staged(c) /\ InFrame(c) /\ InOrder(c)

IInv == Types /\ \A c \in Conns : Sound(c)

\* A step of one connection leaves every other as it is.
Apart(c) ==
  \A i \in Conns \ {c} :
    /\ input'[i] = input[i] /\ sent'[i] = sent[i] /\ received'[i] = received[i]
    /\ peer'[i] = peer[i] /\ at'[i] = at[i] /\ buffer'[i] = buffer[i] /\ out'[i] = out[i]
    /\ quit'[i] = quit[i] /\ back'[i] = back[i] /\ got'[i] = got[i]
    /\ executed'[i] = executed[i]

LEMMA StepOfOne ==
  ASSUME IInv, NEW c \in Conns, Types', Apart(c), Sound(c)'
  PROVE  IInv'
<1>1. ASSUME NEW i \in Conns, i # c PROVE Sound(i)'
  <2>1. Sound(i)
    BY DEF IInv
  <2> QED BY <1>1, <2>1 DEF Apart, Sound, Bounded, Staged, InFrame, InOrder
<1>2. \A i \in Conns : Sound(i)'
  BY <1>1
<1> QED BY <1>2 DEF IInv

LEMMA TypesAt ==
  ASSUME Types, NEW c \in Conns
  PROVE  /\ input[c] \in Seq(Byte) /\ sent[c] \in Nat /\ received[c] \in Nat
         /\ peer[c] \in {"open", "half", "gone"}
         /\ at[c] \in {"none", "recv", "lines", "send", "closed"}
         /\ buffer[c] \in Seq(Byte) /\ quit[c] \in BOOLEAN
         /\ out[c] \in Bytes /\ back[c] \in Bytes /\ got[c] \in Bytes
         /\ executed[c] \in Seq(Done)
  BY DEF Types

\* The invariant says what the checked properties say.
LEMMA InvariantMeans ==
  ASSUME ConstantsOK, IInv PROVE TypeOK /\ LinesAreFramed /\ AnswersInOrder
<1>1. TypeOK
  BY DEF IInv, Types, Sound, Bounded, TypeOK, Bytes, Done
<1>2. ASSUME NEW c \in Conns
      PROVE  LET arrived == Commands(SubSeq(input[c], 1, received[c])) IN
             /\ IsPrefix(LinesOf(c), arrived)
             /\ at[c] = "recv" => LinesOf(c) = arrived
  <2>1. /\ input[c] \in Seq(Byte) /\ buffer[c] \in Seq(Byte) /\ quit[c] \in BOOLEAN
        /\ received[c] \in Nat /\ sent[c] \in Nat /\ Sound(c)
    BY TypesAt DEF IInv
  <2>2. received[c] \in 0 .. Len(input[c])
    <3>1. Len(input[c]) \in Nat
      BY <2>1, LenProperties
    <3> QED BY <2>1, <3>1 DEF Sound, Bounded
  <2>3. Framed(input[c], received[c], buffer[c], LinesOf(c), quit[c])
    BY <2>1 DEF Sound, InFrame, LinesIn, LinesOf
  <2>4. at[c] = "recv" => ~quit[c] /\ NL \notin ToSet(buffer[c])
    BY <2>1 DEF Sound, Bounded
  <2> QED BY <2>1, <2>2, <2>3, <2>4, FramedLines
<1>3. LinesAreFramed
  BY <1>2 DEF LinesAreFramed
<1>4. AnswersInOrder
  BY DEF IInv, Sound, InOrder, AnswersInOrder, Answers, Said
<1> QED BY <1>1, <1>3, <1>4

LEMMA Initially == ConstantsOK /\ Init => IInv
<1> SUFFICES ASSUME ConstantsOK, Init PROVE IInv
  OBVIOUS
<1>0. /\ <<>> \in Seq(Byte) /\ <<>> \in Bytes /\ <<>> \in Seq(Done)
      /\ Len(<<>>) = 0 /\ ToSet(<<>>) = {} /\ Window \in Nat
  BY ConstantsOK DEF Bytes, ToSet, ConstantsOK
<1>1. Types
  BY <1>0 DEF Init, Types
<1>2. ASSUME NEW c \in Conns PROVE Sound(c)
  <2>1. /\ input[c] = <<>> /\ sent[c] = 0 /\ received[c] = 0 /\ peer[c] = "gone"
        /\ at[c] = "none" /\ buffer[c] = <<>> /\ out[c] = <<>> /\ quit[c] = FALSE
        /\ back[c] = <<>> /\ got[c] = <<>> /\ executed[c] = <<>>
    BY DEF Init
  <2>2. Framed(<<>>, 0, <<>>, <<>>, FALSE)
    <3>1. SubSeq(<<>>, 1, 0) = <<>>
      BY SubSeqEmpty
    <3>2. Reading(<<>>)[0] = Fresh
      BY <1>0, ReadingFacts
    <3>3. 0 - 0 = 0 /\ 0 - 0 + 1 = 1 /\ 0 <= 0
      OBVIOUS
    <3> QED BY <1>0, <3>1, <3>2, <3>3 DEF Framed, Fresh
  <2>3. InFrame(c)
    BY <2>1, <2>2, NothingSaid DEF InFrame
  <2>4. Bounded(c)
    BY <1>0, <2>1 DEF Bounded
  <2> QED BY <2>1, <2>3, <2>4 DEF Sound, Staged, InOrder
<1> QED BY <1>1, <1>2 DEF IInv

\* What the handler's frame needs, and the order of the answers, to stay.
LEMMA FrameStays ==
  ASSUME NEW c \in Conns, InFrame(c),
         input'[c] = input[c], received'[c] = received[c], buffer'[c] = buffer[c],
         executed'[c] = executed[c], quit'[c] = quit[c]
  PROVE  InFrame(c)'
BY DEF InFrame

LEMMA OrderStays ==
  ASSUME NEW c \in Conns, InOrder(c), at[c] # "none",
         peer'[c] = "gone" \/ peer[c] # "gone",
         got'[c] = got[c], back'[c] = back[c], out'[c] = out[c], executed'[c] = executed[c]
  PROVE  InOrder(c)'
BY DEF InOrder

LEMMA ClientSendKeeps ==
  ASSUME ConstantsOK, IInv, NEW c \in Conns, ClientSend(c) PROVE IInv'
<1> USE DEF ClientSend, handler, shared
<1>0. Types /\ Sound(c)
  BY DEF IInv
<1>1. /\ sent[c] \in Nat /\ received[c] \in Nat /\ Len(input[c]) \in Nat
  BY <1>0, TypesAt, LenProperties
<1>2. Types' /\ Apart(c)
  BY <1>0, <1>1 DEF Types, Apart
<1>3. sent'[c] = sent[c] + 1
  BY <1>0 DEF Types
<1>4. Bounded(c)' /\ Staged(c)' /\ at[c] # "none"
  BY <1>0, <1>1, <1>3 DEF Sound, Bounded, Staged
<1>5. InFrame(c)' /\ InOrder(c)'
  BY <1>0, <1>4, FrameStays, OrderStays DEF Sound
<1> QED BY <1>2, <1>4, <1>5, StepOfOne DEF Sound

LEMMA ClientReadKeeps ==
  ASSUME ConstantsOK, IInv, NEW c \in Conns, ClientRead(c) PROVE IInv'
<1> USE DEF ClientRead, handler, shared
<1>0. Types /\ Sound(c)
  BY DEF IInv
<1>1. got[c] \in Bytes /\ back[c] \in Bytes /\ <<>> \in Bytes /\ Len(<<>>) = 0 /\ Window \in Nat
  BY <1>0, TypesAt, EmptySeq, ConstantsOK DEF Bytes, ConstantsOK
<1>2. got[c] \o back[c] \in Bytes /\ (got[c] \o back[c]) \o <<>> = got[c] \o back[c]
  BY <1>1, ConcatProperties, ConcatEmptySeq DEF Bytes
<1>3. Types' /\ Apart(c)
  BY <1>0, <1>1, <1>2 DEF Types, Apart
<1>4. got'[c] = got[c] \o back[c] /\ back'[c] = <<>>
  BY <1>0 DEF Types
<1>5. Bounded(c)' /\ Staged(c)' /\ at[c] # "none"
  BY <1>0, <1>1, <1>4 DEF Sound, Bounded, Staged
<1>6. InFrame(c)'
  BY <1>0, FrameStays DEF Sound
<1>7. InOrder(c)'
  <2>1. got'[c] \o back'[c] = got[c] \o back[c]
    BY <1>2, <1>4
  <2> QED BY <1>0, <1>5, <2>1 DEF Sound, InOrder
<1> QED BY <1>3, <1>5, <1>6, <1>7, StepOfOne DEF Sound

LEMMA ClientShutdownKeeps ==
  ASSUME ConstantsOK, IInv, NEW c \in Conns, ClientShutdown(c) PROVE IInv'
<1> USE DEF ClientShutdown, handler, shared
<1>0. Types /\ Sound(c)
  BY DEF IInv
<1>1. Types' /\ Apart(c)
  BY <1>0 DEF Types, Apart
<1>2. peer'[c] = "half"
  BY <1>0 DEF Types
<1>3. Bounded(c)' /\ Staged(c)' /\ at[c] # "none"
  BY <1>0, <1>2 DEF Sound, Bounded, Staged
<1>4. InFrame(c)' /\ InOrder(c)'
  BY <1>0, <1>3, FrameStays, OrderStays DEF Sound
<1> QED BY <1>1, <1>3, <1>4, StepOfOne DEF Sound

\* A client that is gone reads no more: what it has is still a first part.
LEMMA GoneKeeps ==
  ASSUME ConstantsOK, IInv, NEW c \in Conns, at[c] # "none",
         peer' = [peer EXCEPT ![c] = "gone"], back' = [back EXCEPT ![c] = <<>>],
         UNCHANGED <<input, sent, got, handler, up, shared>>
  PROVE  IInv'
<1> USE DEF handler, shared
<1>0. Types /\ Sound(c)
  BY DEF IInv
<1>1. /\ got[c] \in Bytes /\ back[c] \in Bytes /\ <<>> \in Bytes /\ Len(<<>>) = 0
      /\ executed[c] \in Seq(Done) /\ Window \in Nat
  BY <1>0, TypesAt, EmptySeq, ConstantsOK DEF Bytes, ConstantsOK
<1>2. Types' /\ Apart(c)
  BY <1>0, <1>1 DEF Types, Apart
<1>3. peer'[c] = "gone" /\ back'[c] = <<>>
  BY <1>0 DEF Types
<1>4. Bounded(c)' /\ Staged(c)'
  BY <1>0, <1>1, <1>3 DEF Sound, Bounded, Staged
<1>5. InFrame(c)'
  BY <1>0, FrameStays DEF Sound
<1>6. InOrder(c)'
  <2>1. IsPrefix(got[c] \o back[c], Said(executed[c]))
    BY <1>0 DEF Sound, InOrder
  <2>2. Said(executed[c]) \in Bytes
    <3>1. [line |-> <<>>, answer |-> 0] \in Done
      BY EmptySeq DEF Done
    <3> QED BY <1>1, <3>1, OneMoreSaid
  <2>3. IsPrefix(got[c], Said(executed[c]))
    BY <1>1, <2>1, <2>2, PrefixFacts DEF Bytes
  <2>4. got[c] \o <<>> = got[c]
    BY <1>1, ConcatEmptySeq DEF Bytes
  <2> QED BY <1>3, <2>3, <2>4 DEF InOrder
<1> QED BY <1>2, <1>4, <1>5, <1>6, StepOfOne DEF Sound

LEMMA ClientLeavesKeeps ==
  ASSUME ConstantsOK, IInv, NEW c \in Conns, ClientLeaves(c) \/ Reset(c) PROVE IInv'
<1>1. at[c] # "none"
  BY DEF IInv, Sound, Staged, ClientLeaves, Reset
<1>2. /\ peer' = [peer EXCEPT ![c] = "gone"] /\ back' = [back EXCEPT ![c] = <<>>]
      /\ UNCHANGED <<input, sent, got, handler, up, shared>>
  BY DEF ClientLeaves, Reset
<1> QED BY <1>1, <1>2, GoneKeeps

LEMMA AcceptKeeps ==
  ASSUME ConstantsOK, IInv, NEW c \in Conns, Accept(c) PROVE IInv'
<1> USE DEF Accept, shared
<1>0. Types /\ Sound(c)
  BY DEF IInv
<1>1. PICK bytes \in Inputs[c] : input' = [input EXCEPT ![c] = bytes]
  OBVIOUS
<1>2. bytes \in Seq(Byte) /\ Len(bytes) \in Nat
  <2>1. bytes \in Seq(Byte)
    BY ConstantsOK DEF ConstantsOK, Byte
  <2> QED BY <2>1, LenProperties
<1>3. Greeting \in Bytes
  BY NothingSaid
<1>4. Types' /\ Apart(c)
  BY <1>0, <1>1, <1>2, <1>3 DEF Types, Apart
<1>5. /\ at'[c] = "send" /\ peer'[c] = "open" /\ out'[c] = Greeting /\ input'[c] = bytes
  BY <1>0, <1>1 DEF Types
<1>6. /\ ~quit[c] /\ sent[c] = 0 /\ received[c] = 0 /\ buffer[c] = <<>>
      /\ executed[c] = <<>> /\ out[c] = <<>> /\ back[c] = <<>> /\ got[c] = <<>>
  BY <1>0 DEF Sound, Staged
<1>7. Bounded(c)' /\ Staged(c)'
  <2>1. Len(<<>>) = 0 /\ Window \in Nat
    BY ConstantsOK DEF ConstantsOK
  <2> QED BY <1>0, <1>2, <1>5, <1>6, <2>1 DEF Sound, Bounded, Staged
<1>8. InFrame(c)'
  <2>1. SubSeq(bytes, 1, 0) = <<>>
    BY SubSeqEmpty
  <2>2. Reading(bytes)[0] = Fresh
    BY <1>2, ReadingFacts
  <2>3. 0 - 0 = 0 /\ 0 - 0 + 1 = 1 /\ 0 <= 0 /\ Len(<<>>) = 0
    OBVIOUS
  <2>4. Framed(bytes, 0, <<>>, <<>>, FALSE)
    BY <2>1, <2>2, <2>3 DEF Framed, Fresh
  <2>5. quit[c] = FALSE
    BY <1>0, <1>6, TypesAt
  <2> QED BY <1>5, <1>6, <2>4, <2>5, NothingSaid DEF InFrame
<1>9. InOrder(c)'
  <2>1. <<>> \o <<>> = <<>> /\ <<>> \o Greeting = Greeting /\ <<>> \in Bytes
    BY <1>3, EmptySeq, ConcatEmptySeq DEF Bytes
  <2>2. IsPrefix(<<>>, Greeting)
    BY <1>3, <2>1, PrefixFacts DEF Bytes
  <2>3. Said(executed'[c]) = Greeting
    BY <1>6, NothingSaid
  <2>4. (got'[c] \o back'[c]) \o out'[c] = Greeting /\ got'[c] \o back'[c] = <<>>
    BY <1>5, <1>6, <2>1
  <2> QED BY <2>2, <2>3, <2>4 DEF InOrder
<1> QED BY <1>4, <1>7, <1>8, <1>9, StepOfOne DEF Sound

LEMMA RecvKeeps ==
  ASSUME ConstantsOK, IInv, NEW c \in Conns, Recv(c) PROVE IInv'
<1> DEFINE n == Smaller(Chunk, sent[c] - received[c])
           more == SubSeq(input[c], received[c] + 1, received[c] + n)
<1>0. /\ Types /\ Sound(c)
      /\ input[c] \in Seq(Byte) /\ Len(input[c]) \in Nat /\ buffer[c] \in Seq(Byte)
      /\ sent[c] \in Nat /\ received[c] \in Nat
  BY TypesAt, LenProperties DEF IInv
<1>1. n \in Nat /\ received[c] + n <= sent[c] /\ sent[c] <= Len(input[c])
  BY <1>0, ConstantsOK DEF ConstantsOK, Recv, Smaller, Sound, Bounded
<1>2. /\ received' = [received EXCEPT ![c] = received[c] + n]
      /\ buffer' = [buffer EXCEPT ![c] = buffer[c] \o more]
      /\ at' = [at EXCEPT ![c] = "lines"] /\ at[c] = "recv"
      /\ UNCHANGED <<client, out, quit, back, up, shared>>
  BY DEF Recv
<1> HIDE DEF n, more
<1>3. more \in Seq(Byte)
      /\ Framed(input[c], received[c] + n, buffer[c] \o more, LinesIn(executed[c]), quit[c])
  <2>1. Framed(input[c], received[c], buffer[c], LinesIn(executed[c]), quit[c])
    BY <1>0 DEF Sound, InFrame
  <2>2. received[c] + n <= Len(input[c])
    BY <1>0, <1>1
  <2> QED BY <1>0, <1>1, <2>1, <2>2, MoreIsFramed DEF more
<1>4. buffer[c] \o more \in Seq(Byte) /\ received[c] + n \in Nat
  BY <1>0, <1>1, <1>3, ConcatProperties
<1>5. Types' /\ Apart(c)
  BY <1>0, <1>2, <1>4 DEF Types, Apart, client, shared
<1>6. /\ received'[c] = received[c] + n /\ buffer'[c] = buffer[c] \o more /\ at'[c] = "lines"
      /\ UNCHANGED <<client, out, quit, back, shared>>
  BY <1>0, <1>2 DEF Types
<1>7. Bounded(c)' /\ Staged(c)'
  BY <1>0, <1>1, <1>2, <1>6 DEF Sound, Bounded, Staged, client, shared
<1>8. InFrame(c)'
  BY <1>3, <1>6 DEF InFrame, client, shared
<1>9. InOrder(c)'
  BY <1>0, <1>2, <1>6, OrderStays DEF Sound, client, shared
<1> QED BY <1>5, <1>7, <1>8, <1>9, StepOfOne DEF Sound

\* The handler goes on to its next call.
LEMMA MovesOn ==
  ASSUME ConstantsOK, IInv, NEW c \in Conns,
         RecvNothing(c) \/ NoLine(c) \/ SendDone(c)
  PROVE  IInv'
<1> USE DEF client, shared
<1>0. /\ Types /\ Sound(c)
      /\ buffer[c] \in Seq(Byte) /\ quit[c] \in BOOLEAN
  BY TypesAt DEF IInv
<1>1. PICK next \in {"recv", "lines", "closed"} : at' = [at EXCEPT ![c] = next]
  BY DEF RecvNothing, NoLine, SendDone, AfterLine
<1>2. UNCHANGED <<client, received, buffer, out, quit, back, up, shared>> /\ at[c] # "none"
  BY DEF RecvNothing, NoLine, SendDone
<1>3. at'[c] = next
  BY <1>0, <1>1 DEF Types
<1>4. Types' /\ Apart(c)
  BY <1>0, <1>1, <1>2 DEF Types, Apart
<1>5. Bounded(c)' /\ Staged(c)'
  <2>1. NL \in ToSet(buffer[c]) <=> Newline(buffer[c]) # 0
    BY <1>0, NewlineFacts
  <2>2. CASE RecvNothing(c)
    <3>1. at'[c] = "closed" /\ at[c] = "recv"
      BY <1>0, <2>2 DEF Types, RecvNothing
    <3> QED BY <1>0, <1>2, <3>1 DEF Sound, Bounded, Staged
  <2>3. CASE NoLine(c)
    <3>1. at'[c] = "recv" /\ at[c] = "lines" /\ NL \notin ToSet(buffer[c])
      BY <1>0, <2>1, <2>3 DEF Types, NoLine
    <3> QED BY <1>0, <1>2, <3>1 DEF Sound, Bounded, Staged
  <2>4. CASE SendDone(c)
    <3>1. at[c] = "send" /\ out[c] = <<>> /\ at'[c] = IF quit[c] THEN "closed" ELSE "lines"
      BY <1>0, <2>4 DEF Types, SendDone, AfterLine
    <3> QED BY <1>0, <1>2, <3>1 DEF Sound, Bounded, Staged
  <2> QED BY <2>2, <2>3, <2>4
<1>6. InFrame(c)' /\ InOrder(c)'
  BY <1>0, <1>2, FrameStays, OrderStays DEF Sound
<1> QED BY <1>4, <1>5, <1>6, StepOfOne DEF Sound

\* What TakeLine leaves is in frame, and the line is the reader's.
LEMMA LineTaken ==
  ASSUME ConstantsOK, IInv, NEW c \in Conns, at[c] = "lines", Newline(buffer[c]) > 0
  PROVE  LET rest == SubSeq(buffer[c], Newline(buffer[c]) + 1, Len(buffer[c]))
             lines == LinesIn(executed[c])
         IN  /\ FirstLine(c) \in Seq(Words) /\ rest \in Seq(Byte)
             /\ FirstLine(c) = <<>> => Framed(input[c], received[c], rest, lines, quit[c])
             /\ FirstLine(c) # <<>> =>
                  Framed(input[c], received[c], rest, Append(lines, FirstLine(c)),
                         Quitting(FirstLine(c)))
<1>0. /\ Types /\ Sound(c)
      /\ input[c] \in Seq(Byte) /\ Len(input[c]) \in Nat /\ buffer[c] \in Seq(Byte)
      /\ sent[c] \in Nat /\ received[c] \in Nat /\ quit[c] \in BOOLEAN
      /\ executed[c] \in Seq(Done)
  BY TypesAt, LenProperties DEF IInv
<1>1. received[c] \in 0 .. Len(input[c])
  BY <1>0 DEF Sound, Bounded
<1>2. quit[c] = FALSE
  BY <1>0 DEF Sound, Staged
<1>3. LinesIn(executed[c]) \in Seq(Seq(Words))
  <2>1. [line |-> <<>>, answer |-> 0] \in Done
    BY EmptySeq DEF Done
  <2> QED BY <1>0, <2>1, OneMoreSaid
<1>4. Framed(input[c], received[c], buffer[c], LinesIn(executed[c]), FALSE)
  BY <1>0, <1>2 DEF Sound, InFrame
<1> DEFINE in == input[c]
           rec == received[c]
           buf == buffer[c]
           all == LinesIn(executed[c])
<1>5. /\ in \in Seq(Byte) /\ rec \in 0 .. Len(in) /\ buf \in Seq(Byte)
      /\ Framed(in, rec, buf, all, FALSE) /\ all \in Seq(Seq(Words)) /\ Newline(buf) > 0
  BY <1>0, <1>1, <1>3, <1>4
<1> HIDE DEF in, rec, buf, all
<1>6. LET line == Kept(SubSeq(buf, 1, Newline(buf) - 1))
          rest == SubSeq(buf, Newline(buf) + 1, Len(buf))
      IN  /\ line \in Seq(Words) /\ rest \in Seq(Byte)
          /\ line = <<>> => Framed(in, rec, rest, all, FALSE)
          /\ line # <<>> => Framed(in, rec, rest, Append(all, line), line \in Quits)
  BY ConstantsOK, <1>5, LineIsFramed
<1>7. FirstLine(c) = Kept(SubSeq(buf, 1, Newline(buf) - 1))
  BY DEF FirstLine, buf
<1> QED BY <1>2, <1>6, <1>7 DEF in, rec, buf, all, Quitting

LEMMA BlankLineKeeps ==
  ASSUME ConstantsOK, IInv, NEW c \in Conns, BlankLine(c) PROVE IInv'
<1> USE DEF client, shared
<1> DEFINE rest == SubSeq(buffer[c], Newline(buffer[c]) + 1, Len(buffer[c]))
<1>0. Types /\ Sound(c)
  BY DEF IInv
<1>1. /\ at[c] = "lines" /\ Newline(buffer[c]) > 0 /\ FirstLine(c) = <<>>
      /\ buffer' = [buffer EXCEPT ![c] = rest]
      /\ UNCHANGED <<client, received, at, out, quit, back, up, shared>>
  BY DEF BlankLine, TakeLine
<1>2. rest \in Seq(Byte) /\ Framed(input[c], received[c], rest, LinesIn(executed[c]), quit[c])
  BY <1>1, LineTaken
<1> HIDE DEF rest
<1>3. Types' /\ Apart(c) /\ buffer'[c] = rest
  BY <1>0, <1>1, <1>2 DEF Types, Apart
<1>4. Bounded(c)' /\ Staged(c)'
  BY <1>0, <1>1, <1>3 DEF Sound, Bounded, Staged
<1>5. InFrame(c)'
  BY <1>1, <1>2, <1>3 DEF InFrame
<1>6. InOrder(c)'
  BY <1>0, <1>1, OrderStays DEF Sound
<1> QED BY <1>3, <1>4, <1>5, <1>6, StepOfOne DEF Sound

LEMMA ExecuteKeeps ==
  ASSUME ConstantsOK, IInv, NEW c \in Conns, Execute(c) PROVE IInv'
<1> USE DEF client
<1> DEFINE rest == SubSeq(buffer[c], Newline(buffer[c]) + 1, Len(buffer[c]))
           line == FirstLine(c)
           x == [line |-> line, answer |-> served + 1]
           more == Append(executed[c], x)
           reply == Reply(served + 1)
           over == Quitting(line)
<1>0. /\ Types /\ Sound(c)
      /\ executed[c] \in Seq(Done) /\ got[c] \in Bytes /\ back[c] \in Bytes /\ out[c] \in Bytes
      /\ served \in Nat
  BY TypesAt DEF IInv, Types
<1>1. /\ at[c] = "lines" /\ Newline(buffer[c]) > 0 /\ line # <<>>
      /\ buffer' = [buffer EXCEPT ![c] = rest] /\ served' = served + 1
      /\ executed' = [executed EXCEPT ![c] = more] /\ out' = [out EXCEPT ![c] = reply]
      /\ quit' = [quit EXCEPT ![c] = over] /\ at' = [at EXCEPT ![c] = "send"]
      /\ UNCHANGED <<client, received, back, up>>
  BY DEF Execute, TakeLine
<1>2. /\ line \in Seq(Words) /\ rest \in Seq(Byte)
      /\ Framed(input[c], received[c], rest, Append(LinesIn(executed[c]), line), over)
  BY <1>1, LineTaken
<1>3. over \in BOOLEAN
  BY DEF Quitting
<1>4. x \in Done /\ x.line = line /\ x.answer = served + 1 /\ served + 1 \in Nat
  BY <1>0, <1>2 DEF Done
<1> HIDE DEF rest, line, x, over
<1>5. /\ Said(executed[c]) \in Bytes /\ reply \in Bytes
      /\ LinesIn(more) = Append(LinesIn(executed[c]), line)
      /\ Said(more) = Said(executed[c]) \o reply
  BY <1>0, <1>4, OneMoreSaid
<1>6. more \in Seq(Done)
  BY <1>0, <1>4, AppendProperties
<1> HIDE DEF more, reply
<1>7. Types' /\ Apart(c)
  BY <1>0, <1>1, <1>2, <1>3, <1>4, <1>5, <1>6 DEF Types, Apart
<1>8. /\ buffer'[c] = rest /\ executed'[c] = more /\ out'[c] = reply /\ quit'[c] = over
      /\ at'[c] = "send"
  BY <1>0, <1>1 DEF Types
<1>9. Bounded(c)' /\ Staged(c)'
  BY <1>0, <1>1, <1>8 DEF Sound, Bounded, Staged
<1>10. InFrame(c)'
  BY <1>1, <1>2, <1>5, <1>8 DEF InFrame
<1>11. InOrder(c)'
  <2> DEFINE g == got[c] \o back[c]
             said == Said(executed[c])
  <2>1. g \in Bytes /\ g \o <<>> = g
    BY <1>0, ConcatProperties, ConcatEmptySeq DEF Bytes
  <2>2. IsPrefix(g, said) /\ (peer[c] # "gone" => g = said)
    <3>1. IsPrefix(g, said) /\ (peer[c] # "gone" => g \o out[c] = said)
      BY <1>0, <1>1 DEF Sound, InOrder
    <3>2. peer[c] # "gone" => out[c] = <<>>
      BY <1>0, <1>1 DEF Sound, Bounded
    <3> QED BY <2>1, <3>1, <3>2
  <2>3. g = got'[c] \o back'[c] /\ Said(executed'[c]) = said \o reply
    BY <1>1, <1>5, <1>8
  <2>4. said \in Bytes
    BY <1>5
  <2> HIDE DEF g, said
  <2>5. IsPrefix(said, said \o reply) /\ said \o reply \in Bytes
    BY <1>5, <2>4, PrefixFacts, ConcatProperties DEF Bytes
  <2>6. IsPrefix(g, said \o reply)
    BY <2>1, <2>2, <2>4, <2>5, PrefixFacts DEF Bytes
  <2> QED BY <1>1, <1>8, <2>2, <2>3, <2>6 DEF InOrder
<1> QED BY <1>7, <1>9, <1>10, <1>11, StepOfOne DEF Sound

\* send takes a first part of the response; the rest stays to be sent.
LEMMA SendKeeps ==
  ASSUME ConstantsOK, IInv, NEW c \in Conns, Send(c) PROVE IInv'
<1> USE DEF client, shared
<1>0. /\ Types /\ Sound(c)
      /\ executed[c] \in Seq(Done) /\ got[c] \in Bytes /\ back[c] \in Bytes /\ out[c] \in Bytes
      /\ Window \in Nat
  BY TypesAt, ConstantsOK DEF IInv, ConstantsOK
<1>1. PICK n \in 1 .. Smaller(Len(out[c]), Window - Len(back[c])) :
        /\ back' = [back EXCEPT ![c] = back[c] \o SubSeq(out[c], 1, n)]
        /\ out' = [out EXCEPT ![c] = SubSeq(out[c], n + 1, Len(out[c]))]
  BY DEF Send
<1>2. /\ at[c] = "send" /\ peer[c] # "gone"
      /\ UNCHANGED <<client, received, at, buffer, quit, up, shared>>
  BY DEF Send
<1> DEFINE a == SubSeq(out[c], 1, n)
           b == SubSeq(out[c], n + 1, Len(out[c]))
<1>3. Len(out[c]) \in Nat /\ Len(back[c]) \in Nat /\ Len(back[c]) <= Window
  <2>1. Len(back[c]) <= Window
    BY <1>0 DEF Sound, Bounded
  <2> QED BY <1>0, <2>1, LenProperties DEF Bytes
<1>4. n \in Nat /\ n >= 1 /\ n <= Len(out[c]) /\ Len(back[c]) + n <= Window
  BY <1>0, <1>3 DEF Smaller
<1>5. a \in Bytes /\ b \in Bytes /\ Len(a) = n /\ a \o b = out[c]
  <2> DEFINE m == Len(out[c]) - n
             B == Nat \cup {NL}
  <2>1. /\ m \in Nat /\ n + m = Len(out[c]) /\ 0 + n = n /\ 0 + 1 = 1 /\ 0 + n <= Len(out[c])
    BY <1>3, <1>4
  <2>2. out[c] \in Seq(B) /\ Bytes = Seq(B)
    BY <1>0 DEF Bytes
  <2> HIDE DEF B, m
  <2>3. SubSeq(out[c], 0 + 1, 0 + n) \in Seq(B) /\ Len(SubSeq(out[c], 0 + 1, 0 + n)) = n
    BY <1>4, <2>1, <2>2, PartFacts
  <2>4. SubSeq(out[c], n + 1, n + m) \in Seq(B)
    BY <1>4, <2>1, <2>2, PartFacts
  <2>5. a \o b = SubSeq(out[c], 1, Len(out[c]))
    <3>1. /\ 1 \in 1 .. Len(out[c]) + 1 /\ n \in 1 - 1 .. Len(out[c])
          /\ Len(out[c]) \in n .. Len(out[c])
      BY <1>3, <1>4
    <3> QED BY <1>0, <3>1, ConcatAdjacentSubSeq DEF Bytes
  <2>6. SubSeq(out[c], 1, Len(out[c])) = out[c]
    BY <1>0, SubSeqFull DEF Bytes
  <2>7. a = SubSeq(out[c], 0 + 1, 0 + n) /\ b = SubSeq(out[c], n + 1, n + m)
    BY <2>1
  <2> HIDE DEF a, b
  <2> QED BY <2>2, <2>3, <2>4, <2>5, <2>6, <2>7
<1> HIDE DEF a, b
<1>6. back[c] \o a \in Bytes /\ Len(back[c] \o a) = Len(back[c]) + n
  BY <1>0, <1>5, BytesFacts, Zenon
<1>7. /\ back' = [back EXCEPT ![c] = back[c] \o a] /\ out' = [out EXCEPT ![c] = b]
  BY <1>1 DEF a, b
<1>8. Types' /\ Apart(c) /\ back'[c] = back[c] \o a /\ out'[c] = b
  BY <1>0, <1>2, <1>5, <1>6, <1>7 DEF Types, Apart
<1>9. Bounded(c)' /\ Staged(c)'
  BY <1>0, <1>2, <1>4, <1>6, <1>8 DEF Sound, Bounded, Staged
<1>10. InFrame(c)'
  BY <1>0, <1>2, FrameStays DEF Sound
<1>11. InOrder(c)'
  <2> DEFINE g == got[c]
             k == back[c]
  <2>1. g \in Bytes /\ k \in Bytes /\ a \in Bytes /\ b \in Bytes
    BY <1>0, <1>5
  <2>2. (g \o k) \o (a \o b) = Said(executed[c])
    BY <1>0, <1>2, <1>5 DEF Sound, InOrder
  <2>3. got'[c] = g /\ back'[c] = k \o a /\ out'[c] = b /\ executed'[c] = executed[c]
    BY <1>2, <1>8
  <2> HIDE DEF g, k
  <2>4. /\ (g \o (k \o a)) \o b = (g \o k) \o (a \o b)
        /\ IsPrefix(g \o (k \o a), (g \o k) \o (a \o b))
    BY <2>1, OrderOfParts
  <2> QED BY <2>2, <2>3, <2>4 DEF InOrder
<1> QED BY <1>8, <1>9, <1>10, <1>11, StepOfOne DEF Sound

LEMMA SendInVainKeeps ==
  ASSUME ConstantsOK, IInv, NEW c \in Conns, SendInVain(c) PROVE IInv'
<1> USE DEF client, shared
<1>0. Types /\ Sound(c) /\ <<>> \in Bytes
  BY EmptySeq DEF IInv, Bytes
<1>1. /\ at[c] = "send" /\ peer[c] = "gone"
      /\ UNCHANGED <<client, received, buffer, quit, back, up, shared>>
  BY DEF SendInVain
<1>2. CASE out' = [out EXCEPT ![c] = <<>>] /\ UNCHANGED at
  <2>1. Types' /\ Apart(c) /\ out'[c] = <<>>
    BY <1>0, <1>1, <1>2 DEF Types, Apart
  <2>2. Bounded(c)' /\ Staged(c)' /\ InOrder(c)'
    BY <1>0, <1>1, <1>2, <2>1 DEF Sound, Bounded, Staged, InOrder
  <2>3. InFrame(c)'
    BY <1>0, <1>1, FrameStays DEF Sound
  <2> QED BY <2>1, <2>2, <2>3, StepOfOne DEF Sound
<1>3. CASE at' = [at EXCEPT ![c] = "closed"] /\ UNCHANGED out
  <2>1. Types' /\ Apart(c) /\ at'[c] = "closed"
    BY <1>0, <1>1, <1>3 DEF Types, Apart
  <2>2. Bounded(c)' /\ Staged(c)' /\ InOrder(c)'
    BY <1>0, <1>1, <1>3, <2>1 DEF Sound, Bounded, Staged, InOrder
  <2>3. InFrame(c)'
    BY <1>0, <1>1, FrameStays DEF Sound
  <2> QED BY <2>1, <2>2, <2>3, StepOfOne DEF Sound
<1> QED BY <1>2, <1>3 DEF SendInVain

LEMMA NothingMoves ==
  ASSUME IInv, UNCHANGED <<client, handler, back, shared>>, up' \in BOOLEAN PROVE IInv'
<1> USE DEF client, handler, shared
<1>1. Types'
  BY DEF IInv, Types
<1>2. ASSUME NEW c \in Conns PROVE Sound(c)'
  <2>1. Sound(c)
    BY DEF IInv
  <2> QED BY <2>1 DEF Sound, Bounded, Staged, InFrame, InOrder
<1> QED BY <1>1, <1>2 DEF IInv

-----------------------------------------------------------------------------
(* The theorems *)

LEMMA NextKeeps == ConstantsOK /\ IInv /\ [Next]_vars => IInv'
<1> SUFFICES ASSUME ConstantsOK, IInv, [Next]_vars PROVE IInv'
  OBVIOUS
<1>1. CASE UNCHANGED vars
  BY <1>1, NothingMoves DEF vars, IInv, Types
<1>2. ASSUME NEW c \in Conns,
             \/ Accept(c) \/ Handle(c) \/ Signal(c)
             \/ ClientSend(c) \/ ClientRead(c) \/ ClientShutdown(c) \/ ClientLeaves(c) \/ Reset(c)
      PROVE  IInv'
  <2>1. Handle(c) => IInv'
    BY RecvKeeps, MovesOn, BlankLineKeeps, ExecuteKeeps, SendKeeps, SendInVainKeeps DEF Handle
  <2>2. Signal(c) => IInv'
    BY NothingMoves DEF Signal
  <2> QED BY <1>2, <2>1, <2>2, AcceptKeeps, ClientSendKeeps, ClientReadKeeps,
             ClientShutdownKeeps, ClientLeavesKeeps
<1> QED BY <1>1, <1>2 DEF Next

\* What holds of every session: the lines a handler executes are those of a
\* reader of single bytes, its waiting for more means there is none left, and
\* each client reads the answers to its own lines in their order, however the
\* bytes fell into chunks and the answers into sends (handle_client).
THEOREM InvariantHolds == Spec => []IInv
<1>1. IInv /\ [Next]_vars => IInv'
  BY ConstantsOK, NextKeeps
<1>2. Init => IInv
  BY ConstantsOK, Initially
<1> QED BY <1>1, <1>2, PTL DEF Spec

\* The lines executed are the lines sent, whatever the chunks were
\* (the two loops of handle_client).
THEOREM LinesHold == Spec => [](TypeOK /\ LinesAreFramed)
<1>1. IInv => TypeOK /\ LinesAreFramed
  BY ConstantsOK, InvariantMeans
<1> QED BY <1>1, InvariantHolds, PTL

\* A client reads the answers to its own lines, in order and whole
\* (send_all and handle_client).
THEOREM AnswersHold == Spec => []AnswersInOrder
<1>1. IInv => AnswersInOrder
  BY ConstantsOK, InvariantMeans
<1> QED BY <1>1, InvariantHolds, PTL
====
