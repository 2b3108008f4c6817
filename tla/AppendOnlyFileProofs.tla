-------------------------- MODULE AppendOnlyFileProofs --------------------------
(***************************************************************************)
(* Proofs about the append-only file, for any number of lines, lives and   *)
(* failures.                                                               *)
(*                                                                         *)
(* The invariants are not inductive: that nothing is lost which is not in  *)
(* lost needs that no line is twice in the log (NoLineTwice), the bound on *)
(* the damage needs the part of a line that will spoil the next one        *)
(* (DamageIsPaidFor), and the drain needs the order of the flag and the    *)
(* last look at the queue (DrainsOnce).  The step lemmas say once what an  *)
(* action does to the log; the invariant and the refinement of DurableLog  *)
(* both rest on them.                                                      *)
(***************************************************************************)
EXTENDS AppendOnlyFile, SequenceTheorems, FiniteSetTheorems, TLAPS

-----------------------------------------------------------------------------
(* Sequences *)

\* What is appended to the first of two sequences may as well lead the second.
LEMMA AppendThenConcat ==
  ASSUME NEW S, NEW a \in Seq(S), NEW x \in S, NEW b \in Seq(S)
  PROVE  Append(a, x) \o b = a \o (<<x>> \o b)
<1>1. <<x>> \in Seq(S)
  OBVIOUS
<1>2. Append(a, x) = a \o <<x>>
  BY AppendIsConcat
<1> QED BY <1>1, <1>2, ConcatAssociative

\* A sequence is its head and its tail.
LEMMA HeadAndTail ==
  ASSUME NEW S, NEW a \in Seq(S), a # <<>>
  PROVE  /\ Head(a) \in S /\ Tail(a) \in Seq(S)
         /\ a = <<Head(a)>> \o Tail(a)
<1>1. /\ Head(a) \in S /\ Tail(a) \in Seq(S) /\ Len(Tail(a)) = Len(a) - 1
      /\ \A i \in 1 .. Len(Tail(a)) : Tail(a)[i] = a[i + 1]
      /\ Len(a) \in Nat \ {0} /\ Head(a) = a[1]
  BY HeadTailProperties, EmptySeq
<1>2. <<Head(a)>> \in Seq(S) /\ Len(<<Head(a)>>) = 1 /\ <<Head(a)>>[1] = Head(a)
  BY <1>1
<1> DEFINE h == <<Head(a)>>
           t == Tail(a)
<1> HIDE DEF h, t
<1>3. /\ h \o t \in Seq(S) /\ Len(h \o t) = Len(a)
      /\ \A i \in 1 .. Len(a) : (h \o t)[i] = IF i <= 1 THEN h[i] ELSE t[i - 1]
  BY <1>1, <1>2, ConcatProperties DEF h, t
<1>4. ASSUME NEW i \in 1 .. Len(a) PROVE (h \o t)[i] = a[i]
  <2>1. CASE i = 1
    BY <2>1, <1>1, <1>2, <1>3 DEF h
  <2>2. CASE i # 1
    <3>1. i - 1 \in 1 .. Len(t) /\ (i - 1) + 1 = i /\ ~(i <= 1)
      BY <2>2, <1>1 DEF t
    <3> QED BY <3>1, <1>1, <1>3 DEF t
  <2> QED BY <2>1, <2>2
<1>5. h \o t = a
  BY <1>3, <1>4, SeqEqual
<1> QED BY <1>1, <1>5 DEF h, t

\* The head of the second sequence may as well end the first.
LEMMA HeadMovesOver ==
  ASSUME NEW S, NEW a \in Seq(S), NEW b \in Seq(S), b # <<>>
  PROVE  Append(a, Head(b)) \o Tail(b) = a \o b
BY HeadAndTail, AppendThenConcat

\* The two parts of a concatenation can be had back.
LEMMA PartsOfConcat ==
  ASSUME NEW S, NEW a \in Seq(S), NEW b \in Seq(S)
  PROVE  /\ SubSeq(a \o b, 1, Len(a)) = a
         /\ SubSeq(a \o b, Len(a) + 1, Len(a \o b)) = b
<1> DEFINE c == a \o b
<1>1. /\ c \in Seq(S) /\ Len(c) = Len(a) + Len(b)
      /\ \A i \in 1 .. Len(a) + Len(b) : c[i] = IF i <= Len(a) THEN a[i] ELSE b[i - Len(a)]
      /\ Len(a) \in Nat /\ Len(b) \in Nat
  BY ConcatProperties, LenProperties
<1> HIDE DEF c
<1>2. \A i \in 1 .. Len(c) : c[i] \in S
  BY <1>1, ElementOfSeq
<1> DEFINE p == SubSeq(c, 1, Len(a))
           q == SubSeq(c, Len(a) + 1, Len(c))
<1>3. /\ p \in Seq(S) /\ Len(p) = Len(a)
      /\ \A i \in 1 .. Len(a) : p[i] = c[i]
  <2>1. \A i \in 1 .. Len(a) : c[i] \in S
    BY <1>1, <1>2
  <2>2. /\ p \in Seq(S) /\ Len(p) = IF 1 <= Len(a) THEN Len(a) - 1 + 1 ELSE 0
        /\ \A i \in 1 .. Len(a) - 1 + 1 : p[i] = c[1 + i - 1]
    BY <1>1, <2>1, SubSeqProperties
  <2> HIDE DEF p
  <2> QED BY <1>1, <2>2
<1>4. /\ q \in Seq(S) /\ Len(q) = Len(b)
      /\ \A i \in 1 .. Len(b) : q[i] = c[Len(a) + i]
  <2>1. \A i \in Len(a) + 1 .. Len(c) : c[i] \in S
    BY <1>1, <1>2
  <2>2. /\ q \in Seq(S)
        /\ Len(q) = IF Len(a) + 1 <= Len(c) THEN Len(c) - (Len(a) + 1) + 1 ELSE 0
        /\ \A i \in 1 .. Len(c) - (Len(a) + 1) + 1 : q[i] = c[(Len(a) + 1) + i - 1]
    BY <1>1, <2>1, SubSeqProperties
  <2>3. /\ Len(c) - (Len(a) + 1) + 1 = Len(b) /\ (~(Len(a) + 1 <= Len(c)) => Len(b) = 0)
        /\ \A i \in 1 .. Len(b) : (Len(a) + 1) + i - 1 = Len(a) + i
    BY <1>1
  <2> HIDE DEF q
  <2>4. Len(q) = Len(b)
    BY <2>2, <2>3
  <2>5. \A i \in 1 .. Len(b) : q[i] = c[Len(a) + i]
    BY <2>2, <2>3
  <2> QED BY <2>2, <2>4, <2>5
<1> HIDE DEF p, q
<1>5. p = a
  BY <1>1, <1>3, SeqEqual
<1>6. q = b
  <2>1. ASSUME NEW i \in 1 .. Len(b) PROVE q[i] = b[i]
    <3>1. /\ Len(a) + i \in 1 .. Len(a) + Len(b)
          /\ ~(Len(a) + i <= Len(a)) /\ (Len(a) + i) - Len(a) = i
      BY <1>1
    <3> QED BY <3>1, <1>1, <1>4
  <2> QED BY <1>4, <2>1, SeqEqual
<1> QED BY <1>5, <1>6 DEF p, q, c

\* The elements of a concatenation are those of its parts; an appended one is
\* one more.
LEMMA ElementsOfConcat ==
  ASSUME NEW S, NEW a \in Seq(S), NEW b \in Seq(S)
  PROVE  ToSet(a \o b) = ToSet(a) \cup ToSet(b)
<1>1. ToSet(a \o b) = Range(a \o b) /\ ToSet(a) = Range(a) /\ ToSet(b) = Range(b)
  BY DEF ToSet, Range
<1> QED BY <1>1, RangeConcatenation

\* No element of a concatenation without doubles is in both parts.
LEMMA PartsAreDistinct ==
  ASSUME NEW S, NEW a \in Seq(S), NEW b \in Seq(S)
  PROVE  IsInjective(a \o b) <=>
           IsInjective(a) /\ IsInjective(b) /\ ToSet(a) \cap ToSet(b) = {}
<1> DEFINE c == a \o b
<1>1. /\ DOMAIN c = 1 .. Len(a) + Len(b) /\ DOMAIN a = 1 .. Len(a) /\ DOMAIN b = 1 .. Len(b)
      /\ \A i \in 1 .. Len(a) + Len(b) : c[i] = IF i <= Len(a) THEN a[i] ELSE b[i - Len(a)]
      /\ Len(a) \in Nat /\ Len(b) \in Nat
  BY ConcatProperties, LenProperties
<1> HIDE DEF c
<1>2. /\ \A i \in 1 .. Len(a) : i \in 1 .. Len(a) + Len(b) /\ c[i] = a[i]
      /\ \A i \in 1 .. Len(b) :
           Len(a) + i \in 1 .. Len(a) + Len(b) /\ c[Len(a) + i] = b[i]
  BY <1>1
<1>3. ASSUME IsInjective(c)
      PROVE  IsInjective(a) /\ IsInjective(b) /\ ToSet(a) \cap ToSet(b) = {}
  <2>1. \A i, j \in 1 .. Len(a) + Len(b) : c[i] = c[j] => i = j
    BY <1>1, <1>3 DEF IsInjective
  <2>2. IsInjective(a)
    <3> SUFFICES ASSUME NEW i \in 1 .. Len(a), NEW j \in 1 .. Len(a), a[i] = a[j] PROVE i = j
      BY <1>1 DEF IsInjective
    <3> QED BY <2>1, <1>2
  <2>3. IsInjective(b)
    <3> SUFFICES ASSUME NEW i \in 1 .. Len(b), NEW j \in 1 .. Len(b), b[i] = b[j] PROVE i = j
      BY <1>1 DEF IsInjective
    <3>1. Len(a) + i = Len(a) + j
      BY <2>1, <1>2
    <3> QED BY <3>1, <1>1
  <2>4. ASSUME NEW i \in 1 .. Len(a), NEW j \in 1 .. Len(b), a[i] = b[j] PROVE FALSE
    <3>1. i = Len(a) + j
      BY <2>1, <1>2, <2>4
    <3> QED BY <3>1, <1>1
  <2> QED BY <2>2, <2>3, <2>4, <1>1 DEF ToSet
<1>4. ASSUME IsInjective(a), IsInjective(b), ToSet(a) \cap ToSet(b) = {}
      PROVE  IsInjective(c)
  <2> SUFFICES ASSUME NEW i \in 1 .. Len(a) + Len(b), NEW j \in 1 .. Len(a) + Len(b),
                      c[i] = c[j]
               PROVE  i = j
    BY <1>1 DEF IsInjective
  <2>1. \A m \in 1 .. Len(a) : \A n \in 1 .. Len(b) : a[m] # b[n]
    BY <1>1, <1>4 DEF ToSet
  <2>2. CASE i <= Len(a) /\ j <= Len(a)
    <3>1. i \in 1 .. Len(a) /\ j \in 1 .. Len(a) /\ a[i] = a[j]
      BY <2>2, <1>1
    <3> QED BY <3>1, <1>4, <1>1 DEF IsInjective
  <2>3. CASE ~(i <= Len(a)) /\ ~(j <= Len(a))
    <3>1. /\ i - Len(a) \in 1 .. Len(b) /\ j - Len(a) \in 1 .. Len(b)
          /\ b[i - Len(a)] = b[j - Len(a)]
      BY <2>3, <1>1
    <3>2. i - Len(a) = j - Len(a)
      BY <3>1, <1>4, <1>1 DEF IsInjective
    <3> QED BY <3>2, <1>1
  <2>4. CASE i <= Len(a) /\ ~(j <= Len(a))
    <3>1. i \in 1 .. Len(a) /\ j - Len(a) \in 1 .. Len(b) /\ a[i] = b[j - Len(a)]
      BY <2>4, <1>1
    <3> QED BY <3>1, <2>1
  <2>5. CASE ~(i <= Len(a)) /\ j <= Len(a)
    <3>1. j \in 1 .. Len(a) /\ i - Len(a) \in 1 .. Len(b) /\ a[j] = b[i - Len(a)]
      BY <2>5, <1>1
    <3> QED BY <3>1, <2>1
  <2> QED BY <2>2, <2>3, <2>4, <2>5
<1> QED BY <1>3, <1>4 DEF c

-----------------------------------------------------------------------------
(* The invariant *)

\* No line is in the log twice.
NoLineTwice == IsInjective(Log)

\* A stream that has failed holds nothing.
FailedStreamIsEmpty == bad => stream = <<>>

\* Once it drains the worker is to stop, and with what it took then the queue
\* is empty for good.
DrainsOnce ==
  /\ w \in {"drain", "final", "drained"} => stop
  /\ w \in {"final", "drained"} => queue = <<>>

Broken == {i \in DOMAIN file : ~file[i].whole}

\* The file ends in a part of a line that nobody is about to complete.
Dangling == tail # <<>> /\ ~(stream # <<>> /\ tail = <<Head(stream)>>)

\* A crash or a failed write pays for each line that is broken, and for the
\* one that the unfinished part at the end of the file is going to break.
DamageIsPaidFor ==
  Cardinality(Broken) + (IF Dangling THEN 1 ELSE 0) <= incidents

\* The inductive invariant.
IInv == /\ TypeOK /\ LogIsComplete /\ NoLineTwice
        /\ FailedStreamIsEmpty /\ DrainsOnce /\ DamageIsPaidFor

-----------------------------------------------------------------------------
(* What each step does to the log *)

\* The log is the file's lines, then the stream, the batch and the queue.
LEMMA LogParts ==
  ASSUME TypeOK
  PROVE  /\ Lines \in Seq(Nat) /\ Len(Lines) = Len(file) /\ Len(file) \in Nat
         /\ batch \o queue \in Seq(Nat)
         /\ InMemory \in Seq(Nat) /\ InMemory = stream \o (batch \o queue)
         /\ ToSet(Lines) = {file[i].line : i \in DOMAIN file}
<1>1. /\ file \in Seq([line : Nat, whole : BOOLEAN])
      /\ queue \in Seq(Nat) /\ batch \in Seq(Nat) /\ stream \in Seq(Nat)
  BY DEF TypeOK
<1>2. /\ DOMAIN file = 1 .. Len(file) /\ Len(file) \in Nat
      /\ \A i \in 1 .. Len(file) : file[i].line \in Nat
  <2> DEFINE E == [line : Nat, whole : BOOLEAN]
  <2>1. \A e \in E : e.line \in Nat
    OBVIOUS
  <2>2. file \in Seq(E)
    BY <1>1
  <2> HIDE DEF E
  <2>3. \A i \in 1 .. Len(file) : file[i] \in E
    BY <2>2, ElementOfSeq
  <2> QED BY <2>1, <2>2, <2>3, LenProperties
<1>3. Lines = [i \in 1 .. Len(file) |-> file[i].line]
  BY <1>2 DEF Lines
<1>4. Lines \in [1 .. Len(file) -> Nat] /\ DOMAIN Lines = 1 .. Len(file)
  BY <1>2, <1>3
<1>5. Lines \in Seq(Nat)
  BY <1>2, <1>4, SeqDef
<1>6. Len(Lines) = Len(file)
  BY <1>2, <1>4, <1>5, LenProperties
<1>7. ToSet(Lines) = {file[i].line : i \in DOMAIN file}
  BY <1>2, <1>3, <1>4 DEF ToSet
<1>8. batch \o queue \in Seq(Nat) /\ stream \o batch \in Seq(Nat)
  BY <1>1, ConcatProperties
<1>9. InMemory \in Seq(Nat)
  BY <1>1, <1>8, ConcatProperties DEF InMemory
<1>10. InMemory = stream \o (batch \o queue)
  BY <1>1, ConcatAssociative DEF InMemory
<1> QED BY <1>2, <1>5, <1>6, <1>7, <1>8, <1>9, <1>10

\* enqueue_line adds one line at the end.
LEMMA RecordStep ==
  ASSUME TypeOK, Record
  PROVE  Log' = Append(Log, recorded + 1) /\ Lines' = Lines
<1>1. /\ queue' = Append(queue, recorded + 1) /\ recorded + 1 \in Nat
      /\ UNCHANGED <<batch, stream, file>>
  BY DEF Record, TypeOK, disk
<1>2. queue \in Seq(Nat) /\ batch \in Seq(Nat) /\ stream \in Seq(Nat)
  BY DEF TypeOK
<1>3. Lines \in Seq(Nat) /\ Lines' = Lines /\ InMemory \in Seq(Nat)
  BY <1>1, LogParts DEF Lines
<1> DEFINE x == <<recorded + 1>>
<1>4. x \in Seq(Nat) /\ queue' = queue \o x
  BY <1>1, <1>2, AppendIsConcat
<1> HIDE DEF x
<1>5. stream \o batch \in Seq(Nat)
  BY <1>2, ConcatProperties
<1>6. InMemory' = InMemory \o x
  <2> DEFINE old == stream \o batch
  <2>1. InMemory' = old \o (queue \o x)
    BY <1>1, <1>4 DEF InMemory
  <2>2. x \in Seq(Nat) /\ queue \in Seq(Nat) /\ old \in Seq(Nat) /\ InMemory = old \o queue
    BY <1>2, <1>4, <1>5 DEF InMemory
  <2> HIDE DEF old
  <2>3. (old \o queue) \o x = old \o (queue \o x)
    BY <2>2, ConcatAssociative
  <2> QED BY <2>1, <2>2, <2>3
<1>7. Log' = Log \o x /\ Log \in Seq(Nat)
  <2>1. Log' = Lines \o (InMemory \o x)
    BY <1>3, <1>6 DEF Log
  <2>2. (Lines \o InMemory) \o x = Lines \o (InMemory \o x)
    BY <1>3, <1>4, ConcatAssociative
  <2>3. Lines \o InMemory \in Seq(Nat)
    BY <1>3, ConcatProperties
  <2> QED BY <2>1, <2>2, <2>3 DEF Log
<1>8. Append(Log, recorded + 1) = Log \o x
  BY <1>1, <1>7, AppendIsConcat DEF x
<1> QED BY <1>3, <1>7, <1>8

\* Taking what is queued, and handing a batch to the stream, move lines within
\* the memory.
LEMMA MoveInMemory ==
  ASSUME TypeOK, Look \/ TimedOut \/ Drain \/ (WriteLine /\ ~bad)
  PROVE  InMemory' = InMemory /\ UNCHANGED <<file, recorded, lost>>
<1>0. UNCHANGED <<file, recorded, lost>>
  BY DEF Look, TimedOut, Drain, WriteLine, disk, history
<1>1. queue \in Seq(Nat) /\ batch \in Seq(Nat) /\ stream \in Seq(Nat)
  BY DEF TypeOK
<1>2. CASE TakeAll /\ UNCHANGED stream
  <2>1. batch' = batch \o queue /\ queue' = <<>> /\ stream' = stream
    BY <1>2 DEF TakeAll
  <2>2. batch \o queue \in Seq(Nat) /\ stream \o (batch \o queue) \in Seq(Nat)
    BY <1>1, ConcatProperties
  <2>3. InMemory' = stream \o (batch \o queue)
    BY <2>1, <2>2, ConcatEmptySeq DEF InMemory
  <2> QED BY <1>0, <2>3, LogParts
<1>3. CASE WriteLine /\ ~bad
  <2>1. /\ batch # <<>> /\ batch' = Tail(batch)
        /\ stream' = Append(stream, Head(batch)) /\ queue' = queue
    BY <1>3 DEF WriteLine
  <2>2. stream' \o batch' = stream \o batch
    BY <1>1, <2>1, HeadMovesOver
  <2> QED BY <1>0, <2>1, <2>2 DEF InMemory
<1>4. CASE UNCHANGED <<queue, batch, stream>>
  BY <1>0, <1>4 DEF InMemory
<1>5. CASE Look
  BY <1>0, <1>2, <1>4, <1>5 DEF Look
<1>6. CASE TimedOut
  BY <1>0, <1>2, <1>6 DEF TimedOut
<1>7. CASE Drain
  BY <1>0, <1>2, <1>7 DEF Drain
<1> QED BY <1>0, <1>3, <1>5, <1>6, <1>7

\* It does not matter where the lines are put together first.
LEMMA InOneRow ==
  ASSUME NEW s \in Seq(Nat), NEW t \in Seq(Nat), NEW u \in Seq(Nat)
  PROVE  (s \o t) \o u = s \o (t \o u)
BY ConcatAssociative

\* A line that lands is in the file instead of the stream.
LEMMA LandStep ==
  ASSUME TypeOK, Land
  PROVE  /\ stream # <<>> /\ Len(file') = Len(file) + 1
         /\ Lines' = Append(Lines, Head(stream))
         /\ Log' = Log
<1> DEFINE e == [line |-> Head(stream), whole |-> tail \in {<<>>, <<Head(stream)>>}]
<1>1. /\ stream # <<>> /\ stream' = Tail(stream) /\ file' = Append(file, e)
      /\ UNCHANGED <<queue, batch>>
  BY DEF Land
<1>2. /\ queue \in Seq(Nat) /\ batch \in Seq(Nat) /\ stream \in Seq(Nat)
      /\ file \in Seq([line : Nat, whole : BOOLEAN])
  BY DEF TypeOK
<1>3. Head(stream) \in Nat /\ Tail(stream) \in Seq(Nat)
  BY <1>1, <1>2, HeadAndTail
<1>4. e \in [line : Nat, whole : BOOLEAN] /\ e.line = Head(stream)
  BY <1>3
<1> HIDE DEF e
<1>5. /\ file' \in Seq([line : Nat, whole : BOOLEAN]) /\ Len(file') = Len(file) + 1
      /\ \A i \in 1 .. Len(file) : file'[i] = file[i]
      /\ file'[Len(file) + 1] = e
  BY <1>1, <1>2, <1>4, AppendProperties
<1>6. /\ DOMAIN file' = 1 .. Len(file) + 1 /\ DOMAIN file = 1 .. Len(file)
      /\ Len(file) \in Nat
  BY <1>2, <1>5, LenProperties
<1>7. Lines \in Seq(Nat) /\ Len(Lines) = Len(file)
  BY LogParts
<1>8. Lines' = Append(Lines, Head(stream))
  <2> DEFINE new == Append(Lines, Head(stream))
  <2>1. /\ new \in Seq(Nat) /\ Len(new) = Len(file) + 1
        /\ \A i \in 1 .. Len(file) : new[i] = Lines[i]
        /\ new[Len(file) + 1] = Head(stream)
    BY <1>3, <1>7, AppendProperties
  <2>2. DOMAIN new = 1 .. Len(file) + 1
    BY <2>1, LenProperties
  <2> HIDE DEF new
  <2>3. Lines' = [i \in 1 .. Len(file) + 1 |-> file'[i].line]
    BY <1>6 DEF Lines
  <2>4. ASSUME NEW i \in 1 .. Len(file) + 1 PROVE new[i] = file'[i].line
    <3>1. CASE i \in 1 .. Len(file)
      BY <3>1, <2>1, <1>5, <1>6 DEF Lines
    <3>2. CASE i = Len(file) + 1
      BY <3>2, <2>1, <1>4, <1>5
    <3> QED BY <3>1, <3>2, <1>6
  <2>5. new = [i \in 1 .. Len(file) + 1 |-> new[i]]
    BY <2>1, <2>2, LenProperties
  <2> QED BY <2>3, <2>4, <2>5 DEF new
<1>9. Log' = Log
  <2>1. batch \o queue \in Seq(Nat)
    BY <1>2, ConcatProperties
  <2>2. InMemory' = Tail(stream) \o (batch \o queue)
    <3>1. InMemory' = (Tail(stream) \o batch) \o queue
      BY <1>1 DEF InMemory
    <3>2. Tail(stream) \in Seq(Nat) /\ batch \in Seq(Nat) /\ queue \in Seq(Nat)
      BY <1>2, <1>3
    <3>3. (Tail(stream) \o batch) \o queue = Tail(stream) \o (batch \o queue)
      <4> DEFINE t == Tail(stream)
      <4>1. t \in Seq(Nat)
        BY <3>2
      <4> HIDE DEF t
      <4>2. (t \o batch) \o queue = t \o (batch \o queue)
        BY <3>2, <4>1, InOneRow
      <4> QED BY <4>2 DEF t
    <3> QED BY <3>1, <3>3
  <2> DEFINE rest == Tail(stream) \o (batch \o queue)
  <2>3. rest \in Seq(Nat)
    BY <1>3, <2>1, ConcatProperties
  <2>4. <<Head(stream)>> \in Seq(Nat)
    BY <1>3
  <2>5. InMemory = <<Head(stream)>> \o rest
    <3>1. stream = <<Head(stream)>> \o Tail(stream)
      BY <1>1, <1>2, HeadAndTail
    <3>2. InMemory = (<<Head(stream)>> \o Tail(stream)) \o (batch \o queue)
      BY <3>1, LogParts
    <3> QED BY <3>2, <1>3, <2>1, <2>4, ConcatAssociative
  <2> HIDE DEF rest
  <2>6. Append(Lines, Head(stream)) \o rest = Lines \o (<<Head(stream)>> \o rest)
    BY <1>3, <1>7, <2>3, AppendThenConcat
  <2> QED BY <1>8, <2>2, <2>5, <2>6 DEF Log, rest
<1> QED BY <1>1, <1>5, <1>8, <1>9

\* A stream that fails loses what is in it, one that has failed what it is
\* given: the oldest lines of those in memory, at least one.
LEMMA DropStep ==
  ASSUME TypeOK, FailedStreamIsEmpty, WriteFails \/ (WriteLine /\ bad)
  PROVE  \E b \in Seq(Nat) :
           /\ b # <<>> /\ InMemory = b \o InMemory' /\ InMemory' \in Seq(Nat)
           /\ lost' = lost \cup ToSet(b)
           /\ Lines' = Lines /\ UNCHANGED <<file, recorded>>
<1>1. queue \in Seq(Nat) /\ batch \in Seq(Nat) /\ stream \in Seq(Nat)
  BY DEF TypeOK
<1>2. batch \o queue \in Seq(Nat) /\ InMemory = stream \o (batch \o queue)
  BY LogParts
<1>3. UNCHANGED <<file, recorded>> /\ Lines' = Lines
  BY DEF WriteFails, WriteLine, disk, Lines
<1>4. CASE WriteFails
  <2>1. /\ stream # <<>> /\ stream' = <<>> /\ UNCHANGED <<batch, queue>>
        /\ lost' = lost \cup ToSet(stream)
    BY <1>4 DEF WriteFails
  <2>2. InMemory' = batch \o queue
    BY <2>1, <1>1, <1>2, ConcatEmptySeq DEF InMemory
  <2> QED BY <1>1, <1>2, <1>3, <2>1, <2>2
<1>5. CASE WriteLine /\ bad
  <2>1. /\ batch # <<>> /\ batch' = Tail(batch) /\ UNCHANGED <<stream, queue>>
        /\ lost' = lost \cup {Head(batch)} /\ stream = <<>>
    BY <1>5 DEF WriteLine, FailedStreamIsEmpty
  <2>2. /\ Head(batch) \in Nat /\ Tail(batch) \in Seq(Nat)
        /\ batch = <<Head(batch)>> \o Tail(batch)
    BY <1>1, <2>1, HeadAndTail
  <2> DEFINE b == <<Head(batch)>>
  <2>3. b \in Seq(Nat) /\ b # <<>> /\ ToSet(b) = {Head(batch)}
    BY <2>2 DEF ToSet
  <2>4. Tail(batch) \o queue \in Seq(Nat)
    BY <2>2, <1>1, ConcatProperties
  <2>5. InMemory' = Tail(batch) \o queue
    BY <2>1, <2>2, <1>1, ConcatEmptySeq DEF InMemory
  <2>6. InMemory = batch \o queue
    BY <2>1, <1>2, ConcatEmptySeq
  <2> HIDE DEF b
  <2>7. InMemory = b \o (Tail(batch) \o queue)
    BY <2>2, <2>3, <2>6, <1>1, ConcatAssociative DEF b
  <2> QED BY <1>3, <2>1, <2>3, <2>4, <2>5, <2>7
<1> QED BY <1>4, <1>5

\* What is in memory goes with the process.
LEMMA DieStep ==
  ASSUME Die
  PROVE  /\ InMemory' = <<>> /\ Lines' = Lines
         /\ UNCHANGED <<file, recorded>> /\ lost' = lost \cup ToSet(InMemory)
<1>1. queue' = <<>> /\ batch' = <<>> /\ stream' = <<>> /\ UNCHANGED <<file, recorded>>
  BY DEF Die, disk
<1>2. <<>> \in Seq(Nat) /\ <<>> \o <<>> = <<>>
  BY EmptySeq, ConcatEmptySeq
<1> QED BY <1>1, <1>2 DEF Die, InMemory, Lines

\* A truncation loses what is in the file.
LEMMA TruncateStep ==
  ASSUME TypeOK, Truncate
  PROVE  /\ InMemory' = InMemory /\ UNCHANGED recorded
         /\ \/ UNCHANGED <<file, lost>> /\ Lines' = Lines
            \/ file' = <<>> /\ Lines' = <<>> /\ lost' = lost \cup ToSet(Lines)
<1>1. UNCHANGED <<queue, batch, stream, recorded>>
  BY DEF Truncate, memory
<1>2. CASE UNCHANGED <<disk, lost>>
  BY <1>1, <1>2 DEF InMemory, Lines, disk
<1>3. CASE file' = <<>> /\ lost' = lost \cup {file[i].line : i \in DOMAIN file}
  <2>1. Lines' = <<>>
    BY <1>3 DEF Lines
  <2> QED BY <1>1, <1>3, <2>1, LogParts DEF InMemory
<1> QED BY <1>2, <1>3 DEF Truncate

\* All other steps leave the log alone.
LEMMA OtherSteps ==
  ASSUME \/ RequestRewrite \/ Stop \/ Open \/ LoopTest \/ Block \/ Wake \/ Tear
         \/ Flushed \/ NoRewrite \/ Reopen \/ Start \/ UNCHANGED vars
  PROVE  UNCHANGED <<queue, batch, stream, file, recorded, lost, incidents,
                     InMemory, Lines, Log>>
<1>1. UNCHANGED <<queue, batch, stream, file, recorded, lost, incidents>>
  BY DEF RequestRewrite, Stop, Open, LoopTest, Block, Wake, Tear, Flushed, NoRewrite,
         Reopen, Start, vars, memory, disk, history
<1> QED BY <1>1 DEF InMemory, Lines, Log

-----------------------------------------------------------------------------
(* The invariant is kept *)

\* A part of a log without doubles takes its own lines along, and no others.
LEMMA LosingAPart ==
  ASSUME NEW S, NEW a \in Seq(S), NEW b \in Seq(S), NEW c \in Seq(S),
         IsInjective(a \o (b \o c))
  PROVE  /\ IsInjective(a \o c)
         /\ ToSet(a \o c) = ToSet(a \o (b \o c)) \ ToSet(b)
<1> DEFINE rest == b \o c
<1>1. rest \in Seq(S) /\ IsInjective(a \o rest)
  BY ConcatProperties
<1>2. /\ IsInjective(rest) => IsInjective(c) /\ ToSet(b) \cap ToSet(c) = {}
      /\ ToSet(rest) = ToSet(b) \cup ToSet(c)
  BY PartsAreDistinct, ElementsOfConcat
<1> HIDE DEF rest
<1>3. /\ IsInjective(a) /\ IsInjective(rest)
      /\ ToSet(a) \cap ToSet(rest) = {}
      /\ ToSet(a \o rest) = ToSet(a) \cup ToSet(rest)
  BY <1>1, PartsAreDistinct, ElementsOfConcat
<1>4. IsInjective(a \o c) /\ ToSet(a \o c) = ToSet(a) \cup ToSet(c)
  BY <1>2, <1>3, PartsAreDistinct, ElementsOfConcat
<1> QED BY <1>2, <1>3, <1>4 DEF rest

\* The lines of the log have been recorded.
LEMMA LogIsRecorded ==
  ASSUME TypeOK, LogIsComplete
  PROVE  /\ Log \in Seq(Nat) /\ ToSet(Log) = ToSet(Lines) \cup ToSet(InMemory)
         /\ ToSet(Log) \subseteq 1 .. recorded
         /\ ToSet(InMemory) = ToSet(stream) \cup ToSet(batch \o queue)
<1>1. Lines \in Seq(Nat) /\ InMemory \in Seq(Nat)
  BY LogParts
<1> DEFINE rest == batch \o queue
<1>2. InMemory = stream \o rest /\ stream \in Seq(Nat) /\ rest \in Seq(Nat)
  BY LogParts DEF TypeOK
<1> HIDE DEF rest
<1>3. ToSet(InMemory) = ToSet(stream) \cup ToSet(rest)
  BY <1>2, ElementsOfConcat
<1>4. Log \in Seq(Nat) /\ ToSet(Log) = ToSet(Lines) \cup ToSet(InMemory)
  BY <1>1, ConcatProperties, ElementsOfConcat DEF Log
<1> QED BY <1>3, <1>4 DEF LogIsComplete, rest

\* Every step keeps the types.
LEMMA TypeKept ==
  ASSUME IInv, [Next]_vars PROVE TypeOK'
<1> USE DEF Goto, disk, memory, history
<1>1. /\ queue \in Seq(Nat) /\ batch \in Seq(Nat) /\ stream \in Seq(Nat)
      /\ file \in Seq([line : Nat, whole : BOOLEAN]) /\ tail \in Seq(Nat)
      /\ <<>> \in Seq(Nat) /\ <<>> \in Seq([line : Nat, whole : BOOLEAN])
      /\ batch \o queue \in Seq(Nat)
      /\ recorded \in Nat /\ lost \subseteq 1 .. recorded
      /\ TypeOK
  BY EmptySeq, ConcatProperties DEF IInv, TypeOK
<1>2. CASE Record
  <2>1. Append(queue, recorded + 1) \in Seq(Nat)
    BY <1>1, AppendProperties
  <2>2. recorded + 1 \in Nat /\ 1 .. recorded \subseteq 1 .. (recorded + 1)
    BY <1>1
  <2> QED BY <1>1, <1>2, <2>1, <2>2 DEF Record, Notify, Unlocked, TypeOK
<1>3. CASE RequestRewrite
  BY <1>3, <1>1 DEF RequestRewrite, TypeOK
<1>4. CASE Stop
  BY <1>4, <1>1 DEF Stop, Notify, TypeOK
<1>5. CASE Open
  BY <1>5, <1>1 DEF Open, TypeOK
<1>6. CASE LoopTest
  BY <1>6, <1>1 DEF LoopTest, TypeOK
<1>7. CASE Look
  BY <1>7, <1>1 DEF Look, TakeAll, TypeOK
<1>8. CASE Block
  BY <1>8, <1>1 DEF Block, TypeOK
<1>9. CASE Wake
  BY <1>9, <1>1 DEF Wake, TypeOK
<1>10. CASE TimedOut
  BY <1>10, <1>1 DEF TimedOut, TakeAll, TypeOK
<1>11. CASE WriteLine
  <2>1. Head(batch) \in Nat /\ Tail(batch) \in Seq(Nat) /\ batch # <<>>
    BY <1>1, <1>11, HeadAndTail DEF WriteLine
  <2>2. Append(stream, Head(batch)) \in Seq(Nat)
    BY <1>1, <2>1, AppendProperties
  <2>3. bad => Head(batch) \in 1 .. recorded
    <3>1. SUFFICES ASSUME bad PROVE Head(batch) \in 1 .. recorded
      OBVIOUS
    <3>2. Head(batch) = batch[1] /\ 1 \in DOMAIN batch
      BY <1>1, <2>1, LenProperties, EmptySeq
    <3>3. Head(batch) \in ToSet(batch)
      BY <3>2 DEF ToSet
    <3>4. ToSet(batch) \subseteq ToSet(batch \o queue)
      BY <1>1, ElementsOfConcat
    <3> QED BY <3>3, <3>4, LogIsRecorded DEF IInv
  <2> QED BY <1>1, <1>11, <2>1, <2>2, <2>3 DEF WriteLine, TypeOK
<1>12. CASE Land
  <2> DEFINE e == [line |-> Head(stream), whole |-> tail \in {<<>>, <<Head(stream)>>}]
             E == [line : Nat, whole : BOOLEAN]
  <2>1. Head(stream) \in Nat /\ Tail(stream) \in Seq(Nat) /\ stream # <<>>
    BY <1>1, <1>12, HeadAndTail DEF Land
  <2>2. e \in E
    BY <2>1
  <2>3. file' = Append(file, e)
    BY <1>12 DEF Land
  <2>4. file' \in Seq(E)
    <3> HIDE DEF e
    <3>1. file \in Seq(E)
      BY <1>1
    <3> HIDE DEF E
    <3> QED BY <3>1, <2>2, <2>3, AppendProperties
  <2> QED BY <1>1, <1>12, <2>1, <2>4 DEF Land, TypeOK
<1>13. CASE Tear
  <2>1. Append(tail, Head(stream)) \in Seq(Nat)
    BY <1>1, <1>13, HeadAndTail, AppendProperties DEF Tear
  <2> QED BY <1>1, <1>13, <2>1 DEF Tear, TypeOK
<1>14. CASE Flushed
  BY <1>14, <1>1 DEF Flushed, TypeOK
<1>15. CASE NoRewrite
  BY <1>15, <1>1 DEF NoRewrite, TypeOK
<1>16. CASE Truncate
  <2>1. {file[i].line : i \in DOMAIN file} \subseteq 1 .. recorded
    BY LogParts, LogIsRecorded DEF IInv
  <2> HIDE DEF disk
  <2>2. file' \in Seq([line : Nat, whole : BOOLEAN]) /\ tail' \in Seq(Nat)
        /\ lost' \subseteq 1 .. recorded
    BY <1>1, <1>16, <2>1 DEF Truncate, disk
  <2> QED BY <1>1, <1>16, <2>2 DEF Truncate, TypeOK
<1>17. CASE Reopen
  BY <1>17, <1>1 DEF Reopen, TypeOK
<1>18. CASE Drain
  BY <1>18, <1>1 DEF Drain, TakeAll, TypeOK
<1>19. CASE WriteFails
  <2>1. ToSet(stream) \subseteq 1 .. recorded
    BY LogIsRecorded DEF IInv
  <2>2. /\ stream' = <<>> /\ bad' = TRUE /\ incidents' = incidents + 1
        /\ lost' = lost \cup ToSet(stream) /\ w \in {"write", "final"}
        /\ UNCHANGED <<queue, batch, file, tail, stop, rewrite, w, notified,
                       recorded, lives, requests>>
    BY <1>19 DEF WriteFails
  <2>3. lost' \subseteq 1 .. recorded'
    BY <1>1, <2>1, <2>2
  <2> QED BY <1>1, <2>2, <2>3 DEF TypeOK
<1>20. ASSUME Die, incidents' \in Nat PROVE TypeOK'
  <2>1. ToSet(InMemory) \subseteq 1 .. recorded
    BY LogIsRecorded DEF IInv
  <2> QED BY <1>1, <1>20, <2>1 DEF Die, TypeOK
<1>21. CASE Crash
  BY <1>21, <1>20, <1>1 DEF Crash, TypeOK
<1>22. CASE Exit
  BY <1>22, <1>20, <1>1 DEF Exit, TypeOK
<1>23. CASE Start
  BY <1>23, <1>1 DEF Start, TypeOK
<1>24. CASE UNCHANGED vars
  BY <1>24, <1>1 DEF vars, TypeOK
<1> QED
  BY <1>2, <1>3, <1>4, <1>5, <1>6, <1>7, <1>8, <1>9, <1>10, <1>11, <1>12, <1>13,
     <1>14, <1>15, <1>16, <1>17, <1>18, <1>19, <1>21, <1>22, <1>23, <1>24
  DEF Next, Worker

\* What leaves the log is lost, what comes is the next line, and nothing is
\* there twice.
LEMMA LogKept ==
  ASSUME IInv, [Next]_vars PROVE LogIsComplete' /\ NoLineTwice'
<1>1. /\ TypeOK /\ LogIsComplete /\ IsInjective(Log) /\ FailedStreamIsEmpty
      /\ recorded \in Nat
  BY DEF IInv, NoLineTwice, TypeOK
<1>2. /\ Lines \in Seq(Nat) /\ InMemory \in Seq(Nat) /\ Log \in Seq(Nat)
      /\ ToSet(Log) = (1 .. recorded) \ lost
      /\ <<>> \in Seq(Nat)
  BY <1>1, LogParts, LogIsRecorded, EmptySeq DEF LogIsComplete
<1>3. CASE Record
  <2> DEFINE x == recorded + 1
  <2>1. /\ Log' = Append(Log, x) /\ recorded' = x /\ lost' = lost
    BY <1>1, <1>3, RecordStep DEF Record
  <2>2. <<x>> \in Seq(Nat) /\ IsInjective(<<x>>) /\ ToSet(<<x>>) = {x}
    BY <1>1 DEF IsInjective, ToSet
  <2>3. Log' = Log \o <<x>>
    BY <1>1, <1>2, <2>1, AppendIsConcat
  <2>4. x \notin ToSet(Log) /\ ToSet(Log) \cup {x} = (1 .. x) \ lost
    BY <1>1, <1>2 DEF IInv, TypeOK
  <2>5. ToSet(Log') = ToSet(Log) \cup {x} /\ IsInjective(Log')
    <3> HIDE DEF x
    <3> DEFINE y == <<x>>
    <3>1. y \in Seq(Nat) /\ IsInjective(y) /\ ToSet(y) = {x} /\ Log' = Log \o y
      BY <2>2, <2>3
    <3> HIDE DEF y
    <3>2. ToSet(Log \o y) = ToSet(Log) \cup {x}
      BY <3>1, <1>2, ElementsOfConcat
    <3>3. IsInjective(Log \o y)
      BY <3>1, <1>1, <1>2, <2>4, PartsAreDistinct
    <3> QED BY <3>1, <3>2, <3>3
  <2> QED BY <2>1, <2>4, <2>5 DEF LogIsComplete, NoLineTwice
<1>4. CASE UNCHANGED <<Log, recorded, lost>>
  BY <1>1, <1>4 DEF LogIsComplete, NoLineTwice
<1>5. ASSUME NEW a \in Seq(Nat), NEW b \in Seq(Nat), NEW c \in Seq(Nat),
             Log = a \o (b \o c), Log' = a \o c,
             lost' = lost \cup ToSet(b), UNCHANGED recorded
      PROVE  LogIsComplete' /\ NoLineTwice'
  <2>1. IsInjective(Log') /\ ToSet(Log') = ToSet(Log) \ ToSet(b)
    BY <1>1, <1>5, LosingAPart
  <2> QED BY <1>2, <1>5, <2>1 DEF LogIsComplete, NoLineTwice
<1>6. CASE WriteFails \/ (WriteLine /\ bad)
  <2>1. PICK b \in Seq(Nat) :
          /\ InMemory = b \o InMemory' /\ InMemory' \in Seq(Nat)
          /\ lost' = lost \cup ToSet(b) /\ Lines' = Lines /\ UNCHANGED recorded
    BY <1>1, <1>6, DropStep
  <2>2. Log = Lines \o (b \o InMemory') /\ Log' = Lines \o InMemory'
    BY <2>1 DEF Log
  <2> QED BY <1>2, <2>1, <2>2, <1>5
<1>7. CASE Die
  <2>1. /\ InMemory' = <<>> /\ Lines' = Lines /\ UNCHANGED recorded
        /\ lost' = lost \cup ToSet(InMemory)
    BY <1>7, DieStep
  <2>2. Log = Lines \o (InMemory \o <<>>) /\ Log' = Lines \o <<>>
    BY <1>2, <2>1, ConcatEmptySeq DEF Log
  <2> QED BY <1>2, <2>1, <2>2, <1>5
<1>8. CASE Truncate
  <2>1. /\ InMemory' = InMemory /\ UNCHANGED recorded
        /\ \/ UNCHANGED <<file, lost>> /\ Lines' = Lines
           \/ Lines' = <<>> /\ lost' = lost \cup ToSet(Lines)
    BY <1>1, <1>8, TruncateStep
  <2>2. CASE Lines' = Lines /\ lost' = lost
    BY <2>1, <2>2, <1>4 DEF Log
  <2>3. CASE Lines' = <<>> /\ lost' = lost \cup ToSet(Lines)
    <3>1. Log' = <<>> \o InMemory
      BY <2>1, <2>3 DEF Log
    <3>2. Log = <<>> \o (Lines \o InMemory)
      BY <1>2, ConcatEmptySeq DEF Log
    <3> QED BY <1>2, <2>1, <2>3, <3>1, <3>2, <1>5
  <2> QED BY <2>1, <2>2, <2>3
<1>9. CASE Look \/ TimedOut \/ Drain \/ (WriteLine /\ ~bad)
  <2>1. InMemory' = InMemory /\ UNCHANGED <<file, recorded, lost>>
    BY <1>1, <1>9, MoveInMemory
  <2> QED BY <2>1, <1>4 DEF Log, Lines
<1>10. CASE Land
  BY <1>1, <1>4, <1>10, LandStep DEF Land, history
<1> QED BY <1>3, <1>4, <1>6, <1>7, <1>8, <1>9, <1>10, OtherSteps DEF Next, Worker, Crash, Exit

\* Only a drained worker is past the queue, and nobody enqueues after it.
LEMMA PlacesKept ==
  ASSUME IInv, [Next]_vars PROVE FailedStreamIsEmpty' /\ DrainsOnce'
<1> USE DEF Goto, disk, memory, history, FailedStreamIsEmpty, DrainsOnce
<1>1. TypeOK /\ FailedStreamIsEmpty /\ DrainsOnce
  BY DEF IInv
<1>2. CASE Record \/ RequestRewrite \/ Stop
  BY <1>1, <1>2 DEF Record, RequestRewrite, Stop
<1>3. CASE Open \/ LoopTest \/ Block \/ Wake \/ Flushed \/ Tear
  BY <1>1, <1>3 DEF Open, LoopTest, Block, Wake, Flushed, Tear
<1>4. CASE Look \/ TimedOut \/ Drain
  BY <1>1, <1>4 DEF Look, TimedOut, Drain, TakeAll
<1>5. CASE WriteLine \/ Land \/ WriteFails
  BY <1>1, <1>5 DEF WriteLine, Land, WriteFails
<1>6. CASE NoRewrite \/ Truncate \/ Reopen \/ Start
  BY <1>1, <1>6 DEF NoRewrite, Truncate, Reopen, Start, TypeOK
<1>7. CASE Crash \/ Exit
  BY <1>7 DEF Crash, Exit, Die
<1>8. CASE UNCHANGED vars
  BY <1>1, <1>8 DEF vars
<1> QED BY <1>2, <1>3, <1>4, <1>5, <1>6, <1>7, <1>8 DEF Next, Worker

\* The broken lines of the file are finitely many.
LEMMA BrokenType ==
  ASSUME TypeOK
  PROVE  /\ Broken \subseteq 1 .. Len(file) /\ DOMAIN file = 1 .. Len(file)
         /\ IsFiniteSet(Broken) /\ Cardinality(Broken) \in Nat
         /\ Len(file) \in Nat
<1>1. DOMAIN file = 1 .. Len(file) /\ Len(file) \in Nat
  BY LenProperties DEF TypeOK
<1>2. Broken \in SUBSET (1 .. Len(file)) /\ IsFiniteSet(1 .. Len(file))
  BY <1>1, FS_Interval DEF Broken
<1> QED BY <1>1, <1>2, FS_Subset, FS_CardinalityType

\* Every line that lands on an unfinished part of another is broken, and a
\* part is left unfinished only by a crash or a failed write.
LEMMA DamageKept ==
  ASSUME IInv, [Next]_vars PROVE DamageIsPaidFor'
<1>1. TypeOK /\ DamageIsPaidFor /\ incidents \in Nat
  BY DEF IInv, TypeOK
<1>2. Cardinality(Broken) \in Nat /\ IsFiniteSet(Broken)
  BY <1>1, BrokenType
<1>3. ASSUME UNCHANGED <<file, incidents>>, Dangling' => Dangling PROVE DamageIsPaidFor'
  BY <1>1, <1>2, <1>3 DEF DamageIsPaidFor, Broken
<1>4. ASSUME UNCHANGED file, incidents' = incidents + 1 PROVE DamageIsPaidFor'
  BY <1>1, <1>2, <1>4 DEF DamageIsPaidFor, Broken
<1>5. CASE Record \/ RequestRewrite \/ Stop
  BY <1>3, <1>5 DEF Record, RequestRewrite, Stop, memory, disk, history, Dangling
<1>6. CASE Open \/ LoopTest \/ Block \/ Wake \/ Flushed \/ NoRewrite \/ Reopen \/ Start
  BY <1>3, <1>6 DEF Open, LoopTest, Block, Wake, Flushed, NoRewrite, Reopen, Start,
     memory, disk, history, Dangling
<1>7. CASE Look \/ TimedOut \/ Drain
  BY <1>3, <1>7 DEF Look, TimedOut, Drain, disk, history, Dangling
<1>8. CASE WriteLine
  <2>1. UNCHANGED <<file, tail, incidents>>
    BY <1>8 DEF WriteLine, disk
  <2>2. stream # <<>> => stream' # <<>> /\ Head(stream') = Head(stream)
    <3>1. stream \in Seq(Nat) /\ batch \in Seq(Nat) /\ batch # <<>>
      BY <1>1, <1>8 DEF TypeOK, WriteLine
    <3> DEFINE x == Head(batch)
    <3>2. x \in Nat
      BY <3>1, HeadTailProperties
    <3>3. stream' = stream \/ stream' = Append(stream, x)
      BY <1>8 DEF WriteLine
    <3> HIDE DEF x
    <3>4. /\ stream # <<>> => Head(Append(stream, x)) = Head(stream)
          /\ Append(stream, x) # <<>>
      BY <3>1, <3>2, HeadTailAppend, AppendProperties
    <3> QED BY <3>3, <3>4
  <2> QED BY <1>3, <2>1, <2>2 DEF Dangling
<1>9. CASE Land
  <2> DEFINE n == Len(file) + 1
             e == [line |-> Head(stream), whole |-> tail \in {<<>>, <<Head(stream)>>}]
             E == [line : Nat, whole : BOOLEAN]
  <2>1. /\ stream # <<>> /\ file' = Append(file, e) /\ tail' = <<>> /\ UNCHANGED incidents
    BY <1>9 DEF Land, history
  <2>2. e.whole <=> ~Dangling
    BY <2>1 DEF Dangling
  <2>3. file \in Seq(E) /\ e \in E
    BY <1>1, <2>1, HeadTailProperties DEF TypeOK
  <2> HIDE DEF e, E
  <2>4. /\ DOMAIN file' = 1 .. n /\ DOMAIN file = 1 .. Len(file) /\ Len(file) \in Nat
        /\ \A i \in 1 .. Len(file) : file'[i] = file[i]
        /\ file'[n] = e
    BY <2>1, <2>3, AppendProperties, LenProperties
  <2>5. Broken' = IF Dangling THEN Broken \cup {n} ELSE Broken
    BY <2>2, <2>4 DEF Broken
  <2>6. n \notin Broken
    BY <2>4 DEF Broken
  <2> HIDE DEF n
  <2>7. Cardinality(Broken') = Cardinality(Broken) + (IF Dangling THEN 1 ELSE 0)
    <3> DEFINE B == Broken
    <3>1. IsFiniteSet(B) /\ Cardinality(B) \in Nat /\ n \notin B
      BY <1>2, <2>6
    <3>2. Broken' = IF Dangling THEN B \cup {n} ELSE B
      BY <2>5
    <3> HIDE DEF B
    <3>3. Cardinality(B \cup {n}) = Cardinality(B) + 1
      BY <3>1, FS_AddElement
    <3>4. Cardinality(Broken') = Cardinality(B) + (IF Dangling THEN 1 ELSE 0)
      BY <3>1, <3>2, <3>3
    <3> QED BY <3>4 DEF B
  <2>8. ~Dangling'
    BY <2>1 DEF Dangling
  <2> QED BY <1>1, <1>2, <2>1, <2>7, <2>8 DEF DamageIsPaidFor
<1>10. CASE Tear
  <2>1. /\ stream # <<>> /\ Head(stream) \notin ToSet(tail)
        /\ tail' = Append(tail, Head(stream)) /\ UNCHANGED <<file, stream, incidents>>
    BY <1>10 DEF Tear, memory, history
  <2>2. CASE tail = <<>>
    <3>1. tail' = <<Head(stream)>>
      BY <2>1, <2>2
    <3> QED BY <1>3, <2>1, <3>1 DEF Dangling
  <2>3. CASE tail # <<>>
    <3>1. tail # <<Head(stream)>>
      BY <2>1 DEF ToSet
    <3> QED BY <1>3, <2>1, <2>3, <3>1 DEF Dangling
  <2> QED BY <2>2, <2>3
<1>11. CASE WriteFails
  BY <1>4, <1>11 DEF WriteFails, disk
<1>12. CASE Truncate
  <2>1. CASE UNCHANGED <<file, tail>>
    BY <1>3, <1>12, <2>1 DEF Truncate, memory, Dangling
  <2>2. CASE file' = <<>> /\ tail' = <<>>
    <3>1. Broken' = {} /\ ~Dangling' /\ UNCHANGED incidents
      BY <1>12, <2>2 DEF Truncate, Broken, Dangling
    <3> QED BY <1>1, <3>1, FS_EmptySet DEF DamageIsPaidFor
  <2> QED BY <1>12, <2>1, <2>2 DEF Truncate, disk
<1>13. CASE Crash
  BY <1>4, <1>13 DEF Crash, Die, disk
<1>14. CASE Exit
  <2>1. stream = <<>> /\ stream' = <<>> /\ UNCHANGED <<file, tail, incidents>>
    BY <1>1, <1>14 DEF Exit, Die, disk, TypeOK
  <2> QED BY <1>3, <2>1 DEF Dangling
<1>15. CASE UNCHANGED vars
  BY <1>3, <1>15 DEF vars, memory, disk, history, Dangling
<1> QED
  BY <1>5, <1>6, <1>7, <1>8, <1>9, <1>10, <1>11, <1>12, <1>13, <1>14, <1>15
  DEF Next, Worker

\* Before the first life there is nothing.
LEMMA InitIInv == Init => IInv
<1> SUFFICES ASSUME Init PROVE IInv
  OBVIOUS
<1> USE DEF Init
<1>1. TypeOK
  BY EmptySeq DEF TypeOK
<1>2. Log = <<>>
  <2>1. Lines = <<>>
    BY DEF Lines
  <2>2. <<>> \o <<>> = <<>>
    BY EmptySeq, ConcatEmptySeq
  <2> QED BY <2>1, <2>2 DEF Log, InMemory
<1>3. LogIsComplete /\ NoLineTwice
  BY <1>2 DEF LogIsComplete, NoLineTwice, ToSet, IsInjective
<1>4. DamageIsPaidFor
  <2>1. Broken = {} /\ ~Dangling
    BY DEF Broken, Dangling
  <2> QED BY <2>1, FS_EmptySet DEF DamageIsPaidFor
<1> QED BY <1>1, <1>3, <1>4 DEF IInv, FailedStreamIsEmpty, DrainsOnce

\* Every step keeps the invariant.
LEMMA NextIInv == IInv /\ [Next]_vars => IInv'
BY TypeKept, LogKept, PlacesKept, DamageKept DEF IInv

-----------------------------------------------------------------------------
\* The reachable states have their types; every recorded line is in the log but
\* those that a crash, a failed write or a truncation lost; the file has at most
\* one broken line for each crash and failed write; and a worker that has
\* returned from its loop leaves nothing in memory.
THEOREM LogIsSound ==
  Spec => [](TypeOK /\ LogIsComplete /\ DamageIsBounded /\ ShutdownDrains)
<1>1. IInv => DamageIsBounded
  <2> SUFFICES ASSUME IInv PROVE DamageIsBounded
    OBVIOUS
  <2>1. Cardinality(Broken) \in Nat /\ incidents \in Nat
    BY BrokenType DEF IInv, TypeOK
  <2> QED BY <2>1 DEF IInv, DamageIsPaidFor, DamageIsBounded, Broken
<1>2. IInv => ShutdownDrains
  <2> SUFFICES ASSUME IInv, w = "drained" PROVE InMemory = <<>>
    BY DEF ShutdownDrains
  <2>1. stream = <<>> /\ batch = <<>> /\ queue = <<>>
    BY DEF IInv, TypeOK, DrainsOnce
  <2> QED BY <2>1, EmptySeq, ConcatEmptySeq DEF InMemory
<1>3. IInv => TypeOK /\ LogIsComplete
  BY DEF IInv
<1> QED BY InitIInv, NextIInv, <1>1, <1>2, <1>3, PTL DEF Spec

\* What each step of the queue, the worker and the process does, the promised
\* log does in one step or not at all.
LEMMA StepOfDurableLog ==
  ASSUME IInv, [Next]_vars PROVE [Promise!Next]_(Promise!vars)
<1>1. /\ TypeOK /\ FailedStreamIsEmpty
      /\ Lines \in Seq(Nat) /\ InMemory \in Seq(Nat) /\ Log \in Seq(Nat)
      /\ Len(Lines) = Len(file) /\ Len(file) \in Nat
      /\ Len(InMemory) \in Nat /\ Len(Log) = Len(file) + Len(InMemory)
  <2>1. TypeOK /\ FailedStreamIsEmpty
    BY DEF IInv
  <2>2. /\ Lines \in Seq(Nat) /\ InMemory \in Seq(Nat)
        /\ Len(Lines) = Len(file) /\ Len(file) \in Nat
    BY <2>1, LogParts
  <2>3. Log \in Seq(Nat) /\ Len(Log) = Len(Lines) + Len(InMemory)
    BY <2>2, ConcatProperties DEF Log
  <2>4. Len(InMemory) \in Nat
    BY <2>2, LenProperties
  <2> QED BY <2>1, <2>2, <2>3, <2>4
<1>2. /\ SubSeq(Log, 1, Len(file)) = Lines
      /\ SubSeq(Log, Len(file) + 1, Len(Log)) = InMemory
  BY <1>1, PartsOfConcat DEF Log
<1>3. CASE UNCHANGED <<Log, file>>
  BY <1>3 DEF Promise!vars
<1>4. CASE Record
  <2>1. Log' = Append(Log, recorded + 1) /\ UNCHANGED file /\ recorded + 1 \in 1 .. MaxLines
    BY <1>1, <1>4, RecordStep, ConstantsOK DEF Record, TypeOK, disk
  <2> QED BY <2>1 DEF Promise!Next, Promise!Record
<1>5. CASE Land
  <2>1. stream # <<>> /\ Log' = Log /\ Len(file') = Len(file) + 1
    BY <1>1, <1>5, LandStep
  <2>2. Len(InMemory) >= 1
    <3>1. InMemory # <<>>
      <4>1. stream \in Seq(Nat) /\ batch \o queue \in Seq(Nat)
        BY <1>1, LogParts DEF TypeOK
      <4> DEFINE rest == batch \o queue
      <4>2. InMemory = stream \o rest /\ rest \in Seq(Nat)
        BY <1>1, <4>1, LogParts
      <4> HIDE DEF rest
      <4> QED BY <2>1, <4>1, <4>2, ConcatEqualIffEmpty
    <3> QED BY <3>1, <1>1, EmptySeq
  <2>3. Len(file) + 1 \in Len(file) + 1 .. Len(Log)
    BY <1>1, <2>2
  <2> QED BY <2>1, <2>3 DEF Promise!Next, Promise!Harden
<1>6. CASE WriteFails \/ (WriteLine /\ bad)
  <2>1. PICK b \in Seq(Nat) :
          /\ b # <<>> /\ InMemory = b \o InMemory' /\ InMemory' \in Seq(Nat)
          /\ Lines' = Lines /\ UNCHANGED file
    BY <1>1, <1>6, DropStep
  <2> DEFINE n == Len(file) + Len(b)
             a == Lines \o b
  <2>2. Len(b) \in Nat \ {0} /\ Len(InMemory') \in Nat
        /\ Len(InMemory) = Len(b) + Len(InMemory')
    BY <2>1, EmptySeq, LenProperties, ConcatProperties
  <2>3. n \in Len(file) + 1 .. Len(Log)
    BY <1>1, <2>2
  <2> DEFINE c == InMemory'
  <2>4. a \in Seq(Nat) /\ Len(a) = n
    <3> DEFINE l == Lines
    <3>1. b \in Seq(Nat) /\ l \in Seq(Nat) /\ Len(l) = Len(file)
      BY <1>1
    <3> HIDE DEF l
    <3>2. l \o b \in Seq(Nat) /\ Len(l \o b) = Len(l) + Len(b)
      BY <3>1, ConcatProperties
    <3> QED BY <3>1, <3>2 DEF l
  <2>5. Log = a \o c
    <3> DEFINE l == Lines
    <3>1. b \in Seq(Nat) /\ l \in Seq(Nat) /\ c \in Seq(Nat) /\ Log = l \o (b \o c)
      BY <1>1, <2>1 DEF Log
    <3> HIDE DEF c, l
    <3>2. (l \o b) \o c = l \o (b \o c)
      BY <3>1, ConcatAssociative
    <3> QED BY <3>1, <3>2 DEF l
  <2> HIDE DEF a
  <2>6. SubSeq(Log, n + 1, Len(Log)) = InMemory'
    <3>1. a \in Seq(Nat) /\ c \in Seq(Nat) /\ Log = a \o c /\ Len(a) = n
      BY <2>1, <2>4, <2>5
    <3> HIDE DEF c, n
    <3>2. SubSeq(Log, n + 1, Len(Log)) = c
      BY <3>1, PartsOfConcat
    <3> QED BY <3>2 DEF c
  <2>7. Log' = SubSeq(Log, 1, Len(file)) \o SubSeq(Log, n + 1, Len(Log))
    BY <1>2, <2>1, <2>6 DEF Log
  <2> HIDE DEF n
  <2> QED BY <2>1, <2>3, <2>7 DEF Promise!Next, Promise!Drop
<1>7. CASE Die
  <2>1. InMemory' = <<>> /\ Lines' = Lines /\ UNCHANGED file
    BY <1>7, DieStep
  <2>2. Log' = SubSeq(Log, 1, Len(file))
    BY <1>1, <1>2, <2>1, ConcatEmptySeq DEF Log
  <2> QED BY <2>1, <2>2 DEF Promise!Next, Promise!Crash
<1>8. CASE Truncate
  <2>1. /\ InMemory' = InMemory
        /\ \/ UNCHANGED file /\ Lines' = Lines
           \/ file' = <<>> /\ Lines' = <<>>
    BY <1>1, <1>8, TruncateStep
  <2>2. CASE UNCHANGED file /\ Lines' = Lines
    BY <2>1, <2>2, <1>3 DEF Log
  <2>3. CASE file' = <<>> /\ Lines' = <<>>
    <3>1. Log' = InMemory /\ Len(file') = 0
      BY <1>1, <2>1, <2>3, ConcatEmptySeq, EmptySeq DEF Log
    <3> QED BY <1>2, <3>1 DEF Promise!Next, Promise!Truncate
  <2> QED BY <2>1, <2>2, <2>3
<1>9. CASE Look \/ TimedOut \/ Drain \/ (WriteLine /\ ~bad)
  <2>1. InMemory' = InMemory /\ UNCHANGED file
    BY <1>1, <1>9, MoveInMemory
  <2> QED BY <2>1, <1>3 DEF Log, Lines
<1> QED BY <1>3, <1>4, <1>5, <1>6, <1>7, <1>8, <1>9, OtherSteps DEF Next, Worker, Crash, Exit

\* The queue, the batch, the stream and the file together behave as one log to
\* which lines are appended and whose first part is on disk.
THEOREM OneLog == Spec => ImplementsDurableLog
<1>1. Init => Promise!Init
  <2> SUFFICES ASSUME Init PROVE Promise!Init
    OBVIOUS
  <2>1. Lines = <<>>
    BY DEF Lines, Init
  <2>2. <<>> \o <<>> = <<>>
    BY EmptySeq, ConcatEmptySeq
  <2>3. Len(file) = 0
    BY EmptySeq DEF Init
  <2> QED BY <2>1, <2>2, <2>3 DEF Log, InMemory, Init, Promise!Init
<1>2. IInv /\ [Next]_vars => [Promise!Next]_(Promise!vars)
  BY StepOfDurableLog
<1> QED BY InitIInv, NextIInv, <1>1, <1>2, PTL DEF Spec, ImplementsDurableLog, Promise!Spec
=============================================================================
