--------------------------- MODULE PersistenceProofs ---------------------------
(***************************************************************************)
(* Restarts: where each key has one writer, the file follows the cache     *)
(* (LogFollows) and a recovery finds what the disk had (RestartsRestore),  *)
(* for any keys, clients, lives, deaths and failures, damaged lines among  *)
(* them, of which both say what they leave open.                           *)
(*                                                                         *)
(* One idea carries the proof: latest[k], the line last applied to k, is   *)
(* at every moment what the map reflects (MapReflectsLatest), and is what  *)
(* the snapshot and the lines read so far say of k (LatestIsRead).  A      *)
(* recovery that has read everything therefore holds what the disk says,   *)
(* which is what was expected (ExpectedIsLatest) since nobody writes the   *)
(* disk meanwhile (NobodyWrites).  Clients who come between the change of  *)
(* the cache and its record keep the two in order only while nobody else   *)
(* writes their key (PendingIsLatest, the one place that needs             *)
(* OneWriterEach; the run restart_shared shows what happens without).      *)
(***************************************************************************)
EXTENDS Persistence, FiniteSetTheorems, WellFoundedInduction, SequenceTheorems, TLAPS

\* What commands promise to whoever has a key to itself.
OneWriterEach == \A k \in Keys : \A c, d \in Writers[k] : c = d

-----------------------------------------------------------------------------
(* The invariant *)

InDump(k) == IF dump = None THEN {} ELSE {line \in dump : line.key = k}

\* The first n lines of the file, and the snapshot where they have none of k,
\* say that line was the last about k.
Says(k, n, line) ==
  /\ \A i \in LinesOf(k) :
       i <= n /\ (\A j \in LinesOf(k) : j <= n => j <= i) => line = log[i]
  /\ (\A i \in LinesOf(k) : i > n) =>
       /\ \A l \in InDump(k) : line = l
       /\ InDump(k) = {} => line = None

\* While nobody is served nobody writes, and what is in the file is on disk.
NobodyWrites ==
  phase # "up" => /\ \A c \in Clients : pending[c] = None
                  /\ sp = "idle"
                  /\ hard = Len(log)

\* Who has yet to record a line applied it, and nobody the key since.
PendingIsLatest ==
  \A c \in Clients : pending[c] # None =>
    /\ c \in Writers[pending[c].key]
    /\ latest[pending[c].key] = pending[c]

OneSetEach(lines) ==
  \A l \in lines : /\ l.op = "set" /\ (l.ttl = None \/ l.ttl > 0)
                   /\ \A m \in lines : l.key = m.key => l = m

\* A snapshot has one line for a key.
SnapshotsAreMaps ==
  /\ OneSetEach(items) /\ \A l \in items : l.key \notin todo
  /\ dump # None => OneSetEach(dump)

\* What was replayed last is what the lines replayed so far say; and when
\* clients are served, the file's last line.
LatestIsRead ==
  /\ phase = "dump" =>
       /\ left \subseteq (IF dump = None THEN {} ELSE dump)
       /\ \A k \in Keys :
            /\ \A l \in InDump(k) : latest[k] = IF l \in left THEN None ELSE l
            /\ InDump(k) = {} => latest[k] = None
  /\ phase = "file" => \A k \in Keys : Says(k, next - 1, latest[k])
  /\ phase \in {"dump", "file"} => spoilt = {}
  /\ phase = "up" => \A k \in Keys \ spoilt : ~Busy(k) =>
       \A i \in LinesOf(k) : (\A j \in LinesOf(k) : j <= i) => latest[k] = log[i]

\* What is expected of a key is what the disk says, and then what was replayed.
ExpectedIsLatest ==
  \A k \in DOMAIN expected :
    IF phase = "up" THEN expected[k] = latest[k] ELSE Says(k, Len(log), expected[k])

\* The cache has what line, the last about k, leaves of k.
Reflects(k, line) ==
  IF line # None /\ line.op = "set"
    THEN IF map[k] = None THEN line.ttl # None \/ k \in evicted
         ELSE /\ map[k].value = line.value
              /\ map[k].expiry = None <=> line.ttl = None
    ELSE map[k] = None

MapReflectsLatest ==
  IF phase = "down" THEN map = Empty ELSE \A k \in Keys : Reflects(k, latest[k])

IInv ==
  /\ TypeOK /\ NobodyWrites /\ PendingIsLatest /\ SnapshotsAreMaps
  /\ LatestIsRead /\ ExpectedIsLatest /\ MapReflectsLatest

-----------------------------------------------------------------------------
(* Lines *)

\* A set of places has a last one, which is its Max.
LEMMA MaxFacts ==
  ASSUME NEW n \in Nat, NEW S \in SUBSET (1 .. n), S # {}
  PROVE  Max(S) \in S /\ \A i \in S : i <= Max(S)
<1> DEFINE after == {i .. n : i \in S}
<1>1. after \subseteq FiniteSubsetsOf(Int)
  <2> SUFFICES ASSUME NEW i \in S PROVE i .. n \in FiniteSubsetsOf(Int)
    OBVIOUS
  <2>1. IsFiniteSet(i .. n)
    BY FS_Interval
  <2>2. i .. n \in SUBSET Int
    OBVIOUS
  <2> QED BY <2>1, <2>2 DEF FiniteSubsetsOf
<1>2. after # {}
  OBVIOUS
<1>3. \E x \in after : \A y \in after : <<y, x>> \notin StrictSubsetOrdering(Int)
  <2> HIDE DEF after
  <2> QED BY <1>1, <1>2, FS_StrictSubsetOrderingWellFounded, WFMin
<1>4. PICK m \in S : \A i \in S : <<i .. n, m .. n>> \notin StrictSubsetOrdering(Int)
  BY <1>3
<1>5. ASSUME NEW i \in S, i > m PROVE FALSE
  <2>1. i .. n \subseteq m .. n /\ m \in m .. n /\ m \notin i .. n
    BY <1>5
  <2>2. <<i .. n, m .. n>> \in StrictSubsetOrdering(Int)
    BY <2>1 DEF StrictSubsetOrdering
  <2> QED BY <2>2, <1>4
<1>6. \A i \in S : m >= i
  BY <1>5
<1>7. Max(S) \in S /\ \A i \in S : Max(S) >= i
  BY <1>6 DEF Max
<1> QED BY <1>7

\* The last line about a key.
LEMMA LastLineFacts ==
  TypeOK => \A k \in Keys : LinesOf(k) # {} =>
    LET i == Max(LinesOf(k))
    IN  i \in LinesOf(k) /\ \A j \in LinesOf(k) : j <= i
<1> SUFFICES ASSUME TypeOK, NEW k \in Keys, LinesOf(k) # {}
             PROVE  LET i == Max(LinesOf(k))
                    IN  i \in LinesOf(k) /\ \A j \in LinesOf(k) : j <= i
  OBVIOUS
<1>1. Len(log) \in Nat /\ LinesOf(k) \in SUBSET (1 .. Len(log))
  BY DEF TypeOK, LinesOf
<1> QED BY <1>1, MaxFacts

\* The file and the snapshot say one thing about a key.
LEMMA SaysOneThing ==
  ASSUME TypeOK, NEW k \in Keys, NEW a, NEW b,
         Says(k, Len(log), a), Says(k, Len(log), b)
  PROVE  a = b
<1>1. \A i \in LinesOf(k) : i <= Len(log) /\ i \in Nat /\ Len(log) \in Nat
  BY DEF LinesOf, TypeOK
<1>2. CASE LinesOf(k) = {}
  BY <1>2 DEF Says
<1>3. CASE LinesOf(k) # {}
  <2>1. PICK i \in LinesOf(k) : \A j \in LinesOf(k) : j <= i
    BY <1>3, LastLineFacts
  <2>2. a = log[i] /\ b = log[i]
    BY <1>1, <2>1 DEF Says
  <2> QED BY <2>2
<1> QED BY <1>2, <1>3

\* They say what is to be found of a key when the process has died.
LEMMA SaidIsSays ==
  TypeOK /\ SnapshotsAreMaps => \A k \in Keys : Says(k, Len(log), Said(k))
<1> SUFFICES ASSUME TypeOK, SnapshotsAreMaps, NEW k \in Keys
             PROVE  Says(k, Len(log), Said(k))
  OBVIOUS
<1>1. \A i \in LinesOf(k) : i <= Len(log) /\ i \in Nat /\ Len(log) \in Nat
  BY DEF LinesOf, TypeOK
<1>2. CASE LinesOf(k) # {}
  <2> DEFINE last == Max(LinesOf(k))
  <2>1. last \in LinesOf(k) /\ \A j \in LinesOf(k) : j <= last
    BY <1>2, LastLineFacts
  <2>2. Said(k) = log[last]
    BY <1>2 DEF Said
  <2> HIDE DEF last
  <2>3. \A i \in LinesOf(k) : (\A j \in LinesOf(k) : j <= Len(log) => j <= i) => i = last
    BY <1>1, <2>1
  <2> QED BY <1>1, <2>1, <2>2, <2>3 DEF Says
<1>3. CASE LinesOf(k) = {} /\ InDump(k) # {}
  <2>1. Said(k) = CHOOSE line \in InDump(k) : TRUE
    BY <1>3 DEF Said, InDump
  <2>2. \A l \in InDump(k) : Said(k) = l
    BY <1>3, <2>1 DEF InDump, SnapshotsAreMaps, OneSetEach
  <2> QED BY <1>3, <2>2 DEF Says
<1>4. CASE LinesOf(k) = {} /\ InDump(k) = {}
  <2>1. Said(k) = None
    BY <1>4 DEF Said, InDump
  <2> QED BY <1>4, <2>1 DEF Says
<1> QED BY <1>2, <1>3, <1>4

\* And so they do after a step.
LEMMA SaidIsSaysNext ==
  (TypeOK /\ SnapshotsAreMaps => \A k \in Keys : Says(k, Len(log), Said(k)))'
BY SaidIsSays, PTL

-----------------------------------------------------------------------------
(* Damaged lines *)

Readings == Line \cup {None}

\* A line that was cut, glued, or both is read as a line or passed over.
LEMMA DamagedLines ==
  /\ Requests \cup Glued \subseteq Line /\ Gluings \subseteq Readings
  /\ \A line \in Line : Parts(line) \subseteq Readings
  /\ Rests \subseteq Readings
<1>1. Requests \cup Glued \subseteq Line
  <2>1. \A line \in Requests : line.ttl \in Nat \cup {None}
    BY ConstantsOK DEF Line
  <2>2. Glued \subseteq Line
    BY <2>1 DEF Glued, Line
  <2> QED BY <2>2, ConstantsOK
<1>2. ASSUME NEW line \in Line PROVE Parts(line) \subseteq Readings
  <2>1. CASE line.op = "del"
    <3>1. \A k \in Begins[line.key] : [line EXCEPT !.key = k] \in Line
      BY <2>1, ConstantsOK DEF Line
    <3> QED BY <2>1, <3>1 DEF Parts, Readings
  <2>2. CASE line.op # "del"
    <3>1. \A v \in Values : [line EXCEPT !.value = v, !.ttl = None] \in Line
      BY <2>2 DEF Line
    <3>2. ASSUME NEW t \in IF line.ttl = None THEN {} ELSE 1 .. line.ttl
          PROVE  [line EXCEPT !.ttl = t] \in Line
      <4>1. t \in Nat
        BY <3>2 DEF Line
      <4> QED BY <2>2, <4>1 DEF Line
    <3> QED BY <2>2, <3>1, <3>2 DEF Parts, Readings
  <2> QED BY <2>1, <2>2
<1>3. Gluings \subseteq Readings
  BY <1>1 DEF Gluings, Readings
<1>4. Rests \subseteq Readings
  BY <1>1, <1>2 DEF Rests
<1> QED BY <1>1, <1>2, <1>3, <1>4

\* The end of the file after it was cut, in a line or in what was glued to one.
LEMMA TornFacts ==
  ASSUME TypeOK, NEW r \in Readings
  PROVE  /\ File!Torn(r) \in Seq(Readings)
         /\ Len(File!Torn(r)) = IF cut THEN hard ELSE hard + 1
         /\ \A i \in 1 .. hard : ~(cut /\ i = hard) => File!Torn(r)[i] = log[i]
         /\ File!Torn(r)[Len(File!Torn(r))] = r
<1>1. log \in Seq(Readings) /\ hard \in 0 .. Len(log) /\ (cut => hard > 0) /\ hard \in Nat
  BY DEF TypeOK, Readings
<1> DEFINE on == SubSeq(log, 1, hard)
<1>2. on \in Seq(Readings) /\ Len(on) = hard /\ \A i \in 1 .. hard : on[i] = log[i]
  BY <1>1, SubSeqProperties
<1> HIDE DEF on
<1>3. CASE cut
  <2>1. File!Torn(r) = [on EXCEPT ![hard] = r]
    BY <1>3 DEF File!Torn, File!OnFile, on
  <2>2. [on EXCEPT ![hard] = r] \in Seq(Readings) /\ Len([on EXCEPT ![hard] = r]) = hard
    BY <1>1, <1>2, <1>3, ExceptSeq
  <2> QED BY <1>1, <1>2, <1>3, <2>1, <2>2
<1>4. CASE ~cut
  <2>1. File!Torn(r) = Append(on, r)
    BY <1>4 DEF File!Torn, File!OnFile, on
  <2> QED BY <1>1, <1>2, <1>4, <2>1, AppendProperties
<1> QED BY <1>3, <1>4

\* A death leaves what was on disk, and perhaps the part of one more line.
LEMMA DieFacts ==
  ASSUME TypeOK, Die
  PROVE  /\ log' \in Seq(Readings) /\ hard' = Len(log') /\ hard' \in Nat
         /\ cut' \in BOOLEAN /\ (cut' => hard' > 0)
         /\ hard = Len(log) => log' = log /\ spoilt' = spoilt
         /\ spoilt' \subseteq Keys /\ spoilt \subseteq spoilt'
         /\ \A k \in Keys : k \notin spoilt' /\ LinesOf(k) \subseteq 1 .. hard =>
              /\ LinesOf(k)' = LinesOf(k)
              /\ \A i \in LinesOf(k) : log'[i] = log[i]
<1>1. log \in Seq(Readings) /\ hard \in 0 .. Len(log) /\ Len(log) \in Nat /\ hard \in Nat
  BY DEF TypeOK, Readings
<1>2. CASE File!Crash /\ UNCHANGED spoilt
  <2>1. log' = SubSeq(log, 1, hard) /\ hard' = hard /\ cut' = cut
    BY <1>2 DEF File!Crash, File!OnFile
  <2>2. log' \in Seq(Readings) /\ Len(log') = hard /\ \A i \in 1 .. hard : log'[i] = log[i]
    BY <1>1, <2>1, SubSeqProperties
  <2>3. hard = Len(log) => log' = log
    BY <1>1, <2>1
  <2>4. ASSUME NEW k \in Keys, LinesOf(k) \subseteq 1 .. hard
        PROVE  LinesOf(k)' = LinesOf(k) /\ \A i \in LinesOf(k) : log'[i] = log[i]
    BY <1>1, <2>2, <2>4 DEF LinesOf
  <2> QED BY <1>1, <1>2, <2>1, <2>2, <2>3, <2>4 DEF TypeOK
<1>3. ASSUME NEW r \in IF cut THEN Rests ELSE Parts(log[hard + 1]), hard < Len(log),
             File!Tear(r),
             spoilt' = spoilt \cup
               {k \in Keys : About(k, {r} \cup (IF cut THEN {log[hard]} ELSE {}))}
      PROVE  /\ log' \in Seq(Readings) /\ hard' = Len(log') /\ hard' \in Nat /\ cut'
             /\ hard' > 0 /\ spoilt' \subseteq Keys /\ spoilt \subseteq spoilt'
             /\ \A k \in Keys : k \notin spoilt' /\ LinesOf(k) \subseteq 1 .. hard =>
                  /\ LinesOf(k)' = LinesOf(k)
                  /\ \A i \in LinesOf(k) : log'[i] = log[i]
  <2>1. r \in Readings
    <3>1. hard + 1 \in hard + 1 .. Len(log) /\ log[hard + 1] \in Readings
      BY <1>1, <1>3
    <3>2. log[hard + 1] \in Line
      BY <3>1 DEF TypeOK, Readings
    <3> QED BY <1>3, <3>2, DamagedLines
  <2>2. log' = File!Torn(r) /\ hard' = Len(log') /\ cut'
    BY <1>3 DEF File!Tear
  <2>3. /\ log' \in Seq(Readings) /\ Len(log') = IF cut THEN hard ELSE hard + 1
        /\ \A i \in 1 .. hard : ~(cut /\ i = hard) => log'[i] = log[i]
        /\ log'[Len(log')] = r
    BY <2>1, <2>2, TornFacts
  <2>4. ASSUME NEW k \in Keys, k \notin spoilt', LinesOf(k) \subseteq 1 .. hard
        PROVE  LinesOf(k)' = LinesOf(k) /\ \A i \in LinesOf(k) : log'[i] = log[i]
    <3>1. ~(r # None /\ r.key = k) /\ (cut => ~(log[hard] # None /\ log[hard].key = k))
      BY <1>3, <2>4 DEF About
    <3>2. \A i \in LinesOf(k) : i \in 1 .. hard /\ ~(cut /\ i = hard)
      BY <2>4, <3>1 DEF LinesOf
    <3>3. \A i \in LinesOf(k) : log'[i] = log[i] /\ i \in 1 .. Len(log')
      BY <1>1, <2>3, <3>2
    <3>4. \A i \in LinesOf(k)' : i \in LinesOf(k)
      <4> SUFFICES ASSUME NEW i \in 1 .. Len(log'), log'[i] # None, log'[i].key = k
                   PROVE  i \in LinesOf(k)
        BY DEF LinesOf
      <4>1. i # Len(log')
        BY <2>3, <3>1
      <4>2. i \in 1 .. hard /\ ~(cut /\ i = hard)
        BY <1>1, <2>3, <4>1
      <4> QED BY <1>1, <2>3, <4>2 DEF LinesOf
    <3>5. \A i \in LinesOf(k) : i \in LinesOf(k)'
      BY <3>3 DEF LinesOf
    <3> QED BY <3>3, <3>4, <3>5
  <2>5. hard' > 0 /\ hard' \in Nat
    BY <1>1, <2>2, <2>3 DEF TypeOK
  <2>6. spoilt' \subseteq Keys /\ spoilt \subseteq spoilt'
    BY <1>3 DEF TypeOK
  <2> QED BY <2>2, <2>3, <2>4, <2>5, <2>6
<1>4. \/ File!Crash /\ UNCHANGED spoilt
      \/ hard < Len(log) /\ \E r \in IF cut THEN Rests ELSE Parts(log[hard + 1]) :
           /\ File!Tear(r)
           /\ spoilt' = spoilt \cup
                {k \in Keys : About(k, {r} \cup (IF cut THEN {log[hard]} ELSE {}))}
  BY DEF Die
<1>5. CASE hard = Len(log)
  BY <1>1, <1>2, <1>4, <1>5
<1>6. CASE hard # Len(log)
  BY <1>2, <1>3, <1>4, <1>6
<1> QED BY <1>5, <1>6

\* The first line of a life after a cut: it is glued to what ends the file, the
\* lines after it stay as they are, one place further up.
LEMMA GlueFacts ==
  ASSUME TypeOK, NEW r \in Gluings, File!Glue(r)
  PROVE  /\ log' \in Seq(Readings) /\ Len(log') = Len(log) - 1
         /\ hard' = hard /\ hard \in 1 .. Len(log') /\ cut' = FALSE
         /\ \A i \in 1 .. Len(log') :
              log'[i] = IF i < hard THEN log[i] ELSE IF i = hard THEN r ELSE log[i + 1]
<1>1. log \in Seq(Readings) /\ hard \in 1 .. Len(log) - 1 /\ Len(log) \in Nat
  BY DEF TypeOK, Readings, File!Glue
<1>2. r \in Readings
  BY DamagedLines
<1> DEFINE glued == [i \in 1 .. Len(log) - 1 |->
                IF i < hard THEN log[i] ELSE IF i = hard THEN r ELSE log[i + 1]]
<1>3. glued \in Seq(Readings) /\ Len(glued) = Len(log) - 1
  <2>1. Len(log) - 1 \in Nat
    BY <1>1
  <2>2. \A i \in 1 .. Len(log) - 1 : glued[i] \in Readings
    BY <1>1, <1>2
  <2> QED BY <2>1, <2>2
<1>4. log' = glued /\ hard' = hard /\ cut' = FALSE
  BY DEF File!Glue
<1> QED BY <1>1, <1>3, <1>4

-----------------------------------------------------------------------------
(* Types *)

\* The cache stays a map whatever it drops for want of room.
LEMMA PutTypes ==
  ASSUME TypeOK, NEW line \in Line, Put(line)
  PROVE  /\ map' \in [Keys -> Entry \cup {None}] /\ evicted' \subseteq Keys
         /\ latest' \in [Keys -> Line \cup {None}]
<1>1. line.key \in Keys /\ line.ttl \in Nat \cup {None}
  BY DEF Line
<1>2. Applied(map, line) \in [Keys -> Entry \cup {None}]
  BY <1>1, ConstantsOK DEF TypeOK, Applied, Line, Entry, Deadline
<1> DEFINE m == Applied(map, line)
<1> HIDE DEF m
<1>3. m \in [Keys -> Entry \cup {None}] /\ Others(line.key) \subseteq Keys
  BY <1>2 DEF m, Others
<1>4. map' \in [Keys -> Entry \cup {None}] /\ evicted' \subseteq Keys
  <2>1. map' = m \/ \E k \in Others(line.key) : map' = [m EXCEPT ![k] = None]
    BY DEF Put, m
  <2>2. map' \in [Keys -> Entry \cup {None}]
    BY <1>3, <2>1
  <2>3. \/ evicted' = evicted \ {line.key}
        \/ \E k \in Others(line.key) : evicted' = (evicted \ {line.key}) \cup {k}
    BY DEF Put, m
  <2> QED BY <1>3, <2>2, <2>3 DEF TypeOK
<1> QED BY <1>1, <1>4 DEF Put, TypeOK

\* What the files say is a line or nothing, before a step and after it.
LEMMA SaidTypes ==
  log \in Seq(Line \cup {None}) /\ (dump = None \/ dump \subseteq Line) =>
    \A k \in Keys : Said(k) \in Line \cup {None}
<1> SUFFICES ASSUME log \in Seq(Line \cup {None}), dump = None \/ dump \subseteq Line,
                    NEW k \in Keys
             PROVE  Said(k) \in Line \cup {None}
  OBVIOUS
<1>1. CASE LinesOf(k) # {}
  <2>1. LinesOf(k) \in SUBSET (1 .. Len(log)) /\ Len(log) \in Nat
    BY DEF LinesOf
  <2>2. Max(LinesOf(k)) \in 1 .. Len(log)
    BY <1>1, <2>1, MaxFacts
  <2> QED BY <1>1, <2>2 DEF Said
<1>2. CASE LinesOf(k) = {} /\ InDump(k) # {}
  <2>1. InDump(k) \subseteq Line /\ Said(k) = CHOOSE line \in InDump(k) : TRUE
    BY <1>2 DEF Said, InDump
  <2> QED BY <1>2, <2>1
<1>3. CASE LinesOf(k) = {} /\ InDump(k) = {}
  BY <1>3 DEF Said, InDump
<1> QED BY <1>1, <1>2, <1>3

LEMMA SaidTypesNext ==
  (log \in Seq(Line \cup {None}) /\ (dump = None \/ dump \subseteq Line) =>
    \A k \in Keys : Said(k) \in Line \cup {None})'
BY SaidTypes, PTL

\* Every step keeps the types.
LEMMA TypeKept == TypeOK /\ [Next]_vars => TypeOK'
<1> SUFFICES ASSUME TypeOK, [Next]_vars PROVE TypeOK'
  OBVIOUS
<1> USE DEF TypeOK, file, files, scan, replay, history
<1>1. ASSUME NEW c \in Clients, Apply(c) PROVE TypeOK'
  <2>1. PICK line \in Requests :
          /\ Put(line) /\ ops' = ops + 1
          /\ pending' = [pending EXCEPT ![c] = line]
          /\ due' = [due EXCEPT ![line.key] = Deadline(line.ttl)]
          /\ expected' = [k \in DOMAIN expected \ {line.key} |-> expected[k]]
          /\ UNCHANGED <<clock, files, scan, replay, spoilt, lives>>
    BY <1>1 DEF Apply, Put
  <2>2. line \in Line /\ line.ttl \in Nat \cup {None}
    BY DamagedLines DEF Line
  <2>3. /\ map' \in [Keys -> Entry \cup {None}] /\ evicted' \subseteq Keys
        /\ latest' \in [Keys -> Line \cup {None}]
    BY <2>1, <2>2, PutTypes
  <2>4. due' \in [Keys -> Nat \cup {None}] /\ pending' \in [Clients -> Line \cup {None}]
    <3>1. Deadline(line.ttl) \in Nat \cup {None}
      BY <2>2 DEF Deadline
    <3> QED BY <2>1, <2>2, <3>1
  <2>5. DOMAIN expected' \subseteq Keys
        /\ \A k \in DOMAIN expected' : expected'[k] \in Line \cup {None}
    BY <2>1
  <2> QED BY <2>1, <2>3, <2>4, <2>5
<1>2. ASSUME NEW c \in Clients, Record(c) PROVE TypeOK'
  <2>1. log' = Append(log, pending[c]) /\ pending[c] \in Line /\ hard' = hard /\ cut' = cut
    BY <1>2 DEF Record, File!Record
  <2>2. log' \in Seq(Line \cup {None}) /\ Len(log') = Len(log) + 1
        /\ \A i \in 1 .. Len(log') : log'[i] = IF i = Len(log) + 1 THEN pending[c] ELSE log[i]
    BY <2>1
  <2>3. \A i \in hard' + 1 .. Len(log') : log'[i] # None
    BY <2>1, <2>2, NoneIsNoRecord
  <2>4. hard' \in 0 .. Len(log') /\ next \in 1 .. Len(log') + 1
    BY <2>1, <2>2
  <2> QED BY <1>2, <2>1, <2>2, <2>3, <2>4 DEF Record
<1>3. ASSUME NEW k \in Keys, Expire(k) PROVE TypeOK'
  BY <1>3 DEF Expire
<1>4. ASSUME NEW k \in Keys, ScanKey(k) PROVE TypeOK'
  <2>1. CASE items' = items
    BY <2>1, <1>4 DEF ScanKey
  <2>2. CASE items' # items
    <3>1. Live(k) /\ items' = items \cup {[op |-> "set", key |-> k, value |-> map[k].value,
                                           ttl |-> TtlLeft(map[k])]}
      BY <2>2, <1>4 DEF ScanKey
    <3>2. map[k].value \in Values /\ map[k].expiry \in Nat \cup {None}
      BY <3>1 DEF Live, Entry
    <3>3. TtlLeft(map[k]) \in Nat \cup {None}
      BY <3>1, <3>2 DEF Live, ExpiredAt, TtlLeft
    <3> DEFINE line == [op |-> "set", key |-> k, value |-> map[k].value,
                        ttl |-> TtlLeft(map[k])]
    <3>4. line \in Line
      BY <3>2, <3>3 DEF Line
    <3>5. items' = items \cup {line}
      BY <3>1
    <3> HIDE DEF line
    <3> QED BY <1>4, <3>4, <3>5 DEF ScanKey
  <2> QED BY <2>1, <2>2
<1>5. CASE Harden
  BY <1>5 DEF Harden, File!Harden
<1>6. CASE HardenGlued
  <2>1. PICK r \in Gluings : /\ phase = "up" /\ File!Glue(r)
                             /\ \E K \in SUBSET Keys : spoilt' = spoilt \cup K
                             /\ UNCHANGED <<clock, map, pending, dump, scan, replay, latest, due,
                                            evicted, ops, lives, expected>>
    BY <1>6 DEF HardenGlued
  <2>2. /\ log' \in Seq(Readings) /\ Len(log') = Len(log) - 1
        /\ hard' = hard /\ hard \in 1 .. Len(log') /\ cut' = FALSE
        /\ \A i \in 1 .. Len(log') :
             log'[i] = IF i < hard THEN log[i] ELSE IF i = hard THEN r ELSE log[i + 1]
    BY <2>1, GlueFacts
  <2>3. \A i \in hard' + 1 .. Len(log') : log'[i] # None
    BY <2>2
  <2>4. next' = 1 /\ phase' = "up"
    BY <2>1
  <2>5. spoilt' \subseteq Keys
    BY <2>1
  <2>6. log' \in Seq(Line \cup {None}) /\ hard' \in 0 .. Len(log') /\ cut' = FALSE
        /\ next' \in 1 .. Len(log') + 1
    BY <2>2, <2>4 DEF Readings
  <2> QED BY <2>1, <2>3, <2>4, <2>5, <2>6
<1>7. CASE ScanBegin \/ RemoveOld \/ Rename \/ SnapshotFails
  <2>1. CASE ScanBegin
    BY <2>1 DEF ScanBegin
  <2>2. CASE RemoveOld
    BY <2>2 DEF RemoveOld
  <2>3. CASE Rename
    BY <2>3 DEF Rename
  <2>4. CASE SnapshotFails
    BY <2>4 DEF SnapshotFails
  <2> QED BY <1>7, <2>1, <2>2, <2>3, <2>4
<1>8. CASE Die
  <2>1. /\ log' \in Seq(Line \cup {None}) /\ hard' = Len(log') /\ hard' \in Nat
        /\ cut' \in BOOLEAN /\ (cut' => hard' > 0) /\ spoilt' \subseteq Keys
    BY <1>8, DieFacts DEF Readings
  <2>2. /\ clock' = clock /\ dump' = dump /\ latest' = latest /\ due' = due /\ ops' = ops
        /\ lives' = lives /\ map' = Empty /\ pending' = [c \in Clients |-> None]
        /\ sp' = "idle" /\ now' = 0 /\ todo' = {} /\ items' = {} /\ phase' = "down"
        /\ left' = {} /\ next' = 1 /\ evicted' = {}
    BY <1>8 DEF Die
  <2>3. \A k \in Keys : Said(k)' \in Line \cup {None}
    <3>1. Len(log') \in Nat /\ (dump' = None \/ dump' \subseteq Line)
      BY <2>1, <2>2
    <3> QED BY <2>1, <3>1, SaidTypesNext
  <2>4. DOMAIN expected' \subseteq Keys
         /\ \A k \in DOMAIN expected' : expected'[k] \in Line \cup {None}
    BY <1>8, <2>3 DEF Die
  <2> QED BY <2>1, <2>2, <2>4 DEF Empty
<1>9. CASE Start
  BY <1>9 DEF Start, Empty
<1>10. ASSUME NEW line \in Line \cup {None}, Replayed(line)
       PROVE  /\ map' \in [Keys -> Entry \cup {None}] /\ evicted' \subseteq Keys
              /\ latest' \in [Keys -> Line \cup {None}]
              /\ UNCHANGED <<clock, pending, files, scan, phase, due, spoilt, ops, lives, expected>>
  <2>1. CASE line = None
    BY <1>10, <2>1 DEF Replayed
  <2>2. CASE line # None
    BY <1>10, <2>2, PutTypes DEF Replayed
  <2> QED BY <2>1, <2>2
<1>11. CASE ReplayDump
  <2>1. PICK line \in left : Replayed(line) /\ left' = left \ {line} /\ next' = next
    BY <1>11 DEF ReplayDump
  <2> QED BY <1>10, <2>1
<1>12. CASE ReplayFile
  <2>1. next <= Len(log) /\ log[next] \in Line \cup {None} /\ Replayed(log[next])
        /\ next' = next + 1 /\ left' = left /\ phase = "file"
    BY <1>12 DEF ReplayFile
  <2> QED BY <1>10, <2>1
<1>13. CASE DumpDone \/ Serve \/ Tick \/ UNCHANGED vars
  BY <1>13 DEF DumpDone, Serve, Tick, vars
<1> QED BY <1>1, <1>2, <1>3, <1>4, <1>5, <1>6, <1>7, <1>8, <1>9, <1>11, <1>12, <1>13 DEF Next

-----------------------------------------------------------------------------
(* Who writes *)

\* The steps that leave the file, its replay and what is remembered alone.
Aside ==
  \/ \E k \in Keys : Expire(k) \/ ScanKey(k)
  \/ ScanBegin \/ RemoveOld \/ Rename \/ SnapshotFails \/ Tick \/ UNCHANGED vars

\* They do.
LEMMA AsideFacts ==
  ASSUME TypeOK, Aside
  PROVE  UNCHANGED <<log, hard, replay, history, pending>>
<1> USE DEF file, files, scan, replay, history
<1>1. ASSUME NEW k \in Keys, Expire(k) \/ ScanKey(k)
      PROVE  UNCHANGED <<log, hard, replay, history, pending>>
  BY <1>1 DEF Expire, ScanKey
<1>2. CASE ScanBegin \/ RemoveOld \/ Rename \/ SnapshotFails
  BY <1>2 DEF ScanBegin, RemoveOld, Rename, SnapshotFails
<1>3. CASE Tick \/ UNCHANGED vars
  BY <1>3 DEF Tick, vars
<1> QED BY <1>1, <1>2, <1>3 DEF Aside

\* The snapshot file changes only while clients are served.
LEMMA AsideKeepsDump ==
  ASSUME IInv, Aside, phase # "up" PROVE dump' = dump
<1> USE DEF file, files, scan, replay, history
<1>1. sp = "idle"
  BY DEF IInv, NobodyWrites
<1>2. ASSUME NEW k \in Keys, Expire(k) \/ ScanKey(k) PROVE dump' = dump
  BY <1>2 DEF Expire, ScanKey
<1>3. CASE ScanBegin \/ RemoveOld \/ Rename \/ SnapshotFails
  BY <1>1, <1>3 DEF ScanBegin, RemoveOld, Rename, SnapshotFails
<1>4. CASE Tick \/ UNCHANGED vars
  BY <1>4 DEF Tick, vars
<1> QED BY <1>2, <1>3, <1>4 DEF Aside

\* A death empties memory, and nobody is served before the file is read.
LEMMA NobodyWritesKept ==
  ASSUME IInv, [Next]_vars PROVE NobodyWrites'
<1> USE DEF IInv, NobodyWrites, file, files, scan, replay, history
<1>1. ASSUME NEW c \in Clients, Apply(c) PROVE NobodyWrites'
  BY <1>1 DEF Apply, Put
<1>2. ASSUME NEW c \in Clients, Record(c) PROVE NobodyWrites'
  BY <1>2 DEF Record
<1>3. CASE Aside
  <2>1. UNCHANGED <<log, hard, phase, pending>>
    BY <1>3, AsideFacts
  <2>2. phase # "up" => sp' = "idle"
    <3>1. ASSUME NEW k \in Keys, Expire(k) \/ ScanKey(k), phase # "up" PROVE sp' = "idle"
      BY <3>1 DEF Expire, ScanKey
    <3> QED BY <1>3, <3>1 DEF Aside, ScanBegin, RemoveOld, Rename, SnapshotFails, Tick, vars
  <2> QED BY <2>1, <2>2
<1>4. CASE Harden \/ HardenGlued
  BY <1>4 DEF Harden, HardenGlued
<1>5. CASE Die
  <2>1. hard' = Len(log')
    BY <1>5, DieFacts
  <2> QED BY <1>5, <2>1 DEF Die
<1>6. CASE Start \/ ReplayDump \/ DumpDone \/ ReplayFile \/ Serve
  BY <1>6 DEF Start, ReplayDump, DumpDone, ReplayFile, Serve, Replayed
<1> QED BY <1>1, <1>2, <1>3, <1>4, <1>5, <1>6 DEF Next, Aside

\* No other client changes a key between its cache step and its record.
LEMMA PendingKept ==
  ASSUME OneWriterEach, IInv, [Next]_vars PROVE PendingIsLatest'
<1> USE DEF IInv, PendingIsLatest, file, files, scan, replay, history
<1>1. ASSUME NEW c \in Clients, Apply(c) PROVE PendingIsLatest'
  <2>1. PICK line \in Requests :
          /\ pending[c] = None /\ c \in Writers[line.key]
          /\ pending' = [pending EXCEPT ![c] = line]
          /\ latest' = [latest EXCEPT ![line.key] = line]
    BY <1>1 DEF Apply, Put
  <2>2. line.key \in Keys
    BY ConstantsOK DEF Line
  <2>3. ASSUME NEW d \in Clients, d # c, pending[d] # None
        PROVE  pending[d].key # line.key
    BY <2>1, <2>2, <2>3 DEF OneWriterEach
  <2> QED BY <2>1, <2>2, <2>3 DEF TypeOK
<1>2. ASSUME NEW c \in Clients, Record(c) PROVE PendingIsLatest'
  BY <1>2 DEF Record, TypeOK
<1>3. CASE Aside \/ Harden \/ HardenGlued
  <2>1. UNCHANGED <<latest, pending>>
    BY <1>3, AsideFacts DEF Harden, HardenGlued
  <2> QED BY <2>1
<1>4. CASE Die
  BY <1>4 DEF Die
<1>5. CASE Start \/ ReplayDump \/ DumpDone \/ ReplayFile \/ Serve
  BY <1>5 DEF Start, ReplayDump, DumpDone, ReplayFile, Serve, Replayed, Put, NobodyWrites
<1> QED BY <1>1, <1>2, <1>3, <1>4, <1>5 DEF Next, Aside

\* A scan looks at each key once and renames what it has into place.
LEMMA SnapshotsKept ==
  ASSUME TypeOK, SnapshotsAreMaps, [Next]_vars PROVE SnapshotsAreMaps'
<1> USE DEF SnapshotsAreMaps, OneSetEach, file, files, scan, replay, history
<1>1. ASSUME NEW c \in Clients, Apply(c) \/ Record(c) PROVE SnapshotsAreMaps'
  BY <1>1 DEF Apply, Record
<1>2. ASSUME NEW k \in Keys, Expire(k) PROVE SnapshotsAreMaps'
  BY <1>2 DEF Expire
<1>3. ASSUME NEW k \in Keys, ScanKey(k) PROVE SnapshotsAreMaps'
  <2>1. CASE items' = items
    BY <1>3, <2>1 DEF ScanKey
  <2>2. CASE items' # items
    <3> DEFINE line == [op |-> "set", key |-> k, value |-> map[k].value,
                        ttl |-> TtlLeft(map[k])]
    <3>1. Live(k) /\ items' = items \cup {line}
      BY <1>3, <2>2 DEF ScanKey
    <3>2. line.op = "set" /\ line.key = k /\ (line.ttl = None \/ line.ttl > 0)
      <4>1. map[k].expiry = None \/ (map[k].expiry \in Nat /\ now \in Nat /\ map[k].expiry > now)
        BY <3>1 DEF Live, ExpiredAt, TypeOK, Entry
      <4>2. TtlLeft(map[k]) = None \/ TtlLeft(map[k]) > 0
        BY <4>1 DEF TtlLeft
      <4> QED BY <4>2
    <3>3. items' = items \cup {line}
      BY <3>1
    <3> HIDE DEF line
    <3>4. \A l \in items : l.key # k
      BY <1>3 DEF ScanKey
    <3> QED BY <1>3, <3>2, <3>3, <3>4 DEF ScanKey
  <2> QED BY <2>1, <2>2
<1>4. CASE ScanBegin
  BY <1>4 DEF ScanBegin, TypeOK
<1>5. CASE RemoveOld \/ Rename \/ SnapshotFails
  BY <1>5 DEF RemoveOld, Rename, SnapshotFails
<1>6. CASE Harden \/ HardenGlued \/ Die \/ Tick \/ UNCHANGED vars
  BY <1>6 DEF Harden, HardenGlued, Die, Tick, vars
<1>7. CASE Start \/ ReplayDump \/ DumpDone \/ ReplayFile \/ Serve
  BY <1>7 DEF Start, ReplayDump, DumpDone, ReplayFile, Serve, Replayed
<1> QED BY <1>1, <1>2, <1>3, <1>4, <1>5, <1>6, <1>7 DEF Next

-----------------------------------------------------------------------------
(* What is replayed *)

\* What the file and the snapshot say rests on nothing else.
LEMMA SaysKept ==
  ASSUME UNCHANGED <<log, dump>>, NEW k, NEW n, NEW line, Says(k, n, line)
  PROVE  Says(k, n, line)'
BY DEF Says, LinesOf, InDump

\* A record puts the client's line at the end of the file.
LEMMA RecordFacts ==
  ASSUME TypeOK, NEW c \in Clients, Record(c)
  PROVE  /\ pending[c] # None /\ pending[c] \in Line
         /\ pending' = [pending EXCEPT ![c] = None]
         /\ Len(log') = Len(log) + 1 /\ log'[Len(log) + 1] = pending[c]
         /\ \A i \in 1 .. Len(log) : log'[i] = log[i]
         /\ spoilt' = spoilt \ {pending[c].key}
         /\ UNCHANGED <<map, dump, phase, next, left, latest, expected>>
<1>1. pending[c] # None /\ pending[c] \in Line /\ log \in Seq(Line \cup {None})
  BY DEF Record, TypeOK
<1>2. log' = Append(log, pending[c])
  BY DEF Record, File!Record
<1> QED BY <1>1, <1>2 DEF Record, replay, history

\* A recovery reads the snapshot's lines and then the file's, in order; after
\* it each write is followed by its record.
LEMMA LatestKept ==
  ASSUME IInv, [Next]_vars PROVE LatestIsRead'
<1> USE DEF IInv, file, files, scan, replay, history
<1>1. ASSUME NEW c \in Clients, Apply(c) PROVE LatestIsRead'
  <2>1. PICK line \in Requests :
          /\ phase = "up" /\ pending[c] = None
          /\ pending' = [pending EXCEPT ![c] = line]
          /\ latest' = [latest EXCEPT ![line.key] = line]
          /\ UNCHANGED <<log, phase, next, spoilt>>
    BY <1>1 DEF Apply, Put
  <2>2. line.key \in Keys /\ line # None
    <3>1. line \in Line /\ line.key \in Keys
      BY ConstantsOK DEF Line
    <3> QED BY <3>1, NoneIsNoRecord
  <2>3. Busy(line.key)'
    BY <2>1, <2>2 DEF Busy, TypeOK
  <2>4. ASSUME NEW k \in Keys \ spoilt', ~Busy(k)', NEW i \in LinesOf(k)',
               \A j \in LinesOf(k)' : j <= i
        PROVE  latest'[k] = log'[i]
    <3>1. k # line.key
      BY <2>3, <2>4
    <3>2. ~Busy(k)
      BY <2>1, <2>4 DEF Busy, TypeOK
    <3>3. i \in LinesOf(k) /\ \A j \in LinesOf(k) : j <= i
      BY <2>1, <2>4 DEF LinesOf
    <3> QED BY <2>1, <3>1, <3>2, <3>3 DEF LatestIsRead, TypeOK
  <2> QED BY <2>1, <2>4 DEF LatestIsRead
<1>2. ASSUME NEW c \in Clients, Record(c) PROVE LatestIsRead'
  <2>1. /\ pending[c] # None /\ pending[c] \in Line
        /\ pending' = [pending EXCEPT ![c] = None]
        /\ Len(log') = Len(log) + 1 /\ log'[Len(log) + 1] = pending[c]
        /\ \A i \in 1 .. Len(log) : log'[i] = log[i]
        /\ spoilt' = spoilt \ {pending[c].key}
        /\ UNCHANGED <<phase, latest>>
    BY <1>2, RecordFacts
  <2>2. phase = "up"
    BY <2>1 DEF NobodyWrites
  <2>3. ASSUME NEW k \in Keys \ spoilt', ~Busy(k)', NEW i \in LinesOf(k)',
               \A j \in LinesOf(k)' : j <= i
        PROVE  latest'[k] = log'[i]
    <3>1. Len(log) \in Nat
      BY DEF TypeOK
    <3>2. CASE k = pending[c].key
      <4>1. Len(log) + 1 \in LinesOf(k)'
        BY <2>1, <3>1, <3>2, NoneIsNoRecord DEF LinesOf
      <4>2. i = Len(log) + 1
        BY <2>1, <2>3, <3>1, <4>1 DEF LinesOf
      <4> QED BY <2>1, <3>2, <4>2 DEF PendingIsLatest
    <3>3. CASE k # pending[c].key
      <4>1. LinesOf(k)' = LinesOf(k)
        BY <2>1, <3>1, <3>3 DEF LinesOf
      <4>2. ~Busy(k)
        BY <2>1, <2>3, <3>3 DEF Busy, TypeOK
      <4>3. i \in 1 .. Len(log)
        BY <4>1 DEF LinesOf
      <4>4. latest[k] = log[i]
        BY <2>1, <2>2, <2>3, <3>3, <4>1, <4>2 DEF LatestIsRead
      <4> QED BY <2>1, <4>3, <4>4
    <3> QED BY <3>2, <3>3
  <2> QED BY <2>1, <2>2, <2>3 DEF LatestIsRead
<1>3. CASE Aside \/ Harden
  <2>1. UNCHANGED <<log, phase, next, left, latest, pending, spoilt>>
    BY <1>3, AsideFacts DEF Harden, File!Harden
  <2>2. phase # "up" => dump' = dump
    BY <1>3, AsideKeepsDump DEF Harden
  <2>3. CASE phase = "up"
    BY <2>1, <2>3 DEF LatestIsRead, Busy, LinesOf
  <2>4. CASE phase # "up"
    BY <2>1, <2>2, <2>4, SaysKept DEF LatestIsRead, InDump
  <2> QED BY <2>3, <2>4
<1>10. CASE HardenGlued
  <2>1. PICK r \in Gluings :
          /\ phase = "up" /\ File!Glue(r)
          /\ spoilt' = spoilt \cup {k \in Keys : /\ About(k, {log[hard], log[hard + 1], r})
                                               /\ \A i \in LinesOf(k) : i <= hard + 1}
          /\ UNCHANGED <<phase, next, pending, latest>>
    BY <1>10 DEF HardenGlued
  <2>2. /\ Len(log') = Len(log) - 1 /\ hard \in 1 .. Len(log') /\ Len(log) \in Nat
        /\ \A i \in 1 .. Len(log') :
             log'[i] = IF i < hard THEN log[i] ELSE IF i = hard THEN r ELSE log[i + 1]
    <3>1. Len(log) \in Nat
      BY DEF TypeOK
    <3> QED BY <2>1, <3>1, GlueFacts
  <2>4. ASSUME NEW k \in Keys, NEW l \in LinesOf(k), l > hard + 1 PROVE l - 1 \in LinesOf(k)'
    <3>1. l \in 1 .. Len(log) /\ log[l] # None /\ log[l].key = k
      BY DEF LinesOf
    <3>2. l - 1 \in 1 .. Len(log') /\ l - 1 > hard /\ (l - 1) + 1 = l
      BY <2>2, <2>4, <3>1
    <3>3. log'[l - 1] = log[l]
      BY <2>2, <3>2
    <3> QED BY <3>1, <3>2, <3>3 DEF LinesOf
  <2>3. ASSUME NEW k \in Keys \ spoilt', ~Busy(k)', NEW i \in LinesOf(k)',
               \A j \in LinesOf(k)' : j <= i
        PROVE  latest'[k] = log'[i]
    <3>1. k \notin spoilt /\ ~Busy(k)
      BY <2>1, <2>3 DEF Busy
    <3>2. \A j \in LinesOf(k) : (\A l \in LinesOf(k) : l <= j) => latest[k] = log[j]
      BY <2>1, <3>1 DEF LatestIsRead
    <3>3. i \in 1 .. Len(log') /\ log'[i] # None /\ log'[i].key = k
      BY <2>3 DEF LinesOf
    <3>4. CASE ~About(k, {log[hard], log[hard + 1], r})
      <4>1. /\ ~(log[hard] # None /\ log[hard].key = k) /\ ~(r # None /\ r.key = k)
            /\ ~(log[hard + 1] # None /\ log[hard + 1].key = k)
        BY <3>4 DEF About
      <4>2. CASE i < hard
        <5>1. i \in LinesOf(k) /\ log'[i] = log[i]
          BY <2>2, <3>3, <4>2 DEF LinesOf
        <5>2. ASSUME NEW l \in LinesOf(k) PROVE l <= i
          <6>1. l # hard /\ l # hard + 1 /\ l \in 1 .. Len(log)
            BY <4>1 DEF LinesOf
          <6>2. l > hard + 1 => l - 1 \in LinesOf(k)'
            BY <2>4
          <6>3. l < hard => l \in LinesOf(k)'
            BY <2>2, <6>1 DEF LinesOf
          <6>4. l < hard => l <= i
            BY <2>3, <6>3
          <6>5. l > hard + 1 => l - 1 <= i
            BY <2>3, <6>2
          <6> QED BY <2>2, <3>3, <4>2, <6>1, <6>4, <6>5
        <5> QED BY <2>1, <3>2, <5>1, <5>2
      <4>3. CASE i >= hard
        <5>1. i # hard
          BY <2>2, <3>3, <4>1
        <5>2. i + 1 \in LinesOf(k) /\ log'[i] = log[i + 1]
          BY <2>2, <3>3, <4>3, <5>1 DEF LinesOf
        <5>3. ASSUME NEW l \in LinesOf(k) PROVE l <= i + 1
          <6>1. l \in 1 .. Len(log)
            BY DEF LinesOf
          <6>2. l > hard + 1 => l - 1 \in LinesOf(k)'
            BY <2>4
          <6>3. l > hard + 1 => l - 1 <= i
            BY <2>3, <6>2
          <6>4. hard \in Nat /\ i \in Nat /\ l \in Nat
            BY <2>2, <3>3, <6>1
          <6> QED BY <4>3, <5>1, <6>3, <6>4
        <5> QED BY <2>1, <3>2, <5>2, <5>3
      <4> QED BY <2>2, <3>3, <4>2, <4>3
    <3>5. CASE \E j \in LinesOf(k) : ~(j <= hard + 1)
      <4>1. PICK j \in LinesOf(k) : j > hard + 1
        BY <2>2, <3>5 DEF LinesOf
      <4>2. j - 1 \in LinesOf(k)'
        BY <2>2, <4>1 DEF LinesOf
      <4>3. i > hard
        BY <2>2, <2>3, <3>3, <4>1, <4>2 DEF LinesOf
      <4>4. i + 1 \in LinesOf(k) /\ log'[i] = log[i + 1]
        BY <2>2, <3>3, <4>3 DEF LinesOf
      <4>5. ASSUME NEW l \in LinesOf(k) PROVE l <= i + 1
        <5>1. l \in 1 .. Len(log)
          BY DEF LinesOf
        <5>2. l > hard + 1 => l - 1 \in LinesOf(k)'
          BY <2>4
        <5>3. l > hard + 1 => l - 1 <= i
          BY <2>3, <5>2
        <5>4. hard \in Nat /\ i \in Nat /\ l \in Nat
          BY <2>2, <3>3, <5>1
        <5> QED BY <4>3, <5>3, <5>4
      <4> QED BY <2>1, <3>2, <4>4, <4>5
    <3> QED BY <2>1, <2>3, <3>4, <3>5
  <2> QED BY <2>1, <2>3 DEF LatestIsRead
<1>4. CASE Die
  BY <1>4 DEF Die, LatestIsRead
<1>5. CASE Start
  <2>1. /\ phase' = "dump" /\ left' = (IF dump = None THEN {} ELSE dump)
        /\ latest' = Empty /\ UNCHANGED <<dump, next>> /\ next = 1 /\ spoilt' = {}
    BY <1>5 DEF Start, TypeOK
  <2> QED BY <2>1 DEF LatestIsRead, InDump, Empty
<1>6. CASE ReplayDump
  <2>1. PICK line \in left : /\ latest' = [latest EXCEPT ![line.key] = line]
                            /\ left' = left \ {line}
                            /\ UNCHANGED <<dump, next, phase, spoilt>> /\ phase = "dump"
    <3>1. \A line \in left : line # None
      BY NoneIsNoRecord DEF TypeOK
    <3> QED BY <1>6, <3>1 DEF ReplayDump, Replayed, Put
  <2>2. /\ next = 1 /\ left \subseteq (IF dump = None THEN {} ELSE dump)
        /\ \A k \in Keys :
             /\ \A l \in InDump(k) : latest[k] = IF l \in left THEN None ELSE l
             /\ InDump(k) = {} => latest[k] = None
    BY <2>1 DEF LatestIsRead, TypeOK
  <2>3. dump # None /\ line \in dump /\ OneSetEach(dump)
    BY <2>1, <2>2 DEF SnapshotsAreMaps
  <2>4. ASSUME NEW k \in Keys, NEW l \in InDump(k)
        PROVE  latest'[k] = IF l \in left' THEN None ELSE l
    <3>1. l \in dump /\ l.key = k
      BY <2>3 DEF InDump
    <3>2. CASE k = line.key
      BY <2>1, <2>3, <3>1, <3>2 DEF OneSetEach, TypeOK
    <3>3. CASE k # line.key
      BY <2>1, <2>2, <3>1, <3>3 DEF TypeOK
    <3> QED BY <3>2, <3>3
  <2>5. ASSUME NEW k \in Keys, InDump(k) = {} PROVE latest'[k] = None
    <3>1. k # line.key
      BY <2>3, <2>5 DEF InDump
    <3> QED BY <2>1, <2>2, <2>5, <3>1 DEF TypeOK
  <2>6. \A k \in Keys : InDump(k)' = InDump(k)
    BY <2>1 DEF InDump
  <2> QED BY <2>1, <2>2, <2>4, <2>5, <2>6 DEF LatestIsRead
<1>7. CASE DumpDone
  <2>1. /\ phase' = "file" /\ left = {} /\ phase = "dump" /\ next = 1
        /\ UNCHANGED <<log, dump, next, latest, spoilt>>
    BY <1>7 DEF DumpDone, TypeOK
  <2>2. ASSUME NEW k \in Keys PROVE Says(k, 0, latest[k])
    BY <2>1 DEF LatestIsRead, Says, LinesOf
  <2>3. ASSUME NEW k \in Keys PROVE Says(k, 0, latest[k])'
    BY <2>1, <2>2 DEF Says, LinesOf, InDump
  <2>4. next' - 1 = 0
    BY <2>1
  <2>5. \A k \in Keys : Says(k, next - 1, latest[k])'
    BY <2>3, <2>4
  <2> QED BY <2>1, <2>5 DEF LatestIsRead
<1>8. CASE ReplayFile
  <2> DEFINE line == log[next]
  <2>1. /\ next \in 1 .. Len(log) /\ line \in Line \cup {None}
        /\ phase = "file" /\ next' = next + 1
        /\ UNCHANGED <<log, dump, phase, spoilt>>
        /\ latest' = IF line = None THEN latest ELSE [latest EXCEPT ![line.key] = line]
    BY <1>8 DEF ReplayFile, Replayed, Put, TypeOK
  <2>2. \A k \in Keys : /\ Says(k, next - 1, latest[k])
                        /\ \A i \in LinesOf(k) : i \in 1 .. Len(log)
    BY <2>1 DEF LatestIsRead, LinesOf
  <2>3. ASSUME NEW k \in Keys PROVE Says(k, next, latest'[k])
    <3>1. CASE line # None /\ k = line.key
      <4>1. next \in LinesOf(k)
        BY <2>1, <3>1 DEF LinesOf
      <4>2. latest'[k] = line
        BY <2>1, <3>1 DEF TypeOK
      <4>3. ASSUME NEW i \in LinesOf(k), i <= next,
                   \A j \in LinesOf(k) : j <= next => j <= i
            PROVE  i = next
        BY <2>1, <2>2, <4>1, <4>3
      <4> QED BY <2>1, <4>1, <4>2, <4>3 DEF Says
    <3>2. CASE ~(line # None /\ k = line.key)
      <4>1. next \notin LinesOf(k)
        BY <3>2 DEF LinesOf
      <4>2. \A i \in LinesOf(k) : i <= next - 1 <=> i <= next
        BY <2>1, <2>2, <4>1
      <4>3. latest'[k] = latest[k]
        BY <2>1, <3>2 DEF TypeOK
      <4> QED BY <2>1, <2>2, <4>2, <4>3 DEF Says
    <3> QED BY <3>1, <3>2
  <2>4. next' - 1 = next
    BY <2>1
  <2>5. ASSUME NEW k \in Keys PROVE Says(k, next - 1, latest[k])'
    BY <2>1, <2>3, <2>4 DEF Says, LinesOf, InDump
  <2> QED BY <2>1, <2>5 DEF LatestIsRead
<1>9. CASE Serve
  <2>1. /\ phase = "file" /\ next - 1 = Len(log) /\ phase' = "up"
        /\ UNCHANGED <<log, pending, latest, spoilt>>
    BY <1>9 DEF Serve, TypeOK
  <2>2. ASSUME NEW k \in Keys, NEW i \in LinesOf(k), \A j \in LinesOf(k) : j <= i
        PROVE  latest[k] = log[i]
    BY <2>1, <2>2 DEF LatestIsRead, Says, LinesOf
  <2> QED BY <2>1, <2>2 DEF LatestIsRead, LinesOf
<1> QED
  BY <1>1, <1>2, <1>3, <1>4, <1>5, <1>6, <1>7, <1>8, <1>9, <1>10 DEF Next, Aside

\* Deaths note what the disk says, and it says so until a recovery has read it.
LEMMA ExpectedKept ==
  ASSUME IInv, [Next]_vars PROVE ExpectedIsLatest'
<1> USE DEF IInv, file, files, scan, replay, history
<1>1. ASSUME NEW c \in Clients, Apply(c) PROVE ExpectedIsLatest'
  <2>1. PICK line \in Requests :
          /\ phase = "up"
          /\ latest' = [latest EXCEPT ![line.key] = line]
          /\ expected' = [k \in DOMAIN expected \ {line.key} |-> expected[k]]
          /\ phase' = phase
    BY <1>1 DEF Apply, Put
  <2> QED BY <2>1 DEF ExpectedIsLatest, TypeOK
<1>2. ASSUME NEW c \in Clients, Record(c) PROVE ExpectedIsLatest'
  BY <1>2, RecordFacts DEF ExpectedIsLatest, NobodyWrites
<1>3. CASE Aside \/ Harden
  <2>1. UNCHANGED <<log, phase, latest, expected>>
    BY <1>3, AsideFacts DEF Harden, File!Harden
  <2>2. phase # "up" => dump' = dump
    BY <1>3, AsideKeepsDump DEF Harden
  <2>3. CASE phase = "up"
    BY <2>1, <2>3 DEF ExpectedIsLatest
  <2>4. CASE phase # "up"
    <3>1. ASSUME NEW k \in DOMAIN expected PROVE Says(k, Len(log), expected[k])'
      BY <2>1, <2>2, <2>4 DEF ExpectedIsLatest, Says, LinesOf, InDump
    <3> QED BY <2>1, <2>4, <3>1 DEF ExpectedIsLatest
  <2> QED BY <2>3, <2>4
<1>7. CASE HardenGlued
  <2>1. UNCHANGED <<phase, latest, expected>> /\ phase = "up"
    BY <1>7 DEF HardenGlued
  <2> QED BY <2>1 DEF ExpectedIsLatest
<1>4. CASE Die
  <2>1. /\ hard' = Len(log') /\ dump' = dump /\ phase' = "down" /\ spoilt \subseteq spoilt'
        /\ hard = Len(log) => log' = log
        /\ \A k \in Keys : k \notin spoilt' /\ LinesOf(k) \subseteq 1 .. hard =>
             /\ LinesOf(k)' = LinesOf(k)
             /\ \A i \in LinesOf(k) : log'[i] = log[i]
    BY <1>4, DieFacts DEF Die
  <2>2. CASE phase = "up"
    <3>1. /\ DOMAIN expected' = Keys
          /\ \A k \in Keys : expected'[k] = IF Settled(k) /\ k \notin spoilt' THEN latest[k]
                                            ELSE Said(k)'
      BY <1>4, <2>2 DEF Die
    <3>2. ASSUME NEW k \in Keys, Settled(k), k \notin spoilt'
          PROVE  Says(k, Len(log), latest[k])'
      <4>1. /\ LinesOf(k)' = LinesOf(k) /\ LinesOf(k) # {} /\ ~Busy(k) /\ latest' = latest
            /\ \A i \in LinesOf(k) : log'[i] = log[i]
        BY <1>4, <2>1, <3>2 DEF Settled, Die
      <4>2. \A i \in LinesOf(k) : i <= Len(log') /\ i \in Nat /\ Len(log') \in Nat
        BY <2>1, <3>2 DEF Settled, LinesOf, TypeOK
      <4>3. \A i \in LinesOf(k) : (\A j \in LinesOf(k) : j <= i) => latest[k] = log[i]
        BY <2>1, <2>2, <3>2, <4>1 DEF LatestIsRead
      <4> QED BY <4>1, <4>2, <4>3 DEF Says
    <3>3. \A k \in Keys : Says(k, Len(log), Said(k))'
      <4>1. TypeOK' /\ SnapshotsAreMaps'
        BY TypeKept, SnapshotsKept
      <4> QED BY <4>1, SaidIsSaysNext
    <3>4. ASSUME NEW k \in Keys PROVE Says(k, Len(log), expected[k])'
      <4>1. CASE Settled(k) /\ k \notin spoilt'
        <5>1. expected'[k] = latest'[k]
          BY <1>4, <3>1, <4>1 DEF Die
        <5> QED BY <3>2, <4>1, <5>1 DEF Says
      <4>2. CASE ~(Settled(k) /\ k \notin spoilt')
        <5>1. expected'[k] = Said(k)'
          BY <3>1, <4>2
        <5> QED BY <3>3, <5>1 DEF Says
      <4> QED BY <4>1, <4>2
    <3> QED BY <2>1, <3>1, <3>4 DEF ExpectedIsLatest
  <2>3. CASE phase # "up"
    <3>1. log' = log /\ expected' = expected
      BY <1>4, <2>1, <2>3 DEF Die, NobodyWrites
    <3>2. ASSUME NEW k \in DOMAIN expected PROVE Says(k, Len(log), expected[k])'
      BY <2>1, <2>3, <3>1 DEF ExpectedIsLatest, Says, LinesOf, InDump
    <3> QED BY <2>1, <3>1, <3>2 DEF ExpectedIsLatest
  <2> QED BY <2>2, <2>3
<1>5. CASE Start \/ ReplayDump \/ DumpDone \/ ReplayFile
  <2>1. UNCHANGED <<log, dump, expected>> /\ phase # "up" /\ phase' # "up"
    BY <1>5 DEF Start, ReplayDump, DumpDone, ReplayFile, Replayed
  <2>2. ASSUME NEW k \in DOMAIN expected PROVE Says(k, Len(log), expected[k])'
    BY <2>1 DEF ExpectedIsLatest, Says, LinesOf, InDump
  <2> QED BY <2>1, <2>2 DEF ExpectedIsLatest
<1>6. CASE Serve
  <2>1. /\ phase = "file" /\ next - 1 = Len(log) /\ phase' = "up"
        /\ UNCHANGED <<latest, expected>>
    BY <1>6 DEF Serve, TypeOK
  <2>2. ASSUME NEW k \in DOMAIN expected PROVE expected[k] = latest[k]
    <3>1. k \in Keys
      BY DEF TypeOK
    <3>2. Says(k, Len(log), latest[k]) /\ Says(k, Len(log), expected[k])
      BY <2>1, <3>1 DEF LatestIsRead, ExpectedIsLatest
    <3> QED BY <3>1, <3>2, SaysOneThing
  <2> QED BY <2>1, <2>2 DEF ExpectedIsLatest
<1> QED BY <1>1, <1>2, <1>3, <1>4, <1>5, <1>6, <1>7 DEF Next, Aside

\* A line applied to the cache leaves what it says, and of one other key at
\* most nothing.
LEMMA PutReflects ==
  ASSUME TypeOK, NEW line \in Line, Put(line), clock' = clock,
         \A k \in Keys : Reflects(k, latest[k])
  PROVE  \A k \in Keys : Reflects(k, latest[k])'
<1> DEFINE m == Applied(map, line)
<1>1. line.key \in Keys /\ line.op \in {"set", "del"} /\ line # None
      /\ line.ttl \in Nat \cup {None}
  BY NoneIsNoRecord DEF Line
<1>2. /\ latest'[line.key] = line
      /\ \A k \in Keys : k # line.key => latest'[k] = latest[k] /\ m[k] = map[k]
  BY <1>1 DEF TypeOK, Applied, Put
<1>3. /\ line.op = "del" => m[line.key] = None
      /\ line.op = "set" => m[line.key] = [value |-> line.value, expiry |-> Deadline(line.ttl)]
  BY <1>1 DEF TypeOK, Applied
<1>4. line.op = "set" => m[line.key] # None
  <2> SUFFICES ASSUME line.op = "set" PROVE m[line.key] # None
    OBVIOUS
  <2>1. line.value \in Values
    BY DEF Line
  <2>2. Deadline(line.ttl) \in Nat \cup {None}
    BY <1>1, ConstantsOK DEF Deadline, TypeOK
  <2>3. m[line.key] \in Entry
    BY <1>3, <2>1, <2>2 DEF Entry
  <2> QED BY <2>3, NoneIsNoRecord
<1>5. Deadline(line.ttl) = None <=> line.ttl = None
  BY <1>1, ConstantsOK DEF Deadline, TypeOK
<1>6. m \in [Keys -> Entry \cup {None}]
  BY <1>1, ConstantsOK DEF TypeOK, Applied, Line, Entry, Deadline
<1>7. \A k \in Keys :
        \/ map'[k] = m[k] /\ (k # line.key => (k \in evicted <=> k \in evicted'))
        \/ map'[k] = None /\ k # line.key /\ k \in evicted'
  <2>0. Others(line.key) \subseteq Keys \ {line.key}
    BY DEF Others
  <2>1. CASE map' = m /\ evicted' = evicted \ {line.key}
    BY <2>1
  <2>2. ASSUME NEW j \in Others(line.key), map' = [m EXCEPT ![j] = None],
               evicted' = (evicted \ {line.key}) \cup {j}
        PROVE  \A k \in Keys :
                 \/ map'[k] = m[k] /\ (k # line.key => (k \in evicted <=> k \in evicted'))
                 \/ map'[k] = None /\ k # line.key /\ k \in evicted'
    <3> HIDE DEF m
    <3> QED BY <1>6, <2>0, <2>2
  <2> QED BY <2>1, <2>2 DEF Put
<1> HIDE DEF m
<1>8. ASSUME NEW k \in Keys PROVE Reflects(k, latest[k])'
  <2>1. CASE k = line.key
    <3>1. map'[k] = m[k]
      BY <1>7, <2>1
    <3> QED BY <1>1, <1>2, <1>3, <1>4, <1>5, <2>1, <3>1 DEF Reflects
  <2>2. CASE k # line.key
    <3>1. latest'[k] = latest[k] /\ m[k] = map[k]
      BY <1>2, <2>2
    <3>2. CASE map'[k] = map[k] /\ (k \in evicted <=> k \in evicted')
      BY <3>1, <3>2 DEF Reflects
    <3>3. CASE map'[k] = None /\ k \in evicted'
      BY <3>3 DEF Reflects
    <3> QED BY <1>7, <2>2, <3>1, <3>2, <3>3
  <2> QED BY <2>1, <2>2
<1> QED BY <1>8

\* The map is changed by lines, by eviction for one, and by expiry only.
LEMMA MapKept ==
  ASSUME IInv, [Next]_vars PROVE MapReflectsLatest'
<1> USE DEF IInv, file, files, scan, replay, history
<1>1. ASSUME NEW c \in Clients, Apply(c) PROVE MapReflectsLatest'
  <2>1. PICK line \in Requests : phase = "up" /\ phase' = phase /\ clock' = clock /\ Put(line)
    BY <1>1 DEF Apply
  <2>2. \A k \in Keys : Reflects(k, latest[k])'
    BY <2>1, DamagedLines, PutReflects DEF MapReflectsLatest
  <2> QED BY <2>1, <2>2 DEF MapReflectsLatest
<1>2. ASSUME NEW k \in Keys, Expire(k) PROVE MapReflectsLatest'
  <2>1. /\ map[k] # None /\ map[k].expiry # None /\ map' = [map EXCEPT ![k] = None]
        /\ UNCHANGED <<phase, latest, evicted>>
    BY <1>2 DEF Expire, Expired, ExpiredAt
  <2>2. phase # "down"
    BY <2>1 DEF MapReflectsLatest, Empty
  <2> QED BY <2>1, <2>2 DEF MapReflectsLatest, Reflects, TypeOK
<1>3. CASE \/ Harden \/ HardenGlued \/ DumpDone \/ Serve \/ Tick \/ UNCHANGED vars
           \/ ScanBegin \/ RemoveOld \/ Rename \/ SnapshotFails
           \/ (\E c \in Clients : Record(c)) \/ (\E k \in Keys : ScanKey(k))
  <2>1. UNCHANGED <<map, latest, evicted>> /\ (phase = "down" <=> phase' = "down")
    BY <1>3 DEF Harden, HardenGlued, DumpDone, Serve, Tick, vars, ScanBegin, RemoveOld,
       Rename, SnapshotFails, Record, ScanKey
  <2> QED BY <2>1 DEF MapReflectsLatest, Reflects
<1>4. CASE Die
  BY <1>4 DEF Die, MapReflectsLatest
<1>5. CASE Start
  <2>1. map' = Empty /\ latest' = Empty /\ phase' = "dump"
    BY <1>5 DEF Start, MapReflectsLatest
  <2> QED BY <2>1 DEF MapReflectsLatest, Reflects, Empty
<1>6. CASE ReplayDump \/ ReplayFile
  <2>1. PICK line \in Line \cup {None} : Replayed(line)
    BY <1>6 DEF ReplayDump, ReplayFile, TypeOK
  <2>2. phase # "down" /\ phase' = phase /\ clock' = clock
    BY <1>6, <2>1 DEF ReplayDump, ReplayFile, Replayed
  <2>3. CASE line = None
    <3>1. UNCHANGED <<map, latest, evicted>>
      BY <2>1, <2>3 DEF Replayed
    <3> QED BY <2>2, <3>1 DEF MapReflectsLatest, Reflects
  <2>4. CASE line # None
    <3>1. \A k \in Keys : Reflects(k, latest[k])'
      BY <2>1, <2>2, <2>4, PutReflects DEF MapReflectsLatest, Replayed
    <3> QED BY <2>2, <3>1 DEF MapReflectsLatest
  <2> QED BY <2>3, <2>4
<1> QED BY <1>1, <1>2, <1>3, <1>4, <1>5, <1>6 DEF Next

-----------------------------------------------------------------------------
(* The theorems *)

\* Before its first life the process has left nothing.
LEMMA InitIInv == Init => IInv
<1> SUFFICES ASSUME Init PROVE IInv
  OBVIOUS
<1> USE DEF Init, File!Init, Empty
<1>1. TypeOK
  <2>1. log \in Seq(Line \cup {None}) /\ Len(log) = 0 /\ DOMAIN expected = {}
    OBVIOUS
  <2>2. /\ log \in Seq(Line \cup {None}) /\ hard \in 0 .. Len(log)
        /\ \A i \in hard + 1 .. Len(log) : log[i] # None
        /\ next \in 1 .. Len(log) + 1
    BY <2>1
  <2> QED BY <2>1, <2>2 DEF TypeOK
<1>2. NobodyWrites /\ PendingIsLatest /\ SnapshotsAreMaps
  BY DEF NobodyWrites, PendingIsLatest, SnapshotsAreMaps, OneSetEach
<1>3. LatestIsRead /\ ExpectedIsLatest /\ MapReflectsLatest
  BY DEF LatestIsRead, ExpectedIsLatest, MapReflectsLatest
<1> QED BY <1>1, <1>2, <1>3 DEF IInv

\* With one writer for a key, every step keeps the invariant.
LEMMA NextKeepsIInv ==
  ASSUME OneWriterEach PROVE IInv /\ [Next]_vars => IInv'
<1> SUFFICES ASSUME IInv, [Next]_vars PROVE IInv'
  OBVIOUS
<1> QED
  BY TypeKept, NobodyWritesKept, PendingKept, SnapshotsKept, LatestKept, ExpectedKept, MapKept
  DEF IInv

\* Whoever writes which keys, all states have their types: what the file has
\* are lines or text that is passed over, and a scan that has ended, or failed,
\* leaves nothing for the next.
THEOREM TypesHold == Spec => []TypeOK
<1>1. Init => TypeOK
  BY InitIInv DEF IInv
<1> QED BY <1>1, TypeKept, PTL DEF Spec

\* Whoever writes which keys, a snapshot is a map of times still to live.
THEOREM SnapshotsHold == Spec => []SnapshotIsMap
<1>1. Init => TypeOK /\ SnapshotsAreMaps
  BY InitIInv DEF IInv
<1>2. TypeOK /\ SnapshotsAreMaps /\ [Next]_vars => (TypeOK /\ SnapshotsAreMaps)'
  BY TypeKept, SnapshotsKept
<1>3. SnapshotsAreMaps => SnapshotIsMap
  BY DEF SnapshotsAreMaps, OneSetEach, SnapshotIsMap
<1> QED BY <1>1, <1>2, <1>3, PTL DEF Spec

\* Where each key has one writer: the file's last line about a key nobody is
\* writing, and of which no damaged line took the place, is what the cache was
\* last told.
THEOREM LogFollows == ASSUME OneWriterEach PROVE Spec => []LogFollowsCache
<1>1. IInv => LogFollowsCache
  <2> SUFFICES ASSUME IInv, phase = "up", NEW k \in Keys \ spoilt, ~Busy(k), LinesOf(k) # {}
               PROVE  LastLine(k) = latest[k]
    BY DEF LogFollowsCache
  <2> DEFINE i == Max(LinesOf(k))
  <2>1. i \in LinesOf(k) /\ \A j \in LinesOf(k) : j <= i
    BY LastLineFacts DEF IInv
  <2> HIDE DEF i
  <2>2. latest[k] = log[i]
    BY <2>1 DEF IInv, LatestIsRead
  <2> QED BY <2>2 DEF LastLine, i
<1> QED BY InitIInv, NextKeepsIInv, <1>1, PTL DEF Spec

\* Where each key has one writer: a restart finds every key as the disk has it,
\* whatever became of the lines of others, through any crashes, in the middle of
\* a line too, failed snapshots, interrupted recoveries and evictions.
THEOREM RestartsRestore == ASSUME OneWriterEach PROVE Spec => []OnDiskIsRestored
<1>1. IInv => OnDiskIsRestored
  <2> SUFFICES ASSUME IInv, phase = "up", NEW k \in DOMAIN expected
               PROVE  IF expected[k] # None /\ expected[k].op = "set"
                        THEN IF map[k] = None THEN expected[k].ttl # None \/ k \in evicted
                             ELSE map[k].value = expected[k].value
                        ELSE map[k] = None
    BY DEF OnDiskIsRestored
  <2>1. expected[k] = latest[k] /\ k \in Keys
    BY DEF IInv, ExpectedIsLatest, TypeOK
  <2>2. Reflects(k, latest[k])
    BY <2>1 DEF IInv, MapReflectsLatest
  <2> QED BY <2>1, <2>2 DEF Reflects
<1> QED BY InitIInv, NextKeepsIInv, <1>1, PTL DEF Spec
=============================================================================
