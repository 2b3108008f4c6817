----------------------------- MODULE Persistence -----------------------------
(***************************************************************************)
(* What survives a restart: RedisCommandProcessor (command_processor.hpp)  *)
(* applies each set and del to the cache first and hands it to the         *)
(* persistence manager second, with no lock over both; the append-only     *)
(* file (module TornLog) and the snapshot worker put it on disk; a new     *)
(* process replays the snapshot and then the whole file (persistence.cpp)  *)
(* before it serves anyone.                                                *)
(*                                                                         *)
(* The cache is a map with deadlines; which key it evicts is the concern   *)
(* of ShardedCache, and any other than the one just set here.  A line that *)
(* reached the file whole is read back as it was written; one that was cut *)
(* by a crash, or glued to such a one, as its text may have it.  Keys and  *)
(* values are single words (the others are the subject of FrontEnds); a    *)
(* stream that fails, and a truncation, are left to AppendOnlyFile.        *)
(***************************************************************************)
EXTENDS Integers, FiniteSets, SequencesExt

CONSTANTS
  Keys, Values,
  Requests,    \* the sets and dels clients ask for, as the lines they cause
  Clients,
  None,        \* no entry, no deadline, no value, no snapshot
  Writers,     \* Writers[k]: the clients that set and delete k
  Begins,      \* Begins[k]: the keys that a first part of the name of k names
  Room,        \* the entries the smallest shard takes
  MaxOps,      \* bound: sets and dels
  MaxTime,     \* bound: last tick of the clock
  MaxLives     \* bound: lives of the process

\* A line of the append-only file, and of the snapshot.
Line == [op : {"set"}, key : Keys, value : Values, ttl : Nat \cup {None}]
          \cup [op : {"del"}, key : Keys, value : {None}, ttl : {None}]

ASSUME ConstantsOK ==
  /\ Requests \subseteq Line /\ Writers \in [Keys -> SUBSET Clients]
  /\ Begins \in [Keys -> SUBSET Keys] /\ Room \in Nat \ {0}
  /\ MaxOps \in Nat /\ MaxTime \in Nat /\ MaxLives \in Nat
  /\ None \notin Values /\ None \notin Nat

Entry == [value : Values, expiry : Nat \cup {None}]

\* What may be read of a line that was cut: of a set, a first part of the value
\* and no time to live, or a first part of that; of a del, some other del; of
\* less of it nothing, and of all but its end the line.
Parts(line) ==
  {None, line} \cup
  IF line.op = "del" THEN {[line EXCEPT !.key = k] : k \in Begins[line.key]}
  ELSE {[line EXCEPT !.value = v, !.ttl = None] : v \in Values} \cup
       {[line EXCEPT !.ttl = t] : t \in IF line.ttl = None THEN {} ELSE 1 .. line.ttl}

\* What may be read of a line glued to such a part: no del, which has two words
\* and no more.  Cut once again, it may be one.
Glued   == [op : {"set"}, key : Keys, value : Values,
            ttl : {line.ttl : line \in Requests} \cup {None}]
Gluings == {None} \cup Glued
Rests   == UNION {Parts(line) : line \in Glued \cup Requests}

\* No line and no entry are nothing.
ASSUME NoneIsNoRecord == None \notin Line /\ None \notin Entry

VARIABLES
  clock,
  map,          \* the cache
  pending,      \* pending[c]: the line client c has applied and not recorded
  log, hard, cut,    \* the append-only file (TornLog)
  sp, now, todo, items,  \* the snapshot worker: place, its time, keys to look at, copies
  dump,         \* the snapshot file: a set of lines, or None
  phase,        \* "down", replaying "dump" or "file", or "up"
  left, next,   \* the lines of the dump, and the first of the file, to replay
  \* auxiliary: the line last applied to each key of the cache, or None; the
  \* deadline a client last gave it; the keys evicted since; those of which a
  \* damaged line took the place of the last; ops and lives begun; the line by
  \* which each key is to be found after the process died, until somebody
  \* changes it
  latest, due, evicted, spoilt, ops, lives, expected

file    == <<log, hard, cut>>
files   == <<file, dump>>
scan    == <<sp, now, todo, items>>
replay  == <<phase, left, next>>
history == <<latest, due, evicted, spoilt, ops, lives, expected>>
vars    == <<clock, map, pending, files, scan, replay, history>>

File == INSTANCE TornLog WITH Skipped <- None

ExpiredAt(e, t) == e.expiry # None /\ t >= e.expiry
Expired(e)      == ExpiredAt(e, clock)
Deadline(ttl)   == IF ttl = None THEN None ELSE clock + ttl

Applied(m, line) ==
  [m EXCEPT ![line.key] =
     IF line.op = "del" THEN None
     ELSE [value |-> line.value, expiry |-> Deadline(line.ttl)]]

Others(k) == {j \in Keys \ {k} : map[j] # None}

\* cache_.set or cache_.del; a set of a new key drops another where their shard
\* is full.  Which keys share a shard is left open.
Put(line) ==
  LET m == Applied(map, line) IN
  /\ \/ map' = m /\ evicted' = evicted \ {line.key}
     \/ /\ line.op = "set" /\ map[line.key] = None
        /\ Cardinality(Others(line.key)) >= Room
        /\ \E k \in Others(line.key) :
             /\ map' = [m EXCEPT ![k] = None]
             /\ evicted' = (evicted \ {line.key}) \cup {k}
  /\ latest' = [latest EXCEPT ![line.key] = line]

-----------------------------------------------------------------------------
(* The processor *)

Apply(c) ==
  \E line \in Requests :
    /\ phase = "up" /\ pending[c] = None
    /\ ops < MaxOps /\ c \in Writers[line.key]
    /\ ops' = ops + 1
    /\ Put(line)
    /\ pending' = [pending EXCEPT ![c] = line]
    /\ due' = [due EXCEPT ![line.key] = Deadline(line.ttl)]
    /\ expected' = [k \in DOMAIN expected \ {line.key} |-> expected[k]]
    /\ UNCHANGED <<clock, files, scan, replay, spoilt, lives>>

\* Mutant: a del is not recorded.
RecordSetsOnly(c) ==
  /\ pending[c] # None
  /\ IF pending[c].op = "set" THEN File!Record(pending[c]) ELSE UNCHANGED file
  /\ pending' = [pending EXCEPT ![c] = None]
  /\ spoilt' = spoilt \ {pending[c].key}
  /\ UNCHANGED <<clock, map, dump, scan, replay, latest, due, evicted, ops, lives, expected>>

\* record_set, record_del
Record(c) ==
  /\ pending[c] # None
  /\ File!Record(pending[c])
  /\ pending' = [pending EXCEPT ![c] = None]
  /\ spoilt' = spoilt \ {pending[c].key}
  /\ UNCHANGED <<clock, map, dump, scan, replay, latest, due, evicted, ops, lives, expected>>

\* The cache drops an expired entry by itself.
Expire(k) ==
  /\ map[k] # None /\ Expired(map[k])
  /\ map' = [map EXCEPT ![k] = None]
  /\ UNCHANGED <<clock, pending, files, scan, replay, history>>

About(k, lines) == \E line \in lines : line # None /\ line.key = k
LinesOf(k)      == {i \in 1 .. Len(log) : log[i] # None /\ log[i].key = k}

Harden ==
  /\ phase = "up" /\ File!Harden
  /\ UNCHANGED <<clock, map, pending, dump, scan, replay, history>>

\* The first line after a crash is written to a file that was cut: it, the part
\* that was there and what the two are read as are not what the last line about
\* their keys should be, where no line follows.
HardenGlued ==
  \E r \in Gluings :
    /\ phase = "up" /\ File!Glue(r)
    /\ spoilt' = spoilt \cup {k \in Keys : /\ About(k, {log[hard], log[hard + 1], r})
                                           /\ \A i \in LinesOf(k) : i <= hard + 1}
    /\ UNCHANGED <<clock, map, pending, dump, scan, replay,
                   latest, due, evicted, ops, lives, expected>>

-----------------------------------------------------------------------------
(* The snapshot worker *)

ScanBegin ==
  /\ phase = "up" /\ sp = "idle"
  /\ sp' = "scan" /\ now' = clock /\ todo' = Keys
  /\ UNCHANGED <<clock, map, pending, files, items, replay, history>>

\* The time to live that an entry has left, in whole milliseconds: a tick may
\* be the rest of one, and then less than one is left.
TtlLeft(e)  == IF e.expiry = None THEN None ELSE e.expiry - now
Leftover(e) == e.expiry # None /\ e.expiry - now = 1
Live(k)     == map[k] # None /\ ~ExpiredAt(map[k], now)

\* snapshot_items comes to key k.
ScanKey(k) ==
  /\ sp = "scan" /\ k \in todo
  /\ todo' = todo \ {k}
  /\ \/ /\ Live(k)
        /\ items' = items \cup {[op |-> "set", key |-> k, value |-> map[k].value,
                                 ttl |-> TtlLeft(map[k])]}
     \/ /\ Live(k) => Leftover(map[k])
        /\ UNCHANGED items
  /\ UNCHANGED <<clock, map, pending, files, sp, now, replay, history>>

\* The temporary file is written; the old snapshot is removed.
RemoveOld ==
  /\ sp = "scan" /\ todo = {}
  /\ sp' = "remove" /\ now' = 0
  /\ dump' = None
  /\ UNCHANGED <<clock, map, pending, file, todo, items, replay, history>>

\* Mutant: the list of items is not a new one for each snapshot.
RenameKeepsItems ==
  /\ sp = "remove"
  /\ sp' = "idle"
  /\ dump' = items
  /\ UNCHANGED <<clock, map, pending, file, now, todo, items, replay, history>>

Rename ==
  /\ sp = "remove"
  /\ sp' = "idle" /\ items' = {}
  /\ dump' = items
  /\ UNCHANGED <<clock, map, pending, file, now, todo, replay, history>>

\* The temporary file cannot be opened, or not be renamed.
SnapshotFails ==
  /\ \/ sp = "scan" /\ todo = {}
     \/ sp = "remove"
  /\ sp' = "idle" /\ now' = 0 /\ items' = {}
  /\ UNCHANGED <<clock, map, pending, files, todo, replay, history>>

-----------------------------------------------------------------------------
(* Restarts *)

Empty == [k \in Keys |-> None]

Busy(k) == \E c \in Clients : pending[c] # None /\ pending[c].key = k

\* What the files say of key k: the last line that is read as one about it; and
\* where there is none, the line of the snapshot, or None for no entry.
Said(k) ==
  LET inDump == IF dump = None THEN {} ELSE {line \in dump : line.key = k} IN
  CASE LinesOf(k) # {} -> log[Max(LinesOf(k))]
    [] LinesOf(k) = {} /\ inDump # {} -> CHOOSE line \in inDump : TRUE
    [] OTHER -> None

\* Key k has lines, all of them are on disk, and no client is about to record
\* one more.
Settled(k) == LinesOf(k) # {} /\ LinesOf(k) \subseteq 1 .. hard /\ ~Busy(k)

\* The process dies, by a crash or at the end of an orderly exit.  A key that
\* is settled is expected as it was left, unless a damaged line is about it; any
\* other as the files have it.
Die ==
  /\ phase # "down"
  /\ phase' = "down" /\ left' = {} /\ next' = 1
  /\ \/ File!Crash /\ UNCHANGED spoilt
     \/ /\ hard < Len(log)
        /\ \E r \in IF cut THEN Rests ELSE Parts(log[hard + 1]) :
             /\ File!Tear(r)
             /\ spoilt' = spoilt \cup
                  {k \in Keys : About(k, {r} \cup (IF cut THEN {log[hard]} ELSE {}))}
  /\ map' = Empty /\ evicted' = {}
  /\ pending' = [c \in Clients |-> None]
  /\ sp' = "idle" /\ now' = 0 /\ todo' = {} /\ items' = {}
  /\ UNCHANGED <<clock, dump, latest, due, ops, lives>>
  /\ expected' = IF phase # "up" THEN expected
                 ELSE [k \in Keys |-> IF Settled(k) /\ k \notin spoilt' THEN latest[k]
                                      ELSE Said(k)']

Start ==
  /\ phase = "down" /\ lives < MaxLives
  /\ phase' = "dump"
  /\ left' = IF dump = None THEN {} ELSE dump
  /\ lives' = lives + 1
  /\ latest' = Empty /\ spoilt' = {}
  /\ UNCHANGED <<clock, map, pending, files, scan, next, due, evicted, ops, expected>>

\* replay_file: one line of the snapshot, or of the file, is applied, or passed
\* over.
Replayed(line) ==
  /\ IF line = None THEN UNCHANGED <<map, evicted, latest>> ELSE Put(line)
  /\ UNCHANGED <<clock, pending, files, scan, phase, due, spoilt, ops, lives, expected>>

ReplayDump ==
  /\ phase = "dump"
  /\ \E line \in left : Replayed(line) /\ left' = left \ {line}
  /\ UNCHANGED next

\* Mutant: a DEL line is passed over.
ReplaySetsOnly ==
  /\ phase = "file" /\ next <= Len(log)
  /\ IF log[next] = None \/ log[next].op = "set" THEN Replayed(log[next])
     ELSE UNCHANGED <<clock, map, pending, files, scan, phase, history>>
  /\ next' = next + 1
  /\ UNCHANGED left

\* Mutant: the reading ends at the first line that is no command.
ReplayStops ==
  /\ phase = "file" /\ next <= Len(log)
  /\ Replayed(log[next])
  /\ next' = IF log[next] = None THEN Len(log) + 1 ELSE next + 1
  /\ UNCHANGED left

ReplayFile ==
  /\ phase = "file" /\ next <= Len(log)
  /\ Replayed(log[next])
  /\ next' = next + 1
  /\ UNCHANGED left

DumpDone ==
  /\ phase = "dump" /\ left = {}
  /\ phase' = "file"
  /\ UNCHANGED <<clock, map, pending, files, scan, left, next, history>>

Serve ==
  /\ phase = "file" /\ next > Len(log)
  /\ phase' = "up" /\ next' = 1
  /\ UNCHANGED <<clock, map, pending, files, scan, left, history>>

Tick ==
  /\ clock < MaxTime
  /\ clock' = clock + 1
  /\ UNCHANGED <<map, pending, files, scan, replay, history>>

-----------------------------------------------------------------------------
Init ==
  /\ clock = 0
  /\ map = Empty
  /\ pending = [c \in Clients |-> None]
  /\ File!Init /\ dump = None
  /\ sp = "idle" /\ now = 0 /\ todo = {} /\ items = {}
  /\ phase = "down" /\ left = {} /\ next = 1
  /\ latest = Empty /\ due = Empty /\ evicted = {} /\ spoilt = {}
  /\ ops = 0 /\ lives = 0 /\ expected = <<>>

Next ==
  \/ \E c \in Clients : Apply(c) \/ Record(c)
  \/ \E k \in Keys : Expire(k) \/ ScanKey(k)
  \/ Harden \/ HardenGlued \/ ScanBegin \/ RemoveOld \/ Rename \/ SnapshotFails
  \/ Die \/ Start \/ ReplayDump \/ DumpDone \/ ReplayFile \/ Serve \/ Tick

Spec == Init /\ [][Next]_vars

-----------------------------------------------------------------------------
(* Properties *)

\* Every variable has its type, what the file has is lines or text that is
\* passed over, and the snapshot worker starts each scan from nothing.
TypeOK ==
  /\ clock \in Nat
  /\ map \in [Keys -> Entry \cup {None}]
  /\ pending \in [Clients -> Line \cup {None}]
  /\ log \in Seq(Line \cup {None}) /\ hard \in 0 .. Len(log)
  /\ \A i \in hard + 1 .. Len(log) : log[i] # None
  /\ cut \in BOOLEAN /\ (cut => hard > 0)
  /\ dump = None \/ dump \subseteq Line
  /\ sp \in {"idle", "scan", "remove"} /\ now \in Nat
  /\ todo \subseteq Keys /\ items \subseteq Line
  /\ (sp = "idle" => items = {}) /\ (sp # "scan" => todo = {})
  /\ phase \in {"down", "dump", "file", "up"}
  /\ left \subseteq Line /\ next \in 1 .. Len(log) + 1 /\ (phase # "file" => next = 1)
  /\ latest \in [Keys -> Line \cup {None}] /\ due \in [Keys -> Nat \cup {None}]
  /\ evicted \subseteq Keys /\ spoilt \subseteq Keys
  /\ ops \in Nat /\ lives \in Nat
  /\ DOMAIN expected \subseteq Keys
  /\ \A k \in DOMAIN expected : expected[k] \in Line \cup {None}

\* A snapshot, and what a scan has of the next one, is a map to times still to
\* live: one set for a key at most, though the keys are looked at one after the
\* other while clients set and delete them, and no time to live that is over
\* (snapshot_items, write_snapshot_file).
SnapshotIsMap ==
  \A lines \in {items, dump} \ {None} : \A line \in lines :
    /\ line.op = "set" /\ (line.ttl = None \/ line.ttl > 0)
    /\ \A other \in lines : other.key = line.key => other = line

LastLine(k) == log[Max(LinesOf(k))]

\* Where no operation is under way on a key, the last line about it says what
\* the cache was last told about it: the cache and the file agree on the
\* order, though they are changed one after the other (set, del,
\* execute_parsed).  True of keys that one client writes, and until the first
\* line of a life is glued to a part of one: then of keys that neither of the
\* two is about, nor what they are read as, and again of those once a client
\* has recorded one more line.
LogFollowsCache ==
  phase = "up" => \A k \in Keys \ spoilt :
    ~Busy(k) /\ LinesOf(k) # {} => LastLine(k) = latest[k]

\* A restart finds each key as the disk had it, until somebody changes it.  If
\* all its operations had reached the disk, and no damaged line is about it,
\* that is as it was left; else as the last line has it that is read as one
\* about it, or the snapshot if there is none.  It is deleted if that was a
\* del, has the value if that was a set, and is certainly there if that set had
\* no time to live and nothing was evicted for want of room (recover_from_disk;
\* validate_persistence.ps1 looks for both).
OnDiskIsRestored ==
  phase = "up" => \A k \in DOMAIN expected :
    IF expected[k] # None /\ expected[k].op = "set"
      THEN IF map[k] = None THEN expected[k].ttl # None \/ k \in evicted
           ELSE map[k].value = expected[k].value
      ELSE map[k] = None

\* No client is served an entry past the deadline its set gave it: what the
\* README promises of time to live ("bounded staleness for cached items").
BoundedStaleness ==
  phase = "up" => \A k \in Keys :
    map[k] # None /\ due[k] # None => Expired(map[k]) \/ clock < due[k]
=============================================================================
