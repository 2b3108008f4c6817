---------------------------- MODULE AppendOnlyFile ----------------------------
(***************************************************************************)
(* The append-only file of src/persistence.cpp over several lives of the   *)
(* process: clients enqueue lines, the worker thread aof_loop takes them   *)
(* off the queue and writes them to a file stream, the destructor asks it  *)
(* to drain and waits, and request_aof_rewrite has the file truncated.     *)
(*                                                                         *)
(* A line is the number of the record_set or record_del that made it.  The *)
(* stream hands bytes to the file when its buffer is full and when it is   *)
(* flushed, so a crash can leave the first part of a line behind, and what *)
(* the next life writes first is glued to it.  What is in the file is safe *)
(* from a crash of the process (a power cut, for want of an fsync, is not  *)
(* modelled).                                                              *)
(***************************************************************************)
EXTENDS Integers, FiniteSets, SequencesExt

CONSTANTS
  OpenMayFail,  \* the file cannot always be opened
  WriteMayFail, \* a write to the file may fail
  MaxLines,     \* bound: lines recorded
  MaxCrashes,   \* bound: crashes and failed writes
  MaxLives,     \* bound: lives of the process
  MaxRequests   \* bound: calls of request_aof_rewrite

ASSUME ConstantsOK ==
  /\ OpenMayFail \in BOOLEAN /\ WriteMayFail \in BOOLEAN
  /\ MaxLines \in Nat /\ MaxCrashes \in Nat /\ MaxLives \in Nat /\ MaxRequests \in Nat

VARIABLES
  queue,     \* queue_
  batch,     \* the worker's batch
  stream,    \* lines written to the ofstream and not yet whole in the file
  bad,       \* the ofstream's badbit
  file,      \* the ended lines of the file: [line, whole]
  tail,      \* the lines of which an unended part is at the end of the file
  stop,      \* stop_
  rewrite,   \* rewrite_requested_
  w,         \* where the worker is
  notified,  \* the worker, asleep, has been notified
  \* auxiliary: lines recorded, those of them lost to a crash, a failed write
  \* or a truncation, lives begun, crashes and failed writes, requests
  recorded, lost, lives, incidents, requests

memory  == <<queue, batch, stream, bad>>
disk    == <<file, tail>>
history == <<recorded, lost, lives, incidents, requests>>
vars    == <<memory, disk, stop, rewrite, w, notified, history>>

Goto(from, to) == w = from /\ w' = to

\* Mutex queue_mutex_ is held across steps only between the look at the queue
\* and falling asleep.
Unlocked == w # "block"

Notify == notified' = (notified \/ w = "asleep")

-----------------------------------------------------------------------------
(* Clients *)

\* record_set, record_del: enqueue_line and its notify_one.
Record ==
  /\ ~stop /\ w # "down"
  /\ Unlocked
  /\ recorded < MaxLines
  /\ recorded' = recorded + 1
  /\ queue' = Append(queue, recorded + 1)
  /\ Notify
  /\ UNCHANGED <<batch, stream, bad, disk, stop, rewrite, w,
                 lost, lives, incidents, requests>>

RequestRewrite ==
  /\ ~stop /\ w # "down"
  /\ requests < MaxRequests
  /\ requests' = requests + 1
  /\ rewrite' = TRUE
  /\ UNCHANGED <<memory, disk, stop, w, notified, recorded, lost, lives, incidents>>

\* ~Impl: the flag is set and the worker notified without the mutex.
Stop ==
  /\ ~stop /\ w # "down"
  /\ stop' = TRUE
  /\ Notify
  /\ UNCHANGED <<memory, disk, rewrite, w, history>>

-----------------------------------------------------------------------------
(* The worker, aof_loop *)

\* Mutant: from the wrong end of the queue.
TakeNewestFirst == batch' = batch \o Reverse(queue) /\ queue' = <<>>

TakeAll == batch' = batch \o queue /\ queue' = <<>>

\* Mutant: opened without std::ios::app.
OpenTruncating ==
  /\ Goto("open", "test")
  /\ file' = <<>> /\ tail' = <<>>
  /\ UNCHANGED <<memory, stop, rewrite, notified, history>>

Open ==
  /\ \/ Goto("open", "test")
     \/ OpenMayFail /\ Goto("open", "gone")
  /\ UNCHANGED <<memory, disk, stop, rewrite, notified, history>>

\* Mutant: the worker leaves as soon as it sees the flag.
LoopTestNoDrain ==
  /\ Goto("test", IF stop THEN "drained" ELSE "look")
  /\ UNCHANGED <<memory, disk, stop, rewrite, notified, history>>

LoopTest ==
  /\ Goto("test", IF stop THEN "drain" ELSE "look")
  /\ UNCHANGED <<memory, disk, stop, rewrite, notified, history>>

\* wait_for under the mutex.  The predicate compares the queue with the batch
\* size and with empty: the second is the weaker.
Look ==
  /\ \/ /\ stop \/ queue # <<>>
        /\ Goto("look", "write")
        /\ TakeAll
     \/ /\ ~stop /\ queue = <<>>
        /\ Goto("look", "block")
        /\ UNCHANGED <<batch, queue>>
  /\ UNCHANGED <<stream, bad, disk, stop, rewrite, notified, history>>

\* The mutex is given back.  A notification sent before this is lost.
Block ==
  /\ Goto("block", "asleep")
  /\ UNCHANGED <<memory, disk, stop, rewrite, notified, history>>

Wake ==
  /\ Goto("asleep", "look")
  /\ notified
  /\ notified' = FALSE
  /\ UNCHANGED <<memory, disk, stop, rewrite, history>>

\* Mutant: a wait without a time limit.
TimedOutNever == FALSE /\ UNCHANGED vars

\* aof_flush_interval is over: what there is, if anything, is taken.
TimedOut ==
  /\ Goto("asleep", "write")
  /\ TakeAll
  /\ notified' = FALSE
  /\ UNCHANGED <<stream, bad, disk, stop, rewrite, history>>

\* out << line << '\n'
WriteLine ==
  /\ w \in {"write", "final"} /\ batch # <<>>
  /\ batch' = Tail(batch)
  /\ IF bad THEN lost' = lost \cup {Head(batch)} /\ UNCHANGED stream
     ELSE stream' = Append(stream, Head(batch)) /\ UNCHANGED lost
  /\ UNCHANGED <<queue, bad, disk, stop, rewrite, w, notified,
                 recorded, lives, incidents, requests>>

\* Mutant: no '\n' after a line.
LandUnended ==
  LET line == Head(stream) IN
  /\ w \in {"write", "final"} /\ stream # <<>>
  /\ stream' = Tail(stream)
  /\ file' = Append(file, [line |-> line, whole |-> tail \in {<<>>, <<line>>}])
  /\ tail' = <<line>>
  /\ UNCHANGED <<queue, batch, bad, stop, rewrite, w, notified, history>>

\* The end of a line reaches the file: in a full buffer, or by out.flush().
\* It is whole unless the file ended in a part of some other line.
Land ==
  LET line == Head(stream) IN
  /\ w \in {"write", "final"} /\ stream # <<>>
  /\ stream' = Tail(stream)
  /\ file' = Append(file, [line |-> line, whole |-> tail \in {<<>>, <<line>>}])
  /\ tail' = <<>>
  /\ UNCHANGED <<queue, batch, bad, stop, rewrite, w, notified, history>>

\* Only a first part of a line reaches the file.
Tear ==
  /\ w \in {"write", "final"} /\ stream # <<>>
  /\ Head(stream) \notin ToSet(tail)
  /\ tail' = Append(tail, Head(stream))
  /\ UNCHANGED <<memory, file, stop, rewrite, w, notified, history>>

\* A full disk, say.  The stream refuses every later line, which no one sees.
WriteFails ==
  /\ WriteMayFail /\ incidents < MaxCrashes
  /\ w \in {"write", "final"} /\ stream # <<>>
  /\ stream' = <<>> /\ bad' = TRUE
  /\ lost' = lost \cup ToSet(stream)
  /\ incidents' = incidents + 1
  /\ UNCHANGED <<queue, batch, disk, stop, rewrite, w, notified,
                 recorded, lives, requests>>

\* Mutant: no out.flush().
FlushOmitted ==
  /\ \/ Goto("write", "rewrite")
     \/ Goto("final", "drained")
  /\ batch = <<>>
  /\ UNCHANGED <<memory, disk, stop, rewrite, notified, history>>

Flushed ==
  /\ \/ Goto("write", "rewrite")
     \/ Goto("final", "drained")
  /\ batch = <<>> /\ stream = <<>>
  /\ UNCHANGED <<memory, disk, stop, rewrite, notified, history>>

NoRewrite ==
  /\ Goto("rewrite", "test")
  /\ ~rewrite
  /\ UNCHANGED <<memory, disk, stop, rewrite, notified, history>>

\* The request is taken, the file closed and emptied.
Truncate ==
  /\ Goto("rewrite", "reopen")
  /\ rewrite
  /\ rewrite' = FALSE
  /\ \/ /\ file' = <<>> /\ tail' = <<>>
        /\ lost' = lost \cup {file[i].line : i \in DOMAIN file}
     \/ OpenMayFail /\ UNCHANGED <<disk, lost>>
  /\ UNCHANGED <<memory, stop, notified, recorded, lives, incidents, requests>>

Reopen ==
  /\ \/ Goto("reopen", "test") /\ bad' = FALSE
     \/ OpenMayFail /\ Goto("reopen", "gone") /\ UNCHANGED bad
  /\ UNCHANGED <<queue, batch, stream, disk, stop, rewrite, notified, history>>

Drain ==
  /\ Goto("drain", "final")
  /\ TakeAll
  /\ UNCHANGED <<stream, bad, disk, stop, rewrite, notified, history>>

-----------------------------------------------------------------------------
(* Lives of the process *)

InMemory == stream \o batch \o queue

\* What is in memory goes, and with it the process.
Die ==
  /\ w' = "down"
  /\ queue' = <<>> /\ batch' = <<>> /\ stream' = <<>> /\ bad' = FALSE
  /\ stop' = FALSE /\ rewrite' = FALSE /\ notified' = FALSE
  /\ lost' = lost \cup ToSet(InMemory)
  /\ UNCHANGED <<disk, recorded, lives, requests>>

Crash ==
  /\ w # "down" /\ incidents < MaxCrashes
  /\ incidents' = incidents + 1
  /\ Die

\* The destructor has joined the worker.
Exit ==
  /\ stop /\ w \in {"drained", "gone"}
  /\ UNCHANGED incidents
  /\ Die

Start ==
  /\ Goto("down", "open")
  /\ lives < MaxLives
  /\ lives' = lives + 1
  /\ UNCHANGED <<memory, disk, stop, rewrite, notified,
                 recorded, lost, incidents, requests>>

-----------------------------------------------------------------------------
Init ==
  /\ queue = <<>> /\ batch = <<>> /\ stream = <<>> /\ bad = FALSE
  /\ file = <<>> /\ tail = <<>>
  /\ stop = FALSE /\ rewrite = FALSE /\ notified = FALSE
  /\ w = "down"
  /\ recorded = 0 /\ lost = {} /\ lives = 0 /\ incidents = 0 /\ requests = 0

Worker ==
  \/ Open \/ LoopTest \/ Look \/ Block \/ Wake \/ TimedOut
  \/ WriteLine \/ Land \/ Tear \/ Flushed
  \/ NoRewrite \/ Truncate \/ Reopen \/ Drain

Next ==
  \/ Record \/ RequestRewrite \/ Stop
  \/ Worker \/ WriteFails
  \/ Crash \/ Exit \/ Start

Spec == Init /\ [][Next]_vars

\* The worker is scheduled, and its wait ends when the interval is over.
FairSpec == Spec /\ WF_vars(Worker)

-----------------------------------------------------------------------------
(* Properties *)

\* Every variable has its type, and the worker's own data its place.
TypeOK ==
  /\ queue \in Seq(Nat) /\ batch \in Seq(Nat) /\ stream \in Seq(Nat)
  /\ bad \in BOOLEAN /\ stop \in BOOLEAN /\ rewrite \in BOOLEAN
  /\ notified \in BOOLEAN /\ (notified => w = "asleep")
  /\ file \in Seq([line : Nat, whole : BOOLEAN]) /\ tail \in Seq(Nat)
  /\ w \in {"down", "open", "test", "look", "block", "asleep", "write",
             "rewrite", "reopen", "drain", "final", "drained", "gone"}
  /\ recorded \in Nat /\ lost \subseteq 1 .. recorded
  /\ lives \in Nat /\ incidents \in Nat /\ requests \in Nat
  /\ batch # <<>> \/ stream # <<>> => w \in {"write", "final"}

Lines == [i \in DOMAIN file |-> file[i].line]
Log   == Lines \o InMemory

\* Every line recorded is in the log unless a crash, a failed write, a worker
\* without a file or a truncation lost it (enqueue_line, aof_loop).
LogIsComplete == ToSet(Log) = (1 .. recorded) \ lost

\* A crash or a failed write costs, of what is in the file, one line at most.
DamageIsBounded ==
  Cardinality({i \in DOMAIN file : ~file[i].whole}) <= incidents

\* When the worker has returned from its loop everything recorded is on disk,
\* unless its stream failed (the drain after the loop of aof_loop, ~Impl).
ShutdownDrains == w = "drained" => InMemory = <<>>

\* A recorded line does not stay in memory: it reaches the file unless the
\* worker has no file (notify_one, the time limit of wait_for, out.flush).
RecordedIsWritten ==
  \A n \in 1 .. MaxLines :
    n \in ToSet(InMemory) ~> (n \notin ToSet(InMemory) \/ w = "gone")

\* The destructor's join ends, though its notification may come too early to
\* be heard (~Impl, aof_loop).
DestructorReturns == stop ~> (~stop \/ w \in {"drained", "gone"})

Promise == INSTANCE DurableLog WITH Line <- 1 .. MaxLines, log <- Log, hard <- Len(file)

\* The queue, the batch, the stream and the file are one log.
ImplementsDurableLog == Promise!Spec

\* Part of a line that no later write will end.
Stub == IF stream = <<>> THEN tail ELSE SelectSeq(tail, LAMBDA n : n # Head(stream))
Read == [i \in DOMAIN file |-> IF file[i].whole THEN file[i].line ELSE 0]
           \o (IF Stub = <<>> THEN <<>> ELSE <<0>>)

Reader == INSTANCE TornLog WITH
  Line <- 1 .. MaxLines, Skipped <- 0,
  log <- Read \o InMemory, hard <- Len(Read), cut <- Stub # <<>>

\* A line that reaches the file is read as it was recorded, unless the file
\* ended in the middle of another; then the two are one line, which alone is
\* damaged (aof_loop, std::ios::app).
ImplementsTornLog == Reader!Spec
=============================================================================
