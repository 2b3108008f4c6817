------------------------------ MODULE DurableLog ------------------------------
(***************************************************************************)
(* What the append-only file promises: one log, to which lines are only    *)
(* ever appended and whose first part is on disk.  A line on disk stays    *)
(* where it is until the file is truncated on request.  A crash loses what *)
(* is not on disk; a stream that can no longer write loses its oldest      *)
(* lines first; an empty process starts where the file ends.               *)
(***************************************************************************)
EXTENDS Naturals, Sequences

CONSTANT Line

VARIABLES
  log,     \* the lines, those in memory after those on disk
  hard     \* how many of them are on disk

vars == <<log, hard>>

Record(line) ==
  /\ log' = Append(log, line)
  /\ UNCHANGED hard

Harden ==
  \E n \in hard + 1 .. Len(log) : hard' = n /\ UNCHANGED log

\* The stream fails with n lines in it.
Drop ==
  \E n \in hard + 1 .. Len(log) :
    /\ log' = SubSeq(log, 1, hard) \o SubSeq(log, n + 1, Len(log))
    /\ UNCHANGED hard

Truncate ==
  /\ log' = SubSeq(log, hard + 1, Len(log))
  /\ hard' = 0

Crash ==
  /\ log' = SubSeq(log, 1, hard)
  /\ UNCHANGED hard

Init == log = <<>> /\ hard = 0

Next ==
  \/ \E line \in Line : Record(line)
  \/ Harden \/ Drop \/ Truncate \/ Crash

Spec == Init /\ [][Next]_vars
=============================================================================
